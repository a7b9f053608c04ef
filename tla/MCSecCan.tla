------------------------------ MODULE MCSecCan ------------------------------
(***************************************************************************)
(* The codec at the code's own widths.  The cipher is ideal: every slice   *)
(* of an AES output is a symbol of its own.                                *)
(***************************************************************************)
EXTENDS PacketLink

MCKeyData(nonce) == {<<"data", nonce>>}
MCKeyMask(nonce) == {<<"mask", nonce>>}
MCMac(nonce, data) == {<<"mac", nonce, data>>}

\* Counters and base ids on both sides of every field boundary.
Counters == {0, 1, 1110, CtrMod - 1, CtrMod, CtrMod + 1, NonceMod - 1, NonceMod,
             NonceMod + CtrMod}
Bases == {0, 512, 733, 2047, 2048, 65535, 65536}
MCSent == [msgnum : Counters, baseid : Bases]

MCWords == {{}, {<<"bit", 0>>}, {<<"bit", 0>>, <<"bit", 31>>}}
MCFlip == {<<"bit", 0>>}

\* The instance meets what the proof asks of the cipher.
ASSUME MCAssumption == IdealCipher

=============================================================================
