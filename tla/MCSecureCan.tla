----------------------------- MODULE MCSecureCan -----------------------------
(***************************************************************************)
(* The two nodes on small instances, with an ideal cipher: every slice of  *)
(* an AES output is a symbol of its own, which only the same XOR cancels.  *)
(***************************************************************************)
EXTENDS SecureCan

CONSTANTS p, m, zero     \* the stations, the zeroed payload

MCKeyData(nonce) == {<<"data", nonce>>}
MCKeyMask(nonce) == {<<"mask", nonce>>}
MCMac(nonce, word) == {<<"mac", nonce, word>>}

\* Released and fully pressed.
MCSample == {0, 4095}
MCOneSample == {4095}

MCPayload ==
    {zero, RequestPacket.payload} \cup
        {SamplePacket(i, v).payload : i \in 0..(MsgMod - 1), v \in Sample}
MCAddress ==
    [n \in Node |-> IF n = Motor THEN {RequestPacket.ext_id}
                    ELSE {ExtId(PedalName(i)) : i \in 0..(MsgMod - 1)}]
MCReader == Node

\* The instances meet what the proofs ask of the numbers and the cipher.
ASSUME MCAssumption == NumberFits /\ RolledOverRejected(MaxSend - 1)

=============================================================================
