------------------------------- MODULE SecCan -------------------------------
(***************************************************************************)
(* The secure-CAN packet codec of secure-can/seccan.c: how a message       *)
(* (msgnum, baseid, data) becomes a CAN identifier and an 8-byte payload,  *)
(* and how a receiver takes it apart and authenticates it.                 *)
(*                                                                         *)
(* A word (the 4 data bytes, the 4 tag bytes, a slice of an AES output) is *)
(* the set of the bits that are one in it, so that XOR is the symmetric    *)
(* difference.  AES under the two keys is three constant operators, one    *)
(* per slice of its output the code reads; nothing is assumed of them      *)
(* here.  XOR with the fixed IV is a bijection of the authentication block *)
(* and is part of Mac.                                                     *)
(***************************************************************************)
EXTENDS Integers

CONSTANTS
    CtrMod,      \* values of the counter field of an identifier (2^18 in the code)
    NonceMod,    \* values of msgnum that nonces tell apart (2^24 in the code)
    KeyData(_),  \* bytes 8..11 of AES(Kenc, nonce)
    KeyMask(_),  \* bytes 12..15 of AES(Kenc, nonce)
    Mac(_, _)    \* bytes 0..3 of AES(Kauth, (nonce || 0 || data) XOR IV)

\* The counter field is a prefix of the nonce's counter: the code has 2^18
\* and 2^24; a smaller CtrMod only makes the field roll over sooner.
ASSUME SecCanAssumption ==
    /\ CtrMod \in Nat \ {0}
    /\ NonceMod \in Nat \ {0}
    /\ CtrMod <= NonceMod

BaseMod == 2048          \* 11 bits of base identifier, & 0x7FF
NonceBaseMod == 65536    \* 16 bits of baseid in a nonce

Xor(a, b) == (a \ b) \cup (b \ a)

\* can_input without its data: what names a message
Name == [msgnum : Nat, baseid : Nat]

Nonce(name) == <<name.msgnum % NonceMod, name.baseid % NonceBaseMod>>

\* Variant: the base id is not cut to 11 bits.
ExtId_WideBase(name) == name.baseid + BaseMod * (name.msgnum % CtrMod)

\* out->ext_id = (baseid & 0x7FF) | ((msgnum << 11) & 0x1FFFF800)
ExtId(name) == (name.baseid % BaseMod) + BaseMod * (name.msgnum % CtrMod)

\* Variant: the counter is shifted one bit short.
NameOf_Short(ext_id) == [msgnum |-> (ext_id \div 1024) % CtrMod,
                         baseid |-> ext_id % BaseMod]

\* the inverse the receiver applies to an identifier
NameOf(ext_id) == [msgnum |-> (ext_id \div BaseMod) % CtrMod,
                   baseid |-> ext_id % BaseMod]

\* Variant: the tag goes out without its mask.
Payload4_Bare(name, data) ==
    [data |-> Xor(KeyData(Nonce(name)), data), tag |-> Mac(Nonce(name), data)]

\* The payload: data bytes under the keystream, then the masked tag.
Payload4(name, data) ==
    [data |-> Xor(KeyData(Nonce(name)), data),
     tag  |-> Xor(KeyMask(Nonce(name)), Mac(Nonce(name), data))]

encrypt_can_packet(name, data) ==
    [ext_id |-> ExtId(name), payload |-> Payload4(name, data)]

\* What decrypt_can_packet leaves in out, and whether it returns 0.
decrypt_can_packet(packet) ==
    LET name == NameOf(packet.ext_id)
        nonce == Nonce(name)
        data == Xor(packet.payload.data, KeyData(nonce))
    IN  [name |-> name,
         data |-> data,
         ok   |-> Xor(Mac(nonce, data), KeyMask(nonce)) = packet.payload.tag]

=============================================================================
