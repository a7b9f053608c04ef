------------------------------ MODULE PacketLink ------------------------------
(***************************************************************************)
(* One packet of the codec on its way: a message is encrypted, the bus     *)
(* carries its packet whole or damaged, and it is decrypted.               *)
(***************************************************************************)
EXTENDS SecCan

CONSTANTS
    Sent,    \* the names of messages
    Words,   \* their data
    Flip     \* the bits that damage inverts

\* The nonce's counter is a whole number of rounds of the identifier's field:
\* 24 and 18 bits.
ASSUME PacketLinkAssumption ==
    /\ Sent \subseteq Name
    /\ Flip # {}
    /\ \E k \in 1..NonceMod : NonceMod = k * CtrMod

VARIABLES
    name, word,  \* the message
    packet,      \* as its sender encrypted it
    received     \* as it arrives, or None before that

vars == <<name, word, packet, received>>

None == [ext_id |-> -1]

Damaged(payload, d) ==
    [data |-> Xor(payload.data, d.data), tag |-> Xor(payload.tag, d.tag)]
Damage == [data : {{}, Flip}, tag : {{}, Flip}]

Init ==
    /\ name \in Sent
    /\ word \in Words
    /\ packet = encrypt_can_packet(name, word)
    /\ received = None

\* The packet arrives: under its own identifier or that of another message,
\* with its data, its tag, both or neither damaged.
Carry(other, d) ==
    /\ received = None
    /\ received' = [ext_id |-> ExtId(other), payload |-> Damaged(packet.payload, d)]
    /\ UNCHANGED <<name, word, packet>>

Next == \E other \in Sent, d \in Damage : Carry(other, d)

Spec == Init /\ [][Next]_vars

-----------------------------------------------------------------------------
(* Properties *)

\* An identifier is one of 29 bits, whatever the message's number.
TypeOK == received = None \/ received.ext_id \in 0..(BaseMod * CtrMod - 1)

\* The name fits the identifier: a counter of 18 bits (modulo the 24 the
\* nonce sees) and a base id of 11 (modulo 16).
Fits(n) == n.msgnum % NonceMod < CtrMod /\ n.baseid % NonceBaseMod < BaseMod

\* A packet is accepted exactly if it arrived undamaged and its name fits the
\* identifier; and then it says what was sent.
AcceptedExactly ==
    received # None =>
        LET d == decrypt_can_packet(received)
        IN  /\ d.ok <=> received = packet /\ Fits(name)
            /\ d.ok => /\ d.data = word
                       /\ Nonce(d.name) = Nonce(name)

\* The tag as it is sent: masked.
Tag(nonce, data) == Xor(KeyMask(nonce), Mac(nonce, data))

\* What is left of a name that is cut to the identifier's fields.
Cut(n) == [msgnum |-> n.msgnum % CtrMod, baseid |-> n.baseid % BaseMod]

\* No two tags agree by accident: the tag a receiver computes for a packet
\* that arrives is the one it finds there only if it uses the sender's nonce
\* and nothing is damaged.
IdealCipher ==
    \A a, b \in Sent, w \in Words, d \in Damage :
        LET nonce == Nonce(Cut(b))
            data == Xor(Xor(Xor(KeyData(Nonce(a)), w), d.data), KeyData(nonce))
        IN  Tag(nonce, data) = Xor(Tag(Nonce(a), w), d.tag)
                => nonce = Nonce(a) /\ d.data = {} /\ d.tag = {}

=============================================================================
