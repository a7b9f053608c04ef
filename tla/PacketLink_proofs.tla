--------------------------- MODULE PacketLink_proofs ---------------------------
(***************************************************************************)
(* Exactly which packets decrypt_can_packet accepts, for every width of    *)
(* the fields, all messages and every cipher whose tags do not agree by    *)
(* accident: a receiver uses the sender's nonce if and only if the name    *)
(* fits the identifier and the identifier is the sender's.                 *)
(***************************************************************************)
EXTENDS PacketLink, SecCan_proofs

\* A number is its quotient's share and its remainder.
LEMMA Quotient ==
    ASSUME NEW x \in Nat, NEW m \in Nat \ {0}
    PROVE  \E q \in Nat, r \in 0..(m - 1) : x = q * m + r /\ x % m = r
<1>1. x = m * (x \div m) + (x % m) /\ x \div m \in Nat /\ x % m \in 0..(m - 1)
  BY Z3
<1> QED
  BY <1>1

\* The remainder is determined by the sum it is a part of.
LEMMA Remainder ==
    ASSUME NEW k \in Nat, NEW m \in Nat \ {0}, NEW r \in 0..(m - 1)
    PROVE  (k * m + r) % m = r
<1>1. k * m + r \in Nat /\ k * m \in Nat
  OBVIOUS
<1>2. PICK q \in Nat, s \in 0..(m - 1) :
         k * m + r = q * m + s /\ (k * m + r) % m = s
  BY <1>1, Quotient
<1>3. q * m \in Int /\ (k - q) * m = s - r
  BY <1>1, <1>2
<1>4. CASE k = q
  BY <1>2, <1>4
<1>5. CASE k > q
  <2>1. (k - q) * m >= m
    BY <1>5
  <2> QED
    BY <1>3, <2>1
<1>6. CASE k < q
  <2>1. (q - k) * m >= m
    BY <1>6
  <2>2. (q - k) * m = r - s
    BY <1>3
  <2> QED
    BY <2>1, <2>2
<1> QED
  BY <1>4, <1>5, <1>6

\* A shorter field shows the lower bits of a longer one.
LEMMA RemainderOfRemainder ==
    ASSUME NEW x \in Nat, NEW m \in Nat \ {0}, NEW k \in Nat \ {0}
    PROVE  (x % (k * m)) % m = x % m
<1>1. k * m \in Nat \ {0}
  OBVIOUS
<1>2. PICK q \in Nat, y \in Nat : x = q * (k * m) + y /\ x % (k * m) = y
  <2>1. \A w \in Nat \ {0} : \E q \in Nat, y \in 0..(w - 1) : x = q * w + y /\ x % w = y
    BY Quotient
  <2> QED
    BY <1>1, <2>1
<1>3. PICK p \in Nat, r \in 0..(m - 1) : y = p * m + r /\ y % m = r
  BY Quotient
<1>4. PICK t \in Nat : t = q * k + p
  OBVIOUS
<1>5. x = t * m + r
  BY <1>2, <1>3, <1>4
<1> QED
  BY <1>2, <1>3, <1>5, Remainder

\* The fields of a name and of its nonce, as numbers.
LEMMA NonceFields ==
    ASSUME NEW m \in Name
    PROVE  /\ Nonce(m) = <<m.msgnum % NonceMod, m.baseid % NonceBaseMod>>
           /\ Nonce(Cut(m)) = <<m.msgnum % CtrMod, m.baseid % BaseMod>>
           /\ m.msgnum % CtrMod \in 0..(CtrMod - 1)
           /\ m.baseid % BaseMod \in 0..(BaseMod - 1)
           /\ m.msgnum % NonceMod \in Nat /\ m.baseid % NonceBaseMod \in Nat
           /\ (m.msgnum % NonceMod) % CtrMod = m.msgnum % CtrMod
           /\ (m.baseid % NonceBaseMod) % BaseMod = m.baseid % BaseMod
<1>1. /\ m.msgnum \in Nat /\ m.baseid \in Nat
      /\ CtrMod \in Nat \ {0} /\ NonceMod \in Nat \ {0} /\ CtrMod <= NonceMod
      /\ BaseMod \in Nat \ {0} /\ NonceBaseMod \in Nat \ {0}
  BY SecCanAssumption DEF Name, BaseMod, NonceBaseMod
<1>2. /\ m.msgnum % CtrMod \in 0..(CtrMod - 1)
      /\ m.baseid % BaseMod \in 0..(BaseMod - 1)
      /\ m.msgnum % NonceMod \in Nat /\ m.baseid % NonceBaseMod \in Nat
  <2>1. m.msgnum % CtrMod \in 0..(CtrMod - 1)
    BY <1>1, ModBounds
  <2>2. m.baseid % BaseMod \in 0..(BaseMod - 1)
    BY <1>1, ModBounds
  <2>3. m.msgnum % NonceMod \in 0..(NonceMod - 1)
    BY <1>1, ModBounds
  <2>4. m.baseid % NonceBaseMod \in 0..(NonceBaseMod - 1)
    BY <1>1, ModBounds
  <2> QED
    BY <2>1, <2>2, <2>3, <2>4, <1>1
<1>3. (m.msgnum % NonceMod) % CtrMod = m.msgnum % CtrMod
  <2>1. PICK k \in Nat \ {0} : NonceMod = k * CtrMod
    BY <1>1, PacketLinkAssumption
  <2> QED
    BY <1>1, <2>1, RemainderOfRemainder
<1>4. (m.baseid % NonceBaseMod) % BaseMod = m.baseid % BaseMod
  BY <1>1 DEF NonceBaseMod, BaseMod
<1>5. Nonce(Cut(m)) = <<m.msgnum % CtrMod, m.baseid % BaseMod>>
  <2>1. PICK c \in Nat, b \in Nat : /\ c = m.msgnum % CtrMod /\ c < NonceMod
                                    /\ b = m.baseid % BaseMod /\ b < NonceBaseMod
    BY <1>1, <1>2 DEF BaseMod, NonceBaseMod
  <2>2. c % NonceMod = c /\ b % NonceBaseMod = b
    BY <1>1, <2>1, ModBounds
  <2> QED
    BY <2>1, <2>2 DEF Nonce, Cut
<1> QED
  BY <1>2, <1>3, <1>4, <1>5 DEF Nonce

\* A receiver uses the sender's nonce for a name that fits its fields.
LEMMA NonceKept ==
    ASSUME NEW m \in Name, Fits(m)
    PROVE  Nonce(Cut(m)) = Nonce(m)
<1>1. PICK c \in Nat, b \in Nat :
         /\ c = m.msgnum % NonceMod /\ b = m.baseid % NonceBaseMod
         /\ c % CtrMod = m.msgnum % CtrMod /\ b % BaseMod = m.baseid % BaseMod
  BY NonceFields
<1>2. c % CtrMod = c /\ b % BaseMod = b
  <2>1. c < CtrMod /\ b < BaseMod /\ CtrMod \in Nat \ {0} /\ BaseMod \in Nat \ {0}
    BY <1>1, SecCanAssumption DEF Fits, BaseMod
  <2> QED
    BY <2>1, ModBounds
<1> QED
  BY <1>1, <1>2, NonceFields

\* And it uses it for no other: if what an identifier shows has the nonce of
\* a name, the name fits and the identifier is the name's.
LEMMA NonceShown ==
    ASSUME NEW m \in Name, NEW other \in Name,
           Nonce(Cut(other)) = Nonce(m)
    PROVE  Fits(m) /\ ExtId(other) = ExtId(m)
<1>1. PICK c \in 0..(CtrMod - 1), b \in 0..(BaseMod - 1) :
         c = other.msgnum % CtrMod /\ b = other.baseid % BaseMod
  BY NonceFields
<1>2. m.msgnum % NonceMod = c /\ m.baseid % NonceBaseMod = b
  <2>1. <<c, b>> = <<m.msgnum % NonceMod, m.baseid % NonceBaseMod>>
    BY <1>1, NonceFields
  <2> QED
    BY <2>1
<1>3. c % CtrMod = c /\ b % BaseMod = b
  BY ModBounds, SecCanAssumption DEF BaseMod
<1>4. m.msgnum % CtrMod = c /\ m.baseid % BaseMod = b
  BY <1>2, <1>3, NonceFields
<1> QED
  BY <1>1, <1>2, <1>4, SecCanAssumption DEF Fits, ExtId, BaseMod

\* What decrypt_can_packet makes of a packet under some name's identifier.
LEMMA Decrypted ==
    ASSUME NEW other \in Name, NEW data, NEW tag
    PROVE  LET d == decrypt_can_packet(
                       [ext_id |-> ExtId(other), payload |-> [data |-> data, tag |-> tag]])
               nonce == Nonce(Cut(other))
           IN  /\ d.name = Cut(other)
               /\ d.data = Xor(data, KeyData(nonce))
               /\ d.ok <=> Xor(KeyMask(nonce), Mac(nonce, d.data)) = tag
<1>1. NameOf(ExtId(other)) = Cut(other)
  BY NameRecovered DEF Cut
<1> QED
  BY <1>1, XorCommutes, ZenonT(40) DEF decrypt_can_packet
-----------------------------------------------------------------------------
(* The packet on its way. *)

\* The packet is the message's, and what arrives is that packet under the
\* identifier of some message and with some damage.
Arrives(other, d) ==
    [ext_id |-> ExtId(other), payload |-> Damaged(packet.payload, d)]
LinkInv ==
    /\ name \in Sent /\ word \in Words
    /\ packet = encrypt_can_packet(name, word)
    /\ \/ received = None
       \/ \E other \in Sent, d \in Damage : received = Arrives(other, d)

LEMMA LinkInvariance == Spec => []LinkInv
<1>1. Init => LinkInv
  BY DEF Init, LinkInv
<1>2. LinkInv /\ [Next]_vars => LinkInv'
  <2> SUFFICES ASSUME LinkInv, [Next]_vars
               PROVE  LinkInv'
    OBVIOUS
  <2>1. CASE Next
    <3>1. PICK other \in Sent, d \in Damage : Carry(other, d)
      BY <2>1 DEF Next
    <3> QED
      BY <3>1 DEF Carry, LinkInv, Arrives
  <2>2. CASE UNCHANGED vars
    BY <2>2 DEF vars, LinkInv, Arrives
  <2> QED
    BY <2>1, <2>2
<1> QED
  BY <1>1, <1>2, PTL DEF Spec

\* Every identifier that arrives is one of 29 bits (encrypt_can_packet), for
\* messages of any number and base id.
THEOREM IdentifiersFit == Spec => []TypeOK
<1>1. LinkInv => TypeOK
  BY IdentifierInRange, PacketLinkAssumption DEF LinkInv, Arrives, TypeOK
<1> QED
  BY <1>1, LinkInvariance, PTL

\* A packet that has been carried is accepted exactly if it is the one sent and
\* its name fits: any other is decrypted under another nonce or shows damage,
\* so that it would take two equal tags.
LEMMA Acceptance ==
    ASSUME IdealCipher, LinkInv, received # None
    PROVE  AcceptedExactly
<1>1. PICK other \in Sent, e \in Damage : received = Arrives(other, e)
  BY DEF LinkInv
<1> DEFINE n == Nonce(Cut(other))
           sent == Tag(Nonce(name), word)
           data == Xor(Xor(Xor(KeyData(Nonce(name)), word), e.data), KeyData(n))
           d == decrypt_can_packet(received)
<1>2. /\ other \in Name /\ name \in Name /\ name \in Sent /\ word \in Words
      /\ Flip # {}
  BY PacketLinkAssumption DEF LinkInv
<1>3. /\ packet = [ext_id |-> ExtId(name),
                   payload |-> [data |-> Xor(KeyData(Nonce(name)), word), tag |-> sent]]
      /\ received = [ext_id |-> ExtId(other),
                     payload |-> [data |-> Xor(Xor(KeyData(Nonce(name)), word), e.data),
                                  tag |-> Xor(sent, e.tag)]]
  BY <1>1 DEF LinkInv, encrypt_can_packet, Payload4, Tag, Arrives, Damaged
<1>4. /\ d.name = Cut(other) /\ d.data = data
      /\ d.ok <=> Tag(n, data) = Xor(sent, e.tag)
  BY <1>2, <1>3, Decrypted DEF Tag
<1>5. Tag(n, data) = Xor(sent, e.tag) => n = Nonce(name) /\ e.data = {} /\ e.tag = {}
  BY <1>2 DEF IdealCipher
<1>6. \A x : Xor(x, {}) = x /\ Xor(x, Flip) # x
  BY <1>2 DEF Xor
<1> HIDE DEF d, sent
<1>7. ASSUME n = Nonce(name), e.data = {}, e.tag = {}
      PROVE  /\ data = word /\ received = packet /\ Fits(name)
             /\ Nonce(d.name) = Nonce(name)
  <2>1. data = word
    BY <1>6, <1>7, XorCancels
  <2>2. Fits(name) /\ ExtId(other) = ExtId(name)
    BY <1>2, <1>7, NonceShown
  <2> QED
    BY <1>3, <1>4, <1>6, <1>7, <2>1, <2>2
<1>8. ASSUME received = packet, Fits(name)
      PROVE  d.ok
  <2>1. d = decrypt_can_packet(packet) /\ Nonce(Cut(name)) = Nonce(name)
    BY <1>2, <1>8, NonceKept DEF d
  <2>2. d.data = Xor(Xor(KeyData(Nonce(name)), word), KeyData(Nonce(name)))
    BY <1>2, <1>3, <2>1, Decrypted
  <2>3. d.data = word
    BY <2>2, XorCancels
  <2>4. d.ok <=> Tag(Nonce(name), d.data) = sent
    BY <1>2, <1>3, <2>1, Decrypted DEF Tag
  <2> QED
    BY <2>3, <2>4 DEF sent
<1>9. d.ok <=> received = packet /\ Fits(name)
  BY <1>4, <1>5, <1>7, <1>8
<1>10. d.ok => d.data = word /\ Nonce(d.name) = Nonce(name)
  BY <1>4, <1>5, <1>7
<1> QED
  BY <1>9, <1>10 DEF AcceptedExactly, d

\* For all field widths and messages, a packet is accepted exactly if it arrives
\* undamaged and its name fits the identifier, and then says what was sent
\* (decrypt_can_packet), provided that no two of the tags agree by accident.
THEOREM OnlyTheSentPacket == IdealCipher /\ Spec => []AcceptedExactly
<1>1. IdealCipher /\ LinkInv => AcceptedExactly
  BY Acceptance DEF AcceptedExactly
<1>2. CASE IdealCipher
  BY <1>1, <1>2, LinkInvariance, PTL
<1>3. CASE ~IdealCipher
  BY <1>3
<1> QED
  BY <1>2, <1>3

=============================================================================
