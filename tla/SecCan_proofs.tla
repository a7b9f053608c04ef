---------------------------- MODULE SecCan_proofs ----------------------------
(***************************************************************************)
(* What the codec of seccan.c does for every counter width, every cipher   *)
(* and every message: the receiver's arithmetic inverts the sender's, and  *)
(* a message whose counter fits its field comes back whole and accepted.   *)
(***************************************************************************)
EXTENDS SecCan, TLAPS

\* XOR-ing the same word twice, on either side, gives the other one back:
\* the data and the tag survive the keystream.
LEMMA XorCancels ==
    ASSUME NEW a, NEW b
    PROVE  /\ Xor(Xor(a, b), a) = b
           /\ Xor(a, Xor(a, b)) = b
  BY DEF Xor

\* XOR does not depend on the order of its operands: encrypt XORs into the
\* keystream, decrypt XORs the keystream into the payload.
LEMMA XorCommutes ==
    ASSUME NEW a, NEW b
    PROVE  Xor(a, b) = Xor(b, a)
  BY DEF Xor

\* The remainder is in range, and is the number itself when that is in range.
LEMMA ModBounds ==
    ASSUME NEW a \in Nat, NEW m \in Nat \ {0}
    PROVE  /\ a % m \in 0..(m - 1)
           /\ a < m => a % m = a
  BY SMT

\* The two fields of an identifier do not overlap: shift and mask take them
\* apart again.
LEMMA FieldsApart ==
    ASSUME NEW c \in Nat, NEW b \in 0..(BaseMod - 1)
    PROVE  /\ (b + BaseMod * c) \div BaseMod = c
           /\ (b + BaseMod * c) % BaseMod = b
  BY SMT DEF BaseMod

\* The name a receiver reads from an identifier is the sender's with the
\* base id cut to 11 bits and the counter cut to its field.
THEOREM NameRecovered ==
    ASSUME NEW name \in Name
    PROVE  NameOf(ExtId(name)) = [msgnum |-> name.msgnum % CtrMod,
                                  baseid |-> name.baseid % BaseMod]
<1> DEFINE b == name.baseid % BaseMod
           c == name.msgnum % CtrMod
<1>1. name.msgnum \in Nat /\ name.baseid \in Nat
  BY DEF Name
<1>2. b \in 0..(BaseMod - 1) /\ c \in 0..(CtrMod - 1) /\ CtrMod \in Nat \ {0}
  <2>1. CtrMod \in Nat \ {0} /\ BaseMod \in Nat \ {0}
    BY SecCanAssumption DEF BaseMod
  <2>2. b \in 0..(BaseMod - 1)
    BY <1>1, <2>1, ModBounds
  <2>3. c \in 0..(CtrMod - 1)
    BY <1>1, <2>1, ModBounds
  <2> QED
    BY <2>1, <2>2, <2>3
<1>3. c \in Nat /\ c % CtrMod = c
  <2> HIDE DEF b, c
  <2>1. c \in Nat /\ c < CtrMod
    BY <1>2
  <2> QED
    BY <2>1, <1>2, ModBounds
<1>4. ExtId(name) = b + BaseMod * c
  BY DEF ExtId
<1> HIDE DEF b, c
<1>5. ExtId(name) \div BaseMod = c /\ ExtId(name) % BaseMod = b
  BY <1>2, <1>3, <1>4, FieldsApart
<1> QED
  BY <1>3, <1>5 DEF NameOf, b, c

\* The identifier encrypt_can_packet makes fits the 11 bits of the base id and
\* the counter's field, whatever msgnum and baseid are: 29 bits in the code.
LEMMA IdentifierInRange ==
    ASSUME NEW name \in Name
    PROVE  ExtId(name) \in 0..(BaseMod * CtrMod - 1)
<1>1. name.msgnum \in Nat /\ name.baseid \in Nat /\ CtrMod \in Nat \ {0}
  BY SecCanAssumption DEF Name
<1>2. PICK b \in 0..(BaseMod - 1) : b = name.baseid % BaseMod
  <2>1. BaseMod \in Nat \ {0}
    BY DEF BaseMod
  <2> QED
    BY <1>1, <2>1, ModBounds
<1>3. PICK c \in 0..(CtrMod - 1) : c = name.msgnum % CtrMod
  BY <1>1, ModBounds
<1>4. ExtId(name) = b + BaseMod * c
  BY <1>2, <1>3 DEF ExtId
<1>5. BaseMod * c <= BaseMod * (CtrMod - 1) /\ BaseMod * c \in Nat
  BY <1>1, <1>3 DEF BaseMod
<1> QED
  BY <1>1, <1>2, <1>4, <1>5 DEF BaseMod

\* A message whose counter has not left its field and whose base id is a
\* standard one is accepted, and its counter, base id and data are the ones
\* that were encrypted, whatever the cipher does.
THEOREM RoundTrip ==
    ASSUME NEW name \in Name, NEW data,
           name.msgnum < CtrMod, name.baseid < BaseMod
    PROVE  decrypt_can_packet(encrypt_can_packet(name, data))
             = [name |-> name, data |-> data, ok |-> TRUE]
<1> DEFINE packet == encrypt_can_packet(name, data)
           nonce == Nonce(name)
<1>1. name.msgnum \in Nat /\ name.baseid \in Nat
      /\ name = [msgnum |-> name.msgnum, baseid |-> name.baseid]
  BY DEF Name
<1>2. name.msgnum % CtrMod = name.msgnum /\ name.baseid % BaseMod = name.baseid
  BY <1>1, ModBounds, SecCanAssumption DEF BaseMod
<1>3. NameOf(packet.ext_id) = name
  BY <1>1, <1>2, NameRecovered DEF encrypt_can_packet
<1>4. /\ packet.payload.data = Xor(KeyData(nonce), data)
      /\ packet.payload.tag = Xor(KeyMask(nonce), Mac(nonce, data))
  BY DEF encrypt_can_packet, Payload4
<1> HIDE DEF packet, nonce
<1>5. Xor(packet.payload.data, KeyData(nonce)) = data
  BY <1>4, XorCancels
<1>6. Xor(Mac(nonce, data), KeyMask(nonce)) = packet.payload.tag
  BY <1>4, XorCommutes
<1>7. decrypt_can_packet(packet) = [name |-> name, data |-> data, ok |-> TRUE]
  BY <1>3, <1>5, <1>6 DEF decrypt_can_packet, nonce
<1> QED
  BY <1>7 DEF packet

\* Once the counter, as far as the nonce sees it, has outgrown the identifier's
\* field, the receiver computes its keystream and its tag from another nonce
\* than the sender did, for every later message up to the nonce's own rollover.
THEOREM NonceDiverges ==
    ASSUME NEW name \in Name, name.msgnum % NonceMod >= CtrMod
    PROVE  Nonce(NameOf(ExtId(name))) # Nonce(name)
<1> DEFINE c == name.msgnum % CtrMod
           k == name.msgnum % NonceMod
<1>1. name.msgnum \in Nat /\ CtrMod \in Nat \ {0} /\ NonceMod \in Nat \ {0}
      /\ CtrMod <= NonceMod
  BY SecCanAssumption DEF Name
<1>2. c \in 0..(CtrMod - 1) /\ k \in 0..(NonceMod - 1)
  BY <1>1, ModBounds
<1>3. Nonce(NameOf(ExtId(name)))[1] = c % NonceMod
  BY NameRecovered DEF Nonce
<1>4. Nonce(name)[1] = k
  BY DEF Nonce
<1>5. k >= CtrMod
  OBVIOUS
<1> HIDE DEF c, k
<1>6. c % NonceMod = c
  <2>1. c \in Nat /\ c < NonceMod
    BY <1>1, <1>2
  <2> QED
    BY <1>1, <2>1, ModBounds
<1>7. c # k
  BY <1>1, <1>2, <1>5
<1> QED
  BY <1>3, <1>4, <1>6, <1>7

=============================================================================
