--------------------------------- MODULE Hex ---------------------------------
(***************************************************************************)
(* The text form of bytes in SimpleSerial lines: hex_decode of             *)
(* simpleserial.c and the nibbles that simpleserial_put writes.            *)
(* Characters are their ASCII codes.                                       *)
(***************************************************************************)
EXTENDS Integers, Sequences

\* hex_lookup: '0'..'9', 'A'..'F'.
hex_lookup == [n \in 0..15 |-> IF n < 10 THEN 48 + n ELSE 55 + n]

\* One byte as simpleserial_put writes it.
PutByte(b) == <<hex_lookup[b \div 16], hex_lookup[b % 16]>>

\* Variant: only what simpleserial_put itself writes is accepted.
HexDigit_Upper == 48..57 \cup 65..70

HexDigit == 48..57 \cup 65..70 \cup 97..102

\* Variant: the offset of the letters is forgotten for lower case.
Nibble_Offset(c) ==
    CASE c \in 48..57  -> c - 48
      [] c \in 65..70  -> c - 65 + 10
      [] c \in 97..102 -> c - 97

Nibble(c) ==
    CASE c \in 48..57  -> c - 48
      [] c \in 65..70  -> c - 65 + 10
      [] c \in 97..102 -> c - 97 + 10

\* ok is the function's result 0; data is meaningful only then.
hex_decode(len, ascii_buf) ==
    LET legal == \A i \in 1..(2 * len) : ascii_buf[i] \in HexDigit
    IN  [ok |-> legal,
         data |-> IF legal
                  THEN [i \in 1..len |-> 16 * Nibble(ascii_buf[2 * i - 1])
                                            + Nibble(ascii_buf[2 * i])]
                  ELSE <<>>]

=============================================================================
