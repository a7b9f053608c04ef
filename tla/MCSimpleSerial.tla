--------------------------- MODULE MCSimpleSerial ---------------------------
(***************************************************************************)
(* simpleserial-aes with blocks of one byte, and hosts that send sound     *)
(* lines, lines too short, too long or not hexadecimal, and empty ones.    *)
(***************************************************************************)
EXTENDS SimpleSerial

\* The registrations of simpleserial-aes.c: v by simpleserial_init, k, p, x.
AesCommands ==
    <<[c |-> 118, len |-> 0, fp |-> "check_version"],
      [c |-> 107, len |-> 1, fp |-> "get_key"],
      [c |-> 112, len |-> 1, fp |-> "get_pt"],
      [c |-> 120, len |-> 0, fp |-> "reset"]>>

MCDefaultKey == <<43>>

SoundLines == {<<107, 48, 49, LF>>, <<112, 48, 97, LF>>, <<112, 70, 48, CR>>,
               <<118, LF>>, <<120, CR>>}
UnsoundLines == {<<LF>>, <<112, 48, LF>>, <<112, 48, 49, 50, LF>>,
                 <<112, 120, LF>>, <<107, 48, 63, LF>>, <<63, 107, 49, 49, LF>>,
                 <<112, 112, 48, LF>>}

\* Every hexadecimal digit in both places, and the characters next to the
\* three ranges of digits in either.
Digits == <<48, 49, 50, 51, 52, 53, 54, 55, 56, 57, 65, 66, 67, 68, 69, 70,
            97, 98, 99, 100, 101, 102>>
DigitLines == {<<112, Digits[i], Digits[((i + 12) % 22) + 1], LF>> : i \in 1..22}
Neighbours == {47, 58, 64, 71, 96, 103}
NeighbourLines ==
    {<<112, c, 48, LF>> : c \in Neighbours} \cup {<<112, 70, c, LF>> : c \in Neighbours}

\* A host that waits; and one that does not, on a line on which getch may
\* time out and then return a digit, a letter or a newline.
PacedHost ==
    [lines |-> SoundLines \cup UnsoundLines \cup DigitLines \cup NeighbourLines,
     paced |-> TRUE, garbage |-> {}]
LossyHost ==
    [lines |-> {<<112, 48, 97, LF>>, <<120, LF>>},
     paced |-> FALSE, garbage |-> {48, 112, LF}]
\* One whose overlong line holds a second command.
SplicingHost ==
    [lines |-> {<<112, 48, 49, 63, 107, 49, 49, LF>>, <<107, 48, 49, LF>>,
                <<112, 48, 97, LF>>},
     paced |-> TRUE, garbage |-> {}]
MCHosts == {PacedHost, LossyHost, SplicingHost}

\* The instance meets what the proofs ask of the commands.
ASSUME MCAssumption == ProgramCommands

=============================================================================
