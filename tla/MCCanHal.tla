------------------------------ MODULE MCCanHal ------------------------------
(***************************************************************************)
(* The CAN driver under an arbitrary client, on small instances.           *)
(***************************************************************************)
EXTENDS CanHal

CONSTANTS a, b     \* stations

\* a sends the pedal's first, standard identifier and one past 29 bits, b the
\* motor's requests, an extended one, and reads.
MCAddress == [n \in Node |-> IF n = a THEN {512, ExtMax + 1} ELSE {2274013}]
MCReader == {b}
MCPayload == {"p"}

=============================================================================
