---------------------------- MODULE SampleSource ----------------------------
(***************************************************************************)
(* What the pedal's program may expect of its analog input: values come    *)
(* only from an input that was started, each from the newest conversion,   *)
(* and none more than twice.                                               *)
(***************************************************************************)
EXTENDS Naturals

VARIABLES
    on,    \* the input converts
    shown  \* times the newest conversion has been returned

vars == <<on, shown>>

Init == on = FALSE /\ shown = 0

TurnOn == ~on /\ on' = TRUE /\ UNCHANGED shown

Convert == on /\ shown' = 0 /\ UNCHANGED on

Show == on /\ shown < 2 /\ shown' = shown + 1 /\ UNCHANGED on

Spec == Init /\ [][TurnOn \/ Convert \/ Show]_vars

=============================================================================
