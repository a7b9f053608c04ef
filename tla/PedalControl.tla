---------------------------- MODULE PedalControl ----------------------------
(***************************************************************************)
(* What the pair of nodes is for: the pedal is sampled, and the motor's    *)
(* duty cycle follows the samples, skipping some, never inventing one and  *)
(* never going back to an earlier one.                                     *)
(***************************************************************************)
EXTENDS Integers, Sequences

CONSTANTS
    Sample,     \* positions of the pedal
    Duty(_)     \* the duty cycle a position stands for

VARIABLES
    samples,    \* the positions sampled so far
    current,    \* index of the one the motor follows; 0 before the first
    duty        \* the motor's duty cycle

vars == <<samples, current, duty>>

Init == samples = <<>> /\ current = 0 /\ duty = 0

Press(v) ==
    /\ samples' = Append(samples, v)
    /\ UNCHANGED <<current, duty>>

Follow(i) ==
    /\ i >= current
    /\ current' = i
    /\ duty' = Duty(samples[i])
    /\ UNCHANGED samples

Next ==
    \/ \E v \in Sample : Press(v)
    \/ \E i \in 1..Len(samples) : Follow(i)

Spec == Init /\ [][Next]_vars

=============================================================================
