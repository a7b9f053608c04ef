--------------------------- MODULE SecureCanReset ---------------------------
(***************************************************************************)
(* The two nodes of SecureCan when boards may be reset at any moment: a    *)
(* reset loses the program's and the peripheral's state, and main runs     *)
(* again.  The firmware keeps nothing across a reset, so the pedal counts  *)
(* its messages from 0 again under the same keys.                          *)
(***************************************************************************)
EXTENDS SecureCan

CONSTANT MaxReset   \* bound: resets of each board in a behaviour

ASSUME MaxResetAssumption == MaxReset \in Nat

VARIABLES
    resets,   \* resets of each board so far
    stamps,   \* history: for each frame in the motor's FIFO, its sample's index
    current   \* history: index of the last sample the motor applied, or 0

resetVars == <<vars, resets, stamps, current>>

ResetInit ==
    /\ Init
    /\ resets = [n \in Node |-> 0]
    /\ stamps = <<>> /\ current = 0

\* The frame that reaches the motor is the one of the pedal's last sample,
\* which the FIFO appends, or puts in place of its newest.
StampsOf(q, r, s) ==
    IF Len(r) > Len(q) THEN Append(s, Len(samples))
    ELSE IF Len(r) < Len(q) THEN Tail(s)
    ELSE IF r # q THEN [s EXCEPT ![Len(s)] = Len(samples)]
    ELSE s

\* A step of the running boards.
Run ==
    /\ Next
    /\ stamps' = StampsOf(fifo[Motor], fifo'[Motor], stamps)
    /\ current' = IF MotorApply THEN Head(stamps) ELSE current
    /\ UNCHANGED resets

\* Variants: the peripheral is not reset with the processor, and keeps the
\* frames it was to send, or those it has received.
PowerUpPeripheral_Sends(n) ==
    /\ mode' = [mode EXCEPT ![n] = "sleep"]
    /\ off' = [off EXCEPT ![n] = FALSE]
    /\ fifo' = [fifo EXCEPT ![n] = <<>>]
    /\ filter' = [filter EXCEPT ![n] = FALSE]
    /\ UNCHANGED <<tme, out, bus>>
PowerUpPeripheral_Holds(n) ==
    /\ mode' = [mode EXCEPT ![n] = "sleep"]
    /\ off' = [off EXCEPT ![n] = FALSE]
    /\ tme' = [tme EXCEPT ![n] = [k \in Mailboxes |-> "empty"]]
    /\ out' = [out EXCEPT ![n] = [k \in Mailboxes |-> NoFrame]]
    /\ filter' = [filter EXCEPT ![n] = FALSE]
    /\ bus' = IF \E k \in Mailboxes : bus = OnBus(n, k) THEN Quiet ELSE bus
    /\ UNCHANGED fifo

\* The registers have their initial values, and a frame the station was
\* sending is cut off (external: the reset of the chip).
PowerUpPeripheral(n) ==
    /\ mode' = [mode EXCEPT ![n] = "sleep"]
    /\ off' = [off EXCEPT ![n] = FALSE]
    /\ tme' = [tme EXCEPT ![n] = [k \in Mailboxes |-> "empty"]]
    /\ out' = [out EXCEPT ![n] = [k \in Mailboxes |-> NoFrame]]
    /\ fifo' = [fifo EXCEPT ![n] = <<>>]
    /\ filter' = [filter EXCEPT ![n] = FALSE]
    /\ bus' = IF \E k \in Mailboxes : bus = OnBus(n, k) THEN Quiet ELSE bus

\* The driver's static variables have their initial values, and the processor
\* is on its way to MX_CAN_Init.
PowerUp(n) ==
    /\ Goto(n, "reset")
    /\ SetState(n, "RESET", FALSE)
    /\ msg' = [msg EXCEPT ![n] = NoFrame]
    /\ RxMessage' = [RxMessage EXCEPT ![n] = NoFrame]
    /\ mailbox' = [mailbox EXCEPT ![n] = 0]
    /\ ticks' = [ticks EXCEPT ![n] = 0]
    /\ canError' = [canError EXCEPT ![n] = "none"]
    /\ Return(n, 0)
    /\ PowerUpPeripheral(n)

ResetPedal ==
    /\ resets[Pedal] < MaxReset
    /\ resets' = [resets EXCEPT ![Pedal] = @ + 1]
    /\ PowerUp(Pedal)
    /\ pedal' = "setup"
    /\ msgnum' = 0
    /\ UNCHANGED <<motor, timeout, duty, samples, applied, stamps, current>>

ResetMotor ==
    /\ resets[Motor] < MaxReset
    /\ resets' = [resets EXCEPT ![Motor] = @ + 1]
    /\ PowerUp(Motor)
    /\ motor' = "setup"
    /\ timeout' = 0
    /\ duty' = 0
    /\ applied' = -1
    /\ stamps' = <<>>
    /\ UNCHANGED <<pedal, msgnum, samples, current>>

ResetNext == Run \/ ResetPedal \/ ResetMotor

ResetSpec == ResetInit /\ [][ResetNext]_resetVars

-----------------------------------------------------------------------------
(* Properties *)

ResetTypeOK ==
    /\ TypeOK
    /\ resets \in [Node -> 0..MaxReset]
    /\ Len(stamps) = Len(fifo[Motor])
    /\ current \in 0..Len(samples)

\* Although message numbers start again, resets of either board put no sample
\* out of order: the duty cycle is 0 after a restart of the motor or stands
\* for a sample, and for no earlier one than before.  It needs the reset to
\* empty the pedal's mailboxes as well as the abort, the restart and the FIFO.
Restarting == INSTANCE RestartControl
FollowsAcrossResets == Restarting!RestartSpec

=============================================================================
