------------------------------- MODULE CanPort -------------------------------
(***************************************************************************)
(* What write_can and read_can promise a program, with the peripheral, the *)
(* HAL's handle and the polling taken away.  While a call of write_can     *)
(* runs, its frame may reach other stations, several times if the bus has  *)
(* to repeat it; after the call it never does.  The call succeeds only if  *)
(* the frame was acknowledged, and may report a timeout in any case.       *)
(***************************************************************************)
EXTENDS Integers, Sequences

CONSTANTS
    Node,       \* the stations
    Frame,      \* what they exchange
    NoFrame,    \* stands for no frame
    FifoDepth   \* frames a station holds for its program

VARIABLES
    phase,   \* of each station: starting, idle, sending or acked
    frame,   \* the frame of its running call, or NoFrame
    inbox,   \* the frames it holds
    result   \* what its last call returned

vars == <<phase, frame, inbox, result>>

Phases == {"starting", "idle", "sending", "acked"}
Success == 0..8

Init ==
    /\ phase = [n \in Node |-> "starting"]
    /\ frame = [n \in Node |-> NoFrame]
    /\ inbox = [n \in Node |-> <<>>]
    /\ result = [n \in Node |-> 0]

Started(n) ==
    /\ phase[n] = "starting"
    /\ phase' = [phase EXCEPT ![n] = "idle"]
    /\ UNCHANGED <<frame, inbox, result>>

Send(n, f) ==
    /\ phase[n] = "idle"
    /\ phase' = [phase EXCEPT ![n] = "sending"]
    /\ frame' = [frame EXCEPT ![n] = f]
    /\ UNCHANGED <<inbox, result>>

Hold(q, f) ==
    IF Len(q) < FifoDepth THEN Append(q, f) ELSE [q EXCEPT ![Len(q)] = f]

\* The frame of a running call reaches some other stations; if it is
\* acknowledged, that was its last appearance.
Pass(n) ==
    /\ phase[n] = "sending"
    /\ \E A \in SUBSET (Node \ {n}) :
          inbox' = [m \in Node |-> IF m \in A THEN Hold(inbox[m], frame[n])
                                   ELSE inbox[m]]
    /\ phase' \in {phase, [phase EXCEPT ![n] = "acked"]}
    /\ UNCHANGED <<frame, result>>

Return(n, r) ==
    /\ phase[n] \in {"sending", "acked"}
    /\ r \in Success => phase[n] = "acked"
    /\ phase' = [phase EXCEPT ![n] = "idle"]
    /\ result' = [result EXCEPT ![n] = r]
    /\ frame' = [frame EXCEPT ![n] = NoFrame]
    /\ UNCHANGED inbox

\* A call with unusable arguments, or a read that finds nothing.
Fail(n, r) ==
    /\ phase[n] = "idle"
    /\ r < 0
    /\ result' = [result EXCEPT ![n] = r]
    /\ UNCHANGED <<phase, frame, inbox>>

\* A read takes the oldest frame and returns its length.
Take(n) ==
    /\ phase[n] = "idle"
    /\ inbox[n] # <<>>
    /\ inbox' = [inbox EXCEPT ![n] = Tail(@)]
    /\ result' = [result EXCEPT ![n] = Head(inbox[n]).dlc]
    /\ UNCHANGED <<phase, frame>>

Next ==
    \E n \in Node :
        \/ Started(n)
        \/ \E f \in Frame : Send(n, f)
        \/ Pass(n)
        \/ \E r \in -5..8 : Return(n, r) \/ Fail(n, r)
        \/ Take(n)

Spec == Init /\ [][Next]_vars

=============================================================================
