------------------------------ MODULE HostTool ------------------------------
(***************************************************************************)
(* The host tool test_can.py on the bus: in each tool a command thread     *)
(* (test_can.start) and a receive thread (can_thread.run) share one PCAN   *)
(* channel.  Several tools and the two nodes are on one bus.               *)
(*                                                                         *)
(* PCANBasic, the adapters and the bus are external: an uninitialised      *)
(* channel delivers nothing, an initialised one queues what others send.   *)
(* Frames are told apart only by their lengths.                            *)
(***************************************************************************)
EXTENDS Integers, Sequences

CONSTANTS
    Tool,       \* the running tools, each with its own adapter
    QueueDepth, \* frames a channel queues
    MaxCount    \* bound: encrypted sends of each tool

ASSUME HostToolAssumption ==
    QueueDepth \in Nat \ {0} /\ MaxCount \in Nat

VARIABLES
    main,       \* the command thread
    receiver,   \* the receive thread
    encryption, \* test_can.__encryption is set
    quit,       \* can_thread.__quit
    linked,     \* can_thread.__connected
    connected,  \* test_can.__connected
    cnt,        \* test_can.__cnt
    frame,      \* length of the frame in the callback, or 0
    channel,    \* the adapter's channel
    queue,      \* frames received and not read: their lengths
    short       \* history: a frame shorter than four bytes has been sent

thread == <<main, receiver>>
object == <<encryption, quit, linked, connected, cnt>>
adapter == <<channel, queue>>
vars == <<thread, object, frame, adapter, short>>

PayloadLength == 8

Init ==
    /\ main = [t \in Tool |-> "create"]
    /\ receiver = [t \in Tool |-> "none"]
    /\ encryption = [t \in Tool |-> FALSE]
    /\ quit = [t \in Tool |-> FALSE]
    /\ linked = [t \in Tool |-> FALSE]
    /\ connected = [t \in Tool |-> FALSE]
    /\ cnt = [t \in Tool |-> 0]
    /\ frame = [t \in Tool |-> 0]
    /\ channel = [t \in Tool |-> "closed"]
    /\ queue = [t \in Tool |-> <<>>]
    /\ short = FALSE

Goto(t, place) == main' = [main EXCEPT ![t] = place]

-----------------------------------------------------------------------------
(* PCANBasic and the bus (external) *)

\* A frame reaches every open channel but the sender's own; a full queue
\* loses it.
Deliver(length, sender) ==
    queue' = [t \in Tool |->
                 IF channel[t] # "closed" /\ t # sender
                       /\ Len(queue[t]) < QueueDepth
                 THEN Append(queue[t], length) ELSE queue[t]]

\* A node of the vehicle sends one of its frames, always of eight bytes.
NodeSends ==
    /\ Deliver(PayloadLength, "node")
    /\ UNCHANGED <<thread, object, frame, channel, short>>

\* CAN_Write: only an open channel that is not in listen-only mode sends.
Write(t, length) ==
    IF channel[t] = "open" THEN Deliver(length, t) ELSE UNCHANGED queue

-----------------------------------------------------------------------------
(* The command thread *)

\* Variant: the constructor connects as well.
StartThread_Connects(t) ==
    /\ main[t] = "create"
    /\ receiver' = [receiver EXCEPT ![t] = "read"]
    /\ channel' = [channel EXCEPT ![t] = "open"]
    /\ Goto(t, "construct")
    /\ UNCHANGED <<object, frame, queue, short>>

\* test_can.__init__: the receive thread starts before the rest is set.
StartThread(t) ==
    /\ main[t] = "create"
    /\ receiver' = [receiver EXCEPT ![t] = "read"]
    /\ Goto(t, "construct")
    /\ UNCHANGED <<object, frame, adapter, short>>

Constructed(t) ==
    /\ main[t] = "construct"
    /\ encryption' = [encryption EXCEPT ![t] = TRUE]
    /\ Goto(t, "command")
    /\ UNCHANGED <<receiver, quit, linked, connected, cnt, frame,
                   adapter, short>>

\* Variant: the command thread looks at the flag before it connects.
Connect_Before(t, kind) ==
    /\ main[t] = "command"
    /\ queue' = [queue EXCEPT ![t] = <<>>]
    /\ \E success \in BOOLEAN :
          /\ channel' = [channel EXCEPT ![t] = IF success THEN kind ELSE "closed"]
          /\ linked' = [linked EXCEPT ![t] = @ \/ success]
    /\ connected' = [connected EXCEPT ![t] = linked[t]]
    /\ UNCHANGED <<thread, encryption, quit, cnt, frame, short>>

\* connect, connect2: Uninitialize, then Initialize; its outcome is the
\* adapter's.  can_thread.__connected is set by a success and never reset;
\* the command thread copies it, and tells the user what it finds there.
Connect(t, kind) ==
    /\ main[t] = "command"
    /\ queue' = [queue EXCEPT ![t] = <<>>]
    /\ \E success \in BOOLEAN :
          /\ channel' = [channel EXCEPT ![t] = IF success THEN kind ELSE "closed"]
          /\ linked' = [linked EXCEPT ![t] = @ \/ success]
    /\ connected' = [connected EXCEPT ![t] = linked'[t]]
    /\ UNCHANGED <<thread, encryption, quit, cnt, frame, short>>

\* Variant: a disconnect ends the receive thread too.
Disconnect_Quits(t) ==
    /\ main[t] = "command"
    /\ connected[t]
    /\ channel' = [channel EXCEPT ![t] = "closed"]
    /\ queue' = [queue EXCEPT ![t] = <<>>]
    /\ quit' = [quit EXCEPT ![t] = TRUE]
    /\ UNCHANGED <<thread, encryption, linked, connected, cnt, frame, short>>

\* disconnect: nothing unless a connect has succeeded before; the flag stays.
Disconnect(t) ==
    /\ main[t] = "command"
    /\ connected[t]
    /\ channel' = [channel EXCEPT ![t] = "closed"]
    /\ queue' = [queue EXCEPT ![t] = <<>>]
    /\ UNCHANGED <<thread, encryption, quit, linked, connected, cnt, frame, short>>

\* send: the count goes up whether or not the frame could be written.
SendEncrypted(t) ==
    /\ main[t] = "command"
    /\ cnt[t] < MaxCount
    /\ Write(t, PayloadLength)
    /\ cnt' = [cnt EXCEPT ![t] = @ + 1]
    /\ UNCHANGED <<thread, encryption, quit, linked, connected, frame,
                   channel, short>>

\* Send: two bytes.
SendPlain(t) ==
    /\ main[t] = "command"
    /\ Write(t, 2)
    /\ short' = (short \/ channel[t] = "open")
    /\ UNCHANGED <<thread, object, frame, channel>>

\* Variant: can_thread.quit is forgotten.
Quit_Forgets(t) ==
    /\ main[t] = "command"
    /\ Goto(t, "exiting")
    /\ UNCHANGED <<receiver, object, frame, adapter, short>>

\* quit: leave the loop and tell the receive thread.
Quit(t) ==
    /\ main[t] = "command"
    /\ quit' = [quit EXCEPT ![t] = TRUE]
    /\ Goto(t, "exiting")
    /\ UNCHANGED <<receiver, encryption, linked, connected, cnt, frame,
                   adapter, short>>

\* The last sleep is over and main returns.
MainEnds(t) ==
    /\ main[t] = "exiting"
    /\ Goto(t, "ended")
    /\ UNCHANGED <<receiver, object, frame, adapter, short>>

\* raw_input raises at the end of input: main ends without quit.
InputEnds(t) ==
    /\ main[t] = "command"
    /\ Goto(t, "aborted")
    /\ UNCHANGED <<receiver, object, frame, adapter, short>>

-----------------------------------------------------------------------------
(* The receive thread *)

ReadFrame(t) ==
    /\ receiver[t] = "read"
    /\ ~quit[t]
    /\ channel[t] # "closed" /\ queue[t] # <<>>
    /\ frame' = [frame EXCEPT ![t] = Head(queue[t])]
    /\ queue' = [queue EXCEPT ![t] = Tail(queue[t])]
    /\ receiver' = [receiver EXCEPT ![t] = "callback"]
    /\ UNCHANGED <<main, object, channel, short>>

\* rx_from_can raises if the encryption is not there yet, or decrypt runs
\* past a payload of less than four bytes.
CallbackRaises(t) == ~encryption[t] \/ frame[t] < 4

\* An exception in the callback ends the thread, and nothing else.
Callback(t) ==
    /\ receiver[t] = "callback"
    /\ receiver' = [receiver EXCEPT ![t] =
                       IF CallbackRaises(t) THEN "died" ELSE "read"]
    /\ frame' = [frame EXCEPT ![t] = 0]
    /\ UNCHANGED <<main, object, adapter, short>>

\* The loop ends at the next test of the flag.
ReceiverExits(t) ==
    /\ receiver[t] = "read"
    /\ quit[t]
    /\ receiver' = [receiver EXCEPT ![t] = "ended"]
    /\ UNCHANGED <<main, object, frame, adapter, short>>

-----------------------------------------------------------------------------

Command(t) ==
    \/ \E kind \in {"open", "listen"} : Connect(t, kind)
    \/ Disconnect(t) \/ SendEncrypted(t) \/ SendPlain(t)
    \/ Quit(t) \/ InputEnds(t)

Main(t) == StartThread(t) \/ Constructed(t) \/ MainEnds(t)

Receiver(t) == ReadFrame(t) \/ Callback(t) \/ ReceiverExits(t)

Next ==
    \/ NodeSends
    \/ \E t \in Tool : Command(t) \/ Main(t) \/ Receiver(t)

Spec == Init /\ [][Next]_vars

\* Both threads are scheduled; no command is ever given unless the user does.
LiveSpec == Spec /\ \A t \in Tool : WF_vars(Main(t)) /\ WF_vars(Receiver(t))

-----------------------------------------------------------------------------
(* Properties *)

TypeOK ==
    /\ main \in [Tool -> {"create", "construct", "command", "exiting", "ended",
                          "aborted"}]
    /\ receiver \in [Tool -> {"none", "read", "callback", "ended", "died"}]
    /\ channel \in [Tool -> {"closed", "open", "listen"}]
    /\ cnt \in [Tool -> 0..MaxCount]
    /\ frame \in [Tool -> {0, 2, PayloadLength}]
    /\ \A t \in Tool : quit[t] => main[t] \in {"exiting", "ended"}
    /\ \A t \in Tool : linked[t] /\ main[t] = "command" => encryption[t]

\* A receive thread dies of nothing but a frame shorter than four bytes: not
\* of the start before its object is complete, since the channel is closed
\* until the first command, and not of connects, disconnects or a quit while
\* it is in the callback.
ReceiverSurvives == \A t \in Tool : receiver[t] = "died" => short

\* A quit ends the program: main returns and the receive thread, which is no
\* daemon, does not outlive it.
QuitEnds ==
    \A t \in Tool :
        main[t] = "exiting" ~>
            main[t] = "ended" /\ receiver[t] \in {"ended", "died"}

\* The two __connected flags may claim a channel that has been closed since,
\* but never miss one that is open: what a connect opened, whatever failed or
\* was closed in between, a disconnect can close.
OpenIsKnown == \A t \in Tool : channel[t] # "closed" => connected[t]

=============================================================================
