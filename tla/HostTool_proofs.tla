--------------------------- MODULE HostTool_proofs ---------------------------
(***************************************************************************)
(* For any number of host tools, any depth of their queues and any number  *)
(* of sends: a receive thread ends by nothing but a short frame, and an    *)
(* open channel is known to be open.                                       *)
(***************************************************************************)
EXTENDS HostTool, TLAPS

\* The lengths of the frames there are, so far.
Lengths == IF short THEN {2, PayloadLength} ELSE {PayloadLength}

\* The objects are complete before the first command, only an object that is
\* complete opens a channel, and only what came through an open channel is
\* passed to the callback.
ObjectsInv ==
    /\ encryption \in [Tool -> BOOLEAN] /\ quit \in [Tool -> BOOLEAN]
    /\ linked \in [Tool -> BOOLEAN] /\ connected \in [Tool -> BOOLEAN]
    /\ \A t \in Tool : encryption[t] <=> main[t] \notin {"create", "construct"}
ChannelInv ==
    /\ short \in BOOLEAN
    /\ queue \in [Tool -> Seq(Lengths)]
    /\ \A t \in Tool : channel[t] # "closed" => encryption[t] /\ connected[t]
    /\ \A t \in Tool :
          receiver[t] = "callback" => encryption[t] /\ frame[t] \in Lengths
ToolInv == TypeOK /\ ObjectsInv /\ ChannelInv /\ ReceiverSurvives

\* At the start there is no thread, no object and no channel.
LEMMA ToolInit == Init => ToolInv
<1> SUFFICES ASSUME Init
             PROVE  ToolInv
    OBVIOUS
<1>1. TypeOK
    BY HostToolAssumption DEF Init, TypeOK
<1>2. ObjectsInv
    BY DEF Init, ObjectsInv
<1>3. queue \in [Tool -> Seq(Lengths)]
    BY DEF Init
<1>4. ChannelInv
    BY <1>3 DEF Init, ChannelInv
<1> QED
    BY <1>1, <1>2, <1>4 DEF Init, ToolInv, ReceiverSurvives

\* A delivery puts one more frame of its length into queues, and nothing else.
LEMMA Delivered ==
    ASSUME NEW S, queue \in [Tool -> Seq(S)], NEW length \in S, NEW sender,
           Deliver(length, sender)
    PROVE  queue' \in [Tool -> Seq(S)]
<1> SUFFICES ASSUME NEW t \in Tool
             PROVE  (IF channel[t] # "closed" /\ t # sender
                           /\ Len(queue[t]) < QueueDepth
                     THEN Append(queue[t], length) ELSE queue[t]) \in Seq(S)
    BY DEF Deliver
<1>1. queue[t] \in Seq(S) /\ Append(queue[t], length) \in Seq(S)
    OBVIOUS
<1> QED
    BY <1>1

\* A write goes nowhere unless its channel is open, and then it is a delivery.
LEMMA Written ==
    ASSUME NEW S, queue \in [Tool -> Seq(S)], NEW length, NEW t,
           channel[t] = "open" => length \in S, Write(t, length)
    PROVE  queue' \in [Tool -> Seq(S)]
    BY Delivered DEF Write

\* Frames of the nodes and of other tools.
LEMMA NodeStep == ToolInv /\ NodeSends => ToolInv'
<1> SUFFICES ASSUME ToolInv, NodeSends
             PROVE  ToolInv'
    OBVIOUS
<1>1. UNCHANGED <<thread, object, frame, channel, short>>
    BY DEF NodeSends
<1>2. queue' \in [Tool -> Seq(Lengths)]
    BY Delivered DEF NodeSends, ToolInv, ChannelInv, Lengths
<1>3. TypeOK' /\ ObjectsInv' /\ ReceiverSurvives'
    BY <1>1 DEF ToolInv, TypeOK, ObjectsInv, ReceiverSurvives, thread, object
<1>4. ChannelInv'
    BY <1>1, <1>2 DEF ToolInv, ChannelInv, Lengths, thread, object
<1> QED
    BY <1>3, <1>4 DEF ToolInv

\* The construction of a tool, and the end of its program.
LEMMA MainStep ==
    ASSUME NEW t \in Tool, ToolInv, Main(t)
    PROVE  ToolInv'
<1> USE DEF ToolInv, TypeOK, ObjectsInv, ChannelInv, ReceiverSurvives, Lengths,
            thread, object, adapter, Goto
<1>1. CASE StartThread(t)
  <2>1. TypeOK' /\ ObjectsInv'
      BY <1>1 DEF StartThread
  <2>2. ChannelInv' /\ ReceiverSurvives'
      BY <1>1 DEF StartThread
  <2> QED
      BY <2>1, <2>2
<1>2. CASE Constructed(t)
  <2>1. TypeOK' /\ ObjectsInv'
      BY <1>2 DEF Constructed
  <2>2. ChannelInv' /\ ReceiverSurvives'
      BY <1>2 DEF Constructed
  <2> QED
      BY <2>1, <2>2
<1>3. CASE MainEnds(t)
  <2>1. TypeOK' /\ ObjectsInv'
      BY <1>3 DEF MainEnds
  <2>2. ChannelInv' /\ ReceiverSurvives'
      BY <1>3 DEF MainEnds
  <2> QED
      BY <2>1, <2>2
<1> QED
    BY <1>1, <1>2, <1>3 DEF Main

\* The commands.
LEMMA CommandStep ==
    ASSUME NEW t \in Tool, ToolInv, Command(t)
    PROVE  ToolInv'
<1> USE DEF ToolInv, TypeOK, ObjectsInv, ChannelInv, ReceiverSurvives, Lengths,
            thread, object, adapter, Goto
<1>1. ASSUME NEW kind \in {"open", "listen"}, Connect(t, kind)
      PROVE  ToolInv'
  <2>1. PICK success \in BOOLEAN :
            /\ channel' = [channel EXCEPT ![t] = IF success THEN kind ELSE "closed"]
            /\ linked' = [linked EXCEPT ![t] = @ \/ success]
      BY <1>1 DEF Connect
  <2>2. linked' \in [Tool -> BOOLEAN] /\ connected' \in [Tool -> BOOLEAN]
      BY <2>1, <1>1 DEF Connect
  <2>3. TypeOK' /\ ObjectsInv'
      BY <2>1, <2>2, <1>1 DEF Connect
  <2>4. queue' \in [Tool -> Seq(Lengths')]
      BY <1>1 DEF Connect
  <2>5. success => connected'[t]
      BY <2>1, <1>1 DEF Connect
  <2>6. ChannelInv' /\ ReceiverSurvives'
      BY <2>1, <2>4, <2>5, <1>1 DEF Connect
  <2> QED
      BY <2>3, <2>6
<1>2. CASE Disconnect(t)
  <2>1. TypeOK' /\ ObjectsInv'
      BY <1>2 DEF Disconnect
  <2>2. ChannelInv' /\ ReceiverSurvives'
      BY <1>2 DEF Disconnect
  <2> QED
      BY <2>1, <2>2
<1>3. CASE SendEncrypted(t)
  <2>1. queue' \in [Tool -> Seq(Lengths)]
    <3>1. /\ queue \in [Tool -> Seq(Lengths)] /\ PayloadLength \in Lengths
          /\ Write(t, PayloadLength)
        BY <1>3 DEF SendEncrypted
    <3> HIDE DEF Lengths, PayloadLength
    <3> QED
        BY <3>1, Written
  <2>2. cnt' \in [Tool -> 0..MaxCount]
      BY <1>3, HostToolAssumption DEF SendEncrypted
  <2>3. TypeOK' /\ ObjectsInv'
      BY <1>3, <2>2 DEF SendEncrypted
  <2>4. ChannelInv' /\ ReceiverSurvives'
      BY <1>3, <2>1 DEF SendEncrypted
  <2> QED
      BY <2>3, <2>4
<1>4. CASE SendPlain(t)
  <2>1. queue \in [Tool -> Seq(Lengths')]
    <3>1. Seq(Lengths) \subseteq Seq(Lengths')
        BY <1>4 DEF SendPlain
    <3> QED
        BY <3>1
  <2>2. queue' \in [Tool -> Seq(Lengths')]
    <3>1. Write(t, 2) /\ (channel[t] = "open" => 2 \in Lengths')
        BY <1>4 DEF SendPlain
    <3> HIDE DEF Lengths
    <3> QED
        BY <2>1, <3>1, Written
  <2>3. TypeOK' /\ ObjectsInv'
      BY <1>4 DEF SendPlain
  <2>4. ChannelInv' /\ ReceiverSurvives'
      BY <1>4, <2>2 DEF SendPlain
  <2> QED
      BY <2>3, <2>4
<1>5. CASE Quit(t)
  <2>1. TypeOK' /\ ObjectsInv'
      BY <1>5 DEF Quit
  <2>2. ChannelInv' /\ ReceiverSurvives'
      BY <1>5 DEF Quit
  <2> QED
      BY <2>1, <2>2
<1>6. CASE InputEnds(t)
  <2>1. TypeOK' /\ ObjectsInv'
      BY <1>6 DEF InputEnds
  <2>2. ChannelInv' /\ ReceiverSurvives'
      BY <1>6 DEF InputEnds
  <2> QED
      BY <2>1, <2>2
<1> QED
    BY <1>1, <1>2, <1>3, <1>4, <1>5, <1>6 DEF Command

\* The receive thread.
LEMMA ReceiverStep ==
    ASSUME NEW t \in Tool, ToolInv, Receiver(t)
    PROVE  ToolInv'
<1> USE DEF ToolInv, TypeOK, ObjectsInv, ChannelInv, ReceiverSurvives, Lengths,
            PayloadLength, thread, object, adapter
<1>1. CASE ReadFrame(t)
  <2>1. Head(queue[t]) \in Lengths /\ Tail(queue[t]) \in Seq(Lengths)
      BY <1>1 DEF ReadFrame
  <2>2. TypeOK' /\ ObjectsInv'
      BY <1>1, <2>1 DEF ReadFrame
  <2>3. ChannelInv' /\ ReceiverSurvives'
      BY <1>1, <2>1 DEF ReadFrame
  <2> QED
      BY <2>2, <2>3
<1>2. CASE Callback(t)
  <2>1. CallbackRaises(t) => short
      BY <1>2 DEF Callback, CallbackRaises
  <2>2. TypeOK' /\ ObjectsInv'
      BY <1>2 DEF Callback
  <2>3. ChannelInv' /\ ReceiverSurvives'
      BY <1>2, <2>1 DEF Callback
  <2> QED
      BY <2>2, <2>3
<1>3. CASE ReceiverExits(t)
  <2>1. TypeOK' /\ ObjectsInv'
      BY <1>3 DEF ReceiverExits
  <2>2. ChannelInv' /\ ReceiverSurvives'
      BY <1>3 DEF ReceiverExits
  <2> QED
      BY <2>1, <2>2
<1> QED
    BY <1>1, <1>2, <1>3 DEF Receiver

\* No step of either thread of any tool, or of the bus, breaks the invariant.
LEMMA ToolStep == ToolInv /\ [Next]_vars => ToolInv'
<1>1. ToolInv /\ UNCHANGED vars => ToolInv'
    BY DEF ToolInv, TypeOK, ObjectsInv, ChannelInv, ReceiverSurvives, Lengths,
           vars, thread, object, adapter
<1> QED
    BY <1>1, NodeStep, MainStep, CommandStep, ReceiverStep DEF Next

\* Objects, channels and callbacks stay in step.
LEMMA ToolInvariance == Spec => []ToolInv
BY ToolInit, ToolStep, PTL DEF Spec

\* A receive thread ends by an exception only after a frame shorter than four
\* bytes was sent, whatever its user and the other tools do meanwhile.
THEOREM SurvivesOrdinaryFrames == Spec => []ReceiverSurvives
<1>1. ToolInv => ReceiverSurvives
    BY DEF ToolInv
<1> QED
    BY <1>1, ToolInvariance, PTL

\* An open channel is never missed by the flag that lets a disconnect close it.
THEOREM OpenChannelIsKnown == Spec => []OpenIsKnown
<1>1. ToolInv => OpenIsKnown
    BY DEF ToolInv, ChannelInv, OpenIsKnown
<1> QED
    BY <1>1, ToolInvariance, PTL

\* The types of a tool's two threads, flags and queue.
THEOREM ToolTypeCorrect == Spec => []TypeOK
<1>1. ToolInv => TypeOK
    BY DEF ToolInv
<1> QED
    BY <1>1, ToolInvariance, PTL

=============================================================================
