---------------------------- MODULE CanHal_proofs ----------------------------
(***************************************************************************)
(* The driver for any number of stations, any poll budgets and any FIFO    *)
(* depth: its types and safety invariants, that it implements CanPort, and *)
(* how many steps a call takes.                                            *)
(***************************************************************************)
EXTENDS CanHal, TLAPS

\* A full FIFO keeps its length: the newest frame is replaced.
LEMMA StoreType ==
    ASSUME NEW q \in Seq(Frame), NEW f \in Frame
    PROVE  Store(q, f) \in Seq(Frame)
<1>1. CASE Len(q) < FifoDepth
  BY <1>1 DEF Store
<1>2. CASE ~(Len(q) < FifoDepth)
  <2>1. q \in [1..Len(q) -> Frame] /\ Len(q) \in Nat
    OBVIOUS
  <2>2. [q EXCEPT ![Len(q)] = f] \in [1..Len(q) -> Frame]
    BY <2>1
  <2>3. [q EXCEPT ![Len(q)] = f] \in Seq(Frame)
    BY <2>1, <2>2
  <2> QED
    BY <1>2, <2>3 DEF Store
<1> QED
  BY <1>1, <1>2

\* Delivery only ever adds a frame to FIFOs.
LEMMA DeliverType ==
    ASSUME fifo \in [Node -> Seq(Frame)], NEW A, NEW f \in Frame, Deliver(A, f)
    PROVE  fifo' \in [Node -> Seq(Frame)]
<1>1. \A m \in Node : Store(fifo[m], f) \in Seq(Frame) /\ fifo[m] \in Seq(Frame)
  BY StoreType
<1> QED
  BY <1>1 DEF Deliver

-----------------------------------------------------------------------------
(* The inductive invariant is kept by each step of a processor. *)

\* What write_can returns is one of its documented codes or a count up to 8.
LEMMA WriteResultType ==
    ASSUME NEW n \in Node, HalTypeOK, HandleInv, canError[n] # "none"
    PROVE  WriteResult(n) \in -5..8
<1>1. canError[n] \in {"HAL_OK", "HAL_TIMEOUT"}
  BY DEF HalTypeOK, HandleInv, Statuses
<1>2. msg[n].dlc \in 0..8
  BY DEF HalTypeOK, Frame
<1>3. CASE canError[n] = "HAL_OK"
  BY <1>2, <1>3 DEF WriteResult
<1>4. CASE canError[n] = "HAL_TIMEOUT"
  BY <1>4 DEF WriteResult, can_return_error, RET_TIMEOUT
<1> QED
  BY <1>1, <1>3, <1>4

\* Initialisation starts from reset, with the peripheral asleep.
LEMMA MX_CAN_InitStep ==
    ASSUME NEW n \in Node, HalInv, MX_CAN_Init(n)
    PROVE  HalInv'
<1> USE DEF HalInv, MX_CAN_Init, RequestInit, Goto, SetState, hw
<1>1. HalTypeOK'
  BY DEF HalTypeOK, Locations, States, Modes, Statuses, MailboxStatuses
<1>2. ModeInv'
  BY DEF HalTypeOK, ModeInv, MailboxInv
<1>3. HandleInv'
  BY DEF HalTypeOK, HandleInv
<1>4. MailboxInv'
  BY DEF HalTypeOK, MailboxInv, ModeInv, Outstanding, Listening, OnBus
<1> QED
  BY <1>1, <1>2, <1>3, <1>4

\* A poll of INAK changes only the tick count.
LEMMA EnterInitPollStep ==
    ASSUME NEW n \in Node, HalInv, EnterInitPoll(n)
    PROVE  HalInv'
<1> USE DEF HalInv, EnterInitPoll, hw
<1>1. HalTypeOK'
  BY DEF HalTypeOK
<1>2. ModeInv'
  BY DEF HalTypeOK, ModeInv, MailboxInv
<1>3. HandleInv'
  BY DEF HalTypeOK, HandleInv
<1>4. MailboxInv'
  BY DEF HalTypeOK, MailboxInv, ModeInv, Outstanding, Listening, OnBus
<1> QED
  BY <1>1, <1>2, <1>3, <1>4

\* Giving up on INAK parks the processor; the peripheral keeps its mode.
LEMMA EnterInitTimeoutStep ==
    ASSUME NEW n \in Node, HalInv, EnterInitTimeout(n)
    PROVE  HalInv'
<1> USE DEF HalInv, EnterInitTimeout, Goto, SetState, hw
<1>1. HalTypeOK'
  BY DEF HalTypeOK, Locations, States, Modes, Statuses, MailboxStatuses
<1>2. ModeInv'
  BY DEF HalTypeOK, ModeInv, MailboxInv
<1>3. HandleInv'
  BY DEF HalTypeOK, HandleInv
<1>4. MailboxInv'
  BY DEF HalTypeOK, MailboxInv, ModeInv, Outstanding, Listening, OnBus
<1> QED
  BY <1>1, <1>2, <1>3, <1>4

\* INAK is set, so no frame of this station is on the bus any more.
LEMMA EnterInitDoneStep ==
    ASSUME NEW n \in Node, HalInv, EnterInitDone(n)
    PROVE  HalInv'
<1> USE DEF HalInv, EnterInitDone, Goto, hw
<1>1. HalTypeOK'
  BY DEF HalTypeOK, Locations, States, Modes, Statuses, MailboxStatuses
<1>2. ModeInv'
  BY DEF HalTypeOK, ModeInv, MailboxInv
<1>3. HandleInv'
  BY DEF HalTypeOK, HandleInv
<1>4. MailboxInv'
  BY DEF HalTypeOK, MailboxInv, ModeInv, Outstanding, Listening, OnBus
<1> QED
  BY <1>1, <1>2, <1>3, <1>4

\* INAK is clear: the peripheral is in normal mode.
LEMMA LeaveInitDoneStep ==
    ASSUME NEW n \in Node, HalInv, LeaveInitDone(n)
    PROVE  HalInv'
<1> USE DEF HalInv, LeaveInitDone, Goto, SetState, hw
<1>1. HalTypeOK'
  BY DEF HalTypeOK, Locations, States, Modes, Statuses, MailboxStatuses
<1>2. ModeInv'
  BY DEF HalTypeOK, ModeInv, MailboxInv
<1>3. HandleInv'
  BY DEF HalTypeOK, HandleInv
<1>4. MailboxInv'
  BY DEF HalTypeOK, MailboxInv, ModeInv, Outstanding, Listening, OnBus
<1> QED
  BY <1>1, <1>2, <1>3, <1>4

\* The filter may be inactive until ActivateFilter.
LEMMA DeactivateFilterStep ==
    ASSUME NEW n \in Node, HalInv, DeactivateFilter(n)
    PROVE  HalInv'
<1> USE DEF HalInv, DeactivateFilter, Goto, hw
<1>1. HalTypeOK'
  BY DEF HalTypeOK, Locations, States, Modes, Statuses, MailboxStatuses
<1>2. ModeInv'
  BY DEF HalTypeOK, ModeInv, MailboxInv
<1>3. HandleInv'
  BY DEF HalTypeOK, HandleInv
<1>4. MailboxInv'
  BY DEF HalTypeOK, MailboxInv, ModeInv, Outstanding, Listening, OnBus
<1> QED
  BY <1>1, <1>2, <1>3, <1>4

\* The end of MX_CAN_Init: filter active, mode normal; after a restart write_can
\* returns the result of its transmission.
LEMMA ActivateFilterStep ==
    ASSUME NEW n \in Node, HalInv, ActivateFilter(n)
    PROVE  HalInv'
<1> USE DEF HalInv, ActivateFilter, Goto, Return, hw
<1>1. HalTypeOK'
  <2>1. rval' \in [Node -> -5..8]
    <3>1. CASE canError[n] = "none"
      BY <3>1 DEF HalTypeOK
    <3>2. CASE canError[n] # "none"
      <4>1. WriteResult(n) \in -5..8
        BY <3>2, WriteResultType
      <4> QED
        BY <3>2, <4>1 DEF HalTypeOK
    <3> QED
      BY <3>1, <3>2
  <2>2. msg' \in [Node -> Frame]
    BY DEF HalTypeOK, Frame, Prepare, InitialId
  <2> QED
    BY <2>1, <2>2 DEF HalTypeOK, Locations
<1>2. ModeInv'
  BY DEF HalTypeOK, ModeInv, MailboxInv
<1>3. HandleInv'
  BY DEF HalTypeOK, HandleInv
<1>4. MailboxInv'
  BY DEF HalTypeOK, MailboxInv, ModeInv, Outstanding, Listening, OnBus
<1> QED
  BY <1>1, <1>2, <1>3, <1>4

\* A poll of the mailbox changes only the tick count.
LEMMA TransmitPollStep ==
    ASSUME NEW n \in Node, HalInv, TransmitPoll(n)
    PROVE  HalInv'
<1> USE DEF HalInv, TransmitPoll, hw
<1>1. HalTypeOK'
  BY DEF HalTypeOK
<1>2. ModeInv'
  BY DEF HalTypeOK, ModeInv, MailboxInv
<1>3. HandleInv'
  BY DEF HalTypeOK, HandleInv
<1>4. MailboxInv'
  BY DEF HalTypeOK, MailboxInv, ModeInv, Outstanding, Listening, OnBus
<1> QED
  BY <1>1, <1>2, <1>3, <1>4

\* A timeout empties the mailbox, or leaves it aborting while on the bus.
LEMMA TransmitTimeoutStep ==
    ASSUME NEW n \in Node, HalInv, TransmitTimeout(n)
    PROVE  HalInv'
<1> USE DEF HalInv, TransmitTimeout, Goto, SetState, Cancelled, hw
<1>1. HalTypeOK'
  BY DEF HalTypeOK, Locations, States, Modes, Statuses, MailboxStatuses
<1>2. ModeInv'
  BY DEF HalTypeOK, ModeInv, MailboxInv
<1>3. HandleInv'
  BY DEF HalTypeOK, HandleInv
<1>4. MailboxInv'
  BY DEF HalTypeOK, MailboxInv, ModeInv, Outstanding, Listening, OnBus
<1> QED
  BY <1>1, <1>2, <1>3, <1>4

\* A mailbox seen sent stays sent.
LEMMA TransmitDoneStep ==
    ASSUME NEW n \in Node, HalInv, TransmitDone(n)
    PROVE  HalInv'
<1> USE DEF HalInv, TransmitDone, Goto, SetState, hw
<1>1. HalTypeOK'
  BY DEF HalTypeOK, Locations, States, Modes, Statuses, MailboxStatuses
<1>2. ModeInv'
  BY DEF HalTypeOK, ModeInv, MailboxInv
<1>3. HandleInv'
  BY DEF HalTypeOK, HandleInv
<1>4. MailboxInv'
  BY DEF HalTypeOK, MailboxInv, ModeInv, Outstanding, Listening, OnBus
<1> QED
  BY <1>1, <1>2, <1>3, <1>4

\* Without State TIMEOUT no mailbox is aborting, so write_can returns with none in use.
LEMMA WriteReturnStep ==
    ASSUME NEW n \in Node, HalInv, WriteReturn(n)
    PROVE  HalInv'
<1> USE DEF HalInv, WriteReturn, Goto, Return, hw
<1>1. HalTypeOK'
  BY WriteResultType DEF HalTypeOK, HandleInv, Locations
<1>2. ModeInv'
  BY DEF HalTypeOK, ModeInv, MailboxInv
<1>3. HandleInv'
  BY DEF HalTypeOK, HandleInv
<1>4. MailboxInv'
  BY DEF HalTypeOK, MailboxInv, ModeInv, Outstanding, Listening, OnBus
<1> QED
  BY <1>1, <1>2, <1>3, <1>4

\* The restart takes over a mailbox that may still be aborting.
LEMMA WriteRestartStep ==
    ASSUME NEW n \in Node, HalInv, WriteRestart(n)
    PROVE  HalInv'
<1> USE DEF HalInv, WriteRestart, RequestInit, Goto, SetState, hw
<1>1. HalTypeOK'
  BY DEF HalTypeOK, Locations, States, Modes, Statuses, MailboxStatuses
<1>2. ModeInv'
  BY DEF HalTypeOK, ModeInv, MailboxInv
<1>3. HandleInv'
  BY DEF HalTypeOK, HandleInv
<1>4. MailboxInv'
  BY DEF HalTypeOK, MailboxInv, ModeInv, Outstanding, Listening, OnBus
<1> QED
  BY <1>1, <1>2, <1>3, <1>4

\* write_can stores a well-formed frame or returns one of its codes.
LEMMA write_canStep ==
    ASSUME NEW n \in Node, NEW address \in Nat, NEW data \in Payload,
           NEW length \in Nat, HalInv, write_can(n, address, data, length)
    PROVE  HalInv'
<1> USE DEF HalInv, write_can, Goto, Return, hw
<1>1. HalTypeOK'
  <2>1. msg[n] \in [ide : {"STD", "EXT"}, id : Nat, dlc : 0..8, data : Payload]
    BY DEF HalTypeOK, Frame
  <2>2. \/ UNCHANGED rval
        \/ \E r \in -5..8 : rval' = [rval EXCEPT ![n] = r]
    BY DEF RET_TOO_MUCH_DATA, RET_BAD_ADDRESS
  <2>3. \/ UNCHANGED msg
        \/ \E f \in Frame : msg' = [msg EXCEPT ![n] = f]
    <3> USE DEF Frame, Prepare
    <3>0. ExtMax \in Nat
      BY SMT DEF ExtMax
    <3>1. msg[n].ide \in {"STD", "EXT"} /\ msg[n].id \in Nat
      BY <2>1
    <3>2. CASE length > 8
      BY <3>2
    <3>3. CASE length <= 8 /\ address > ExtMax
      <4> DEFINE f == [ide |-> msg[n].ide, id |-> msg[n].id,
                       dlc |-> length, data |-> data]
      <4>1. f \in Frame
        BY <3>1, <3>3
      <4>2. msg' = [msg EXCEPT ![n] = f]
        BY <3>0, <3>3
      <4> QED
        BY <4>1, <4>2
    <3>4. CASE length <= 8 /\ address <= ExtMax
      <4> DEFINE ide == IF address <= StdMax THEN "STD" ELSE "EXT"
      <4>1. [ide |-> ide, id |-> address, dlc |-> length, data |-> data] \in Frame
        BY <3>4
      <4>2. msg' = [msg EXCEPT ![n] =
                [ide |-> ide, id |-> address, dlc |-> length, data |-> data]]
        BY <3>0, <3>4
      <4> QED
        BY <4>1, <4>2
    <3> QED
      BY <3>0, <3>2, <3>3, <3>4
  <2>4. msg' \in [Node -> Frame]
    BY <2>3 DEF HalTypeOK
  <2>5. rval' \in [Node -> -5..8]
    BY <2>2 DEF HalTypeOK
  <2> QED
    BY <2>4, <2>5 DEF HalTypeOK, Locations
<1>2. ModeInv'
  BY DEF HalTypeOK, ModeInv
<1>3. HandleInv'
  BY DEF HalTypeOK, HandleInv
<1>4. MailboxInv'
  BY DEF HalTypeOK, MailboxInv, Outstanding, Listening, OnBus
<1> QED
  BY <1>1, <1>2, <1>3, <1>4

\* The lowest free mailbox exists as soon as one is free.
LEMMA FirstFreeType ==
    ASSUME NEW n \in Node, NEW j \in Mailboxes, Free(n, j)
    PROVE  FirstFree(n) \in Mailboxes /\ Free(n, FirstFree(n))
<1> DEFINE Lowest(k) == Free(n, k) /\ \A i \in Mailboxes : Free(n, i) => k <= i
<1>1. \E k \in Mailboxes : Lowest(k)
  <2>1. CASE Free(n, 0)
    BY <2>1 DEF Mailboxes
  <2>2. CASE ~Free(n, 0) /\ Free(n, 1)
    BY <2>2 DEF Mailboxes
  <2>3. CASE ~Free(n, 0) /\ ~Free(n, 1)
    BY <2>3 DEF Mailboxes
  <2> QED
    BY <2>1, <2>2, <2>3
<1> HIDE DEF Lowest
<1>2. (CHOOSE k \in Mailboxes : Lowest(k)) \in Mailboxes
      /\ Lowest(CHOOSE k \in Mailboxes : Lowest(k))
  BY <1>1
<1>3. FirstFree(n) = CHOOSE k \in Mailboxes : Lowest(k)
  BY DEF FirstFree, Lowest
<1> QED
  BY <1>2, <1>3 DEF Lowest

\* HAL_CAN_Transmit finds every mailbox free and the handle unlocked.
LEMMA TransmitAccepted ==
    ASSUME NEW n \in Node, HalInv, TransmitRequest(n)
    PROVE  LET k == FirstFree(n)
           IN  /\ pc[n] = "transmit" /\ k \in Mailboxes /\ Free(n, k)
               /\ \E state \in {"BUSY_TX", "BUSY_TX_RX"} : SetState(n, state, TRUE)
               /\ mailbox' = [mailbox EXCEPT ![n] = k]
               /\ tme' = [tme EXCEPT ![n][k] = "pending"]
               /\ out' = [out EXCEPT ![n][k] = msg[n]]
               /\ ticks' = [ticks EXCEPT ![n] = 0]
               /\ pc' = [pc EXCEPT ![n] = "poll_tx"]
               /\ UNCHANGED <<canError, msg, RxMessage, rval, mode, off, fifo,
                              filter, bus>>
<1> DEFINE k == FirstFree(n)
<1>1. pc[n] = "transmit"
  BY DEF TransmitRequest
<1>2. \A j \in Mailboxes : Free(n, j)
  <2>1. \A j \in Mailboxes : tme[n][j] \in MailboxStatuses
    BY DEF HalInv, HalTypeOK
  <2>2. \A j \in Mailboxes : tme[n][j] # "pending" /\ tme[n][j] # "aborting"
    BY <1>1 DEF HalInv, MailboxInv
  <2> QED
    BY <2>1, <2>2 DEF Free, MailboxStatuses
<1>3. k \in Mailboxes /\ Free(n, k)
  BY <1>2, FirstFreeType DEF Mailboxes
<1>4. ~hcan[n].Lock
  BY <1>1 DEF HalInv, HandleInv
<1> QED
  BY <1>1, <1>2, <1>3, <1>4 DEF TransmitRequest, Goto

\* The request takes that mailbox and the lock.
LEMMA TransmitRequestStep ==
    ASSUME NEW n \in Node, HalInv, TransmitRequest(n)
    PROVE  HalInv'
<1>1. PICK k \in Mailboxes :
        /\ pc[n] = "transmit"
        /\ \E state \in {"BUSY_TX", "BUSY_TX_RX"} : SetState(n, state, TRUE)
        /\ mailbox' = [mailbox EXCEPT ![n] = k]
        /\ tme' = [tme EXCEPT ![n][k] = "pending"]
        /\ out' = [out EXCEPT ![n][k] = msg[n]]
        /\ ticks' = [ticks EXCEPT ![n] = 0]
        /\ pc' = [pc EXCEPT ![n] = "poll_tx"]
        /\ UNCHANGED <<canError, msg, RxMessage, rval, mode, off, fifo, filter, bus>>
  BY TransmitAccepted
<1>2. HalTypeOK'
  BY <1>1 DEF HalInv, HalTypeOK, SetState, Locations, States, MailboxStatuses
<1>3. ModeInv'
  BY <1>1 DEF HalInv, HalTypeOK, ModeInv
<1>4. HandleInv'
  BY <1>1 DEF HalInv, HalTypeOK, HandleInv, SetState
<1>5. MailboxInv'
  BY <1>1 DEF HalInv, HalTypeOK, MailboxInv, SetState, Outstanding, Listening, OnBus
<1> QED
  BY <1>2, <1>3, <1>4, <1>5 DEF HalInv

\* read_can always leaves the handle unlocked.
LEMMA read_canStep ==
    ASSUME NEW n \in Node, NEW length \in Nat, HalInv, read_can(n, length)
    PROVE  HalInv'
<1>1. /\ pc[n] = "idle"
      /\ UNCHANGED <<pc, msg, mailbox, ticks, canError, mode, off, tme, out,
                     filter, bus>>
  BY DEF read_can, HAL_CAN_Receive
<1>2. ~hcan[n].Lock
  BY <1>1 DEF HalInv, HandleInv
<1>3. /\ hcan' \in [Node -> [State : States, Lock : BOOLEAN]]
      /\ ~hcan'[n].Lock
      /\ \A m \in Node \ {n} : hcan'[m] = hcan[m]
  <2>1. CASE UNCHANGED hcan
    BY <1>2, <2>1 DEF HalInv, HalTypeOK
  <2>2. CASE \E state \in States :
                hcan' = [hcan EXCEPT ![n] = [State |-> state, Lock |-> FALSE]]
    BY <2>2 DEF HalInv, HalTypeOK
  <2>3. \/ UNCHANGED hcan
        \/ SetState(n, "TIMEOUT", FALSE)
        \/ SetState(n, "BUSY_TX", FALSE)
        \/ SetState(n, "READY", FALSE)
    BY <1>2 DEF read_can, HAL_CAN_Receive
  <2>4. {"TIMEOUT", "BUSY_TX", "READY"} \subseteq States
    BY DEF States
  <2> QED
    BY <2>1, <2>2, <2>3, <2>4 DEF SetState
<1>4. /\ fifo' \in [Node -> Seq(Frame)]
      /\ RxMessage' \in [Node -> Frame]
      /\ rval' \in [Node -> -5..8]
  <2>1. CASE fifo' = fifo /\ RxMessage' = RxMessage
             /\ \E r \in {-2, -3, -4} : Return(n, r)
    BY <2>1 DEF HalInv, HalTypeOK, Return
  <2>2. CASE /\ fifo[n] # <<>>
             /\ RxMessage' = [RxMessage EXCEPT ![n] = Head(fifo[n])]
             /\ fifo' = [fifo EXCEPT ![n] = Tail(@)]
             /\ Return(n, Head(fifo[n]).dlc)
    <3>1. fifo[n] \in Seq(Frame)
      BY DEF HalInv, HalTypeOK
    <3>2. Head(fifo[n]) \in Frame /\ Tail(fifo[n]) \in Seq(Frame)
      BY <2>2, <3>1
    <3>3. Head(fifo[n]).dlc \in -5..8
      BY <3>2 DEF Frame
    <3> QED
      BY <2>2, <3>2, <3>3 DEF HalInv, HalTypeOK, Return
  <2> QED
    BY <2>1, <2>2 DEF read_can, HAL_CAN_Receive, RET_TOO_MUCH_DATA, RET_TIMEOUT, RET_BUSY
<1>5. HalTypeOK'
  BY <1>1, <1>3, <1>4 DEF HalInv, HalTypeOK
<1>6. ModeInv'
  BY <1>1 DEF HalInv, ModeInv
<1>7. HandleInv'
  BY <1>1, <1>3 DEF HalInv, HandleInv
<1>8. MailboxInv'
  BY <1>1, <1>3 DEF HalInv, MailboxInv, Outstanding, Listening, OnBus
<1> QED
  BY <1>5, <1>6, <1>7, <1>8 DEF HalInv

-----------------------------------------------------------------------------
(* ... and by each step of the peripherals and the bus. *)

\* Only a pending mailbox of a listening station gets on the bus.
LEMMA StartOfFrameStep ==
    ASSUME NEW n \in Node, NEW k \in Mailboxes, HalInv, StartOfFrame(n, k)
    PROVE  HalInv'
<1> USE DEF HalInv, StartOfFrame, sw
<1>1. HalTypeOK'
  BY DEF HalTypeOK, OnBus
<1>2. ModeInv'
  BY DEF ModeInv
<1>3. HandleInv'
  BY DEF HandleInv
<1>4. MailboxInv'
  BY DEF MailboxInv, Contends, Outstanding, Listening, OnBus, Quiet
<1> QED
  BY <1>1, <1>2, <1>3, <1>4

\* A frame that ended leaves its mailbox sent and the bus quiet.
LEMMA EndOfFrameStep ==
    ASSUME NEW n \in Node, NEW k \in Mailboxes, HalInv, EndOfFrame(n, k)
    PROVE  HalInv'
<1> USE DEF HalInv, EndOfFrame, sw
<1>1. HalTypeOK'
  <2>1. fifo' \in [Node -> Seq(Frame)]
    BY DeliverType DEF HalTypeOK
  <2> QED
    BY <2>1 DEF HalTypeOK, MailboxStatuses
<1>2. ModeInv'
  BY DEF ModeInv
<1>3. HandleInv'
  BY DEF HandleInv
<1>4. MailboxInv'
  BY DEF HalTypeOK, MailboxInv, Outstanding, Listening, OnBus, Quiet
<1> QED
  BY <1>1, <1>2, <1>3, <1>4

\* A frame that failed leaves its mailbox pending, or empty when aborted.
LEMMA ErrorFrameStep ==
    ASSUME NEW n \in Node, NEW k \in Mailboxes, HalInv, ErrorFrame(n, k)
    PROVE  HalInv'
<1> USE DEF HalInv, ErrorFrame, sw
<1>1. HalTypeOK'
  <2>1. fifo' \in [Node -> Seq(Frame)]
    BY DeliverType DEF HalTypeOK
  <2>2. tme' \in [Node -> [Mailboxes -> MailboxStatuses]]
    BY DEF HalTypeOK, MailboxStatuses
  <2>3. off' \in [Node -> BOOLEAN]
    BY DEF HalTypeOK
  <2> QED
    BY <2>1, <2>2, <2>3 DEF HalTypeOK
<1>2. ModeInv'
  BY DEF ModeInv
<1>3. HandleInv'
  BY DEF HandleInv
<1>4. MailboxInv'
  BY DEF HalTypeOK, MailboxInv, Outstanding, Listening, OnBus, Quiet
<1> QED
  BY <1>1, <1>2, <1>3, <1>4

\* INAK is set only when the station has nothing on the bus.
LEMMA AcknowledgeInitStep ==
    ASSUME NEW n \in Node, HalInv, AcknowledgeInit(n)
    PROVE  HalInv'
<1> USE DEF HalInv, AcknowledgeInit, sw
<1>1. HalTypeOK'
  BY DEF HalTypeOK, Modes
<1>2. ModeInv'
  BY DEF HalTypeOK, ModeInv
<1>3. HandleInv'
  BY DEF HandleInv
<1>4. MailboxInv'
  <2>1. \A k \in Mailboxes : bus # OnBus(n, k)
    BY DEF MailboxInv, Listening, OnBus, Quiet
  <2> QED
    BY <2>1 DEF HalTypeOK, MailboxInv, Outstanding, Listening
<1> QED
  BY <1>1, <1>2, <1>3, <1>4

\* Leaving initialisation mode touches no mailbox.
LEMMA SynchroniseStep ==
    ASSUME NEW n \in Node, HalInv, Synchronise(n)
    PROVE  HalInv'
<1> USE DEF HalInv, Synchronise, sw
<1>1. HalTypeOK'
  BY DEF HalTypeOK, Modes
<1>2. ModeInv'
  BY DEF HalTypeOK, ModeInv
<1>3. HandleInv'
  BY DEF HandleInv
<1>4. MailboxInv'
  BY DEF HalTypeOK, MailboxInv, Outstanding, Listening, OnBus, Quiet
<1> QED
  BY <1>1, <1>2, <1>3, <1>4

-----------------------------------------------------------------------------
(* The theorems *)

\* The invariant holds after power-on.
LEMMA InitEstablishes == HalInit => HalInv
<1> SUFFICES ASSUME HalInit PROVE HalInv
  OBVIOUS
<1> USE DEF HalInit
<1>1. HalTypeOK
  <2>1. NoFrame \in Frame
    BY CanHalAssumption DEF NoFrame, Frame
  <2> QED
    BY <2>1 DEF HalTypeOK, Locations, States, Modes, MailboxStatuses, Mailboxes
<1>2. ModeInv
  BY DEF ModeInv
<1>3. HandleInv
  BY DEF HandleInv
<1>4. MailboxInv
  BY DEF MailboxInv, OnBus, Quiet
<1> QED
  BY <1>1, <1>2, <1>3, <1>4 DEF HalInv

\* The invariant depends on the variables of the module only.
LEMMA StutterStep ==
    ASSUME HalInv, UNCHANGED halVars
    PROVE  HalInv'
BY DEF HalInv, HalTypeOK, ModeInv, HandleInv, MailboxInv, Outstanding, Listening,
       halVars, sw, hw

\* Every step of the system keeps the invariant.
LEMMA NextPreserves ==
    ASSUME HalInv, [HalNext]_halVars
    PROVE  HalInv'
<1>1. CASE UNCHANGED halVars
  BY <1>1, StutterStep
<1>2. ASSUME NEW n \in Node, Driver(n)
      PROVE  HalInv'
  BY <1>2, MX_CAN_InitStep, EnterInitPollStep, EnterInitTimeoutStep,
     EnterInitDoneStep, LeaveInitDoneStep, DeactivateFilterStep,
     ActivateFilterStep, TransmitRequestStep, TransmitPollStep,
     TransmitTimeoutStep, TransmitDoneStep, WriteReturnStep, WriteRestartStep
     DEF Driver
<1>3. ASSUME NEW n \in Node, Hardware(n)
      PROVE  HalInv'
  BY <1>3, StartOfFrameStep, EndOfFrameStep, ErrorFrameStep,
     AcknowledgeInitStep, SynchroniseStep DEF Hardware
<1>4. ASSUME NEW n \in Node, Client(n)
      PROVE  HalInv'
  <2>1. \A address \in Address[n] : address \in Nat
    BY CanHalAssumption
  <2>2. \A length \in Length : length \in Nat
    BY CanHalAssumption
  <2> QED
    BY <1>4, <2>1, <2>2, write_canStep, read_canStep DEF Client
<1> QED
  BY <1>1, <1>2, <1>3, <1>4 DEF HalNext

\* The processor's place in the driver, the handle, the mailboxes and the
\* peripheral's mode stay in step in every behaviour: the inductive invariant.
THEOREM Invariance == HalSpec => []HalInv
<1>1. HalInv /\ [HalNext]_halVars => HalInv'
  BY NextPreserves
<1> QED
  BY InitEstablishes, <1>1, PTL DEF HalSpec

\* Every variable keeps its type; in particular write_can and read_can return
\* one of their error codes or a count of at most 8.
THEOREM TypeCorrect == HalSpec => []HalTypeOK
<1>1. HalInv => HalTypeOK
  BY DEF HalInv
<1> QED
  BY Invariance, <1>1, PTL

\* A mailbox in use, or on the bus, is one of a call that is running.
LEMMA MailboxesFree == HalInv => NothingOutstanding
<1> SUFFICES ASSUME HalInv, NEW n \in Node, pc[n] \in {"idle", "transmit"},
                    NEW k \in Mailboxes
             PROVE  ~Outstanding(n, k) /\ bus # OnBus(n, k)
  BY DEF NothingOutstanding
<1>1. ~Outstanding(n, k)
  BY DEF HalInv, MailboxInv, Outstanding
<1>2. bus = OnBus(n, k) => Outstanding(n, k)
  BY DEF HalInv, MailboxInv
<1> QED
  BY <1>1, <1>2

\* write_can leaves no frame behind in the peripheral when it returns, so no
\* frame of an earlier call can reach the bus late.
THEOREM NoLateFrame == HalSpec => []NothingOutstanding
BY Invariance, MailboxesFree, PTL

\* HAL_CAN_Transmit is never refused for a locked handle or full mailboxes.
THEOREM TransmitNotRefused == HalSpec => []NeverRefused
<1>1. HalInv => NeverRefused
  BY DEF HalInv, HandleInv, NeverRefused
<1> QED
  BY Invariance, <1>1, PTL

\* Outside the driver, the station is in normal mode with its filter active.
THEOREM Online == HalSpec => []OnlineWhenIdle
<1>1. HalInv => OnlineWhenIdle
  BY DEF HalInv, ModeInv, OnlineWhenIdle
<1> QED
  BY Invariance, <1>1, PTL

-----------------------------------------------------------------------------
(* The driver implements the port its clients see. *)

\* A step that leaves the phases, the running frames, the FIFOs and the
\* results alone is no step of the port.
LEMMA PortStutter ==
    ASSUME \A m \in Node : PortPhase(m)' = PortPhase(m) /\ PortFrame(m)' = PortFrame(m),
           UNCHANGED <<fifo, rval>>
    PROVE  UNCHANGED Port!vars
BY DEF Port!vars

\* The invariant behind the mapping holds after power-on ...
LEMMA PortInit == HalInit => PortInv /\ Port!Init
<1> SUFFICES ASSUME HalInit PROVE PortInv /\ Port!Init
  OBVIOUS
<1>1. PortInv
  BY DEF HalInit, PortInv, Outstanding
<1>2. Port!Init
  BY DEF HalInit, Port!Init, PortPhase, PortFrame
<1> QED
  BY <1>1, <1>2

\* ... and a step of a processor keeps it.
LEMMA DriverPort ==
    ASSUME NEW n \in Node, HalInv, PortInv, Driver(n)
    PROVE  PortInv'
<1> USE DEF HalInv, HalTypeOK, PortInv, Outstanding, Goto, SetState, hw
<1>1. CASE MX_CAN_Init(n)
  BY <1>1 DEF MX_CAN_Init, RequestInit
<1>2. CASE EnterInitPoll(n) \/ EnterInitTimeout(n)
  BY <1>2 DEF EnterInitPoll, EnterInitTimeout
<1>3. CASE EnterInitDone(n) \/ LeaveInitDone(n) \/ DeactivateFilter(n)
  BY <1>3 DEF EnterInitDone, LeaveInitDone, DeactivateFilter
<1>4. CASE ActivateFilter(n)
  BY <1>4 DEF ActivateFilter, MailboxInv, Prepare
<1>5. CASE TransmitPoll(n)
  BY <1>5 DEF TransmitPoll
<1>6. CASE TransmitTimeout(n)
  BY <1>6 DEF TransmitTimeout, Cancelled, MailboxInv
<1>7. CASE TransmitDone(n)
  BY <1>7 DEF TransmitDone, MailboxInv
<1>8. CASE WriteReturn(n)
  BY <1>8 DEF WriteReturn
<1>9. CASE WriteRestart(n)
  BY <1>9 DEF WriteRestart, RequestInit, HandleInv, Statuses
<1>10. CASE TransmitRequest(n)
  BY <1>10 DEF TransmitRequest
<1> QED
  BY <1>1, <1>2, <1>3, <1>4, <1>5, <1>6, <1>7, <1>8, <1>9, <1>10 DEF Driver

\* So does a step of the hardware ...
LEMMA HardwarePort ==
    ASSUME NEW n \in Node, HalInv, PortInv, Hardware(n)
    PROVE  PortInv'
<1> USE DEF HalInv, HalTypeOK, PortInv, Outstanding, sw
<1>1. CASE \E k \in Mailboxes : StartOfFrame(n, k)
  BY <1>1 DEF StartOfFrame
<1>2. CASE \E k \in Mailboxes : EndOfFrame(n, k)
  BY <1>2 DEF EndOfFrame
<1>3. CASE \E k \in Mailboxes : ErrorFrame(n, k)
  BY <1>3 DEF ErrorFrame, MailboxInv
<1>4. CASE AcknowledgeInit(n) \/ Synchronise(n)
  BY <1>4 DEF AcknowledgeInit, Synchronise
<1> QED
  BY <1>1, <1>2, <1>3, <1>4 DEF Hardware

\* ... and a call.
LEMMA ClientPort ==
    ASSUME NEW n \in Node, HalInv, PortInv, Client(n)
    PROVE  PortInv'
<1> USE DEF HalInv, HalTypeOK, PortInv, Outstanding
<1>1. ASSUME NEW address, NEW data, NEW length, write_can(n, address, data, length)
      PROVE  PortInv'
  BY <1>1 DEF write_can, MailboxInv, Prepare, Goto, hw
<1>2. ASSUME NEW length, read_can(n, length)
      PROVE  PortInv'
  BY <1>2 DEF read_can
<1> QED
  BY <1>1, <1>2 DEF Client

\* Inside the driver only ActivateFilter and WriteReturn are seen by the
\* client: they start the station or return from a call of write_can.
LEMMA DriverSilent ==
    ASSUME NEW n \in Node, HalInv, PortInv, Driver(n),
           ~ActivateFilter(n), ~WriteReturn(n)
    PROVE  UNCHANGED Port!vars
<1>1. TransmitRequest(n) =>
        \E k \in Mailboxes :
            /\ pc[n] = "transmit"
            /\ mailbox' = [mailbox EXCEPT ![n] = k]
            /\ tme' = [tme EXCEPT ![n][k] = "pending"]
            /\ pc' = [pc EXCEPT ![n] = "poll_tx"]
            /\ UNCHANGED <<canError, msg, fifo, rval>>
  BY TransmitAccepted
<1>2. /\ \A m \in Node : PortPhase(m)' = PortPhase(m) /\ PortFrame(m)' = PortFrame(m)
      /\ UNCHANGED <<fifo, rval>>
  <2> USE DEF HalInv, HalTypeOK, PortInv, PortPhase, PortFrame, Goto
  <2>1. CASE MX_CAN_Init(n)
    BY <2>1 DEF MX_CAN_Init, RequestInit
  <2>2. CASE EnterInitPoll(n)
    BY <2>2 DEF EnterInitPoll, hw
  <2>8. CASE EnterInitTimeout(n)
    BY <2>8 DEF EnterInitTimeout, hw
  <2>3. CASE EnterInitDone(n) \/ LeaveInitDone(n) \/ DeactivateFilter(n)
    BY <2>3 DEF EnterInitDone, LeaveInitDone, DeactivateFilter, hw
  <2>4. CASE TransmitPoll(n)
    BY <2>4 DEF TransmitPoll, hw
  <2>9. CASE TransmitDone(n)
    BY <2>9 DEF TransmitDone, hw
  <2>5. CASE TransmitTimeout(n)
    BY <2>5 DEF TransmitTimeout, Cancelled
  <2>6. CASE WriteRestart(n)
    BY <2>6 DEF WriteRestart, RequestInit, HandleInv
  <2>7. CASE TransmitRequest(n)
    <3>1. PICK k \in Mailboxes :
            /\ pc[n] = "transmit"
            /\ mailbox' = [mailbox EXCEPT ![n] = k]
            /\ tme' = [tme EXCEPT ![n][k] = "pending"]
            /\ pc' = [pc EXCEPT ![n] = "poll_tx"]
            /\ UNCHANGED <<canError, msg, fifo, rval>>
      BY <1>1, <2>7
    <3>2. \A m \in Node : m # n => /\ pc'[m] = pc[m] /\ mailbox'[m] = mailbox[m]
                                   /\ tme'[m] = tme[m]
      BY <3>1
    <3>3. pc'[n] = "poll_tx" /\ mailbox'[n] = k /\ tme'[n][k] = "pending"
      BY <3>1
    <3>4. PortPhase(n) = "sending" /\ PortPhase(n)' = "sending"
      BY <3>1, <3>3
    <3> HIDE DEF HalInv, HalTypeOK, PortInv
    <3> QED
      BY <3>1, <3>2, <3>4
  <2> QED
    BY <2>1, <2>2, <2>3, <2>4, <2>5, <2>6, <2>7, <2>8, <2>9 DEF Driver
<1> QED
  BY <1>2, PortStutter

\* ActivateFilter ends the start-up, or a call that restarted the bus.
LEMMA ActivateFilterImplements ==
    ASSUME NEW n \in Node, HalInv, PortInv, ActivateFilter(n)
    PROVE  Port!Started(n) \/ \E r \in -5..8 : Port!Return(n, r)
<1>1. /\ pc \in [Node -> Locations] /\ msg \in [Node -> Frame]
      /\ rval \in [Node -> -5..8]
      /\ canError \in [Node -> Statuses \cup {"none"}]
  BY DEF HalInv, HalTypeOK
<1>2. /\ pc[n] = "activate_filter"
      /\ pc' = [pc EXCEPT ![n] = "idle"]
      /\ \A m \in Node : m # n => msg'[m] = msg[m]
      /\ UNCHANGED <<canError, tme, mailbox, fifo>>
  BY <1>1 DEF ActivateFilter, Goto, Prepare
<1>3. /\ \A m \in Node : m # n => /\ PortPhase(m)' = PortPhase(m)
                                  /\ PortFrame(m)' = PortFrame(m)
      /\ PortPhase(n)' = "idle" /\ PortFrame(n)' = NoFrame
  BY <1>1, <1>2 DEF PortPhase, PortFrame
<1>4. CASE canError[n] = "none"
  <2>1. PortPhase(n) = "starting" /\ PortFrame(n) = NoFrame
    BY <1>2, <1>4 DEF PortPhase, PortFrame
  <2>2. UNCHANGED rval
    BY <1>4 DEF ActivateFilter
  <2>3. Port!Started(n)
    BY <1>2, <1>3, <2>1, <2>2 DEF Port!Started
  <2> QED
    BY <2>3
<1>5. CASE canError[n] # "none"
  <2>1. canError[n] = "HAL_TIMEOUT"
    BY <1>2, <1>5 DEF PortInv
  <2>2. rval' = [rval EXCEPT ![n] = RET_TIMEOUT]
    BY <1>5, <2>1 DEF ActivateFilter, Return, WriteResult, can_return_error
  <2>3. PortPhase(n) \in {"sending", "acked"}
    BY <1>2, <1>5 DEF PortPhase
  <2>4. RET_TIMEOUT \in -5..8 /\ RET_TIMEOUT \notin 0..8
    BY DEF RET_TIMEOUT
  <2>5. Port!Return(n, RET_TIMEOUT)
    BY <1>2, <1>3, <2>2, <2>3, <2>4 DEF Port!Return, Port!Success
  <2> QED
    BY <2>4, <2>5
<1> QED
  BY <1>4, <1>5

\* WriteReturn reports success only for a mailbox that was sent.
LEMMA WriteReturnImplements ==
    ASSUME NEW n \in Node, HalInv, PortInv, WriteReturn(n)
    PROVE  \E r \in -5..8 : Port!Return(n, r)
<1>1. /\ pc \in [Node -> Locations]
      /\ rval \in [Node -> -5..8]
  BY DEF HalInv, HalTypeOK
<1>2. /\ pc[n] = "transmitted" /\ canError[n] \in {"HAL_OK", "HAL_TIMEOUT"}
      /\ pc' = [pc EXCEPT ![n] = "idle"]
      /\ rval' = [rval EXCEPT ![n] = WriteResult(n)]
      /\ UNCHANGED <<canError, msg, tme, mailbox, fifo>>
  BY DEF WriteReturn, Goto, Return, hw, HalInv, HalTypeOK, HandleInv, Statuses
<1>3. /\ \A m \in Node : m # n => /\ PortPhase(m)' = PortPhase(m)
                                  /\ PortFrame(m)' = PortFrame(m)
      /\ PortPhase(n)' = "idle" /\ PortFrame(n)' = NoFrame
  BY <1>1, <1>2 DEF PortPhase, PortFrame
<1>4. PICK r \in -5..8 : r = WriteResult(n)
  BY <1>2, WriteResultType DEF HalInv
<1>5. PortPhase(n) \in {"sending", "acked"}
  BY <1>2 DEF PortPhase
<1>6. r \in 0..8 => PortPhase(n) = "acked"
  <2>1. CASE canError[n] = "HAL_OK"
    BY <1>2, <2>1 DEF PortInv, PortPhase
  <2>2. CASE canError[n] = "HAL_TIMEOUT"
    BY <1>4, <2>2 DEF WriteResult, can_return_error, RET_TIMEOUT
  <2> QED
    BY <1>2, <2>1, <2>2
<1>7. Port!Return(n, r)
  BY <1>2, <1>3, <1>4, <1>5, <1>6 DEF Port!Return, Port!Success
<1> QED
  BY <1>7

\* A call of write_can fails at once or starts sending.
LEMMA write_canImplements ==
    ASSUME NEW n \in Node, NEW address \in Address[n], NEW data \in Payload,
           NEW length \in Length, HalInv, write_can(n, address, data, length)
    PROVE  \/ \E r \in -5..8 : Port!Fail(n, r)
           \/ \E f \in Sendable : f.id = address /\ f.data = data /\ Port!Send(n, f)
<1>1. /\ pc \in [Node -> Locations] /\ msg \in [Node -> Frame]
      /\ rval \in [Node -> -5..8]
      /\ address \in Nat /\ length \in Nat
  BY CanHalAssumption DEF HalInv, HalTypeOK
<1>2. /\ pc[n] = "idle"
      /\ UNCHANGED <<canError, tme, mailbox, fifo>>
  BY DEF write_can, hw
<1>3. PortPhase(n) = "idle" /\ PortFrame(n) = NoFrame
  BY <1>2 DEF PortPhase, PortFrame
<1>4. CASE length > 8 \/ address > ExtMax
  <2>1. /\ \A m \in Node : m # n => msg'[m] = msg[m]
        /\ pc' = pc
        /\ \E r \in {RET_TOO_MUCH_DATA, RET_BAD_ADDRESS} : Return(n, r)
    BY <1>1, <1>4 DEF write_can, Prepare, ExtMax
  <2>2. \A m \in Node : PortPhase(m)' = PortPhase(m) /\ PortFrame(m)' = PortFrame(m)
    BY <1>1, <1>2, <2>1 DEF PortPhase, PortFrame
  <2>3. PICK r \in -5..8 : r < 0 /\ Return(n, r)
    BY <2>1 DEF RET_TOO_MUCH_DATA, RET_BAD_ADDRESS
  <2>4. Port!Fail(n, r)
    BY <1>2, <1>3, <2>2, <2>3 DEF Port!Fail, Return
  <2> QED
    BY <2>4
<1>5. CASE ~(length > 8 \/ address > ExtMax)
  <2> DEFINE ide == IF address <= StdMax THEN "STD" ELSE "EXT"
             f == [ide |-> ide, id |-> address, dlc |-> length, data |-> data]
  <2>1. /\ pc' = [pc EXCEPT ![n] = "transmit"] /\ UNCHANGED rval
        /\ msg' = [msg EXCEPT ![n] = f]
    BY <1>1, <1>2, <1>5 DEF write_can, Prepare, Goto, ExtMax
  <2>2. f \in Sendable /\ f.id = address /\ f.data = data
    BY <1>1 DEF Sendable
  <2> HIDE DEF f
  <2>3. /\ \A m \in Node : m # n => /\ PortPhase(m)' = PortPhase(m)
                                    /\ PortFrame(m)' = PortFrame(m)
        /\ PortPhase(n)' = "sending" /\ PortFrame(n)' = f
    BY <1>1, <1>2, <2>1 DEF PortPhase, PortFrame
  <2>4. Port!Send(n, f)
    BY <1>2, <1>3, <2>1, <2>3 DEF Port!Send
  <2> QED
    BY <2>2, <2>4
<1> QED
  BY <1>4, <1>5

\* A call of read_can fails or takes the oldest frame.
LEMMA read_canImplements ==
    ASSUME NEW n \in Node, NEW length \in Length, HalInv, read_can(n, length)
    PROVE  \/ \E r \in -5..8 : Port!Fail(n, r)
           \/ Port!Take(n) /\ RxMessage' = [RxMessage EXCEPT ![n] = Head(fifo[n])]
<1>1. pc[n] = "idle" /\ UNCHANGED <<pc, msg, mailbox, canError, tme>>
  BY DEF read_can
<1>2. /\ PortPhase(n) = "idle"
      /\ \A m \in Node : PortPhase(m)' = PortPhase(m) /\ PortFrame(m)' = PortFrame(m)
  BY <1>1 DEF PortPhase, PortFrame
<1>3. CASE UNCHANGED fifo /\ \E r \in {-2, -3, -4} : Return(n, r)
  <2>1. PICK r \in -5..8 : r < 0 /\ Return(n, r)
    BY <1>3
  <2>2. Port!Fail(n, r)
    BY <1>2, <1>3, <2>1 DEF Port!Fail, Return
  <2> QED
    BY <2>2
<1>4. CASE /\ fifo[n] # <<>>
           /\ fifo' = [fifo EXCEPT ![n] = Tail(@)]
           /\ Return(n, Head(fifo[n]).dlc)
           /\ RxMessage' = [RxMessage EXCEPT ![n] = Head(fifo[n])]
  <2>1. Port!Take(n)
    BY <1>2, <1>4 DEF Port!Take, Return
  <2> QED
    BY <1>4, <2>1
<1>5. \/ UNCHANGED fifo /\ \E r \in {-2, -3, -4} : Return(n, r)
      \/ /\ fifo[n] # <<>>
         /\ fifo' = [fifo EXCEPT ![n] = Tail(@)]
         /\ Return(n, Head(fifo[n]).dlc)
         /\ RxMessage' = [RxMessage EXCEPT ![n] = Head(fifo[n])]
  BY DEF read_can, HAL_CAN_Receive, RET_TOO_MUCH_DATA, RET_TIMEOUT, RET_BUSY
<1> QED
  BY <1>3, <1>4, <1>5

\* What ends on the bus is the frame of a call that is still running, and it
\* reaches some other stations.
LEMMA DeliverPasses ==
    ASSUME NEW n \in Node, NEW k \in Mailboxes, HalInv, PortInv, bus = OnBus(n, k),
           NEW A \in SUBSET Receivers(n), Deliver(A, out[n][k])
    PROVE  /\ PortPhase(n) = "sending" /\ k = mailbox[n] /\ pc[n] # "transmit"
           /\ tme[n][k] # "sent"
           /\ \E B \in SUBSET (Node \ {n}) :
                 fifo' = [m \in Node |-> IF m \in B THEN Port!Hold(fifo[m], PortFrame(n))
                                         ELSE fifo[m]]
<1>1. Outstanding(n, k)
  BY DEF HalInv, MailboxInv
<1>2. /\ k = mailbox[n] /\ tme[n][k] # "sent"
      /\ pc[n] \in {"poll_tx", "transmitted", "enter_init", "error_handler"}
      /\ canError[n] = "none" => pc[n] = "poll_tx"
      /\ out[n][k] = msg[n]
  BY <1>1 DEF HalInv, MailboxInv, HandleInv, PortInv, Outstanding
<1>3. PortPhase(n) = "sending" /\ PortFrame(n) = msg[n]
  BY <1>2 DEF PortPhase, PortFrame
<1>4. \A q, f : Store(q, f) = Port!Hold(q, f)
  BY DEF Store, Port!Hold
<1> DEFINE B == {m \in A : filter[m]}
<1>5. B \in SUBSET (Node \ {n})
  BY DEF Receivers
<1>6. fifo' = [m \in Node |-> IF m \in B THEN Port!Hold(fifo[m], PortFrame(n)) ELSE fifo[m]]
  BY <1>2, <1>3, <1>4 DEF Deliver
<1> QED
  BY <1>2, <1>3, <1>5, <1>6

\* The bus passes frames on; the rest of the hardware is not seen.
LEMMA HardwareImplements ==
    ASSUME NEW n \in Node, HalInv, PortInv, Hardware(n)
    PROVE  Port!Pass(n) \/ UNCHANGED Port!vars
<1>1. /\ tme \in [Node -> [Mailboxes -> MailboxStatuses]]
      /\ UNCHANGED <<pc, msg, mailbox, canError, rval>>
  BY DEF HalInv, HalTypeOK, Hardware, StartOfFrame, EndOfFrame, ErrorFrame,
         AcknowledgeInit, Synchronise, sw
<1>2. CASE UNCHANGED <<tme, fifo>>
  <2>1. \A m \in Node : PortPhase(m)' = PortPhase(m) /\ PortFrame(m)' = PortFrame(m)
    BY <1>1, <1>2 DEF PortPhase, PortFrame
  <2> QED
    BY <1>1, <1>2, <2>1, PortStutter
<1>3. ASSUME NEW k \in Mailboxes, NEW A \in SUBSET Receivers(n), NEW status,
             bus = OnBus(n, k), Deliver(A, out[n][k]),
             tme' = [tme EXCEPT ![n][k] = status]
      PROVE  Port!Pass(n)
  <2>1. PortPhase(n) = "sending" /\ k = mailbox[n] /\ pc[n] # "transmit"
        /\ tme[n][k] # "sent"
    BY <1>3, DeliverPasses
  <2>2. PICK B \in SUBSET (Node \ {n}) :
           fifo' = [m \in Node |-> IF m \in B THEN Port!Hold(fifo[m], PortFrame(n))
                                   ELSE fifo[m]]
    BY <1>3, DeliverPasses
  <2>3. \A m \in Node : m # n => PortPhase(m)' = PortPhase(m)
    BY <1>1, <1>3 DEF PortPhase
  <2>4. PortPhase(n)' = IF status = "sent" THEN "acked" ELSE "sending"
    <3>1. tme'[n][mailbox'[n]] = status
      BY <1>1, <1>3, <2>1
    <3> QED
      BY <1>1, <2>1, <3>1 DEF PortPhase
  <2>5. \A m \in Node : PortFrame(m)' = PortFrame(m)
    BY <1>1, <2>1, <2>3, <2>4 DEF PortFrame
  <2>6. [m \in Node |-> PortPhase(m)]' \in
           {[m \in Node |-> PortPhase(m)],
            [[m \in Node |-> PortPhase(m)] EXCEPT ![n] = "acked"]}
    BY <2>1, <2>3, <2>4
  <2> QED
    BY <1>1, <2>1, <2>2, <2>5, <2>6 DEF Port!Pass
<1>4. \/ UNCHANGED <<tme, fifo>>
      \/ \E k \in Mailboxes, A \in SUBSET Receivers(n) : \E status :
            /\ bus = OnBus(n, k) /\ Deliver(A, out[n][k])
            /\ tme' = [tme EXCEPT ![n][k] = status]
  <2>1. CASE \E k \in Mailboxes : EndOfFrame(n, k)
    BY <2>1 DEF EndOfFrame
  <2>2. CASE \E k \in Mailboxes : ErrorFrame(n, k)
    BY <2>2 DEF ErrorFrame
  <2>3. CASE \/ \E k \in Mailboxes : StartOfFrame(n, k)
             \/ AcknowledgeInit(n) \/ Synchronise(n)
    BY <2>3 DEF StartOfFrame, AcknowledgeInit, Synchronise
  <2> QED
    BY <2>1, <2>2, <2>3 DEF Hardware
<1> QED
  BY <1>2, <1>3, <1>4

\* Every step of the driver, its hardware and its clients is a step of the
\* port, or no step of it.
LEMMA NextImplements ==
    ASSUME HalInv, PortInv, [HalNext]_halVars
    PROVE  PortInv' /\ [Port!Next]_Port!vars
<1>1. CASE UNCHANGED halVars
  <2>1. PortInv' = PortInv
    BY <1>1 DEF PortInv, Outstanding, halVars, sw, hw
  <2>2. \A m \in Node : PortPhase(m)' = PortPhase(m) /\ PortFrame(m)' = PortFrame(m)
    BY <1>1 DEF PortPhase, PortFrame, halVars, sw, hw
  <2>3. UNCHANGED Port!vars
    BY <1>1, <2>2, PortStutter DEF halVars, sw, hw
  <2> QED
    BY <2>1, <2>3
<1>2. ASSUME NEW n \in Node, Driver(n)
      PROVE  PortInv' /\ [Port!Next]_Port!vars
  BY <1>2, DriverPort, DriverSilent, ActivateFilterImplements, WriteReturnImplements
     DEF Port!Next
<1>3. ASSUME NEW n \in Node, Hardware(n)
      PROVE  PortInv' /\ [Port!Next]_Port!vars
  BY <1>3, HardwarePort, HardwareImplements DEF Port!Next
<1>4. ASSUME NEW n \in Node, Client(n)
      PROVE  PortInv' /\ [Port!Next]_Port!vars
  <2>1. PortInv'
    BY <1>4, ClientPort
  <2>2. Port!Next
    BY <1>4, write_canImplements, read_canImplements DEF Client, Port!Next
  <2> QED
    BY <2>1, <2>2
<1> QED
  BY <1>1, <1>2, <1>3, <1>4 DEF HalNext

\* What the mapping needs holds throughout.
LEMMA PortInvariance == HalSpec => []PortInv
<1>1. HalInit => PortInv
  BY PortInit
<1>2. HalInv /\ PortInv /\ [HalNext]_halVars => PortInv'
  BY NextImplements
<1> QED
  BY <1>1, <1>2, Invariance, PTL DEF HalSpec

\* can.c and the HAL implement CanPort: under any client, any loss, abort and
\* restart, write_can reports success only for a frame that was acknowledged
\* during the call, a frame never shows up after its call, and read_can hands
\* out what arrived in its order.
THEOREM DriverImplementsPort == HalSpec => ImplementsPort
<1>1. HalInit => PortInv /\ Port!Init
  BY PortInit
<1>2. HalInv /\ PortInv /\ [HalNext]_halVars => PortInv' /\ [Port!Next]_Port!vars
  BY NextImplements
<1>3. HalSpec => []HalInv
  BY Invariance
<1> QED
  BY <1>1, <1>2, <1>3, PTL DEF HalSpec, ImplementsPort, Port!Spec

-----------------------------------------------------------------------------
(* A call takes a bounded number of the processor's steps. *)

\* The steps the driver still takes at most, from the place of the processor
\* and the polls its wait has left: a transmission that times out, then the
\* restart.
MaxSteps == 7 + InitPolls + TxPolls
StepsLeft(n) ==
    CASE pc[n] \in {"idle", "error_handler"} -> 0
      [] pc[n] = "activate_filter"           -> 1
      [] pc[n] = "config_filter"             -> 2
      [] pc[n] = "leave_init"                -> 3
      [] pc[n] = "enter_init"                -> 4 + (InitPolls - ticks[n])
      [] pc[n] \in {"reset", "transmitted"}  -> 5 + InitPolls
      [] pc[n] = "poll_tx"                   -> 6 + InitPolls + (TxPolls - ticks[n])
      [] pc[n] = "transmit"                  -> MaxSteps

\* No wait polls beyond its budget.
PollsInv ==
    \A n \in Node : /\ pc[n] = "enter_init" => ticks[n] <= InitPolls
                    /\ pc[n] = "poll_tx" => ticks[n] <= TxPolls

\* A step of the processor in the driver leaves fewer to take; no step of the
\* hardware or of another station changes how many there are, and only a call
\* of the program starts anew.
Advance ==
    \A n \in Node : IF Driver(n) THEN StepsLeft(n)' < StepsLeft(n)
                    ELSE pc[n] = "idle" \/ StepsLeft(n)' = StepsLeft(n)

LEMMA StepsLeftRange ==
    ASSUME NEW n \in Node, HalTypeOK, PollsInv
    PROVE  StepsLeft(n) \in 0..MaxSteps
<1>1. pc[n] \in Locations /\ ticks[n] \in Nat /\ InitPolls \in Nat /\ TxPolls \in Nat
  BY CanHalAssumption DEF HalTypeOK
<1>2. CASE pc[n] = "enter_init"
  BY <1>1, <1>2 DEF PollsInv, StepsLeft, MaxSteps
<1>3. CASE pc[n] = "poll_tx"
  BY <1>1, <1>3 DEF PollsInv, StepsLeft, MaxSteps
<1>4. CASE pc[n] \notin {"enter_init", "poll_tx"}
  BY <1>1, <1>4 DEF Locations, StepsLeft, MaxSteps
<1> QED
  BY <1>2, <1>3, <1>4

\* What a step of station n's driver does to its own place and polls.
LEMMA DriverAdvances ==
    ASSUME NEW n \in Node, HalTypeOK, PollsInv, Driver(n)
    PROVE  /\ StepsLeft(n)' < StepsLeft(n)
           /\ pc'[n] = "enter_init" => ticks'[n] <= InitPolls
           /\ pc'[n] = "poll_tx" => ticks'[n] <= TxPolls
           /\ \A m \in Node \ {n} : pc'[m] = pc[m] /\ ticks'[m] = ticks[m]
<1> USE CanHalAssumption DEF HalTypeOK, Locations, PollsInv, StepsLeft, MaxSteps, Goto
<1>1. CASE MX_CAN_Init(n)
  BY <1>1 DEF MX_CAN_Init, RequestInit
<1>2. CASE EnterInitPoll(n)
  BY <1>2 DEF EnterInitPoll
<1>3. CASE EnterInitTimeout(n)
  BY <1>3 DEF EnterInitTimeout
<1>4. CASE EnterInitDone(n)
  BY <1>4 DEF EnterInitDone
<1>5. CASE LeaveInitDone(n)
  BY <1>5 DEF LeaveInitDone
<1>6. CASE DeactivateFilter(n)
  BY <1>6 DEF DeactivateFilter
<1>7. CASE ActivateFilter(n)
  BY <1>7 DEF ActivateFilter
<1>8. CASE TransmitRequest(n)
  <2>1. /\ pc[n] = "transmit"
        /\ \/ pc' = [pc EXCEPT ![n] = "transmitted"] /\ ticks' = ticks
           \/ pc' = [pc EXCEPT ![n] = "poll_tx"] /\ ticks' = [ticks EXCEPT ![n] = 0]
    BY <1>8 DEF TransmitRequest
  <2> QED
    BY <2>1
<1>9. CASE TransmitPoll(n)
  BY <1>9 DEF TransmitPoll
<1>10. CASE TransmitTimeout(n)
  BY <1>10 DEF TransmitTimeout
<1>11. CASE TransmitDone(n)
  BY <1>11 DEF TransmitDone
<1>12. CASE WriteReturn(n)
  BY <1>12 DEF WriteReturn
<1>13. CASE WriteRestart(n)
  BY <1>13 DEF WriteRestart, RequestInit
<1> QED
  BY <1>1, <1>2, <1>3, <1>4, <1>5, <1>6, <1>7, <1>8, <1>9, <1>10, <1>11, <1>12,
     <1>13 DEF Driver

\* Calls and the hardware leave the stations that are in the driver alone.
LEMMA OthersLeave ==
    ASSUME NEW n \in Node, HalTypeOK, Client(n) \/ Hardware(n)
    PROVE  \A m \in Node : \/ pc'[m] = pc[m] /\ ticks'[m] = ticks[m]
                           \/ pc[m] = "idle" /\ pc'[m] = "transmit"
<1>1. CASE Client(n)
  <2>1. ASSUME NEW address, NEW data, NEW length, write_can(n, address, data, length)
        PROVE  /\ UNCHANGED ticks /\ pc[n] = "idle"
               /\ UNCHANGED pc \/ pc' = [pc EXCEPT ![n] = "transmit"]
    BY <2>1 DEF write_can, Goto
  <2>2. ASSUME NEW length, read_can(n, length)
        PROVE  UNCHANGED <<pc, ticks>>
    BY <2>2 DEF read_can
  <2>3. /\ UNCHANGED ticks
        /\ UNCHANGED pc \/ (pc[n] = "idle" /\ pc' = [pc EXCEPT ![n] = "transmit"])
    BY <1>1, <2>1, <2>2 DEF Client
  <2> QED
    BY <2>3 DEF HalTypeOK
<1>2. CASE Hardware(n)
  BY <1>2 DEF Hardware, StartOfFrame, EndOfFrame, ErrorFrame, AcknowledgeInit,
     Synchronise, sw
<1> QED
  BY <1>1, <1>2

LEMMA StepsStep ==
    ASSUME HalTypeOK, PollsInv, [HalNext]_halVars
    PROVE  PollsInv' /\ Advance
<1> DEFINE Same(m) == pc'[m] = pc[m] /\ ticks'[m] = ticks[m]
           Call(m) == pc[m] = "idle" /\ pc'[m] = "transmit"
<1>1. ASSUME NEW m \in Node, Same(m)
      PROVE  StepsLeft(m)' = StepsLeft(m)
  BY <1>1 DEF StepsLeft
<1>2. ASSUME NEW m \in Node, Driver(m)
      PROVE  StepsLeft(m)' < StepsLeft(m)
  BY <1>2, DriverAdvances
<1>3. CASE \A m \in Node : Same(m) \/ Call(m)
  <2>1. PollsInv'
    BY <1>3 DEF PollsInv
  <2> QED
    BY <1>1, <1>2, <1>3, <2>1 DEF Advance
<1>4. ASSUME NEW n \in Node, Driver(n)
      PROVE  PollsInv' /\ Advance
  <2>1. /\ pc'[n] = "enter_init" => ticks'[n] <= InitPolls
        /\ pc'[n] = "poll_tx" => ticks'[n] <= TxPolls
        /\ \A m \in Node \ {n} : Same(m)
    BY <1>4, DriverAdvances
  <2>2. PollsInv'
    BY <2>1 DEF PollsInv
  <2> QED
    BY <1>1, <1>2, <1>4, <2>1, <2>2 DEF Advance
<1>5. ASSUME NEW n \in Node, Client(n) \/ Hardware(n)
      PROVE  \A m \in Node : Same(m) \/ Call(m)
  BY <1>5, OthersLeave
<1>6. CASE UNCHANGED halVars
  <2>1. \A m \in Node : Same(m)
    BY <1>6 DEF halVars, sw
  <2> QED
    BY <1>3, <2>1
<1>7. CASE HalNext
  <2>1. PICK n \in Node : Driver(n) \/ Hardware(n) \/ Client(n)
    BY <1>7 DEF HalNext
  <2>2. CASE Driver(n)
    BY <1>4, <2>2
  <2>3. CASE Hardware(n) \/ Client(n)
    BY <1>3, <1>5, <2>3
  <2> QED
    BY <2>1, <2>2, <2>3
<1> QED
  BY <1>6, <1>7

\* A call of write_can, with the restart that may follow, takes its processor
\* at most MaxSteps steps, for any budgets: the two waits give up, and the
\* restart does not lead into another.  What is left of CallsEnd is the
\* fairness that makes the processor take them, in particular out of the one
\* wait without a timeout.
THEOREM CallsAreBounded ==
    HalSpec => /\ [](\A n \in Node : StepsLeft(n) \in 0..MaxSteps)
               /\ [][Advance]_halVars
<1>1. HalInit => PollsInv
  BY DEF HalInit, PollsInv
<1>2. HalTypeOK /\ PollsInv /\ [HalNext]_halVars => PollsInv' /\ Advance
  BY StepsStep
<1>3. HalTypeOK /\ PollsInv => \A n \in Node : StepsLeft(n) \in 0..MaxSteps
  BY StepsLeftRange
<1>4. HalSpec => []HalTypeOK
  <2>1. HalInv => HalTypeOK
    BY DEF HalInv
  <2> QED
    BY <2>1, Invariance, PTL
<1> QED
  BY <1>1, <1>2, <1>3, <1>4, PTL DEF HalSpec

=============================================================================
