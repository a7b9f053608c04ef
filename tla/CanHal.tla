------------------------------- MODULE CanHal -------------------------------
(***************************************************************************)
(* The CAN driver of a node and the bus that joins the nodes: can.c        *)
(* (MX_CAN_Init, write_can, read_can) over the polling functions of the    *)
(* STM32F3 HAL (HAL_CAN_Init, _DeInit, _ConfigFilter, _Transmit, _Receive) *)
(* over the bxCAN peripheral.                                              *)
(*                                                                         *)
(* A node's processor runs one call at a time; the peripheral and the bus  *)
(* move on between any two of its register accesses that matter.  The      *)
(* hardware part is external to the repository: it is modelled from the    *)
(* registers and configuration bits the code uses (NART, RFLM, TXFP and    *)
(* ABOM all DISABLEd in MX_CAN_Init).                                      *)
(***************************************************************************)
EXTENDS Integers, Sequences, FiniteSets

CONSTANTS
    Node,       \* the stations on the bus
    Address,    \* of each station, the identifiers it hands to write_can
    Reader,     \* the stations that call read_can
    Length,     \* the lengths handed to write_can and read_can
    Payload,    \* what a frame carries
    ZeroPayload,\* eight zero bytes, the content of a static before its first use
    TxPolls,    \* polls HAL_CAN_Transmit makes before it gives up (100)
    InitPolls,  \* polls HAL_CAN_Init makes before it gives up (CAN_TIMEOUT_VALUE)
    FifoDepth   \* frames a receive FIFO holds (3)

ASSUME CanHalAssumption ==
    /\ Address \in [Node -> SUBSET Nat]
    /\ Reader \subseteq Node
    /\ Length \subseteq Nat
    /\ ZeroPayload \in Payload
    /\ TxPolls \in Nat /\ InitPolls \in Nat
    /\ FifoDepth \in Nat \ {0}

VARIABLES
    \* ---- the software of each node
    pc,        \* where its processor is in the driver; "idle" outside of it
    hcan,      \* the handle myhcan: its State and its Lock
    msg,       \* the static CanTxMsgTypeDef, as the frame it describes
    RxMessage, \* the static CanRxMsgTypeDef
    mailbox,   \* transmitmailbox of the running HAL_CAN_Transmit
    ticks,     \* HAL_GetTick() - tickstart of the running wait, 0 outside
    canError,  \* what the last HAL_CAN_Transmit returned; "none" before it
    rval,      \* what the last write_can or read_can returned
    \* ---- the peripheral of each node
    mode,      \* MCR.INRQ and MSR.INAK: see Modes
    off,       \* bus-off: the error counter has taken the node off the bus
    tme,       \* transmit mailboxes: status of each
    out,       \* transmit mailboxes: frame in each
    fifo,      \* receive FIFO 0
    filter,    \* filter bank 0 is active
    \* ---- the wires
    bus        \* the mailbox whose frame is on the bus, or Quiet

sw == <<pc, hcan, msg, RxMessage, mailbox, ticks, canError, rval>>
hw == <<mode, off, tme, out, fifo, filter, bus>>
halVars == <<sw, hw>>

Mailboxes == 0..2
StdMax == 2047          \* 0x7FF
ExtMax == 536870911     \* 0x1FFFFFFF
InitialId == 305420986  \* 0x12345ABA, what MX_CAN_Init leaves in msg

Frame == [ide : {"STD", "EXT"}, id : Nat, dlc : 0..8, data : Payload]
NoFrame == [ide |-> "STD", id |-> 0, dlc |-> 0, data |-> ZeroPayload]

States == {"RESET", "READY", "BUSY", "BUSY_TX", "BUSY_RX", "BUSY_TX_RX",
           "TIMEOUT", "ERROR"}
Statuses == {"HAL_OK", "HAL_ERROR", "HAL_BUSY", "HAL_TIMEOUT"}
\* sleep: after power-on.  waking, entering: INRQ set, INAK not yet (from
\* sleep, from normal operation).  init: INAK set.  leaving: INRQ cleared.
Modes == {"sleep", "waking", "entering", "init", "leaving", "normal"}
\* empty: TME only.  sent: TME, RQCP, TXOK.  pending: TXRQ.  aborting: TXRQ, ABRQ.
MailboxStatuses == {"empty", "sent", "pending", "aborting"}
Locations == {"reset", "enter_init", "leave_init", "config_filter",
              "activate_filter", "error_handler", "idle", "transmit",
              "poll_tx", "transmitted"}
Quiet == <<"quiet">>
OnBus(n, k) == <<n, k>>

RET_BAD_ADDRESS == -1
RET_TOO_MUCH_DATA == -2
RET_TIMEOUT == -3
RET_BUSY == -4
RET_ERROR == -5

\* can_return_error of can.c
can_return_error(status) ==
    CASE status = "HAL_TIMEOUT" -> RET_TIMEOUT
      [] status = "HAL_BUSY"    -> RET_BUSY
      [] status = "HAL_ERROR"   -> RET_ERROR

HalInit ==
    /\ pc = [n \in Node |-> "reset"]
    /\ hcan = [n \in Node |-> [State |-> "RESET", Lock |-> FALSE]]
    /\ msg = [n \in Node |-> NoFrame]
    /\ RxMessage = [n \in Node |-> NoFrame]
    /\ mailbox = [n \in Node |-> 0]
    /\ ticks = [n \in Node |-> 0]
    /\ canError = [n \in Node |-> "none"]
    /\ rval = [n \in Node |-> 0]
    /\ mode = [n \in Node |-> "sleep"]
    /\ off = [n \in Node |-> FALSE]
    /\ tme = [n \in Node |-> [k \in Mailboxes |-> "empty"]]
    /\ out = [n \in Node |-> [k \in Mailboxes |-> NoFrame]]
    /\ fifo = [n \in Node |-> <<>>]
    /\ filter = [n \in Node |-> FALSE]
    /\ bus = Quiet

Goto(n, loc) == pc' = [pc EXCEPT ![n] = loc]
SetState(n, state, lock) ==
    hcan' = [hcan EXCEPT ![n] = [State |-> state, Lock |-> lock]]
Prepare(n, ide, id, dlc, data) ==
    msg' = [msg EXCEPT ![n] = [ide |-> ide, id |-> id, dlc |-> dlc, data |-> data]]
Return(n, value) == rval' = [rval EXCEPT ![n] = value]

\* Variants: the copy loop does not stop at 8; the HAL's status is ignored.
WriteResult_Uncapped(n) ==
    IF canError[n] = "HAL_OK" THEN msg[n].dlc + 1 ELSE can_return_error(canError[n])
WriteResult_Ignored(n) == msg[n].dlc

\* What write_can returns: the copy loop's index, one past length unless it
\* stopped at 8, or an error code.
WriteResult(n) ==
    IF canError[n] = "HAL_OK"
    THEN IF msg[n].dlc < 8 THEN msg[n].dlc + 1 ELSE 8
    ELSE can_return_error(canError[n])

-----------------------------------------------------------------------------
(* HAL_CAN_Init, HAL_CAN_DeInit, HAL_CAN_ConfigFilter, MX_CAN_Init *)

\* HAL_CAN_Init up to its first wait: the lock is reset only from RESET,
\* SLEEP is cleared and INRQ is set, whatever the peripheral is doing.
RequestInit(n, state, lock) ==
    /\ SetState(n, "BUSY", IF state = "RESET" THEN FALSE ELSE lock)
    /\ mode' = [mode EXCEPT ![n] =
                    IF mode[n] = "sleep" THEN "waking"
                    ELSE IF mode[n] = "init" THEN "init" ELSE "entering"]
    /\ ticks' = [ticks EXCEPT ![n] = 0]
    /\ Goto(n, "enter_init")

\* setup() calls MX_CAN_Init on the freshly reset handle.
MX_CAN_Init(n) ==
    /\ pc[n] = "reset"
    /\ RequestInit(n, hcan[n].State, hcan[n].Lock)
    /\ UNCHANGED <<msg, RxMessage, mailbox, canError, rval,
                   off, tme, out, fifo, filter, bus>>

\* One poll of INAK that finds it clear and has polls left.
EnterInitPoll(n) ==
    /\ pc[n] = "enter_init"
    /\ mode[n] # "init"
    /\ ticks[n] < InitPolls
    /\ ticks' = [ticks EXCEPT ![n] = @ + 1]
    /\ UNCHANGED <<pc, hcan, msg, RxMessage, mailbox, canError, rval, hw>>

\* INAK did not come: HAL_TIMEOUT, which MX_CAN_Init answers with Error_Handler.
EnterInitTimeout(n) ==
    /\ pc[n] = "enter_init"
    /\ mode[n] # "init"
    /\ ticks[n] = InitPolls
    /\ SetState(n, "TIMEOUT", FALSE)
    /\ ticks' = [ticks EXCEPT ![n] = 0]
    /\ Goto(n, "error_handler")
    /\ UNCHANGED <<msg, RxMessage, mailbox, canError, rval, hw>>

\* INAK came: configure and clear INRQ.
EnterInitDone(n) ==
    /\ pc[n] = "enter_init"
    /\ mode[n] = "init"
    /\ mode' = [mode EXCEPT ![n] = "leaving"]
    /\ ticks' = [ticks EXCEPT ![n] = 0]
    /\ Goto(n, "leave_init")
    /\ UNCHANGED <<hcan, msg, RxMessage, mailbox, canError, rval,
                   off, tme, out, fifo, filter, bus>>

\* The wait for INAK to clear has no timeout.
LeaveInitDone(n) ==
    /\ pc[n] = "leave_init"
    /\ mode[n] = "normal"
    /\ SetState(n, "READY", hcan[n].Lock)
    /\ Goto(n, "config_filter")
    /\ UNCHANGED <<msg, RxMessage, mailbox, ticks, canError, rval, hw>>

\* HAL_CAN_ConfigFilter deactivates the bank, writes it and activates it;
\* a frame that ends in between passes no filter.
DeactivateFilter(n) ==
    /\ pc[n] = "config_filter"
    /\ filter' = [filter EXCEPT ![n] = FALSE]
    /\ Goto(n, "activate_filter")
    /\ UNCHANGED <<hcan, msg, RxMessage, mailbox, ticks, canError, rval,
                   mode, off, tme, out, fifo, bus>>

\* Variant: the bank is configured with FilterActivation DISABLEd.
ActivateFilter_Disabled(n) ==
    /\ pc[n] = "activate_filter"
    /\ Prepare(n, "EXT", InitialId, msg[n].dlc, msg[n].data)
    /\ IF canError[n] = "none" THEN UNCHANGED rval ELSE Return(n, WriteResult(n))
    /\ Goto(n, "idle")
    /\ UNCHANGED <<hcan, RxMessage, mailbox, ticks, canError, hw>>

\* The end of MX_CAN_Init, which also gives msg a default identifier: back in
\* setup(), or, after a restart, in write_can, which returns the status of
\* the transmission.
ActivateFilter(n) ==
    /\ pc[n] = "activate_filter"
    /\ filter' = [filter EXCEPT ![n] = TRUE]
    /\ Prepare(n, "EXT", InitialId, msg[n].dlc, msg[n].data)
    /\ IF canError[n] = "none" THEN UNCHANGED rval ELSE Return(n, WriteResult(n))
    /\ Goto(n, "idle")
    /\ UNCHANGED <<hcan, RxMessage, mailbox, ticks, canError,
                   mode, off, tme, out, fifo, bus>>

-----------------------------------------------------------------------------
(* write_can and HAL_CAN_Transmit *)

\* write_can up to the call of HAL_CAN_Transmit, or its early returns.
write_can(n, address, data, length) ==
    /\ pc[n] = "idle"
    /\ \/ /\ length > 8
          /\ Return(n, RET_TOO_MUCH_DATA)
          /\ UNCHANGED <<pc, msg>>
       \/ /\ length <= 8
          /\ address > ExtMax
          /\ Prepare(n, msg[n].ide, msg[n].id, length, data)
          /\ Return(n, RET_BAD_ADDRESS)
          /\ UNCHANGED pc
       \/ /\ length <= 8
          /\ address <= ExtMax
          /\ Prepare(n, IF address <= StdMax THEN "STD" ELSE "EXT", address,
                     length, data)
          /\ Goto(n, "transmit")
          /\ UNCHANGED rval
    /\ UNCHANGED <<hcan, RxMessage, mailbox, ticks, canError, hw>>

Free(n, k) == tme[n][k] \in {"empty", "sent"}

FirstFree(n) ==
    CHOOSE k \in Mailboxes : Free(n, k) /\ \A j \in Mailboxes : Free(n, j) => k <= j

\* HAL_CAN_Transmit up to its wait: lock, fill the lowest free mailbox and
\* request its transmission, unless no mailbox is free or the handle is locked.
TransmitRequest(n) ==
    LET k == FirstFree(n)
        Refuse(status) == /\ canError' = [canError EXCEPT ![n] = status]
                          /\ Goto(n, "transmitted")
                          /\ UNCHANGED <<mailbox, tme, out, ticks>>
    IN  /\ pc[n] = "transmit"
        /\ IF \A j \in Mailboxes : ~Free(n, j)
           THEN Refuse("HAL_ERROR") /\ SetState(n, "ERROR", hcan[n].Lock)
           ELSE IF hcan[n].Lock
           THEN Refuse("HAL_BUSY") /\ UNCHANGED hcan
           ELSE /\ SetState(n, IF hcan[n].State = "BUSY_RX"
                               THEN "BUSY_TX_RX" ELSE "BUSY_TX", TRUE)
                /\ mailbox' = [mailbox EXCEPT ![n] = k]
                /\ tme' = [tme EXCEPT ![n][k] = "pending"]
                /\ out' = [out EXCEPT ![n][k] = msg[n]]
                /\ ticks' = [ticks EXCEPT ![n] = 0]
                /\ Goto(n, "poll_tx")
                /\ UNCHANGED canError
        /\ UNCHANGED <<msg, RxMessage, rval, mode, off, fifo, filter, bus>>

\* One poll of the mailbox status that finds it unsent and has polls left.
TransmitPoll(n) ==
    /\ pc[n] = "poll_tx"
    /\ tme[n][mailbox[n]] # "sent"
    /\ ticks[n] < TxPolls
    /\ ticks' = [ticks EXCEPT ![n] = @ + 1]
    /\ UNCHANGED <<pc, hcan, msg, RxMessage, mailbox, canError, rval, hw>>

\* Variant: the transmission is not cancelled.
Cancelled_Not(n, k) == tme[n][k]

\* ABRQ empties a mailbox at once unless its frame is on the bus; then the
\* attempt that is under way still runs to its end.
Cancelled(n, k) ==
    IF bus = OnBus(n, k) THEN "aborting" ELSE "empty"

\* Variants: Timeout is HAL_MAX_DELAY; the handle stays locked.
TransmitTimeout_Never(n) == pc[n] = "poll_tx" /\ ticks[n] > TxPolls /\ UNCHANGED halVars
TransmitDone_Locked(n) ==
    /\ pc[n] = "poll_tx"
    /\ tme[n][mailbox[n]] = "sent"
    /\ SetState(n, "READY", TRUE)
    /\ canError' = [canError EXCEPT ![n] = "HAL_OK"]
    /\ ticks' = [ticks EXCEPT ![n] = 0]
    /\ Goto(n, "transmitted")
    /\ UNCHANGED <<msg, RxMessage, mailbox, rval, hw>>

TransmitTimeout(n) ==
    /\ pc[n] = "poll_tx"
    /\ tme[n][mailbox[n]] # "sent"
    /\ ticks[n] = TxPolls
    /\ SetState(n, "TIMEOUT", FALSE)
    /\ tme' = [tme EXCEPT ![n][mailbox[n]] = Cancelled(n, mailbox[n])]
    /\ canError' = [canError EXCEPT ![n] = "HAL_TIMEOUT"]
    /\ ticks' = [ticks EXCEPT ![n] = 0]
    /\ Goto(n, "transmitted")
    /\ UNCHANGED <<msg, RxMessage, mailbox, rval,
                   mode, off, out, fifo, filter, bus>>

TransmitDone(n) ==
    /\ pc[n] = "poll_tx"
    /\ tme[n][mailbox[n]] = "sent"
    /\ SetState(n, IF hcan[n].State = "BUSY_TX_RX" THEN "BUSY_RX" ELSE "READY",
                FALSE)
    /\ canError' = [canError EXCEPT ![n] = "HAL_OK"]
    /\ ticks' = [ticks EXCEPT ![n] = 0]
    /\ Goto(n, "transmitted")
    /\ UNCHANGED <<msg, RxMessage, mailbox, rval, hw>>

\* Back in write_can: it looks at the handle's State, not at the returned
\* status, to decide whether HAL_CAN_DeInit and MX_CAN_Init restart the bus.
WriteReturn(n) ==
    /\ pc[n] = "transmitted"
    /\ hcan[n].State # "TIMEOUT"
    /\ Return(n, WriteResult(n))
    /\ Goto(n, "idle")
    /\ UNCHANGED <<hcan, msg, RxMessage, mailbox, ticks, canError, hw>>

\* Variant: a timeout is returned without restarting the bus.
WriteRestart_Not(n) ==
    /\ pc[n] = "transmitted"
    /\ hcan[n].State = "TIMEOUT"
    /\ Return(n, WriteResult(n))
    /\ Goto(n, "idle")
    /\ UNCHANGED <<hcan, msg, RxMessage, mailbox, ticks, canError, hw>>

WriteRestart(n) ==
    /\ pc[n] = "transmitted"
    /\ hcan[n].State = "TIMEOUT"
    /\ RequestInit(n, "RESET", FALSE)      \* HAL_CAN_DeInit: RESET, unlocked
    /\ UNCHANGED <<msg, RxMessage, mailbox, canError, rval,
                   off, tme, out, fifo, filter, bus>>

-----------------------------------------------------------------------------
(* read_can and HAL_CAN_Receive with a timeout of zero *)

\* Variant: HAL_CAN_Receive times out without unlocking the handle.
read_can_Locked(n, length) ==
    /\ pc[n] = "idle" /\ length >= 8
    /\ IF hcan[n].Lock
       THEN Return(n, RET_BUSY) /\ UNCHANGED <<hcan, RxMessage, fifo>>
       ELSE IF fifo[n] = <<>>
       THEN /\ SetState(n, "TIMEOUT", TRUE)
            /\ Return(n, RET_TIMEOUT)
            /\ UNCHANGED <<RxMessage, fifo>>
       ELSE /\ RxMessage' = [RxMessage EXCEPT ![n] = Head(fifo[n])]
            /\ fifo' = [fifo EXCEPT ![n] = Tail(@)]
            /\ SetState(n, "READY", FALSE)
            /\ Return(n, Head(fifo[n]).dlc)
    /\ UNCHANGED <<pc, msg, mailbox, ticks, canError,
                   mode, off, tme, out, filter, bus>>

\* A locked handle is refused, an empty FIFO reported at once, and otherwise
\* its oldest frame is copied and released.
HAL_CAN_Receive(n) ==
    \/ /\ hcan[n].Lock
       /\ Return(n, RET_BUSY)
       /\ UNCHANGED <<hcan, RxMessage, fifo>>
    \/ /\ ~hcan[n].Lock
       /\ fifo[n] = <<>>
       /\ SetState(n, "TIMEOUT", FALSE)
       /\ Return(n, RET_TIMEOUT)
       /\ UNCHANGED <<RxMessage, fifo>>
    \/ /\ ~hcan[n].Lock
       /\ fifo[n] # <<>>
       /\ RxMessage' = [RxMessage EXCEPT ![n] = Head(fifo[n])]
       /\ fifo' = [fifo EXCEPT ![n] = Tail(@)]
       /\ SetState(n, IF hcan[n].State = "BUSY_TX" THEN "BUSY_TX" ELSE "READY", FALSE)
       /\ Return(n, Head(fifo[n]).dlc)

read_can(n, length) ==
    /\ pc[n] = "idle"
    /\ \/ /\ length < 8
          /\ Return(n, RET_TOO_MUCH_DATA)
          /\ UNCHANGED <<hcan, RxMessage, fifo>>
       \/ /\ length >= 8
          /\ HAL_CAN_Receive(n)
    /\ UNCHANGED <<pc, msg, mailbox, ticks, canError,
                   mode, off, tme, out, filter, bus>>

-----------------------------------------------------------------------------
(* The peripherals and the bus (external) *)

BaseId(f) == IF f.ide = "STD" THEN f.id ELSE f.id \div 262144

\* Bitwise arbitration: the lower base id wins; on equal base ids a standard
\* frame wins over an extended one, and the lower identifier wins.
Beats(f, g) ==
    \/ BaseId(f) < BaseId(g)
    \/ /\ BaseId(f) = BaseId(g)
       /\ \/ f.ide = "STD" /\ g.ide = "EXT"
          \/ f.ide = g.ide /\ f.id < g.id

Contends(n, k) == mode[n] = "normal" /\ ~off[n] /\ tme[n][k] = "pending"

\* The idle bus takes the frame that wins the arbitration (TXFP disabled:
\* within a node, too, the identifier decides).
StartOfFrame(n, k) ==
    /\ bus = Quiet
    /\ Contends(n, k)
    /\ \A m \in Node, j \in Mailboxes :
          Contends(m, j) => ~Beats(out[m][j], out[n][k])
    /\ bus' = OnBus(n, k)
    /\ UNCHANGED <<sw, mode, off, tme, out, fifo, filter>>

\* Stations that take part in the bus and acknowledge what they hear.
Listening(m) == mode[m] \in {"normal", "entering"} /\ ~off[m]
Receivers(n) == {m \in Node \ {n} : Listening(m)}

\* RFLM disabled: a frame that finds the FIFO full replaces the newest one.
Store(q, f) ==
    IF Len(q) < FifoDepth THEN Append(q, f) ELSE [q EXCEPT ![Len(q)] = f]

Deliver(A, f) ==
    fifo' = [m \in Node |-> IF m \in A /\ filter[m] THEN Store(fifo[m], f)
                            ELSE fifo[m]]

\* The frame ends well: every listening station has it, and so it was
\* acknowledged.
EndOfFrame(n, k) ==
    /\ bus = OnBus(n, k)
    /\ Receivers(n) # {}
    /\ Deliver(Receivers(n), out[n][k])
    /\ tme' = [tme EXCEPT ![n][k] = "sent"]
    /\ bus' = Quiet
    /\ UNCHANGED <<sw, mode, off, out, filter>>

\* The frame ends in an error, seen by the sender: a lost frame, or one whose
\* last bit only was disturbed and which some stations have taken already.
\* NART disabled: it stays pending and will be sent again, unless aborted.
\* ABOM disabled: a sender that went bus-off stays off until it is restarted.
ErrorFrame(n, k) ==
    /\ bus = OnBus(n, k)
    /\ \E A \in SUBSET Receivers(n) : Deliver(A, out[n][k])
    /\ tme' = [tme EXCEPT ![n][k] = IF @ = "aborting" THEN "empty" ELSE @]
    /\ off' \in {off, [off EXCEPT ![n] = TRUE]}
    /\ bus' = Quiet
    /\ UNCHANGED <<sw, mode, out, filter>>

\* INAK is set once the activity the station takes part in is over.
AcknowledgeInit(n) ==
    /\ mode[n] \in {"waking", "entering"}
    /\ mode[n] = "entering" => bus = Quiet \/ off[n]
    /\ mode' = [mode EXCEPT ![n] = "init"]
    /\ UNCHANGED <<sw, off, tme, out, fifo, filter, bus>>

\* INAK is cleared, and a bus-off ends, once the bus has been recessive.
Synchronise(n) ==
    /\ mode[n] = "leaving"
    /\ bus = Quiet
    /\ mode' = [mode EXCEPT ![n] = "normal"]
    /\ off' = [off EXCEPT ![n] = FALSE]
    /\ UNCHANGED <<sw, tme, out, fifo, filter, bus>>

-----------------------------------------------------------------------------

\* The steps of a node's processor inside the driver.
Driver(n) ==
    \/ MX_CAN_Init(n)
    \/ EnterInitPoll(n) \/ EnterInitTimeout(n) \/ EnterInitDone(n)
    \/ LeaveInitDone(n) \/ DeactivateFilter(n) \/ ActivateFilter(n)
    \/ TransmitRequest(n) \/ TransmitPoll(n)
    \/ TransmitTimeout(n) \/ TransmitDone(n)
    \/ WriteReturn(n) \/ WriteRestart(n)

\* The steps of the hardware.
Hardware(n) ==
    \/ \E k \in Mailboxes :
          StartOfFrame(n, k) \/ EndOfFrame(n, k) \/ ErrorFrame(n, k)
    \/ AcknowledgeInit(n) \/ Synchronise(n)

\* Any program that calls the driver.
Client(n) ==
    \/ \E address \in Address[n], data \in Payload, length \in Length :
          write_can(n, address, data, length)
    \/ n \in Reader /\ \E length \in Length : read_can(n, length)

HalNext == \E n \in Node : Driver(n) \/ Hardware(n) \/ Client(n)

HalSpec == HalInit /\ [][HalNext]_halVars

-----------------------------------------------------------------------------
(* Properties *)

HalTypeOK ==
    /\ pc \in [Node -> Locations]
    /\ hcan \in [Node -> [State : States, Lock : BOOLEAN]]
    /\ msg \in [Node -> Frame] /\ RxMessage \in [Node -> Frame]
    /\ mailbox \in [Node -> Mailboxes]
    /\ ticks \in [Node -> Nat]
    /\ canError \in [Node -> Statuses \cup {"none"}]
    /\ rval \in [Node -> -5..8]
    /\ mode \in [Node -> Modes]
    /\ off \in [Node -> BOOLEAN]
    /\ tme \in [Node -> [Mailboxes -> MailboxStatuses]]
    /\ out \in [Node -> [Mailboxes -> Frame]]
    /\ fifo \in [Node -> Seq(Frame)]
    /\ filter \in [Node -> BOOLEAN]
    /\ bus \in {Quiet} \cup (Node \X Mailboxes)

Outstanding(n, k) == tme[n][k] \in {"pending", "aborting"}

\* Once write_can has returned, whatever it returned, nothing of its frame is
\* left in the peripheral: no frame reaches the bus late, and the next call
\* finds all three mailboxes free.  It takes the cancellation of
\* HAL_CAN_Transmit, the restart of write_can and the wait for INAK together.
NothingOutstanding ==
    \A n \in Node : pc[n] \in {"idle", "transmit"} =>
        /\ \A k \in Mailboxes : ~Outstanding(n, k)
        /\ \A k \in Mailboxes : bus # OnBus(n, k)

\* HAL_CAN_Transmit always gets its turn: its HAL_BUSY and HAL_ERROR returns
\* (a handle left locked, mailboxes left full) are never taken, so the State
\* write_can examines is the one this transmission left.
NeverRefused ==
    \A n \in Node :
        /\ canError[n] \notin {"HAL_BUSY", "HAL_ERROR"}
        /\ pc[n] = "transmitted" =>
              (hcan[n].State = "TIMEOUT" <=> canError[n] = "HAL_TIMEOUT")

\* Whenever the program is outside the driver, its station is on the bus and
\* its filter passes frames, whatever restarts came before, unless it has
\* gone bus-off since.
OnlineWhenIdle ==
    \A n \in Node : pc[n] = "idle" => mode[n] = "normal" /\ filter[n]

\* The inductive invariant behind the three: where the processor is tells the
\* peripheral's mode, who holds the lock and which mailbox can be in use.
ModeInv ==
    \A n \in Node :
        /\ pc[n] = "reset" => mode[n] = "sleep"
        /\ pc[n] \in {"enter_init", "error_handler"} =>
               mode[n] \in {"waking", "entering", "init"}
        /\ pc[n] = "leave_init" => mode[n] \in {"leaving", "normal"}
        /\ pc[n] \in {"config_filter", "activate_filter", "idle", "transmit",
                      "poll_tx", "transmitted"} => mode[n] = "normal"
        /\ pc[n] \in {"idle", "transmit", "poll_tx", "transmitted"} => filter[n]

HandleInv ==
    \A n \in Node :
        /\ hcan[n].Lock <=> pc[n] = "poll_tx"
        /\ canError[n] \notin {"HAL_BUSY", "HAL_ERROR"}
        /\ pc[n] = "transmitted" =>
              /\ canError[n] # "none"
              /\ (hcan[n].State = "TIMEOUT" <=> canError[n] = "HAL_TIMEOUT")

MailboxInv ==
    \A n \in Node, k \in Mailboxes :
        /\ tme[n][k] = "pending" => k = mailbox[n] /\ pc[n] = "poll_tx"
        /\ tme[n][k] = "aborting" =>
              /\ k = mailbox[n]
              /\ pc[n] \in {"transmitted", "enter_init", "error_handler"}
              /\ pc[n] = "transmitted" => hcan[n].State = "TIMEOUT"
              /\ bus = OnBus(n, k)
        /\ bus = OnBus(n, k) => Outstanding(n, k) /\ Listening(n)

HalInv == HalTypeOK /\ ModeInv /\ HandleInv /\ MailboxInv

\* How far a call of write_can has come, as its client may see it.
PortPhase(n) ==
    IF pc[n] = "idle" THEN "idle"
    ELSE IF canError[n] = "none" /\ pc[n] \notin {"transmit", "poll_tx"}
    THEN "starting"
    ELSE IF pc[n] # "transmit" /\ tme[n][mailbox[n]] = "sent" THEN "acked"
    ELSE "sending"

PortFrame(n) ==
    IF PortPhase(n) \in {"sending", "acked"} THEN msg[n] ELSE NoFrame

\* The frames the clients send.
Sendable == [ide : {"STD", "EXT"}, id : UNION {Address[n] : n \in Node},
             dlc : Length, data : Payload]

Port == INSTANCE CanPort WITH
    phase <- [n \in Node |-> PortPhase(n)],
    frame <- [n \in Node |-> PortFrame(n)],
    inbox <- fifo, result <- rval,
    Frame <- Sendable

\* Whatever the polls, timeouts, aborted frames and restarts did, a client
\* sees the behaviour of CanPort: success means the frame was acknowledged
\* during the call, no frame shows up after its call has returned, and
\* frames are taken in the order they arrived, the newest kept when the
\* FIFO overflows.
ImplementsPort == Port!Spec

\* What the mapping needs besides HalInv: a mailbox in use holds the frame of
\* the running call, HAL_OK stands for a mailbox that was sent, and only a
\* timeout leads into a restart.
PortInv ==
    \A n \in Node :
        /\ pc[n] = "reset" => canError[n] = "none"
        /\ pc[n] \in {"enter_init", "leave_init", "config_filter",
                      "activate_filter", "error_handler"} =>
               canError[n] \in {"none", "HAL_TIMEOUT"}
        /\ pc[n] = "transmitted" /\ canError[n] = "HAL_OK" =>
               tme[n][mailbox[n]] = "sent"
        /\ \A k \in Mailboxes :
              /\ Outstanding(n, k) => out[n][k] = msg[n]
              /\ tme[n][k] = "aborting" => canError[n] # "none"

\* A call of write_can ends, or the processor is parked in Error_Handler
\* because INAK did not come in time.
CallsEnd ==
    \A n \in Node : pc[n] = "transmit" ~> pc[n] \in {"idle", "error_handler"}

\* The processors and the peripherals keep going; leaving initialisation
\* mode needs the bus to be quiet at the right moment, and gets it again and
\* again as frames end.
HalFairness ==
    /\ \A n \in Node :
        /\ WF_halVars(Driver(n))
        /\ WF_halVars(AcknowledgeInit(n))
        /\ SF_halVars(Synchronise(n))
        /\ \A k \in Mailboxes : WF_halVars(EndOfFrame(n, k) \/ ErrorFrame(n, k))

HalLiveSpec == HalSpec /\ HalFairness

=============================================================================
