------------------------------ MODULE CanHalIT ------------------------------
(***************************************************************************)
(* The interrupt-driven functions of the STM32F3 CAN HAL and its two       *)
(* low-power functions, on one station: HAL_CAN_Transmit_IT, _Receive_IT,  *)
(* _Sleep and _WakeUp, called from the main program, and                   *)
(* HAL_CAN_IRQHandler, which may interrupt it between any two accesses to  *)
(* the handle's State or to the register IER.  The demo's own programs     *)
(* poll instead (CanHal): what is shown here is what the driver promises   *)
(* to a program that would not.                                            *)
(*                                                                         *)
(* That program is external: it makes calls of a few kinds, transmits      *)
(* again only after its TxCpltCallback, and receives from FIFO 0, the one  *)
(* can.c's filter fills; its RxCpltCallback receives again.  bxCAN is      *)
(* external too.  EPV and BOF, whose flags and enable bits behave like     *)
(* those of EWG, are left out.                                             *)
(***************************************************************************)
EXTENDS Integers

CONSTANTS
    Programs,   \* main programs: for each, the calls it makes
    Mailboxes,  \* transmit mailboxes (three)
    FifoDepth   \* frames the receive FIFO holds (three)

ASSUME CanHalITAssumption ==
    /\ Programs \subseteq SUBSET {"transmit", "receive", "sleep", "wake"}
    /\ Mailboxes \in Nat \ {0} /\ FifoDepth \in Nat \ {0}

VARIABLES
    \* ---- the main program
    program,    \* its calls
    pc,         \* where it is in the driver; "idle" outside
    state,      \* State as it was read by the call that is under way
    ier,        \* IER as it was read by the |= that is under way, or NotRead
    box,        \* transmitmailbox
    armed,      \* history: a HAL_CAN_Receive_IT has succeeded
    owed,       \* history: transmissions begun less TxCpltCallbacks
    \* ---- the handle
    State, ErrorCode,
    \* ---- the peripheral
    IER,        \* interrupts enabled
    mailbox,    \* "empty", "pending" (TXRQ) or "sent" (RQCP, TXOK, TME)
    fifo,       \* frames in FIFO 0
    esr,        \* error flags set: LEC is cleared by software, EWG by hardware
    erri,       \* MSR.ERRI
    sleep,      \* MCR.SLEEP
    slak        \* MSR.SLAK

call == <<pc, state, ier, box>>
handle == <<State, ErrorCode>>
history == <<armed, owed>>
errors == <<esr, erri>>
power == <<sleep, slak>>
vars == <<program, call, handle, history, IER, mailbox, fifo, errors, power>>

NotRead == {"not read"}
NoError == {}
Flags == {"EWG", "LEC"}             \* of ESR; each has its bit in IER
Errors == Flags \cup {"ERR"}

Init ==
    /\ program \in Programs
    /\ pc = "idle" /\ state = "READY" /\ ier = NotRead /\ box = 0
    /\ armed = FALSE /\ owed = 0
    /\ State = "READY" /\ ErrorCode = NoError
    /\ IER = {} /\ mailbox = [k \in 0..(Mailboxes - 1) |-> "empty"] /\ fifo = 0
    /\ esr = {} /\ erri = FALSE
    /\ sleep = FALSE /\ slak = FALSE

\* Between __HAL_LOCK and __HAL_UNLOCK.  Only the main program locks across
\* interrupts, one call at a time.
Locked ==
    pc \in {"tx_state", "tx_clear", "tx_unlock", "rx_read", "rx_state", "rx_clear",
            "rx_ewg", "rx_lec", "rx_err", "rx_unlock", "sleeping", "waking"}

\* The State that adds a transmission, or a reception, to one under way.
Adding(direction, s) ==
    IF direction = "TX" THEN (IF s = "BUSY_RX" THEN "BUSY_TX_RX" ELSE "BUSY_TX")
    ELSE (IF s = "BUSY_TX" THEN "BUSY_TX_RX" ELSE "BUSY_RX")

-----------------------------------------------------------------------------
(* HAL_CAN_Transmit_IT *)

\* Variant: a mailbox that waits to be sent counts as empty.
Free_All == DOMAIN mailbox

\* TSR.TME of the mailboxes.
Free == {k \in DOMAIN mailbox : mailbox[k] # "pending"}

\* No mailbox is empty: HAL_ERROR.
TransmitRefused ==
    /\ pc = "idle" /\ "transmit" \in program /\ owed <= 0
    /\ Free = {}
    /\ State' = "ERROR"
    /\ UNCHANGED <<call, ErrorCode, history, IER, mailbox, fifo, errors, power>>

\* Lock, take and fill the first empty mailbox, look at State.
TransmitBegin ==
    /\ pc = "idle" /\ "transmit" \in program /\ owed <= 0
    /\ \E k \in Free : (\A j \in Free : k <= j) /\ box' = k
    /\ state' = State
    /\ owed' = owed + 1
    /\ pc' = "tx_state"
    /\ UNCHANGED <<ier, handle, armed, IER, mailbox, fifo, errors, power>>

TransmitState ==
    /\ pc = "tx_state"
    /\ State' = Adding("TX", state)
    /\ pc' = "tx_clear"
    /\ UNCHANGED <<state, ier, box, ErrorCode, history, IER, mailbox, fifo,
                   errors, power>>

\* Variant: the transmission is never requested.
TransmitRequest_Forgotten ==
    /\ pc = "tx_request"
    /\ pc' = "idle"
    /\ UNCHANGED <<state, ier, box, handle, history, IER, mailbox, fifo, errors, power>>

\* Set TXRQ: the hardware clears RQCP and TXOK.
TransmitRequest ==
    /\ pc = "tx_request"
    /\ mailbox' = [mailbox EXCEPT ![box] = "pending"]
    /\ pc' = "idle"
    /\ UNCHANGED <<state, ier, box, handle, history, IER, fifo, errors, power>>

-----------------------------------------------------------------------------
(* HAL_CAN_Receive_IT *)

Receivable(s) == s \in {"READY", "BUSY_TX"}

\* In any other State it returns HAL_BUSY and changes nothing.  Whichever of
\* its two comparisons succeeds, State had that value at its moment.
ReceiveBegin ==
    /\ pc = "idle" /\ "receive" \in program
    /\ Receivable(State)
    /\ pc' = "rx_lock"
    /\ UNCHANGED <<state, ier, box, handle, history, IER, mailbox, fifo,
                   errors, power>>

\* The callback may have received again meanwhile; nobody else locks.
ReceiveLock ==
    /\ pc = "rx_lock"
    /\ pc' = "rx_read"
    /\ UNCHANGED <<state, ier, box, handle, history, IER, mailbox, fifo,
                   errors, power>>

\* The second reading of State, from which the new one is made.
ReceiveRead ==
    /\ pc = "rx_read"
    /\ state' = State
    /\ pc' = "rx_state"
    /\ UNCHANGED <<ier, box, handle, history, IER, mailbox, fifo, errors, power>>

ReceiveState ==
    /\ pc = "rx_state"
    /\ State' = Adding("RX", state)
    /\ pc' = "rx_clear"
    /\ UNCHANGED <<state, ier, box, ErrorCode, history, IER, mailbox, fifo,
                   errors, power>>

\* HAL_CAN_Receive_IT whole, in the receive callback: nothing interrupts it,
\* but the interrupted call may hold the lock.
Rearm(h) ==
    IF ~Locked /\ Receivable(h.State)
    THEN [State |-> Adding("RX", h.State), ErrorCode |-> NoError,
          IER |-> h.IER \cup Errors \cup {"FMP"}]
    ELSE h

-----------------------------------------------------------------------------
(* In both functions: clear ErrorCode, unlock, and __HAL_CAN_ENABLE_IT, which *)
(* reads IER and then writes it.                                              *)

\* What is enabled at each place: all at once for a transmission, one
\* interrupt after the other for a reception.
Enabled ==
    [tx_enable |-> Errors \cup {"TME"},
     rx_ewg |-> {"EWG"}, rx_lec |-> {"LEC"}, rx_err |-> {"ERR"}, fmp_enable |-> {"FMP"}]

\* What comes next; the last enable of a reception follows its unlock.
After ==
    [tx_clear |-> "tx_unlock", tx_unlock |-> "tx_enable", tx_enable |-> "tx_request",
     rx_clear |-> "rx_ewg", rx_ewg |-> "rx_lec", rx_lec |-> "rx_err",
     rx_err |-> "rx_unlock", rx_unlock |-> "fmp_enable", fmp_enable |-> "idle"]

ClearError ==
    /\ pc \in {"tx_clear", "rx_clear"}
    /\ ErrorCode' = NoError
    /\ pc' = After[pc]
    /\ UNCHANGED <<state, ier, box, State, history, IER, mailbox, fifo, errors, power>>

Unlock ==
    /\ pc \in {"tx_unlock", "rx_unlock"}
    /\ pc' = After[pc]
    /\ UNCHANGED <<state, ier, box, handle, history, IER, mailbox, fifo,
                   errors, power>>

EnableRead ==
    /\ pc \in DOMAIN Enabled
    /\ ier = NotRead
    /\ ier' = IER
    /\ UNCHANGED <<pc, state, box, handle, history, IER, mailbox, fifo, errors, power>>

EnableWrite ==
    /\ pc \in DOMAIN Enabled
    /\ ier # NotRead
    /\ IER' = ier \cup Enabled[pc]
    /\ ier' = NotRead
    /\ armed' = (armed \/ pc = "fmp_enable")
    /\ pc' = After[pc]
    /\ UNCHANGED <<state, box, handle, owed, mailbox, fifo, errors, power>>

-----------------------------------------------------------------------------
(* HAL_CAN_Sleep, HAL_CAN_WakeUp *)

SleepBegin ==
    /\ pc = "idle" /\ "sleep" \in program
    /\ State' = "BUSY"
    /\ sleep' = TRUE
    /\ pc' = "sleeping"
    /\ UNCHANGED <<state, ier, box, ErrorCode, history, IER, mailbox, fifo, errors, slak>>

\* The first look at SLAK decides: the loop that would wait for it is never
\* entered without it.
SleepEnd ==
    /\ pc = "sleeping"
    /\ State' = IF slak THEN "READY" ELSE State
    /\ pc' = "idle"
    /\ UNCHANGED <<state, ier, box, ErrorCode, history, IER, mailbox, fifo,
                   errors, power>>

WakeBegin ==
    /\ pc = "idle" /\ "wake" \in program
    /\ State' = "BUSY"
    /\ sleep' = FALSE
    /\ pc' = "waking"
    /\ UNCHANGED <<state, ier, box, ErrorCode, history, IER, mailbox, fifo, errors, slak>>

\* SLAK cleared, or still set at a poll after CAN_TIMEOUT_VALUE ticks.
WakeEnd ==
    /\ pc = "waking"
    /\ State' = IF slak THEN "TIMEOUT" ELSE "READY"
    /\ pc' = "idle"
    /\ UNCHANGED <<state, ier, box, ErrorCode, history, IER, mailbox, fifo,
                   errors, power>>

-----------------------------------------------------------------------------
(* HAL_CAN_IRQHandler *)

\* Variants: the interrupt stays enabled; State is left alone.
CAN_Transmit_IT_Enabled(h) ==
    [State |-> IF h.State = "BUSY_TX_RX" THEN "BUSY_RX" ELSE "READY",
     ErrorCode |-> h.ErrorCode,
     IER |-> h.IER \ (IF h.State = "BUSY_TX" THEN Errors ELSE {})]
CAN_Transmit_IT_Idle(h) ==
    [State |-> h.State, ErrorCode |-> h.ErrorCode, IER |-> h.IER \ {"TME"}]

CAN_Transmit_IT(h) ==
    [State |-> IF h.State = "BUSY_TX_RX" THEN "BUSY_RX" ELSE "READY",
     ErrorCode |-> h.ErrorCode,
     IER |-> h.IER \ ({"TME"} \cup IF h.State = "BUSY_TX" THEN Errors ELSE {})]

\* Variant: State is left alone.
CAN_Receive_IT_Busy(h) ==
    Rearm([State |-> h.State, ErrorCode |-> h.ErrorCode,
           IER |-> h.IER \ ({"FMP"} \cup IF h.State = "BUSY_RX" THEN Errors ELSE {})])

CAN_Receive_IT(h) ==
    Rearm([State |-> IF h.State = "BUSY_TX_RX" THEN "BUSY_TX" ELSE "READY",
           ErrorCode |-> h.ErrorCode,
           IER |-> h.IER \ ({"FMP"} \cup IF h.State = "BUSY_RX" THEN Errors ELSE {})])

TransmitDone(h) == "TME" \in h.IER /\ \E k \in DOMAIN mailbox : mailbox[k] = "sent"
MessagePending(h) == "FMP" \in h.IER /\ fifo > 0

\* The error flags seen join ErrorCode; the callback and State = READY
\* follow if it holds any, these or older ones.
CheckErrors(h) ==
    LET code == h.ErrorCode \cup (IF "ERR" \in h.IER THEN esr \cap h.IER ELSE {})
    IN  [State |-> IF code # NoError THEN "READY" ELSE h.State,
         ErrorCode |-> code, IER |-> h.IER]

HAL_CAN_IRQHandler ==
    LET entered == [State |-> State, ErrorCode |-> ErrorCode, IER |-> IER]
        sent == IF TransmitDone(entered) THEN CAN_Transmit_IT(entered) ELSE entered
        received == IF MessagePending(sent) THEN CAN_Receive_IT(sent) ELSE sent
        left == CheckErrors(received)
    IN  /\ \/ TransmitDone(entered) \/ MessagePending(entered)
           \/ "ERR" \in IER /\ erri
        /\ State' = left.State /\ ErrorCode' = left.ErrorCode /\ IER' = left.IER
        /\ owed' = IF TransmitDone(entered) THEN owed - 1 ELSE owed
        /\ fifo' = IF MessagePending(sent) THEN fifo - 1 ELSE fifo
        /\ esr' = IF {"LEC", "ERR"} \subseteq received.IER THEN esr \ {"LEC"} ELSE esr
        /\ erri' = (erri /\ left.ErrorCode = NoError)
        /\ UNCHANGED <<call, armed, mailbox, power>>

-----------------------------------------------------------------------------
(* bxCAN (external) *)

Send ==
    /\ ~slak
    /\ \E k \in DOMAIN mailbox :
          /\ mailbox[k] = "pending"
          /\ mailbox' = [mailbox EXCEPT ![k] = "sent"]
    /\ UNCHANGED <<call, handle, history, IER, fifo, errors, power>>

Arrive ==
    /\ ~slak
    /\ fifo < FifoDepth
    /\ fifo' = fifo + 1
    /\ UNCHANGED <<call, handle, history, IER, mailbox, errors, power>>

\* A failure on the bus; the station retries and stays on the bus.  ERRI is
\* set if the flag is enabled, and interrupts if ERR is.
Fail ==
    /\ ~slak
    /\ \E flag \in Flags : esr' = esr \cup {flag} /\ erri' = (erri \/ flag \in IER)
    /\ UNCHANGED <<call, handle, history, IER, mailbox, fifo, power>>

Recover ==
    /\ "EWG" \in esr
    /\ esr' = esr \ {"EWG"}
    /\ UNCHANGED <<call, handle, history, IER, mailbox, fifo, erri, power>>

FollowSleep ==
    /\ slak # sleep
    /\ slak' = sleep
    /\ UNCHANGED <<call, handle, history, IER, mailbox, fifo, errors, sleep>>

-----------------------------------------------------------------------------

\* A call goes on; the others are calls that begin.
Continue ==
    \/ TransmitState \/ TransmitRequest
    \/ ReceiveLock \/ ReceiveRead \/ ReceiveState
    \/ ClearError \/ Unlock \/ EnableRead \/ EnableWrite \/ SleepEnd \/ WakeEnd

Step ==
    \/ TransmitRefused \/ TransmitBegin \/ ReceiveBegin \/ SleepBegin \/ WakeBegin
    \/ Continue \/ HAL_CAN_IRQHandler
    \/ Send \/ Arrive \/ Fail \/ Recover \/ FollowSleep

Next == Step /\ UNCHANGED program

Spec == Init /\ [][Next]_vars

\* The processor goes on, takes its interrupts, the peripheral follows
\* MCR.SLEEP and the bus lets frames through; the program need not call, and
\* nothing need arrive.
LiveSpec ==
    /\ Spec
    /\ WF_vars(Continue /\ UNCHANGED program)
    /\ WF_vars(HAL_CAN_IRQHandler /\ UNCHANGED program)
    /\ WF_vars(Send /\ UNCHANGED program)
    /\ WF_vars(FollowSleep /\ UNCHANGED program)

-----------------------------------------------------------------------------
(* Properties *)

TypeOK ==
    /\ program \in Programs
    /\ pc \in {"idle", "tx_request", "rx_lock", "rx_read", "tx_state", "rx_state",
               "sleeping", "waking"} \cup DOMAIN After
    /\ State \in {"READY", "BUSY", "BUSY_TX", "BUSY_RX", "BUSY_TX_RX", "ERROR",
                  "TIMEOUT"}
    /\ IER \subseteq Errors \cup {"TME", "FMP"}
    /\ mailbox \in [0..(Mailboxes - 1) -> {"empty", "pending", "sent"}]
    /\ box \in DOMAIN mailbox
    /\ fifo \in 0..FifoDepth
    /\ esr \subseteq Flags /\ ErrorCode \subseteq Flags
    /\ owed \in -1..1
    /\ pc = "tx_request" => mailbox[box] # "pending"

\* BUSY_TX, BUSY_RX and BUSY_TX_RX say that a process is going on: the
\* interrupt that will end it is enabled, or the call that began it is about
\* to enable it.  Otherwise HAL_CAN_Receive_IT would answer HAL_BUSY for ever.
BusyMeansOngoing ==
    /\ State \in {"BUSY_RX", "BUSY_TX_RX"} =>
          \/ "FMP" \in IER
          \/ pc \in {"rx_clear", "rx_ewg", "rx_lec", "rx_err", "rx_unlock", "fmp_enable"}
    /\ State \in {"BUSY_TX", "BUSY_TX_RX"} =>
          "TME" \in IER \/ pc \in {"tx_clear", "tx_unlock", "tx_enable"}

\* HAL_CAN_TxCpltCallback is called once for each HAL_CAN_Transmit_IT.
CallbackOncePerRequest == owed >= 0

\* Each HAL_CAN_Transmit_IT is answered by its callback, errors and State
\* changes on the way notwithstanding, unless the peripheral is put to sleep.
RequestAnswered == owed = 1 ~> owed = 0 \/ sleep

\* Once begun, reception re-armed by its callback goes on: while frames are
\* waiting, frames are taken.
ReceptionGoesOn == <>[](armed /\ fifo > 0) => []<><<fifo' < fifo>>_vars

=============================================================================
