--------------------------- MODULE CanHalIT_proofs ---------------------------
(***************************************************************************)
(* For any number of mailboxes, any depth of the FIFO and any programs     *)
(* that do not both transmit and receive by interrupt: State says what     *)
(* goes on, and no request has two callbacks.  And whatever the program,   *)
(* no request is forgotten.                                                *)
(***************************************************************************)
EXTENDS CanHalIT, TLAPS

\* What the two properties need of a program: with both directions an
\* interrupt between the reading and the writing of State is lost.
OneDirection == \A p \in Programs : "transmit" \notin p \/ "receive" \notin p

HandleStates ==
    {"READY", "BUSY", "BUSY_TX", "BUSY_RX", "BUSY_TX_RX", "ERROR", "TIMEOUT"}
Interrupts == Errors \cup {"TME", "FMP"}

\* The places of the two calls.
Transmitting == {"tx_state", "tx_clear", "tx_unlock", "tx_enable", "tx_request"}
Receiving == {"rx_lock", "rx_read", "rx_state", "rx_clear", "rx_ewg", "rx_lec",
              "rx_err", "rx_unlock", "fmp_enable"}

\* The call under way: what it read, and the mailbox it has taken.
CallInv ==
    /\ state \in HandleStates
    /\ ier = NotRead \/ ier \subseteq Interrupts
    /\ ier # NotRead => pc \in DOMAIN Enabled
    /\ pc \in Transmitting => mailbox[box] # "pending"

\* A program that transmits has nothing of a reception, and the other way round.
TransmitterInv ==
    "transmit" \in program =>
        /\ {State, state} \cap {"BUSY_RX", "BUSY_TX_RX"} = {}
        /\ pc \notin Receiving
        /\ "FMP" \notin IER \cup ier
ReceiverInv ==
    "transmit" \notin program =>
        /\ {State, state} \cap {"BUSY_TX", "BUSY_TX_RX"} = {}
        /\ pc \notin Transmitting
        /\ "TME" \notin IER \cup ier

\* The transmit interrupt is enabled only for a request that is not answered,
\* and not before the call's own write of IER.
OwedInv ==
    /\ owed \in {0, 1}
    /\ "TME" \in IER => owed = 1
    /\ pc \in Transmitting \ {"tx_request"} => owed = 1 /\ "TME" \notin IER \cup ier

ITInv ==
    TypeOK /\ CallInv /\ TransmitterInv /\ ReceiverInv /\ OwedInv /\ BusyMeansOngoing

\* Where the steps that both calls share are, and where they lead.
LEMMA Places ==
    /\ DOMAIN Enabled = {"tx_enable", "rx_ewg", "rx_lec", "rx_err", "fmp_enable"}
    /\ DOMAIN After = DOMAIN Enabled \cup {"tx_clear", "tx_unlock", "rx_clear", "rx_unlock"}
    /\ After["tx_clear"] = "tx_unlock" /\ After["tx_unlock"] = "tx_enable"
    /\ After["tx_enable"] = "tx_request"
    /\ After["rx_clear"] = "rx_ewg" /\ After["rx_ewg"] = "rx_lec"
    /\ After["rx_lec"] = "rx_err" /\ After["rx_err"] = "rx_unlock"
    /\ After["rx_unlock"] = "fmp_enable" /\ After["fmp_enable"] = "idle"
BY DEF Enabled, After

\* What the writes of IER add.
LEMMA Enables ==
    /\ Enabled["tx_enable"] = Errors \cup {"TME"} /\ Enabled["fmp_enable"] = {"FMP"}
    /\ \A p \in {"rx_ewg", "rx_lec", "rx_err"} :
          Enabled[p] \subseteq Errors /\ After[p] \in {"rx_lec", "rx_err", "rx_unlock"}
BY DEF Enabled, After, Errors, Flags

\* At the start nothing is enabled and nothing goes on.
LEMMA ITInit == Init => ITInv
<1> SUFFICES ASSUME Init
             PROVE  ITInv
    OBVIOUS
<1>1. TypeOK
    BY CanHalITAssumption DEF Init, TypeOK, NoError
<1> QED
    BY <1>1 DEF Init, ITInv, CallInv, TransmitterInv, ReceiverInv, OwedInv,
                BusyMeansOngoing, HandleStates, Interrupts, NotRead, Transmitting, Receiving

-----------------------------------------------------------------------------
(* The main program *)

\* HAL_CAN_Transmit_IT, up to the write of IER and after it.
LEMMA TransmitStep ==
    ASSUME OneDirection, ITInv, UNCHANGED program,
           TransmitRefused \/ TransmitBegin \/ TransmitState \/ TransmitRequest
    PROVE  ITInv'
<1> USE Places DEF ITInv, TypeOK, CallInv, TransmitterInv, ReceiverInv, OwedInv,
            BusyMeansOngoing, HandleStates, Transmitting, Receiving,
            handle, history, errors, power, call
<1>1. CASE TransmitRefused
    BY <1>1 DEF TransmitRefused
<1>2. CASE TransmitBegin
  <2>1. box' \in Free
      BY <1>2 DEF TransmitBegin
  <2>2. box' \in DOMAIN mailbox /\ mailbox[box'] # "pending"
      BY <2>1 DEF Free
  <2>3. pc = "idle" /\ owed = 0 /\ ier = NotRead /\ "TME" \notin IER
      BY <1>2 DEF TransmitBegin
  <2>4. TypeOK'
      BY <1>2, <2>2, <2>3 DEF TransmitBegin
  <2>5. CallInv'
      BY <1>2, <2>2, <2>3 DEF TransmitBegin
  <2>6. TransmitterInv' /\ ReceiverInv'
      BY <1>2, <2>3 DEF TransmitBegin
  <2>7. OwedInv'
    <3>1. owed' = 1 /\ ier' = ier /\ IER' = IER
        BY <1>2, <2>3 DEF TransmitBegin
    <3>2. "TME" \notin IER' \cup ier'
        BY <2>3, <3>1 DEF NotRead
    <3> QED
        BY <3>1, <3>2
  <2>8. BusyMeansOngoing'
      BY <1>2, <2>3 DEF TransmitBegin
  <2> QED
      BY <2>4, <2>5, <2>6, <2>7, <2>8
<1>3. CASE TransmitState
    BY <1>3 DEF TransmitState, Adding
<1>4. CASE TransmitRequest
    BY <1>4 DEF TransmitRequest
<1> QED
    BY <1>1, <1>2, <1>3, <1>4

\* HAL_CAN_Receive_IT.
LEMMA ReceiveStep ==
    ASSUME OneDirection, ITInv, UNCHANGED program,
           ReceiveBegin \/ ReceiveLock \/ ReceiveRead \/ ReceiveState
    PROVE  ITInv'
<1> USE Places DEF OneDirection, ITInv, TypeOK, CallInv, TransmitterInv, ReceiverInv,
            OwedInv, BusyMeansOngoing, HandleStates, Transmitting, Receiving,
            handle, history, errors, power, call
<1>1. CASE ReceiveBegin
    BY <1>1 DEF ReceiveBegin
<1>2. CASE ReceiveLock
    BY <1>2 DEF ReceiveLock
<1>3. CASE ReceiveRead
    BY <1>3 DEF ReceiveRead
<1>4. CASE ReceiveState
    BY <1>4 DEF ReceiveState, Adding
<1> QED
    BY <1>1, <1>2, <1>3, <1>4

\* ErrorCode and the lock, in both calls.
LEMMA SharedStep ==
    ASSUME ITInv, UNCHANGED program, ClearError \/ Unlock
    PROVE  ITInv'
<1> USE Places DEF ITInv, TypeOK, CallInv, TransmitterInv, ReceiverInv, OwedInv,
            BusyMeansOngoing, HandleStates, Transmitting, Receiving,
            handle, history, errors, power, call
<1>1. \/ pc = "tx_clear" /\ pc' = "tx_unlock"
      \/ pc = "tx_unlock" /\ pc' = "tx_enable"
      \/ pc = "rx_clear" /\ pc' = "rx_ewg"
      \/ pc = "rx_unlock" /\ pc' = "fmp_enable"
    BY DEF ClearError, Unlock
<1>2. CASE ClearError
    BY <1>1, <1>2 DEF ClearError, NoError
<1>3. CASE Unlock
    BY <1>1, <1>3 DEF Unlock
<1> QED
    BY <1>2, <1>3

\* Both halves of __HAL_CAN_ENABLE_IT.
LEMMA EnableStep ==
    ASSUME ITInv, UNCHANGED program, EnableRead \/ EnableWrite
    PROVE  ITInv'
<1> USE Places DEF ITInv, TypeOK, CallInv, TransmitterInv, ReceiverInv, OwedInv,
            BusyMeansOngoing, HandleStates, Interrupts, NotRead, Errors, Flags,
            Transmitting, Receiving, handle, history, errors, power, call
<1>1. CASE EnableRead
  <2>1. /\ pc \in DOMAIN Enabled /\ ier' = IER
        /\ UNCHANGED <<pc, state, box, handle, history, IER, mailbox, fifo, errors, power>>
      BY <1>1 DEF EnableRead
  <2>2. TypeOK' /\ CallInv'
      BY <2>1
  <2>3. TransmitterInv' /\ ReceiverInv'
      BY <2>1
  <2>4. OwedInv' /\ BusyMeansOngoing'
      BY <2>1
  <2> QED
      BY <2>2, <2>3, <2>4
<1>2. CASE EnableWrite
  <2>1. CASE pc = "tx_enable"
    <3>1. IER' = ier \cup Errors \cup {"TME"} /\ pc' = "tx_request"
        BY <1>2, <2>1, Enables DEF EnableWrite
    <3> QED
        BY <1>2, <2>1, <3>1 DEF EnableWrite
  <2>2. CASE pc \in {"rx_ewg", "rx_lec", "rx_err"}
    <3>1. PICK bits : bits \subseteq Errors /\ IER' = ier \cup bits
        BY <1>2, <2>2, Enables DEF EnableWrite
    <3>2. pc' \in {"rx_lec", "rx_err", "rx_unlock"}
        BY <1>2, <2>2, Enables DEF EnableWrite
    <3> QED
        BY <1>2, <2>2, <3>1, <3>2 DEF EnableWrite
  <2>3. CASE pc = "fmp_enable"
    <3>1. IER' = ier \cup {"FMP"} /\ pc' = "idle"
        BY <1>2, <2>3, Enables DEF EnableWrite
    <3> QED
        BY <1>2, <2>3, <3>1 DEF EnableWrite
  <2> QED
      BY <1>2, <2>1, <2>2, <2>3 DEF EnableWrite
<1> QED
    BY <1>1, <1>2

\* HAL_CAN_Sleep and HAL_CAN_WakeUp overwrite State, but with nothing that
\* claims a transfer.
LEMMA PowerStep ==
    ASSUME ITInv, UNCHANGED program,
           SleepBegin \/ SleepEnd \/ WakeBegin \/ WakeEnd
    PROVE  ITInv'
<1> USE Places DEF ITInv, TypeOK, CallInv, TransmitterInv, ReceiverInv, OwedInv,
            BusyMeansOngoing, HandleStates, Transmitting, Receiving, handle, history, errors, power, call
<1>1. CASE SleepBegin
    BY <1>1 DEF SleepBegin
<1>2. CASE SleepEnd
    BY <1>2 DEF SleepEnd
<1>3. CASE WakeBegin
    BY <1>3 DEF WakeBegin
<1>4. CASE WakeEnd
    BY <1>4 DEF WakeEnd
<1> QED
    BY <1>1, <1>2, <1>3, <1>4

-----------------------------------------------------------------------------
(* HAL_CAN_IRQHandler and the peripheral *)

\* The handle and IER as the handler passes them on.
Handles == [State : HandleStates, ErrorCode : SUBSET Flags,
            IER : SUBSET Interrupts]

\* CAN_Transmit_IT disables its interrupt and leaves no transmission in State.
LEMMA TransmitIT ==
    ASSUME NEW h \in Handles
    PROVE  LET r == CAN_Transmit_IT(h)
           IN  /\ r \in Handles
               /\ r.IER \subseteq h.IER /\ "TME" \notin r.IER
               /\ r.State \in {"READY", "BUSY_RX"}
               /\ r.State = "BUSY_RX" => h.State = "BUSY_TX_RX"
BY DEF CAN_Transmit_IT, Handles, HandleStates, Interrupts, Errors, Flags

\* CAN_Receive_IT, with the callback's call, leaves no reception in State or
\* its interrupt enabled.
LEMMA ReceiveIT ==
    ASSUME NEW h \in Handles
    PROVE  LET r == CAN_Receive_IT(h)
           IN  /\ r \in Handles
               /\ "TME" \in r.IER <=> "TME" \in h.IER
               /\ r.State \in {"READY", "BUSY_TX", "BUSY_RX", "BUSY_TX_RX"}
               /\ r.State \in {"BUSY_RX", "BUSY_TX_RX"} => "FMP" \in r.IER
               /\ r.State \in {"BUSY_TX", "BUSY_TX_RX"} => h.State = "BUSY_TX_RX"
<1> DEFINE left == [State |-> IF h.State = "BUSY_TX_RX" THEN "BUSY_TX" ELSE "READY",
                    ErrorCode |-> h.ErrorCode,
                    IER |-> h.IER \ ({"FMP"} \cup IF h.State = "BUSY_RX" THEN Errors
                                                 ELSE {})]
<1>1. /\ left \in Handles
      /\ left.State = IF h.State = "BUSY_TX_RX" THEN "BUSY_TX" ELSE "READY"
      /\ "TME" \in left.IER <=> "TME" \in h.IER
    BY DEF Handles, HandleStates, Interrupts, Errors, Flags
<1>2. CAN_Receive_IT(h) = Rearm(left)
    BY DEF CAN_Receive_IT
<1> HIDE DEF left
<1> QED
    BY <1>1, <1>2 DEF Rearm, Adding, NoError, Handles, HandleStates, Interrupts, Errors, Flags

\* The error branch changes State to READY or not at all.
LEMMA ErrorsChecked ==
    ASSUME NEW h \in Handles, esr \subseteq Flags
    PROVE  LET r == CheckErrors(h)
           IN  /\ r \in Handles
               /\ r.IER = h.IER
               /\ r.State = h.State \/ r.State = "READY"
BY DEF CheckErrors, Handles, HandleStates, Interrupts, Errors, Flags

\* The handler interrupts the main program anywhere.
LEMMA HandlerStep ==
    ASSUME ITInv, UNCHANGED program, HAL_CAN_IRQHandler
    PROVE  ITInv'
<1> DEFINE entered == [State |-> State, ErrorCode |-> ErrorCode, IER |-> IER]
           sent == IF TransmitDone(entered) THEN CAN_Transmit_IT(entered) ELSE entered
           received == IF MessagePending(sent) THEN CAN_Receive_IT(sent) ELSE sent
           left == CheckErrors(received)
<1>1. /\ entered \in Handles
      /\ entered.State = State /\ entered.IER = IER
    BY DEF ITInv, TypeOK, Handles, HandleStates, Interrupts, Errors, Flags
<1>2. /\ State' = left.State /\ ErrorCode' = left.ErrorCode /\ IER' = left.IER
      /\ owed' = IF TransmitDone(entered) THEN owed - 1 ELSE owed
      /\ fifo' = IF MessagePending(sent) THEN fifo - 1 ELSE fifo
      /\ esr' = IF {"LEC", "ERR"} \subseteq received.IER THEN esr \ {"LEC"}
                ELSE esr
      /\ UNCHANGED <<call, armed, mailbox, power>>
    BY DEF HAL_CAN_IRQHandler
<1>3. TransmitDone(entered) => "TME" \in IER
    BY <1>1 DEF TransmitDone
<1>4. MessagePending(sent) => "FMP" \in sent.IER /\ fifo > 0
    BY DEF MessagePending
<1> HIDE DEF entered
<1>5. /\ sent \in Handles
      /\ TransmitDone(entered) =>
            /\ sent.IER \subseteq IER /\ "TME" \notin sent.IER
            /\ sent.State \in {"READY", "BUSY_RX"}
            /\ sent.State = "BUSY_RX" => State = "BUSY_TX_RX"
      /\ ~TransmitDone(entered) => sent.IER = IER /\ sent.State = State
    BY <1>1, TransmitIT
<1> HIDE DEF sent
<1>6. /\ received \in Handles
      /\ MessagePending(sent) =>
            /\ "TME" \in received.IER <=> "TME" \in sent.IER
            /\ received.State \in {"READY", "BUSY_TX", "BUSY_RX", "BUSY_TX_RX"}
            /\ received.State \in {"BUSY_RX", "BUSY_TX_RX"} => "FMP" \in received.IER
            /\ received.State \in {"BUSY_TX", "BUSY_TX_RX"} => sent.State = "BUSY_TX_RX"
      /\ ~MessagePending(sent) =>
            received.IER = sent.IER /\ received.State = sent.State
    BY <1>5, ReceiveIT
<1> HIDE DEF received
<1>7. /\ left \in Handles
      /\ left.IER = received.IER
      /\ left.State = received.State \/ left.State = "READY"
    BY <1>6, ErrorsChecked DEF ITInv, TypeOK
<1> HIDE DEF left
<1>8. /\ State' \in HandleStates /\ ErrorCode' \subseteq Flags
      /\ IER' \subseteq Interrupts
    BY <1>2, <1>7 DEF Handles
<1>9. OwedInv'
  <2>1. "TME" \in IER' => "TME" \in IER /\ ~TransmitDone(entered)
      BY <1>2, <1>5, <1>6, <1>7
  <2> QED
      BY <1>2, <1>3, <2>1 DEF ITInv, OwedInv, call
<1>10. TypeOK'
  <2>1. fifo' \in 0..FifoDepth /\ esr' \subseteq Flags
      BY <1>2, <1>4, CanHalITAssumption DEF ITInv, TypeOK
  <2>2. owed' \in -1..1
      BY <1>9 DEF OwedInv
  <2> QED
      BY <1>2, <1>8, <2>1, <2>2 DEF ITInv, TypeOK, HandleStates, Interrupts, Errors, Flags, call
<1>11. CallInv'
    BY <1>2 DEF ITInv, CallInv, call
<1>12. CASE "transmit" \in program
  <2>1. "FMP" \notin IER /\ State \notin {"BUSY_RX", "BUSY_TX_RX"}
      BY <1>12 DEF ITInv, TransmitterInv
  <2>2. ~MessagePending(sent)
      BY <1>4, <1>5, <2>1
  <2>3. TransmitterInv' /\ ReceiverInv'
      BY <1>12, <1>2, <1>5, <1>6, <1>7, <2>1, <2>2
         DEF ITInv, TransmitterInv, ReceiverInv, call
  <2>4. BusyMeansOngoing'
      BY <1>2, <1>5, <1>6, <1>7, <2>1, <2>2 DEF ITInv, BusyMeansOngoing, call
  <2> QED
      BY <1>9, <1>10, <1>11, <2>3, <2>4 DEF ITInv
<1>13. CASE "transmit" \notin program
  <2>1. "TME" \notin IER /\ State \notin {"BUSY_TX", "BUSY_TX_RX"}
      BY <1>13 DEF ITInv, ReceiverInv
  <2>2. ~TransmitDone(entered)
      BY <1>3, <2>1
  <2>3. TransmitterInv' /\ ReceiverInv'
      BY <1>13, <1>2, <1>5, <1>6, <1>7, <2>1, <2>2
         DEF ITInv, TransmitterInv, ReceiverInv, call
  <2>4. BusyMeansOngoing'
      BY <1>2, <1>5, <1>6, <1>7, <2>1, <2>2 DEF ITInv, BusyMeansOngoing, call
  <2> QED
      BY <1>9, <1>10, <1>11, <2>3, <2>4 DEF ITInv
<1> QED
    BY <1>12, <1>13

\* The peripheral changes neither the handle nor IER.
LEMMA PeripheralStep ==
    ASSUME ITInv, UNCHANGED program,
           Send \/ Arrive \/ Fail \/ Recover \/ FollowSleep
    PROVE  ITInv'
<1> USE CanHalITAssumption
    DEF ITInv, TypeOK, CallInv, TransmitterInv, ReceiverInv, OwedInv,
        BusyMeansOngoing, HandleStates, handle, history, errors, power, call
<1>1. CASE Send
    BY <1>1 DEF Send
<1>2. CASE Arrive
    BY <1>2 DEF Arrive
<1>3. CASE Fail
    BY <1>3 DEF Fail
<1>4. CASE Recover
    BY <1>4 DEF Recover
<1>5. CASE FollowSleep
    BY <1>5 DEF FollowSleep
<1> QED
    BY <1>1, <1>2, <1>3, <1>4, <1>5

-----------------------------------------------------------------------------

LEMMA ITStep == OneDirection /\ ITInv /\ [Next]_vars => ITInv'
<1> SUFFICES ASSUME OneDirection, ITInv, [Next]_vars
             PROVE  ITInv'
    OBVIOUS
<1>1. CASE Next
    BY <1>1, TransmitStep, ReceiveStep, SharedStep, EnableStep, PowerStep, HandlerStep,
       PeripheralStep DEF Next, Step, Continue
<1>2. CASE UNCHANGED vars
    BY <1>2 DEF ITInv, TypeOK, CallInv, TransmitterInv, ReceiverInv, OwedInv,
                BusyMeansOngoing, vars, call, handle, history, errors, power
<1> QED
    BY <1>1, <1>2

\* The handle, IER and the call under way stay in step.
LEMMA ITInvariance == OneDirection /\ Spec => []ITInv
<1>1. CASE OneDirection
  <2>1. ITInv /\ [Next]_vars => ITInv'
      BY <1>1, ITStep
  <2> QED
      BY <2>1, ITInit, PTL DEF Spec
<1> QED
    BY <1>1

\* State claims a transfer only while its interrupt is, or is about to be,
\* enabled, wherever interrupts, errors, sleep and wake-up come in between.
THEOREM BusyIsOngoing == OneDirection /\ Spec => []BusyMeansOngoing
<1>1. ITInv => BusyMeansOngoing
    BY DEF ITInv
<1>2. CASE OneDirection
    BY <1>1, <1>2, ITInvariance, PTL
<1> QED
    BY <1>2

\* No HAL_CAN_Transmit_IT has two callbacks.
THEOREM OneCallback == OneDirection /\ Spec => []CallbackOncePerRequest
<1>1. ITInv => CallbackOncePerRequest
    BY DEF ITInv, OwedInv, CallbackOncePerRequest
<1>2. CASE OneDirection
    BY <1>1, <1>2, ITInvariance, PTL
<1> QED
    BY <1>2

\* Every variable keeps its type: IER holds the three interrupts this client
\* enables, and no request is put into a mailbox that still holds one.
THEOREM ITTypeCorrect == OneDirection /\ Spec => []TypeOK
<1>1. ITInv => TypeOK
    BY DEF ITInv
<1>2. CASE OneDirection
    BY <1>1, <1>2, ITInvariance, PTL
<1> QED
    BY <1>2

-----------------------------------------------------------------------------
(* No request is forgotten, whatever the program does. *)

\* While a request has had no callback, its call is about to enable the
\* transmit interrupt, or that interrupt is enabled, and what raises it was or
\* is about to be requested.
AnswerAwaited ==
    owed = 1 =>
        \/ pc \in Transmitting \ {"tx_request"}
        \/ /\ "TME" \in IER
           /\ pc = "tx_request" \/ \E k \in DOMAIN mailbox : mailbox[k] # "empty"

\* The write of IER that is under way puts no transmit interrupt out: only the
\* main program enables one, so what it has read holds what is enabled now.
AwaitInv ==
    /\ owed \in Int /\ owed <= 1
    /\ mailbox \in [0..(Mailboxes - 1) -> {"empty", "pending", "sent"}]
    /\ box \in DOMAIN mailbox
    /\ ier # NotRead => pc \in DOMAIN Enabled
    /\ ier # NotRead /\ "TME" \in IER => "TME" \in ier
    /\ AnswerAwaited

\* The handler disables the transmit interrupt only where it calls back.
LEMMA HandlerKeepsTransmit ==
    ASSUME HAL_CAN_IRQHandler
    PROVE  /\ UNCHANGED <<call, mailbox>>
           /\ "TME" \in IER' => "TME" \in IER
           /\ \/ owed' = owed - 1
              \/ owed' = owed /\ ("TME" \in IER => "TME" \in IER')
<1> DEFINE entered == [State |-> State, ErrorCode |-> ErrorCode, IER |-> IER]
           sent == IF TransmitDone(entered) THEN CAN_Transmit_IT(entered) ELSE entered
           received == IF MessagePending(sent) THEN CAN_Receive_IT(sent) ELSE sent
           left == CheckErrors(received)
<1>1. entered.IER = IER
    OBVIOUS
<1>2. /\ IER' = left.IER
      /\ owed' = IF TransmitDone(entered) THEN owed - 1 ELSE owed
      /\ UNCHANGED <<call, mailbox>>
    BY DEF HAL_CAN_IRQHandler
<1> HIDE DEF entered
<1>3. /\ "TME" \in sent.IER => "TME" \in IER
      /\ ~TransmitDone(entered) => sent.IER = IER
    BY <1>1 DEF CAN_Transmit_IT
<1> HIDE DEF sent
<1>4. "TME" \in received.IER <=> "TME" \in sent.IER
  <2>1. \A h : "TME" \in Rearm(h).IER <=> "TME" \in h.IER
    <3> SUFFICES ASSUME NEW h PROVE "TME" \in Rearm(h).IER <=> "TME" \in h.IER
        OBVIOUS
    <3>1. CASE ~Locked /\ Receivable(h.State)
        BY <3>1 DEF Rearm, Errors, Flags
    <3>2. CASE ~(~Locked /\ Receivable(h.State))
        BY <3>2 DEF Rearm
    <3> QED
        BY <3>1, <3>2
  <2>2. "TME" \in CAN_Receive_IT(sent).IER <=> "TME" \in sent.IER
      BY <2>1 DEF CAN_Receive_IT, Errors, Flags
  <2> QED
      BY <2>2
<1> HIDE DEF received
<1>5. left.IER = received.IER
    BY DEF CheckErrors
<1> HIDE DEF left
<1> QED
    BY <1>2, <1>3, <1>4, <1>5

\* A call of the main program.
LEMMA AwaitCall ==
    ASSUME AwaitInv,
           \/ TransmitRefused \/ TransmitBegin \/ TransmitState \/ TransmitRequest
           \/ ReceiveBegin \/ ReceiveLock \/ ReceiveRead \/ ReceiveState
           \/ ClearError \/ Unlock \/ SleepBegin \/ SleepEnd
           \/ WakeBegin \/ WakeEnd
    PROVE  AwaitInv'
<1> USE Places DEF AwaitInv, AnswerAwaited, Transmitting, handle, history, errors, power, call
<1>1. CASE TransmitRefused
    BY <1>1 DEF TransmitRefused
<1>2. CASE TransmitBegin
  <2>1. box' \in DOMAIN mailbox /\ owed' = owed + 1 /\ pc' = "tx_state" /\ owed <= 0
        /\ UNCHANGED <<ier, IER, mailbox>> /\ pc = "idle"
      BY <1>2 DEF TransmitBegin, Free
  <2> QED
      BY <2>1
<1>3. CASE TransmitState
    BY <1>3 DEF TransmitState
<1>4. CASE TransmitRequest
  <2>1. /\ pc = "tx_request" /\ mailbox' = [mailbox EXCEPT ![box] = "pending"]
        /\ UNCHANGED <<ier, IER, owed, box>> /\ pc' = "idle"
      BY <1>4 DEF TransmitRequest
  <2>2. mailbox' \in [0..(Mailboxes - 1) -> {"empty", "pending", "sent"}]
        /\ box' \in DOMAIN mailbox' /\ mailbox'[box] = "pending"
      BY <2>1
  <2> QED
      BY <2>1, <2>2
<1>5. CASE ReceiveBegin \/ ReceiveLock \/ ReceiveRead \/ ReceiveState
    BY <1>5 DEF ReceiveBegin, ReceiveLock, ReceiveRead, ReceiveState
<1>6. CASE SleepBegin \/ SleepEnd \/ WakeBegin \/ WakeEnd
    BY <1>6 DEF SleepBegin, SleepEnd, WakeBegin, WakeEnd
<1>7. CASE ClearError \/ Unlock
  <2>1. \/ pc = "tx_clear" /\ pc' = "tx_unlock"
        \/ pc = "tx_unlock" /\ pc' = "tx_enable"
        \/ pc = "rx_clear" /\ pc' = "rx_ewg"
        \/ pc = "rx_unlock" /\ pc' = "fmp_enable"
      BY <1>7 DEF ClearError, Unlock
  <2> QED
      BY <1>7, <2>1 DEF ClearError, Unlock
<1> QED
    BY <1>1, <1>2, <1>3, <1>4, <1>5, <1>6, <1>7

\* The write of IER, from what was read before an interrupt or after it.
LEMMA AwaitEnable ==
    ASSUME AwaitInv, EnableRead \/ EnableWrite
    PROVE  AwaitInv'
<1> USE Places DEF AwaitInv, AnswerAwaited, Transmitting, handle, history, errors, power, call
<1>1. CASE EnableRead
    BY <1>1 DEF EnableRead
<1>2. CASE EnableWrite
  <2>1. /\ pc \in DOMAIN Enabled
        /\ ier # NotRead /\ ier' = NotRead /\ IER' = ier \cup Enabled[pc]
        /\ pc' = After[pc] /\ UNCHANGED <<box, owed, mailbox>>
      BY <1>2 DEF EnableWrite
  <2>2. CASE pc = "tx_enable"
    <3>1. pc' = "tx_request" /\ "TME" \in IER'
        BY <2>1, <2>2, Enables
    <3> QED
        BY <2>1, <3>1
  <2>3. CASE pc # "tx_enable"
    <3>1. pc' \in {"rx_lec", "rx_err", "rx_unlock", "idle"} /\ ("TME" \in IER => "TME" \in IER')
        BY <2>1, <2>3
    <3> QED
        BY <2>1, <2>3, <3>1
  <2> QED
      BY <2>2, <2>3
<1> QED
    BY <1>1, <1>2

LEMMA AwaitStep == AwaitInv /\ [Next]_vars => AwaitInv'
<1> SUFFICES ASSUME AwaitInv, [Next]_vars
             PROVE  AwaitInv'
    OBVIOUS
<1> USE DEF AwaitInv, AnswerAwaited, Transmitting
<1>1. CASE HAL_CAN_IRQHandler
    BY <1>1, HandlerKeepsTransmit DEF call
<1>2. CASE Send
  <2>1. /\ UNCHANGED <<call, owed, IER>>
        /\ \E k \in DOMAIN mailbox : mailbox' = [mailbox EXCEPT ![k] = "sent"]
      BY <1>2 DEF Send, history
  <2>2. /\ mailbox' \in [0..(Mailboxes - 1) -> {"empty", "pending", "sent"}]
        /\ \A k \in DOMAIN mailbox : mailbox[k] # "empty" => mailbox'[k] # "empty"
      BY <2>1
  <2> QED
      BY <2>1, <2>2 DEF call
<1>3. CASE Arrive \/ Fail \/ Recover \/ FollowSleep
    BY <1>3 DEF Arrive, Fail, Recover, FollowSleep, call, history
<1>4. CASE UNCHANGED vars
    BY <1>4 DEF vars, call, history
<1> QED
    BY <1>1, <1>2, <1>3, <1>4, AwaitCall, AwaitEnable DEF Next, Step, Continue

\* Whatever the program calls, and wherever the interrupts fall, also between
\* the reading of State or IER and the writing, a request without callback has
\* its interrupt enabled or is about to: no wake-up is lost.  What is left of
\* RequestAnswered is the fairness of bus and processor.
THEOREM NoRequestForgotten == Spec => []AnswerAwaited
<1>1. Init => AwaitInv
    BY CanHalITAssumption DEF Init, AwaitInv, AnswerAwaited
<1>2. AwaitInv => AnswerAwaited
    BY DEF AwaitInv
<1> QED
    BY <1>1, <1>2, AwaitStep, PTL DEF Spec

=============================================================================
