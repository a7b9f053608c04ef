--------------------------- MODULE SecureCan_proofs ---------------------------
(***************************************************************************)
(* The two programs of SecureCan use the driver as CanHal lets any client: *)
(* what is proved of the driver holds in the whole system.  The system     *)
(* carries nothing but the frames of the two programs: as long as the      *)
(* counter stays within its field, each of them opens at the other node    *)
(* and no number stands for two samples.  The motor follows the pedal, and *)
(* it goes back to no older sample when boards are reset (SecureCanReset). *)
(***************************************************************************)
EXTENDS SecureCanReset, CanHal_proofs, SecCan_proofs

\* The counter of the pedal wraps within its type.
NumberInv == msgnum \in 0..(MsgMod - 1)

\* Only PedalSent changes the counter, and it wraps it.
LEMMA NumberInvariant == Spec => []NumberInv
<1>1. Init => NumberInv
  BY SecureCanAssumption DEF Init, NumberInv
<1>2. NumberInv /\ [Next]_vars => NumberInv'
  <2> SUFFICES ASSUME NumberInv, [Next]_vars
               PROVE  NumberInv'
    OBVIOUS
  <2>1. CASE PedalSent
    BY <2>1, SecureCanAssumption DEF PedalSent, NumberInv
  <2>2. CASE UNCHANGED msgnum
    BY <2>2 DEF NumberInv
  <2>3. PedalSent \/ UNCHANGED msgnum
    BY DEF Next, appVars, vars, PedalNext, PedalStart, PedalWait, PedalSample,
           PedalAdcError, MotorNext, MotorStart, MotorRequest, MotorRequested,
           MotorNothing, MotorApply, MotorReject, MotorListenEnd
  <2> QED
    BY <2>1, <2>2, <2>3
<1> QED
  BY <1>1, <1>2, PTL DEF Spec

\* Each step of the pedal's program is a call of the driver or leaves it alone.
LEMMA PedalCalls ==
    ASSUME NumberInv, PedalNext
    PROVE  [HalNext]_halVars
<1>1. Pedal \in Node /\ Pedal \in Reader /\ 8 \in Length
  BY SecureCanAssumption, ClientAssumption
<1>2. CASE PedalStart \/ PedalAdcError \/ PedalSent
  BY <1>2 DEF PedalStart, PedalAdcError, PedalSent
<1>3. CASE PedalWait
  BY <1>1, <1>3 DEF PedalWait, HalNext, Client
<1>4. ASSUME NEW v \in Sample, PedalSample(v)
      PROVE  HalNext
  <2>1. write_can(Pedal, SamplePacket(msgnum, v).ext_id,
                  SamplePacket(msgnum, v).payload, 8)
    BY <1>4 DEF PedalSample
  <2>2. SamplePacket(msgnum, v).ext_id \in Address[Pedal]
    BY ClientAssumption DEF NumberInv, SamplePacket, encrypt_can_packet
  <2>3. SamplePacket(msgnum, v).payload \in Payload
    BY ClientAssumption DEF NumberInv
  <2> QED
    BY <1>1, <2>1, <2>2, <2>3 DEF HalNext, Client
<1> QED
  BY <1>2, <1>3, <1>4 DEF PedalNext

\* So is each step of the motor's.
LEMMA MotorCalls ==
    ASSUME MotorNext
    PROVE  [HalNext]_halVars
<1>1. Motor \in Node /\ Motor \in Reader /\ 8 \in Length
  BY SecureCanAssumption, ClientAssumption
<1>2. CASE MotorStart \/ MotorRequested \/ MotorListenEnd
  BY <1>2 DEF MotorStart, MotorRequested, MotorListenEnd
<1>3. CASE MotorRequest
  BY <1>1, <1>3, ClientAssumption DEF MotorRequest, HalNext, Client
<1>4. CASE MotorNothing \/ MotorApply \/ MotorReject
  <2>1. read_can(Motor, 8)
    BY <1>4 DEF MotorNothing, MotorApply, MotorReject, MotorRead
  <2> QED
    BY <1>1, <2>1 DEF HalNext, Client
<1> QED
  BY <1>2, <1>3, <1>4 DEF MotorNext

\* The system of the two nodes is one use of the driver: every behaviour of
\* adc_stm_loop and master_stm_loop is a behaviour of CanHal.
THEOREM UsesDriver == Spec => HalSpec
<1>1. Init => HalInit
  BY DEF Init
<1>2. NumberInv /\ [Next]_vars => [HalNext]_halVars
  <2> SUFFICES ASSUME NumberInv, [Next]_vars
               PROVE  [HalNext]_halVars
    OBVIOUS
  <2>1. CASE UNCHANGED vars
    BY <2>1 DEF vars
  <2>2. CASE Internal
    BY <2>2 DEF Internal, HalNext
  <2>3. CASE PedalNext
    BY <2>3, PedalCalls
  <2>4. CASE MotorNext
    BY <2>4, MotorCalls
  <2> QED
    BY <2>1, <2>2, <2>3, <2>4 DEF Next
<1> QED
  BY NumberInvariant, <1>1, <1>2, PTL DEF Spec, HalSpec

\* In the whole system, then, no frame of a finished send_can_packet can reach
\* the bus late, no transmission is refused, and the stations are on the bus
\* whenever the programs run.
THEOREM SystemSafety ==
    Spec => [](HalTypeOK /\ NothingOutstanding /\ NeverRefused /\ OnlineWhenIdle)
BY UsesDriver, TypeCorrect, NoLateFrame, TransmitNotRefused, Online, PTL

-----------------------------------------------------------------------------
(* The driver, the peripherals and the bus carry frames and make none. *)

\* Every frame that is about to be requested, is in a mailbox or a FIFO, or
\* was the last one received is in M; blank ones are not on their way.
Carries(M) ==
    /\ \A n \in Node : pc[n] = "transmit" => msg[n] \in M
    /\ \A n \in Node, k \in Mailboxes :
          out[n][k] \in M \/ (out[n][k] = NoFrame /\ ~Outstanding(n, k))
    /\ fifo \in [Node -> Seq(M)]
    /\ RxMessage \in [Node -> M \cup {NoFrame}]

\* A FIFO of such frames stays one when a frame is stored, full or not.
LEMMA StoreCarries ==
    ASSUME NEW M, NEW q \in Seq(M), NEW f \in M
    PROVE  Store(q, f) \in Seq(M)
<1>1. CASE Len(q) < FifoDepth
  BY <1>1 DEF Store
<1>2. CASE ~(Len(q) < FifoDepth)
  <2>1. q \in [1..Len(q) -> M] /\ Len(q) \in Nat
    OBVIOUS
  <2>2. [q EXCEPT ![Len(q)] = f] \in [1..Len(q) -> M]
    BY <2>1
  <2>3. [q EXCEPT ![Len(q)] = f] \in Seq(M)
    BY <2>1, <2>2
  <2> QED
    BY <1>2, <2>3 DEF Store
<1> QED
  BY <1>1, <1>2

\* What the driver does inside a call.
LEMMA DriverCarries ==
    ASSUME NEW M, NEW n \in Node, HalInv, Carries(M), Driver(n)
    PROVE  Carries(M)'
<1>1. /\ pc \in [Node -> Locations] /\ msg \in [Node -> Frame]
      /\ tme \in [Node -> [Mailboxes -> MailboxStatuses]]
      /\ out \in [Node -> [Mailboxes -> Frame]]
      /\ mailbox[n] \in Mailboxes
  BY DEF HalInv, HalTypeOK
<1>2. CASE TransmitRequest(n)
  <2>1. pc[n] = "transmit" /\ msg[n] \in M /\ msg' = msg
        /\ fifo' = fifo /\ RxMessage' = RxMessage
    BY <1>2 DEF TransmitRequest, Carries
  <2>2. \E place \in {"transmitted", "poll_tx"} : pc' = [pc EXCEPT ![n] = place]
    BY <1>2 DEF TransmitRequest, Goto
  <2>3. \/ UNCHANGED <<tme, out>>
        \/ \E k : /\ tme' = [tme EXCEPT ![n][k] = "pending"]
                  /\ out' = [out EXCEPT ![n][k] = msg[n]]
    BY <1>2 DEF TransmitRequest
  <2>4. \A m \in Node, j \in Mailboxes :
           out'[m][j] \in M \/ (out'[m][j] = NoFrame /\ ~Outstanding(m, j)')
    <3>1. CASE UNCHANGED <<tme, out>>
      BY <3>1 DEF Carries, Outstanding
    <3>2. ASSUME NEW k, tme' = [tme EXCEPT ![n][k] = "pending"],
                 out' = [out EXCEPT ![n][k] = msg[n]],
                 NEW m \in Node, NEW j \in Mailboxes
          PROVE  out'[m][j] \in M \/ (out'[m][j] = NoFrame /\ ~Outstanding(m, j)')
      <4>1. CASE m = n /\ j = k
        BY <1>1, <2>1, <3>2, <4>1
      <4>2. CASE ~(m = n /\ j = k)
        <5>1. out'[m][j] = out[m][j] /\ tme'[m][j] = tme[m][j]
          BY <1>1, <3>2, <4>2
        <5> QED
          BY <5>1 DEF Carries, Outstanding
      <4> QED
        BY <4>1, <4>2
    <3> QED
      BY <2>3, <3>1, <3>2
  <2> QED
    BY <1>1, <2>1, <2>2, <2>4 DEF Carries
<1>3. CASE TransmitTimeout(n)
  <2>1. /\ UNCHANGED <<msg, out, fifo, RxMessage>>
        /\ pc' = [pc EXCEPT ![n] = "transmitted"]
        /\ tme[n][mailbox[n]] # "sent"
        /\ tme' = [tme EXCEPT ![n][mailbox[n]] = Cancelled(n, mailbox[n])]
    BY <1>3 DEF TransmitTimeout, Goto
  <2>2. \A m \in Node, j \in Mailboxes : ~Outstanding(m, j) => ~Outstanding(m, j)'
    BY <1>1, <2>1 DEF HalInv, MailboxInv, Outstanding, Cancelled
  <2> QED
    BY <1>1, <2>1, <2>2 DEF Carries
<1>4. CASE ~TransmitRequest(n) /\ ~TransmitTimeout(n)
  <2>1. /\ UNCHANGED <<tme, out, fifo, RxMessage>>
        /\ \A m \in Node : m # n => msg'[m] = msg[m]
        /\ \E place \in Locations \ {"transmit"} :
              pc' = [pc EXCEPT ![n] = place]
    BY <1>1, <1>4 DEF Driver, MX_CAN_Init, EnterInitPoll, EnterInitTimeout,
       EnterInitDone, LeaveInitDone, DeactivateFilter, ActivateFilter,
       TransmitPoll, TransmitDone, WriteReturn, WriteRestart, RequestInit, Goto,
       Prepare, Locations, hw
  <2> QED
    BY <1>1, <2>1 DEF Carries, Outstanding
<1> QED
  BY <1>2, <1>3, <1>4

\* What the peripherals and the bus do.
LEMMA HardwareCarries ==
    ASSUME NEW M, NEW n \in Node, HalInv, Carries(M), Hardware(n)
    PROVE  Carries(M)'
<1>1. UNCHANGED <<pc, msg, out, RxMessage>>
  BY DEF Hardware, StartOfFrame, EndOfFrame, ErrorFrame, AcknowledgeInit,
         Synchronise, sw
<1>2. tme \in [Node -> [Mailboxes -> MailboxStatuses]]
  BY DEF HalInv, HalTypeOK
<1>3. \A m \in Node, j \in Mailboxes : ~Outstanding(m, j) => ~Outstanding(m, j)'
  BY <1>2 DEF Hardware, StartOfFrame, EndOfFrame, ErrorFrame, AcknowledgeInit,
              Synchronise, Outstanding
<1>4. fifo' \in [Node -> Seq(M)]
  <2>1. CASE UNCHANGED fifo
    BY <2>1 DEF Carries
  <2>2. ASSUME NEW k \in Mailboxes, NEW A, bus = OnBus(n, k), Deliver(A, out[n][k])
        PROVE  fifo' \in [Node -> Seq(M)]
    <3>1. out[n][k] \in M
      BY <2>2 DEF HalInv, MailboxInv, Carries
    <3>2. \A m \in Node : Store(fifo[m], out[n][k]) \in Seq(M) /\ fifo[m] \in Seq(M)
      BY <3>1, StoreCarries DEF Carries
    <3> QED
      BY <2>2, <3>2 DEF Deliver
  <2>3. \/ UNCHANGED fifo
        \/ \E k \in Mailboxes : \E A : bus = OnBus(n, k) /\ Deliver(A, out[n][k])
    BY DEF Hardware, StartOfFrame, EndOfFrame, ErrorFrame, AcknowledgeInit,
           Synchronise
  <2> QED
    BY <2>1, <2>2, <2>3
<1> QED
  BY <1>1, <1>3, <1>4 DEF Carries

\* read_can takes the oldest frame out of the FIFO.
LEMMA ReadCarries ==
    ASSUME NEW M, NEW n \in Node, NEW length, HalInv, Carries(M),
           read_can(n, length)
    PROVE  Carries(M)'
<1>1. UNCHANGED <<pc, msg, tme, out>>
  BY DEF read_can
<1>2. \/ UNCHANGED <<fifo, RxMessage>>
      \/ /\ fifo[n] # <<>>
         /\ RxMessage' = [RxMessage EXCEPT ![n] = Head(fifo[n])]
         /\ fifo' = [fifo EXCEPT ![n] = Tail(@)]
  BY DEF read_can, HAL_CAN_Receive
<1>3. fifo[n] \in Seq(M) /\ fifo \in [Node -> Seq(M)]
      /\ RxMessage \in [Node -> M \cup {NoFrame}]
  BY DEF Carries
<1>4. fifo' \in [Node -> Seq(M)] /\ RxMessage' \in [Node -> M \cup {NoFrame}]
  <2>1. CASE UNCHANGED <<fifo, RxMessage>>
    BY <1>3, <2>1
  <2>2. CASE /\ fifo[n] # <<>>
             /\ RxMessage' = [RxMessage EXCEPT ![n] = Head(fifo[n])]
             /\ fifo' = [fifo EXCEPT ![n] = Tail(@)]
    <3>1. Head(fifo[n]) \in M /\ Tail(fifo[n]) \in Seq(M)
      BY <1>3, <2>2
    <3> QED
      BY <1>3, <2>2, <3>1
  <2> QED
    BY <1>2, <2>1, <2>2
<1> QED
  BY <1>1, <1>4 DEF Carries, Outstanding

\* write_can adds the caller's frame.
LEMMA WriteCarries ==
    ASSUME NEW M, NEW n \in Node, NEW address \in Nat, NEW data \in Payload,
           NEW length \in Nat, HalInv, Carries(M),
           write_can(n, address, data, length),
           \A f \in Frame : f.id = address /\ f.data = data /\ f.dlc = length => f \in M
    PROVE  Carries(M)'
<1>1. /\ pc[n] = "idle" /\ pc \in [Node -> Locations]
      /\ msg \in [Node -> Frame]
      /\ UNCHANGED <<tme, out, fifo, RxMessage>>
  BY DEF write_can, HalInv, HalTypeOK, hw
<1>2. \A m \in Node : m # n => pc'[m] = pc[m] /\ msg'[m] = msg[m]
  BY <1>1 DEF write_can, Goto, Prepare
<1>3. pc'[n] = "transmit" => msg'[n] \in M
  <2> DEFINE ide == IF address <= StdMax THEN "STD" ELSE "EXT"
             f == [ide |-> ide, id |-> address, dlc |-> length, data |-> data]
  <2> SUFFICES ASSUME pc'[n] = "transmit" PROVE msg'[n] \in M
    OBVIOUS
  <2>1. length <= 8 /\ msg' = [msg EXCEPT ![n] = f]
    BY <1>1 DEF write_can, Prepare
  <2>2. f \in Frame
    BY <2>1 DEF Frame
  <2> QED
    BY <1>1, <2>1, <2>2
<1> QED
  BY <1>1, <1>2, <1>3 DEF Carries, Outstanding

\* More frames may be carried than are.
LEMMA CarriesMore ==
    ASSUME NEW M, NEW N, M \subseteq N, Carries(M)
    PROVE  Carries(N)
<1>1. Seq(M) \subseteq Seq(N)
  OBVIOUS
<1> QED
  BY <1>1 DEF Carries

-----------------------------------------------------------------------------
(* The frames are those of the two programs. *)

\* Within the bound my_data.msgnum has not left the counter's field of the
\* identifier, and the motor's fixed number, used in two-way mode only, is in
\* that field.
CounterFits ==
    /\ NumberFits /\ MaxSend <= CtrMod
    /\ TwoWay => MotorName.msgnum < CtrMod

IsSampleFrame(f, i) ==
    /\ f.id = ExtId(PedalName(i - 1))
    /\ f.data = SamplePacket(i - 1, samples[i]).payload

IsRequestFrame(f) ==
    TwoWay /\ f.id = RequestPacket.ext_id /\ f.data = RequestPacket.payload

\* They have eight bytes.
Made == {f \in Frame : /\ f.dlc = 8
                       /\ \/ \E i \in 1..Len(samples) : IsSampleFrame(f, i)
                          \/ IsRequestFrame(f)}

\* The pedal's counter numbers its samples; only two-way programs ask.
NumberedInv ==
    /\ samples \in Seq(Sample) /\ Len(samples) <= MaxSend
    /\ pedal = "send" => Len(samples) >= 1 /\ msgnum = Len(samples) - 1
    /\ pedal # "send" /\ Len(samples) < MsgMod => msgnum = Len(samples)
    /\ motor = "request" => TwoWay

FramesInv == NumberInv /\ NumberedInv /\ Carries(Made)

\* Nothing has been made or carried at the start.
LEMMA FramesInit ==
    ASSUME Init
    PROVE  FramesInv
<1>1. NumberInv
  BY SecureCanAssumption DEF Init, NumberInv
<1>2. NumberedInv
  BY SecureCanAssumption DEF Init, NumberedInv
<1>3. Carries(Made)
  BY DEF Init, HalInit, Carries, Outstanding
<1> QED
  BY <1>1, <1>2, <1>3 DEF FramesInv

\* Steps that leave samples alone leave Made alone.
LEMMA MadeUnchanged ==
    ASSUME UNCHANGED samples
    PROVE  Made' = Made
BY DEF Made, IsSampleFrame, IsRequestFrame

\* A new sample leaves the frames of the earlier ones what they are.
LEMMA MadeGrows ==
    ASSUME NEW v \in Sample, NumberedInv, samples' = Append(samples, v)
    PROVE  Made \subseteq Made'
<1>1. /\ Len(samples') = Len(samples) + 1 /\ Len(samples) \in Nat
      /\ \A i \in 1..Len(samples) : samples'[i] = samples[i]
  BY DEF NumberedInv
<1>2. \A f, i : i \in 1..Len(samples) /\ IsSampleFrame(f, i) => IsSampleFrame(f, i)'
  BY <1>1 DEF IsSampleFrame
<1> QED
  BY <1>1, <1>2 DEF Made, IsRequestFrame

\* PedalSample hands write_can the frame of the sample it appends.
LEMMA PedalSampleFrames ==
    ASSUME NumberFits, HalInv, FramesInv, NEW v \in Sample, PedalSample(v)
    PROVE  FramesInv'
<1>1. /\ pedal = "sample" /\ Len(samples) < MaxSend
      /\ write_can(Pedal, SamplePacket(msgnum, v).ext_id,
                   SamplePacket(msgnum, v).payload, 8)
      /\ samples' = Append(samples, v)
      /\ pedal' = "send"
      /\ UNCHANGED <<motor, msgnum>>
  BY DEF PedalSample
<1>2. samples \in Seq(Sample) /\ Len(samples) \in Nat /\ msgnum = Len(samples)
  BY <1>1, SecureCanAssumption DEF FramesInv, NumberedInv, NumberFits
<1>3. /\ Len(samples') = Len(samples) + 1
      /\ samples'[Len(samples) + 1] = v
      /\ samples' \in Seq(Sample)
  BY <1>1, <1>2
<1>4. NumberInv' /\ NumberedInv'
  BY <1>1, <1>2, <1>3, SecureCanAssumption DEF FramesInv, NumberInv, NumberedInv
<1>5. PICK N : N = Made'
  OBVIOUS
<1>6. Carries(N)
  BY <1>1, <1>5, MadeGrows, CarriesMore DEF FramesInv
<1>7. \A f \in Frame : f.id = SamplePacket(msgnum, v).ext_id /\ f.dlc = 8
                       /\ f.data = SamplePacket(msgnum, v).payload => f \in N
  <2> SUFFICES ASSUME NEW f \in Frame, f.id = SamplePacket(msgnum, v).ext_id, f.dlc = 8,
                      f.data = SamplePacket(msgnum, v).payload
               PROVE  f \in N
    OBVIOUS
  <2>1. SamplePacket(msgnum, v).ext_id = ExtId(PedalName(msgnum))
    BY DEF SamplePacket, encrypt_can_packet
  <2>2. (Len(samples) + 1) - 1 = msgnum
    BY <1>2
  <2>3. f.id = ExtId(PedalName((Len(samples) + 1) - 1))
    BY <2>1, <2>2
  <2>4. f.data = SamplePacket((Len(samples) + 1) - 1, samples'[Len(samples) + 1]).payload
    BY <1>3, <2>2
  <2>5. \E i \in 1..Len(samples') : /\ f.id = ExtId(PedalName(i - 1))
                                    /\ f.data = SamplePacket(i - 1, samples'[i]).payload
    BY <1>2, <1>3, <2>3, <2>4
  <2> QED
    BY <1>5, <2>5 DEF Made, IsSampleFrame
<1>8. SamplePacket(msgnum, v).ext_id \in Nat /\ SamplePacket(msgnum, v).payload \in Payload
  BY CanHalAssumption, ClientAssumption, SecureCanAssumption
     DEF FramesInv, NumberInv, SamplePacket, encrypt_can_packet
<1>9. PICK address \in Nat, data \in Payload :
         address = SamplePacket(msgnum, v).ext_id /\ data = SamplePacket(msgnum, v).payload
  BY <1>8
<1>10. /\ write_can(Pedal, address, data, 8)
       /\ \A f \in Frame : f.id = address /\ f.data = data /\ f.dlc = 8 => f \in N
  BY <1>1, <1>7, <1>9
<1>11. Pedal \in Node /\ 8 \in Nat /\ HalInv
  BY SecureCanAssumption
<1>12. Carries(N)'
  BY <1>6, <1>10, <1>11, WriteCarries
<1> QED
  BY <1>4, <1>5, <1>12 DEF FramesInv, Carries

\* A step of the pedal's program other than a sample.
LEMMA PedalFrames ==
    ASSUME NumberFits, HalInv, FramesInv,
           PedalStart \/ PedalWait \/ PedalAdcError \/ PedalSent
    PROVE  FramesInv'
<1>1. samples' = samples /\ motor' = motor /\ Made' = Made
  BY MadeUnchanged DEF PedalStart, PedalWait, PedalAdcError, PedalSent
<1>2. NumberInv' /\ NumberedInv'
  <2>1. CASE PedalSent
    <3>1. /\ pedal = "send" /\ msgnum' = (msgnum + 1) % MsgMod
          /\ pedal' # "send" /\ msgnum = Len(samples) - 1
      BY <2>1 DEF PedalSent, PedalLoop, FramesInv, NumberedInv
    <3>2. NumberInv'
      BY <3>1, SecureCanAssumption DEF FramesInv, NumberInv
    <3>3. Len(samples) < MsgMod => msgnum' = Len(samples)
      <4>1. PICK l \in Nat : l = Len(samples) /\ l = msgnum + 1
        <5>1. msgnum \in Nat /\ samples \in Seq(Sample)
          BY SecureCanAssumption DEF FramesInv, NumberInv, NumberedInv
        <5> QED
          BY <3>1, <5>1
      <4>2. l < MsgMod => l % MsgMod = l
        BY ModBounds, SecureCanAssumption
      <4> QED
        BY <3>1, <4>1, <4>2
    <3> QED
      BY <1>1, <3>1, <3>2, <3>3 DEF FramesInv, NumberedInv
  <2>2. CASE PedalStart \/ PedalWait \/ PedalAdcError
    <3>1. pedal # "send" /\ pedal' # "send" /\ msgnum' = msgnum
      BY <2>2 DEF PedalStart, PedalWait, PedalAdcError, PedalLoop
    <3> QED
      BY <1>1, <3>1 DEF FramesInv, NumberInv, NumberedInv
  <2> QED
    BY <2>1, <2>2
<1>3. PICK N : N = Made
  OBVIOUS
<1>4. Carries(N)
  BY <1>3 DEF FramesInv
<1>5. Carries(N)'
  <2>1. CASE PedalWait
    BY <1>4, <2>1, ReadCarries, SecureCanAssumption DEF PedalWait
  <2>2. CASE UNCHANGED halVars
    BY <1>4, <2>2 DEF Carries, Outstanding, halVars, sw, hw
  <2> QED
    BY <2>1, <2>2 DEF PedalStart, PedalAdcError, PedalSent
<1> QED
  BY <1>1, <1>2, <1>3, <1>5 DEF FramesInv, Carries

\* A step of the motor's program: its requests are made in two-way mode only.
LEMMA MotorFrames ==
    ASSUME HalInv, FramesInv, MotorNext
    PROVE  FramesInv'
<1>1. samples' = samples /\ pedal' = pedal /\ msgnum' = msgnum /\ Made' = Made
  BY MadeUnchanged DEF MotorNext, MotorStart, MotorRequest, MotorRequested,
     MotorListenEnd, MotorNothing, MotorApply, MotorReject
<1>2. motor' = "request" => TwoWay
  BY DEF MotorNext, MotorStart, MotorRequest, MotorRequested, MotorListenEnd,
         MotorNothing, MotorApply, MotorReject, MotorLoop, FramesInv, NumberedInv
<1>3. NumberInv' /\ NumberedInv'
  BY <1>1, <1>2 DEF FramesInv, NumberInv, NumberedInv
<1>4. PICK N : N = Made
  OBVIOUS
<1>5. Carries(N)
  BY <1>4 DEF FramesInv
<1>6. Carries(N)'
  <2>1. CASE MotorRequest
    <3>1. TwoWay
      BY <2>1 DEF MotorRequest, FramesInv, NumberedInv
    <3>2. \A f \in Frame : f.id = RequestPacket.ext_id /\ f.data = RequestPacket.payload
                           /\ f.dlc = 8 => f \in N
      BY <1>4, <3>1 DEF Made, IsRequestFrame
    <3>3. RequestPacket.ext_id \in Nat /\ RequestPacket.payload \in Payload
      BY CanHalAssumption, ClientAssumption, SecureCanAssumption
    <3>4. write_can(Motor, RequestPacket.ext_id, RequestPacket.payload, 8)
      BY <2>1 DEF MotorRequest
    <3> QED
      BY <1>5, <3>2, <3>3, <3>4, WriteCarries, SecureCanAssumption
  <2>2. CASE read_can(Motor, 8)
    BY <1>5, <2>2, ReadCarries, SecureCanAssumption
  <2>3. CASE UNCHANGED halVars
    BY <1>5, <2>3 DEF Carries, Outstanding, halVars, sw, hw
  <2> QED
    BY <2>1, <2>2, <2>3 DEF MotorNext, MotorStart, MotorRequested, MotorListenEnd,
       MotorNothing, MotorApply, MotorReject, MotorRead
<1> QED
  BY <1>1, <1>3, <1>4, <1>6 DEF FramesInv, Carries

\* Every step of the system keeps what is carried to what was made.
LEMMA FramesStep ==
    ASSUME NumberFits, HalInv, FramesInv, [Next]_vars
    PROVE  FramesInv'
<1>1. CASE Internal /\ UNCHANGED appVars
  <2>1. Made' = Made /\ NumberInv' /\ NumberedInv'
    BY <1>1, MadeUnchanged DEF appVars, FramesInv, NumberInv, NumberedInv
  <2>2. PICK N : N = Made
    OBVIOUS
  <2>3. Carries(N)
    BY <2>2 DEF FramesInv
  <2>4. Carries(N)'
    BY <1>1, <2>3, DriverCarries, HardwareCarries DEF Internal
  <2> QED
    BY <2>1, <2>2, <2>4 DEF FramesInv, Carries
<1>2. CASE PedalNext
  BY <1>2, PedalFrames, PedalSampleFrames DEF PedalNext
<1>3. CASE MotorNext
  BY <1>3, MotorFrames
<1>4. CASE UNCHANGED vars
  <2>1. Made' = Made /\ NumberInv' /\ NumberedInv' /\ UNCHANGED halVars
    BY <1>4, MadeUnchanged DEF vars, appVars, FramesInv, NumberInv, NumberedInv
  <2> QED
    BY <2>1 DEF FramesInv, Carries, Outstanding, halVars, sw, hw
<1> QED
  BY <1>1, <1>2, <1>3, <1>4 DEF Next

\* Whatever is lost, repeated, aborted or restarted, the system carries the
\* frames of the two programs and no others.
LEMMA FramesInvariance == NumberFits /\ Spec => []FramesInv
<1> SUFFICES ASSUME NumberFits PROVE Spec => []FramesInv
  OBVIOUS
<1>1. Init => FramesInv
  BY FramesInit
<1>2. HalInv /\ FramesInv /\ [Next]_vars => FramesInv'
  BY FramesStep
<1>3. Spec => []HalInv
  BY UsesDriver, Invariance, PTL
<1> QED
  BY <1>1, <1>2, <1>3, PTL DEF Spec

-----------------------------------------------------------------------------
(* What that says of authentication and of the numbers. *)

\* Each frame is named by a number within the field and a base identifier of
\* its sender, and is the packet that name and some data give.
LEMMA MadeNamed ==
    ASSUME CounterFits, FramesInv, NEW f \in Made
    PROVE  \E name \in Name :
              /\ name.msgnum < CtrMod /\ name.baseid < BaseMod
              /\ \/ \E i \in 1..Len(samples) :
                       name = PedalName(i - 1) /\ f.data = SamplePacket(i - 1, samples[i]).payload
                 \/ TwoWay /\ name = MotorName /\ f.data = RequestPacket.payload
              /\ f.id = ExtId(name)
              /\ \E data : f.data = Payload4(name, data)
<1>1. CASE IsRequestFrame(f)
  <2>1. /\ MotorName \in Name
        /\ MotorName.msgnum < CtrMod /\ MotorName.baseid < BaseMod
    BY <1>1 DEF IsRequestFrame, CounterFits, MotorName, Name, BaseMod
  <2>2. f.id = ExtId(MotorName) /\ f.data = Payload4(MotorName, Plain(MasterMsg))
    BY <1>1 DEF IsRequestFrame, RequestPacket, encrypt_can_packet
  <2> QED
    BY <1>1, <2>1, <2>2 DEF IsRequestFrame
<1>2. ASSUME NEW i \in 1..Len(samples), IsSampleFrame(f, i)
      PROVE  \E name \in Name :
              /\ name.msgnum < CtrMod /\ name.baseid < BaseMod
              /\ name = PedalName(i - 1) /\ f.data = SamplePacket(i - 1, samples[i]).payload
              /\ f.id = ExtId(name)
              /\ \E data : f.data = Payload4(name, data)
  <2>1. i - 1 \in Nat /\ i - 1 < CtrMod
    BY SecCanAssumption, SecureCanAssumption DEF FramesInv, NumberedInv, CounterFits
  <2>2. PICK c \in Nat : c = i - 1
    BY <2>1
  <2>3. /\ PedalName(c) \in Name
        /\ PedalName(c).msgnum < CtrMod /\ PedalName(c).baseid < BaseMod
    BY <2>1, <2>2 DEF PedalName, Name, BaseMod
  <2>4. SamplePacket(i - 1, samples[i]).payload
           = Payload4(PedalName(c), Plain(PedalData(samples[i])))
    BY <2>2 DEF SamplePacket, encrypt_can_packet
  <2>5. f.id = ExtId(PedalName(c)) /\ f.data = SamplePacket(i - 1, samples[i]).payload
    BY <1>2, <2>2 DEF IsSampleFrame
  <2> QED
    BY <2>2, <2>3, <2>4, <2>5
<1> QED
  BY <1>1, <1>2 DEF Made

\* So the receiver accepts it.
LEMMA MadeOpens ==
    ASSUME CounterFits, FramesInv, NEW f \in Made
    PROVE  Opened(f).ok
<1>1. PICK name \in Name : /\ name.msgnum < CtrMod /\ name.baseid < BaseMod
                           /\ f.id = ExtId(name)
                           /\ \E data : f.data = Payload4(name, data)
  BY MadeNamed
<1>2. PICK data : f.data = Payload4(name, data)
  BY <1>1
<1>3. [ext_id |-> f.id, payload |-> f.data] = encrypt_can_packet(name, data)
  BY <1>1, <1>2 DEF encrypt_can_packet
<1>4. decrypt_can_packet(encrypt_can_packet(name, data)).ok = TRUE
  BY <1>1, RoundTrip
<1> QED
  BY <1>3, <1>4 DEF Opened

\* The two nodes answer to different base identifiers, neither to that of an
\* empty frame, and one base identifier numbers its frames apart.
LEMMA SameNumber ==
    ASSUME CounterFits, FramesInv,
           NEW f \in Made \cup {NoFrame}, NEW g \in Made \cup {NoFrame}, f.id = g.id
    PROVE  f.data = g.data
<1>1. \A name \in Name : name.msgnum < CtrMod /\ name.baseid < BaseMod
                            => NameOf(ExtId(name)) = name
  <2> SUFFICES ASSUME NEW name \in Name, name.msgnum < CtrMod, name.baseid < BaseMod
               PROVE  NameOf(ExtId(name)) = name
    OBVIOUS
  <2>1. name.msgnum \in Nat /\ name.baseid \in Nat
        /\ name = [msgnum |-> name.msgnum, baseid |-> name.baseid]
    BY DEF Name
  <2>2. name.msgnum % CtrMod = name.msgnum /\ name.baseid % BaseMod = name.baseid
    BY <2>1, ModBounds, SecCanAssumption DEF BaseMod
  <2> QED
    BY <2>1, <2>2, NameRecovered
<1>2. NameOf(NoFrame.id).baseid = 0
  BY DEF NameOf, NoFrame, BaseMod
<1>3. \A m \in Made : NameOf(m.id).baseid \in {512, 733}
  BY <1>1, MadeNamed DEF PedalName, MotorName
<1>4. CASE f = NoFrame \/ g = NoFrame
  <2>1. f = NoFrame /\ g = NoFrame
    BY <1>2, <1>3, <1>4
  <2> QED
    BY <2>1
<1>5. CASE f \in Made /\ g \in Made
  <2>1. PICK a \in Name :
           /\ NameOf(f.id) = a
           /\ \/ \E i \in 1..Len(samples) :
                    a = PedalName(i - 1) /\ f.data = SamplePacket(i - 1, samples[i]).payload
              \/ a = MotorName /\ f.data = RequestPacket.payload
    BY <1>1, <1>5, MadeNamed
  <2>2. PICK b \in Name :
           /\ NameOf(g.id) = b
           /\ \/ \E i \in 1..Len(samples) :
                    b = PedalName(i - 1) /\ g.data = SamplePacket(i - 1, samples[i]).payload
              \/ b = MotorName /\ g.data = RequestPacket.payload
    BY <1>1, <1>5, MadeNamed
  <2>3. a = b
    BY <2>1, <2>2
  <2>4. CASE a = MotorName
    <3>1. \A i : PedalName(i - 1) # MotorName
      BY DEF PedalName, MotorName
    <3> QED
      BY <2>1, <2>2, <2>3, <2>4, <3>1
  <2>5. CASE a # MotorName
    <3>1. PICK i \in 1..Len(samples) :
             a = PedalName(i - 1) /\ f.data = SamplePacket(i - 1, samples[i]).payload
      BY <2>1, <2>5
    <3>2. PICK j \in 1..Len(samples) :
             b = PedalName(j - 1) /\ g.data = SamplePacket(j - 1, samples[j]).payload
      BY <2>2, <2>3, <2>5
    <3>3. i - 1 = j - 1
      <4>1. \A x : PedalName(x).msgnum = x
        BY DEF PedalName
      <4>2. PedalName(i - 1).msgnum = PedalName(j - 1).msgnum
        BY <2>3, <3>1, <3>2
      <4> QED
        BY <4>1, <4>2
    <3>4. i = j
      BY <3>3 DEF FramesInv, NumberedInv
    <3> QED
      BY <3>1, <3>2, <3>4
  <2> QED
    BY <2>4, <2>5
<1> QED
  BY <1>4, <1>5

\* Whatever arrives at a node opens there, under any loss, retransmission,
\* abort or restart, as long as the counter stays within its field; this is
\* LegitimateOpens for every width of the counter, every cipher, every sample
\* and any number of messages up to that.
THEOREM FramesOpen == CounterFits /\ Spec => []LegitimateOpens
<1>1. CounterFits /\ FramesInv => LegitimateOpens
  <2> SUFFICES ASSUME CounterFits, FramesInv, NEW n \in Node, NEW i \in DOMAIN fifo[n]
               PROVE  Opened(fifo[n][i]).ok
    BY DEF LegitimateOpens
  <2>1. fifo[n] \in Seq(Made)
    BY DEF FramesInv, Carries
  <2>2. fifo[n][i] \in Made
    BY <2>1
  <2> QED
    BY <2>2, MadeOpens
<1>2. CASE CounterFits
  <2>1. NumberFits
    BY <1>2 DEF CounterFits
  <2> QED
    BY <1>1, <1>2, <2>1, FramesInvariance, PTL
<1> QED
  BY <1>2

\* No two samples go out under one number, and so under one keystream, even
\* though a frame that write_can gave up may have been received: this is
\* NumbersNotReused, up to the rollover of the counter's field.
THEOREM NoNumberReuse == CounterFits /\ Spec => []NumbersNotReused
<1>1. CounterFits /\ FramesInv => NumbersNotReused
  <2> SUFFICES ASSUME CounterFits, FramesInv, NEW f \in Circulating, NEW g \in Circulating,
                      f.id = g.id
               PROVE  f.data = g.data
    BY DEF NumbersNotReused
  <2>1. Circulating \subseteq Made \cup {NoFrame}
    <3>1. \A n \in Node : fifo[n] \in Seq(Made)
      BY DEF FramesInv, Carries
    <3>2. \A n \in Node : \A i \in DOMAIN fifo[n] : fifo[n][i] \in Made
      BY <3>1
    <3> QED
      BY <3>2 DEF FramesInv, Carries, Circulating
  <2> QED
    BY <2>1, SameNumber
<1>2. CASE CounterFits
  <2>1. NumberFits
    BY <1>2 DEF CounterFits
  <2> QED
    BY <1>1, <1>2, <2>1, FramesInvariance, PTL
<1> QED
  BY <1>2

-----------------------------------------------------------------------------
(* The motor follows the pedal: the codec on a sample's frame. *)

\* The bytes of a word without keystream are its own, and those of a sample
\* give its duty cycle.
LEMMA SampleBytes ==
    ASSUME NEW v \in Sample
    PROVE  DutyOf(BytesOf(Plain(PedalData(v)))) = Duty(v)
<1>1. \A b : BytesOf(Plain(b)) = b
  <2> SUFFICES ASSUME NEW b PROVE BytesOf(Plain(b)) = b
    OBVIOUS
  <2> DEFINE t == <<"bytes", b>>
  <2>1. Plain(b) = {t} /\ t \in Plain(b) /\ t[1] = "bytes" /\ t[2] = b
    BY DEF Plain
  <2>2. (CHOOSE x \in Plain(b) : TRUE) = t
    BY <2>1
  <2>3. \E x \in Plain(b) : Plain(b) = {x} /\ x[1] = "bytes"
    BY <2>1
  <2> QED
    BY <2>1, <2>2, <2>3 DEF BytesOf
<1>2. v \in Nat
  BY SecureCanAssumption
<1>3. (v % 256) + 256 * (v \div 256) = v
  BY <1>2
<1>4. PedalData(v)[1] = v % 256 /\ PedalData(v)[2] = v \div 256
  BY DEF PedalData
<1> QED
  BY <1>1, <1>3, <1>4 DEF DutyOf, Duty

\* A frame of a sample that opens has the sample's number and duty cycle.
LEMMA SampleOpened ==
    ASSUME NEW last \in Int, RolledOverRejected(last),
           NEW c \in 0..last, NEW v \in Sample, NEW f,
           f.id = ExtId(PedalName(c)), f.data = SamplePacket(c, v).payload,
           Opened(f).ok
    PROVE  /\ Opened(f).name.msgnum = c
           /\ DutyOf(BytesOf(Opened(f).data)) = Duty(v)
<1>1. [ext_id |-> f.id, payload |-> f.data] = SamplePacket(c, v)
  BY DEF SamplePacket, encrypt_can_packet
<1>2. Opened(f) = decrypt_can_packet(SamplePacket(c, v))
  BY <1>1 DEF Opened
<1>3. c < CtrMod
  <2>1. CtrMod \in Nat
    BY SecCanAssumption
  <2> QED
    BY <1>2, <2>1 DEF RolledOverRejected
<1>4. PedalName(c) \in Name /\ PedalName(c).msgnum = c /\ PedalName(c).baseid < BaseMod
  BY DEF PedalName, Name, BaseMod
<1>5. Opened(f) = [name |-> PedalName(c), data |-> Plain(PedalData(v)), ok |-> TRUE]
  BY <1>2, <1>3, <1>4, RoundTrip DEF SamplePacket
<1> QED
  BY <1>4, <1>5, SampleBytes

-----------------------------------------------------------------------------
(* What the port shows of the running calls and of the motor's FIFO. *)

Sending(n) == PortPhase(n) \in {"sending", "acked"}

\* Between two calls of the programs, a call goes on sending its frame or
\* ends, and the motor's FIFO at most stores the frame the pedal is sending.
LEMMA InternalPort ==
    ASSUME HalInv, PortInv, Internal
    PROVE  /\ Sending(Pedal)' => Sending(Pedal) /\ PortFrame(Pedal)' = PortFrame(Pedal)
           /\ \/ fifo'[Motor] = fifo[Motor]
              \/ /\ Sending(Pedal)
                 /\ fifo'[Motor] = Store(fifo[Motor], PortFrame(Pedal))
<1> USE DEF Sending
<1>1. Node = {Pedal, Motor} /\ Pedal # Motor
  BY SecureCanAssumption
<1>2. PICK n \in Node :
         \/ Port!Started(n) \/ \E r \in -5..8 : Port!Return(n, r)
         \/ Port!Pass(n) \/ UNCHANGED Port!vars
  BY DriverSilent, ActivateFilterImplements, WriteReturnImplements,
     HardwareImplements DEF Internal
<1>3. CASE Port!Started(n)
  BY <1>1, <1>3 DEF Port!Started
<1>4. ASSUME NEW r, Port!Return(n, r)
      PROVE  /\ Sending(Pedal)' => Sending(Pedal) /\ PortFrame(Pedal)' = PortFrame(Pedal)
             /\ fifo'[Motor] = fifo[Motor]
  BY <1>1, <1>4 DEF Port!Return
<1>5. CASE UNCHANGED Port!vars
  BY <1>1, <1>5 DEF Port!vars
<1>6. CASE Port!Pass(n)
  <2>1. PICK B \in SUBSET (Node \ {n}) :
           fifo' = [m \in Node |-> IF m \in B THEN Port!Hold(fifo[m], PortFrame(n))
                                   ELSE fifo[m]]
    BY <1>6 DEF Port!Pass
  <2>2. /\ PortPhase(n) = "sending"
        /\ \A m \in Node : PortFrame(m)' = PortFrame(m)
        /\ \A m \in Node : m # n => PortPhase(m)' = PortPhase(m)
    BY <1>6 DEF Port!Pass
  <2>3. \A q, f : Store(q, f) = Port!Hold(q, f)
    BY DEF Store, Port!Hold
  <2>4. \/ fifo'[Motor] = fifo[Motor]
        \/ n = Pedal /\ fifo'[Motor] = Store(fifo[Motor], PortFrame(n))
    BY <1>1, <2>1, <2>3
  <2> QED
    BY <1>1, <2>2, <2>4
<1> QED
  BY <1>2, <1>3, <1>4, <1>5, <1>6

\* A read changes no call, and takes the oldest frame if it takes one.
LEMMA ReadPort ==
    ASSUME NEW n \in Node, HalInv, read_can(n, 8)
    PROVE  /\ PortPhase(Pedal)' = PortPhase(Pedal) /\ PortFrame(Pedal)' = PortFrame(Pedal)
           /\ n = Pedal => fifo'[Motor] = fifo[Motor]
           /\ n = Motor => \/ fifo'[Motor] = fifo[Motor]
                           \/ /\ fifo[Motor] # <<>>
                              /\ fifo'[Motor] = Tail(fifo[Motor])
                              /\ RxMessage'[Motor] = Head(fifo[Motor])
                              /\ rval'[Motor] = Head(fifo[Motor]).dlc
           /\ n = Motor /\ rval'[Motor] = 8 =>
                 /\ fifo[Motor] # <<>>
                 /\ fifo'[Motor] = Tail(fifo[Motor])
                 /\ RxMessage'[Motor] = Head(fifo[Motor])
<1>1. Pedal \in Node /\ Motor \in Node /\ Pedal # Motor /\ 8 \in Length
  BY SecureCanAssumption, ClientAssumption
<1>2. rval \in [Node -> -5..8] /\ RxMessage \in [Node -> Frame]
      /\ fifo \in [Node -> Seq(Frame)]
  BY DEF HalInv, HalTypeOK
<1>3. CASE \E r \in -5..8 : Port!Fail(n, r)
  BY <1>1, <1>2, <1>3 DEF Port!Fail
<1>4. CASE Port!Take(n) /\ RxMessage' = [RxMessage EXCEPT ![n] = Head(fifo[n])]
  BY <1>1, <1>2, <1>4 DEF Port!Take
<1> QED
  BY <1>1, <1>3, <1>4, read_canImplements

\* A write leaves the FIFOs alone; the other station's call goes on.
LEMMA WritePort ==
    ASSUME NEW n \in Node, NEW address \in Address[n], NEW data \in Payload,
           HalInv, write_can(n, address, data, 8)
    PROVE  /\ fifo' = fifo
           /\ n = Motor => /\ PortPhase(Pedal)' = PortPhase(Pedal)
                           /\ PortFrame(Pedal)' = PortFrame(Pedal)
           /\ n = Pedal /\ Sending(Pedal)' =>
                 /\ PortFrame(Pedal)' \in Sendable
                 /\ PortFrame(Pedal).id' = address /\ PortFrame(Pedal).data' = data
<1> USE DEF Sending
<1>1. Pedal \in Node /\ Motor \in Node /\ Pedal # Motor /\ 8 \in Length
  BY SecureCanAssumption, ClientAssumption
<1>2. CASE \E r \in -5..8 : Port!Fail(n, r)
  BY <1>1, <1>2 DEF Port!Fail
<1>3. ASSUME NEW f \in Sendable, f.id = address, f.data = data, Port!Send(n, f)
      PROVE  /\ fifo' = fifo
             /\ n = Motor => /\ PortPhase(Pedal)' = PortPhase(Pedal)
                             /\ PortFrame(Pedal)' = PortFrame(Pedal)
             /\ n = Pedal => PortFrame(Pedal)' = f
  BY <1>1, <1>3 DEF Port!Send
<1> QED
  BY <1>1, <1>2, <1>3, write_canImplements

-----------------------------------------------------------------------------
(* The order of the samples in the motor's FIFO. *)

\* The indices s, in order, stand for the frames of the FIFO q under R.
Holds(R, q, s) ==
    /\ s \in Seq(Nat) /\ Len(s) = Len(q)
    /\ \A j \in 1..Len(s) : <<q[j], s[j]>> \in R
    /\ \A j, k \in 1..Len(s) : j <= k => s[j] <= s[k]

\* Storing the newest frame keeps the order, also when it replaces one.
LEMMA StoreHolds ==
    ASSUME NEW R, NEW q \in Seq(Frame), NEW s, NEW f \in Frame, NEW i \in Nat,
           Holds(R, q, s), <<f, i>> \in R, \A j \in 1..Len(s) : s[j] <= i
    PROVE  /\ Holds(R, Store(q, f), Store(s, i))
           /\ \A j \in 1..Len(Store(s, i)) :
                 \/ Store(s, i)[j] = i
                 \/ j \in 1..Len(s) /\ Store(s, i)[j] = s[j]
<1>1. FifoDepth \in Nat \ {0}
  BY CanHalAssumption
<1>2. s \in Seq(Nat) /\ Len(s) = Len(q) /\ Len(s) \in Nat
  BY DEF Holds
<1>3. PICK x, y : x = Store(s, i) /\ y = Store(q, f)
  OBVIOUS
\* Each entry but the last is an old one, and the last is the new one.
<1>4. /\ x \in Seq(Nat) /\ Len(x) = Len(y) /\ Len(x) \in Nat
      /\ \A j \in 1..Len(x) :
            \/ j \in 1..Len(s) /\ x[j] = s[j] /\ y[j] = q[j]
            \/ j = Len(x) /\ x[j] = i /\ y[j] = f
  <2>1. CASE Len(q) < FifoDepth
    <3>1. y = Append(q, f) /\ x = Append(s, i)
      BY <1>2, <1>3, <2>1 DEF Store
    <3>2. /\ Len(x) = Len(s) + 1 /\ Len(y) = Len(s) + 1
          /\ x[Len(s) + 1] = i /\ y[Len(s) + 1] = f
          /\ \A j \in 1..Len(s) : x[j] = s[j] /\ y[j] = q[j]
          /\ x \in Seq(Nat)
      BY <1>2, <3>1
    <3> QED
      BY <1>2, <3>2
  <2>2. CASE ~(Len(q) < FifoDepth)
    <3>1. y = [q EXCEPT ![Len(q)] = f] /\ x = [s EXCEPT ![Len(s)] = i]
      BY <1>2, <1>3, <2>2 DEF Store
    <3>2. PICK n \in Nat : n = Len(s) /\ n = Len(q) /\ n \in 1..n
      BY <1>1, <1>2, <2>2
    <3>3. s \in [1..n -> Nat] /\ q \in [1..n -> Frame]
      BY <1>2, <3>2
    <3>4. x \in [1..n -> Nat] /\ y \in [1..n -> Frame]
      BY <3>1, <3>2, <3>3
    <3>5. x \in Seq(Nat) /\ Len(x) = Len(s)
      BY <3>2, <3>4
    <3>6. y \in Seq(Frame) /\ Len(y) = Len(s)
      BY <3>2, <3>4
    <3>7. \A j \in 1..Len(s) : /\ x[j] = IF j = Len(s) THEN i ELSE s[j]
                               /\ y[j] = IF j = Len(s) THEN f ELSE q[j]
      BY <3>1, <3>2, <3>3
    <3> QED
      BY <1>2, <3>5, <3>6, <3>7
  <2> QED
    BY <2>1, <2>2
<1>5. \A j \in 1..Len(x) : <<y[j], x[j]>> \in R
  BY <1>4 DEF Holds
<1>6. ASSUME NEW j \in 1..Len(x), NEW k \in 1..Len(x), j <= k
      PROVE  x[j] <= x[k]
  <2>1. \A l \in 1..Len(s) : s[l] \in Nat /\ s[l] <= i
    BY <1>2
  <2>2. CASE k = Len(x) /\ x[k] = i
    BY <1>4, <2>1, <2>2
  <2>3. CASE k \in 1..Len(s) /\ x[k] = s[k]
    <3>1. CASE j \in 1..Len(s) /\ x[j] = s[j]
      BY <1>6, <2>3, <3>1 DEF Holds
    <3>2. CASE j = Len(x)
      BY <1>4, <1>6, <3>2
    <3> QED
      BY <1>4, <3>1, <3>2
  <2> QED
    BY <1>4, <2>2, <2>3
<1> QED
  BY <1>3, <1>4, <1>5, <1>6 DEF Holds

\* Taking the oldest frame keeps the order of the others.
LEMMA TailHolds ==
    ASSUME NEW R, NEW q \in Seq(Frame), NEW s, Holds(R, q, s), q # <<>>
    PROVE  /\ Len(s) >= 1 /\ <<Head(q), s[1]>> \in R
           /\ Holds(R, Tail(q), Tail(s))
           /\ \A j \in 1..Len(Tail(s)) : s[1] <= Tail(s)[j]
           /\ \A j \in 1..Len(Tail(s)) : \E k \in 1..Len(s) : Tail(s)[j] = s[k]
<1>1. s \in Seq(Nat) /\ Len(s) = Len(q) /\ Len(s) \in Nat /\ Len(q) >= 1
  BY DEF Holds
<1>2. Head(q) = q[1] /\ 1 \in 1..Len(s)
  BY <1>1
<1>3. /\ Len(Tail(s)) = Len(s) - 1 /\ Len(Tail(q)) = Len(s) - 1
      /\ Tail(s) \in Seq(Nat)
      /\ \A j \in 1..(Len(s) - 1) : Tail(s)[j] = s[j + 1] /\ Tail(q)[j] = q[j + 1]
  BY <1>1
<1>4. \A j \in 1..(Len(s) - 1) : j + 1 \in 1..Len(s)
  BY <1>1
<1> QED
  BY <1>1, <1>2, <1>3, <1>4 DEF Holds

\* The pairs of a frame and the index of the sample it is the frame of.
SampleFrames ==
    {pair \in Sendable \X (1..Len(samples)) : IsSampleFrame(pair[1], pair[2])}

\* The pedal's running call sends its last sample.
SendInv == Sending(Pedal) =>
    pedal = "send" /\ <<PortFrame(Pedal), Len(samples)>> \in SampleFrames

\* What the motor has not read yet is later than what it has applied.
HeldInv == \E s : /\ Holds(SampleFrames, fifo[Motor], s)
                  /\ \A j \in 1..Len(s) : applied < s[j]

FollowInv == /\ applied \in -1..(Len(samples) - 1)
             /\ SendInv /\ HeldInv

\* What it is to be such a pair.
LEMMA SampleFramesPair ==
    \A f, i : <<f, i>> \in SampleFrames <=>
                 f \in Sendable /\ i \in 1..Len(samples) /\ IsSampleFrame(f, i)
BY DEF SampleFrames

\* The pairs stay as they are unless a sample is appended, which adds to them.
LEMMA SampleFramesGrow ==
    /\ UNCHANGED samples => SampleFrames' = SampleFrames
    /\ \A v \in Sample : NumberedInv /\ samples' = Append(samples, v)
                            => SampleFrames \subseteq SampleFrames'
<1>1. UNCHANGED samples => SampleFrames' = SampleFrames
  BY DEF SampleFrames, IsSampleFrame
<1>2. ASSUME NEW v \in Sample, NumberedInv, samples' = Append(samples, v)
      PROVE  SampleFrames \subseteq SampleFrames'
  <2>1. /\ Len(samples') = Len(samples) + 1 /\ Len(samples) \in Nat
        /\ \A i \in 1..Len(samples) : samples'[i] = samples[i]
    BY <1>2 DEF NumberedInv
  <2> QED
    BY <2>1 DEF SampleFrames, IsSampleFrame
<1> QED
  BY <1>1, <1>2

\* The frames held stay in order when none arrives.
LEMMA HeldKept ==
    ASSUME HeldInv, fifo[Motor] \in Seq(Frame), SampleFrames \subseteq SampleFrames',
           UNCHANGED applied,
           \/ fifo'[Motor] = fifo[Motor]
           \/ fifo[Motor] # <<>> /\ fifo'[Motor] = Tail(fifo[Motor])
    PROVE  HeldInv'
<1>1. PICK s : Holds(SampleFrames, fifo[Motor], s) /\ \A j \in 1..Len(s) : applied < s[j]
  BY DEF HeldInv
<1>2. PICK R : R = SampleFrames'
  OBVIOUS
<1>3. Holds(R, fifo[Motor], s)
  BY <1>1, <1>2 DEF Holds
<1>4. CASE fifo'[Motor] = fifo[Motor]
  BY <1>1, <1>2, <1>3, <1>4 DEF HeldInv
<1>5. CASE fifo[Motor] # <<>> /\ fifo'[Motor] = Tail(fifo[Motor])
  <2>1. PICK r, q : r = Tail(s) /\ q = fifo[Motor] /\ q \in Seq(Frame)
    OBVIOUS
  <2>2. q \in Seq(Frame) /\ Holds(R, q, s) /\ q # <<>>
    BY <1>3, <1>5, <2>1
  <2>3. Holds(R, Tail(q), Tail(s))
    BY <2>2, TailHolds
  <2>4. \A j \in 1..Len(Tail(s)) : \E k \in 1..Len(s) : Tail(s)[j] = s[k]
    BY <2>2, TailHolds
  <2>5. /\ Holds(R, Tail(q), r)
        /\ \A j \in 1..Len(r) : \E k \in 1..Len(s) : r[j] = s[k]
    BY <2>1, <2>3, <2>4
  <2>6. \A j \in 1..Len(r) : applied' < r[j]
    BY <1>1, <2>5
  <2> QED
    BY <1>2, <1>5, <2>1, <2>5, <2>6 DEF HeldInv
<1> QED
  BY <1>4, <1>5

\* A step inside the driver or of the hardware stores at most the frame of the
\* last sample.
LEMMA InternalFollow ==
    ASSUME HalInv, PortInv, HalInv', FramesInv, FollowInv, Internal, UNCHANGED appVars
    PROVE  FollowInv'
<1>1. SampleFrames' = SampleFrames /\ UNCHANGED <<samples, applied, pedal>>
  BY SampleFramesGrow DEF appVars
<1>2. SendInv'
  BY <1>1, InternalPort DEF FollowInv, SendInv
<1>3. HeldInv'
  <2>1. fifo[Motor] \in Seq(Frame) /\ PortFrame(Pedal) \in Frame
    BY SecureCanAssumption, CanHalAssumption
       DEF HalInv, HalTypeOK, PortFrame, NoFrame, Frame
  <2>2. CASE fifo'[Motor] = fifo[Motor]
    BY <1>1, <2>1, <2>2, HeldKept DEF FollowInv
  <2>3. CASE Sending(Pedal) /\ fifo'[Motor] = Store(fifo[Motor], PortFrame(Pedal))
    <3>1. PICK s : /\ Holds(SampleFrames, fifo[Motor], s)
                   /\ \A j \in 1..Len(s) : applied < s[j]
      BY DEF FollowInv, HeldInv
    <3>2. PICK i \in Nat : i = Len(samples)
      BY DEF FramesInv, NumberedInv
    <3>3. \A j \in 1..Len(s) : s[j] <= i
      <4>1. \A j \in 1..Len(s) : <<fifo[Motor][j], s[j]>> \in SampleFrames
        BY <3>1 DEF Holds
      <4>2. \A j \in 1..Len(s) : s[j] \in 1..Len(samples)
        BY <4>1, SampleFramesPair
      <4> QED
        BY <3>2, <4>2
    <3>4. <<PortFrame(Pedal), i>> \in SampleFrames /\ applied < i
      BY <2>3, <3>2 DEF FollowInv, SendInv
    <3>5. PICK r : r = Store(s, i)
      OBVIOUS
    <3>6. /\ Holds(SampleFrames, fifo'[Motor], r)
          /\ \A j \in 1..Len(r) : r[j] = i \/ \E k \in 1..Len(s) : r[j] = s[k]
      BY <2>1, <2>3, <3>1, <3>3, <3>4, <3>5, StoreHolds
    <3>7. \A j \in 1..Len(r) : applied' < r[j]
      BY <1>1, <3>1, <3>4, <3>6
    <3> QED
      BY <1>1, <3>6, <3>7 DEF HeldInv
  <2> QED
    BY <2>2, <2>3, InternalPort
<1> QED
  BY <1>1, <1>2, <1>3 DEF FollowInv

\* The pedal's program: a new call sends the new sample.
LEMMA PedalFollow ==
    ASSUME NumberFits, HalInv, PortInv, FramesInv, FollowInv, PedalNext
    PROVE  FollowInv' /\ [Control!Next]_Control!vars
<1>1. Pedal \in Node /\ Motor \in Node
      /\ (HalInv => fifo[Motor] \in Seq(Frame))
  BY SecureCanAssumption DEF HalInv, HalTypeOK
<1>2. CASE PedalStart \/ PedalAdcError \/ PedalSent
  <2>1. UNCHANGED halVars /\ UNCHANGED <<samples, applied, duty>>
    BY <1>2 DEF PedalStart, PedalAdcError, PedalSent
  <2>2. /\ PortPhase(Pedal)' = PortPhase(Pedal) /\ PortFrame(Pedal)' = PortFrame(Pedal)
        /\ fifo' = fifo /\ SampleFrames' = SampleFrames
    BY <2>1, SampleFramesGrow DEF halVars, sw, hw, PortPhase, PortFrame
  <2>3. ~Sending(Pedal)
    BY <1>2 DEF PedalStart, PedalAdcError, PedalSent, FollowInv, SendInv, Sending,
       PortPhase
  <2>4. SendInv'
    BY <2>2, <2>3 DEF SendInv, Sending
  <2>5. HeldInv'
    BY <1>1, <2>1, <2>2, HeldKept DEF FollowInv
  <2> QED
    BY <2>1, <2>4, <2>5 DEF FollowInv, Control!vars
<1>3. CASE PedalWait
  <2>1. /\ pedal = "wait" /\ read_can(Pedal, 8)
        /\ UNCHANGED <<samples, applied, duty>>
    BY <1>3 DEF PedalWait
  <2>2. ~Sending(Pedal)
    BY <2>1 DEF FollowInv, SendInv
  <2>3. /\ PortPhase(Pedal)' = PortPhase(Pedal) /\ fifo'[Motor] = fifo[Motor]
        /\ SampleFrames' = SampleFrames
    BY <1>1, <2>1, ReadPort, SampleFramesGrow
  <2>4. SendInv'
    BY <2>2, <2>3 DEF SendInv, Sending
  <2>5. HeldInv'
    BY <1>1, <2>1, <2>3, HeldKept DEF FollowInv
  <2> QED
    BY <2>1, <2>4, <2>5 DEF FollowInv, Control!vars
<1>4. ASSUME NEW v \in Sample, PedalSample(v)
      PROVE  FollowInv' /\ Control!Next
  <2>1. /\ pedal = "sample" /\ Len(samples) < MaxSend
        /\ write_can(Pedal, SamplePacket(msgnum, v).ext_id,
                     SamplePacket(msgnum, v).payload, 8)
        /\ samples' = Append(samples, v) /\ pedal' = "send"
        /\ UNCHANGED <<applied, duty>>
    BY <1>4 DEF PedalSample
  <2>2. /\ samples \in Seq(Sample) /\ Len(samples) \in Nat /\ msgnum = Len(samples)
        /\ Len(samples') = Len(samples) + 1 /\ samples'[Len(samples')] = v
        /\ msgnum \in 0..(MsgMod - 1)
    BY <2>1, SecureCanAssumption DEF FramesInv, NumberInv, NumberedInv, NumberFits
  <2>3. SampleFrames \subseteq SampleFrames'
    BY <2>1, SampleFramesGrow DEF FramesInv
  <2>4. PICK address \in Address[Pedal], data \in Payload :
           /\ address = ExtId(PedalName(msgnum))
           /\ data = SamplePacket(msgnum, v).payload
           /\ write_can(Pedal, address, data, 8)
    BY <2>1, <2>2, ClientAssumption DEF SamplePacket, encrypt_can_packet
  <2>5. /\ fifo' = fifo
        /\ Sending(Pedal)' =>
              /\ PortFrame(Pedal)' \in Sendable
              /\ PortFrame(Pedal).id' = address /\ PortFrame(Pedal).data' = data
    BY <1>1, <2>4, WritePort
  <2>6. SendInv'
    <3> SUFFICES ASSUME Sending(Pedal)'
                 PROVE  <<PortFrame(Pedal)', Len(samples')>> \in SampleFrames'
      BY <2>1 DEF SendInv
    <3>1. PICK f \in Sendable : f = PortFrame(Pedal)' /\ f.id = address /\ f.data = data
      BY <2>5
    <3>2. PICK i \in 1..Len(samples') : i = Len(samples') /\ i - 1 = msgnum
      BY <2>2
    <3>3. samples'[i] = v
      BY <2>2, <3>2
    <3>4. f.id = ExtId(PedalName(i - 1)) /\ f.data = SamplePacket(i - 1, samples'[i]).payload
      BY <2>4, <3>1, <3>2, <3>3
    <3> QED
      BY <3>1, <3>2, <3>4 DEF SampleFrames, IsSampleFrame
  <2>7. HeldInv'
    BY <1>1, <2>1, <2>3, <2>5, HeldKept DEF FollowInv
  <2>8. Control!Press(v)
    BY <2>1 DEF Control!Press
  <2> QED
    BY <2>1, <2>2, <2>6, <2>7, <2>8 DEF FollowInv, Control!Next
<1> QED
  BY <1>2, <1>3, <1>4 DEF PedalNext

\* The motor's program: what it applies is the oldest frame it holds.
LEMMA MotorFollow ==
    ASSUME RolledOverRejected(MaxSend - 1), HalInv, PortInv, FramesInv, FollowInv,
           MotorNext
    PROVE  FollowInv' /\ [Control!Next]_Control!vars
<1>1. Pedal \in Node /\ Motor \in Node /\ fifo[Motor] \in Seq(Frame)
  BY SecureCanAssumption DEF HalInv, HalTypeOK
<1>2. /\ UNCHANGED <<samples, pedal>> /\ SampleFrames' = SampleFrames
      /\ MotorApply \/ UNCHANGED <<applied, duty>>
  BY SampleFramesGrow DEF MotorNext, MotorStart, MotorRequest, MotorRequested,
     MotorListenEnd, MotorNothing, MotorApply, MotorReject
<1>3. CASE MotorStart \/ MotorRequested \/ MotorListenEnd
  <2>1. UNCHANGED halVars /\ UNCHANGED <<applied, duty>>
    BY <1>3 DEF MotorStart, MotorRequested, MotorListenEnd
  <2>2. /\ PortPhase(Pedal)' = PortPhase(Pedal) /\ PortFrame(Pedal)' = PortFrame(Pedal)
        /\ fifo' = fifo
    BY <2>1 DEF halVars, sw, hw, PortPhase, PortFrame
  <2>3. HeldInv'
    BY <1>1, <1>2, <2>1, <2>2, HeldKept DEF FollowInv
  <2> QED
    BY <1>2, <2>1, <2>2, <2>3 DEF FollowInv, SendInv, Sending, Control!vars
<1>4. CASE MotorRequest
  <2>1. /\ write_can(Motor, RequestPacket.ext_id, RequestPacket.payload, 8)
        /\ UNCHANGED <<applied, duty>>
    BY <1>4 DEF MotorRequest
  <2>2. RequestPacket.ext_id \in Address[Motor] /\ RequestPacket.payload \in Payload
    BY ClientAssumption
  <2>3. /\ PortPhase(Pedal)' = PortPhase(Pedal) /\ PortFrame(Pedal)' = PortFrame(Pedal)
        /\ fifo' = fifo
    BY <1>1, <2>1, <2>2, WritePort
  <2>4. HeldInv'
    BY <1>1, <1>2, <2>1, <2>3, HeldKept DEF FollowInv
  <2> QED
    BY <1>2, <2>1, <2>3, <2>4 DEF FollowInv, SendInv, Sending, Control!vars
<1>5. CASE MotorNothing \/ MotorReject
  <2>1. read_can(Motor, 8) /\ UNCHANGED <<applied, duty>>
    BY <1>5 DEF MotorNothing, MotorReject, MotorRead
  <2>2. /\ PortPhase(Pedal)' = PortPhase(Pedal) /\ PortFrame(Pedal)' = PortFrame(Pedal)
        /\ \/ fifo'[Motor] = fifo[Motor]
           \/ fifo[Motor] # <<>> /\ fifo'[Motor] = Tail(fifo[Motor])
    BY <1>1, <2>1, ReadPort
  <2>3. HeldInv'
    BY <1>1, <1>2, <2>1, <2>2, HeldKept DEF FollowInv
  <2> QED
    BY <1>2, <2>1, <2>2, <2>3 DEF FollowInv, SendInv, Sending, Control!vars
<1>6. CASE MotorApply
  <2>1. /\ read_can(Motor, 8) /\ rval'[Motor] = 8
        /\ Opened(RxMessage'[Motor]).ok
        /\ duty' = DutyOf(BytesOf(Opened(RxMessage'[Motor]).data))
        /\ applied' = Opened(RxMessage'[Motor]).name.msgnum
    BY <1>6 DEF MotorApply, MotorRead
  <2>2. /\ PortPhase(Pedal)' = PortPhase(Pedal) /\ PortFrame(Pedal)' = PortFrame(Pedal)
        /\ fifo[Motor] # <<>> /\ fifo'[Motor] = Tail(fifo[Motor])
        /\ RxMessage'[Motor] = Head(fifo[Motor])
    BY <1>1, <2>1, ReadPort
  <2>3. PICK s, q : /\ q = fifo[Motor] /\ q \in Seq(Frame) /\ q # <<>>
                    /\ Holds(SampleFrames, q, s) /\ \A j \in 1..Len(s) : applied < s[j]
    BY <1>1, <2>2 DEF FollowInv, HeldInv
  <2>4. PICK R, r : R = SampleFrames /\ r = Tail(s)
    OBVIOUS
  <2>5. /\ Len(s) >= 1 /\ <<Head(q), s[1]>> \in SampleFrames
        /\ Holds(R, Tail(q), r) /\ \A j \in 1..Len(r) : s[1] <= r[j]
    BY <2>3, <2>4, TailHolds
  \* The oldest frame is that of sample i, later than the last one applied.
  <2>6. PICK i, f : /\ i \in 1..Len(samples) /\ i = s[1] /\ f = Head(q)
                    /\ IsSampleFrame(f, i) /\ applied < i
    <3>1. 1 \in 1..Len(s) /\ s \in Seq(Nat)
      BY <2>3, <2>5 DEF Holds
    <3> QED
      BY <2>3, <2>5, <3>1, SampleFramesPair
  <2>7. samples \in Seq(Sample) /\ Len(samples) \in Nat /\ Len(samples) <= MaxSend
        /\ MaxSend \in Nat
    BY SecureCanAssumption DEF FramesInv, NumberedInv
  <2>8. PICK last \in Int : last = MaxSend - 1
    BY <2>7
  <2>9. PICK c \in 0..last, v \in Sample : c = i - 1 /\ v = samples[i]
    BY <2>6, <2>7, <2>8
  <2>10. /\ f.id = ExtId(PedalName(c)) /\ f.data = SamplePacket(c, v).payload
        /\ Opened(f).ok /\ RxMessage'[Motor] = f
    BY <2>1, <2>2, <2>3, <2>6, <2>9 DEF IsSampleFrame
  <2>11. Opened(f).name.msgnum = c /\ DutyOf(BytesOf(Opened(f).data)) = Duty(v)
    BY <2>8, <2>10, <2>9, SampleOpened
  <2>12. applied' = i - 1 /\ duty' = Duty(samples[i])
    BY <2>1, <2>10, <2>11, <2>9
  <2>13. HeldInv'
    <3>1. \A j \in 1..Len(r) : applied' < r[j]
      <4>1. r \in Seq(Nat)
        BY <2>5 DEF Holds
      <4> QED
        BY <2>5, <2>6, <2>12, <4>1
    <3> QED
      BY <1>2, <2>2, <2>3, <2>4, <2>5, <3>1 DEF HeldInv
  <2>14. Control!Follow(i)
    <3>1. applied \in Int
      BY DEF FollowInv
    <3> QED
      BY <1>2, <2>6, <2>7, <2>12, <3>1 DEF Control!Follow
  <2>15. SendInv'
    BY <1>2, <2>2 DEF FollowInv, SendInv, Sending
  <2>16. applied' \in -1..(Len(samples') - 1)
    BY <1>2, <2>6, <2>7, <2>12
  <2> QED
    BY <2>6, <2>13, <2>14, <2>15, <2>16 DEF FollowInv, Control!Next
<1> QED
  BY <1>3, <1>4, <1>5, <1>6 DEF MotorNext

\* At the start nothing is held and nothing sent.
LEMMA InitFollow ==
    ASSUME Init
    PROVE  FollowInv /\ Control!Init
<1>1. Pedal \in Node /\ Motor \in Node
  BY SecureCanAssumption
<1>2. fifo[Motor] = <<>> /\ ~Sending(Pedal)
  BY <1>1 DEF Init, HalInit, Sending, PortPhase
<1>3. Holds(SampleFrames, <<>>, <<>>)
  BY DEF Holds
<1>4. HeldInv
  BY <1>2, <1>3 DEF HeldInv
<1> QED
  BY <1>2, <1>4 DEF FollowInv, SendInv, Init, Control!Init

\* Every step of the system is a step of PedalControl or none.
LEMMA NextFollow ==
    ASSUME NumberFits, RolledOverRejected(MaxSend - 1),
           HalInv, HalInv', PortInv, FramesInv, FollowInv, [Next]_vars
    PROVE  FollowInv' /\ [Control!Next]_Control!vars
<1>1. CASE Internal /\ UNCHANGED appVars
  BY <1>1, InternalFollow DEF appVars, Control!vars
<1>2. CASE UNCHANGED vars
  <2>1. UNCHANGED <<samples, applied, duty, pedal>> /\ UNCHANGED halVars
    BY <1>2 DEF vars, appVars
  <2>2. /\ PortPhase(Pedal)' = PortPhase(Pedal) /\ PortFrame(Pedal)' = PortFrame(Pedal)
        /\ fifo' = fifo /\ SampleFrames' = SampleFrames
    BY <2>1, SampleFramesGrow DEF halVars, sw, hw, PortPhase, PortFrame
  <2> QED
    BY <2>1, <2>2 DEF FollowInv, SendInv, HeldInv, Sending, Control!vars
<1> QED
  BY <1>1, <1>2, PedalFollow, MotorFollow DEF Next

\* What every step may rely on.
LEMMA Underneath == NumberFits /\ Spec => []HalInv /\ []PortInv /\ []FramesInv
<1> SUFFICES ASSUME NumberFits PROVE Spec => []HalInv /\ []PortInv /\ []FramesInv
  OBVIOUS
<1> QED
  BY UsesDriver, Invariance, PortInvariance, FramesInvariance, PTL

\* The duty cycle follows the samples in their order, whatever is lost,
\* repeated, aborted, restarted or overwritten: this is FollowsPedal for every
\* number of samples up to the wrap of the message number, and any depth of
\* FIFO, if no frame numbered past its field is accepted by coincidence.
THEOREM MotorFollowsPedal ==
    NumberFits /\ RolledOverRejected(MaxSend - 1) /\ Spec => FollowsPedal
<1> SUFFICES ASSUME NumberFits, RolledOverRejected(MaxSend - 1)
             PROVE  Spec => FollowsPedal
  OBVIOUS
<1>1. Init => FollowInv /\ Control!Init
  BY InitFollow
<1>2. HalInv /\ HalInv' /\ PortInv /\ FramesInv /\ FollowInv /\ [Next]_vars
         => FollowInv' /\ [Control!Next]_Control!vars
  BY NextFollow
<1> QED
  BY <1>1, <1>2, Underneath, PTL DEF Spec, FollowsPedal, Control!Spec

\* Up to the rollover of the counter's field no assumption on the cipher is
\* needed at all.
THEOREM MotorFollowsPedalInField ==
    NumberFits /\ MaxSend <= CtrMod /\ Spec => FollowsPedal
<1>1. NumberFits /\ MaxSend <= CtrMod => RolledOverRejected(MaxSend - 1)
  BY SecureCanAssumption, SecCanAssumption DEF RolledOverRejected
<1> QED
  BY <1>1, MotorFollowsPedal

\* The invariant under it, within the counter's field.
LEMMA FollowInvariance == CounterFits /\ Spec => []FollowInv
<1> SUFFICES ASSUME CounterFits PROVE Spec => []FollowInv
  OBVIOUS
<1>1. NumberFits /\ RolledOverRejected(MaxSend - 1)
  BY SecureCanAssumption, SecCanAssumption DEF CounterFits, RolledOverRejected
<1>2. Init => FollowInv
  BY InitFollow
<1>3. HalInv /\ HalInv' /\ PortInv /\ FramesInv /\ FollowInv /\ [Next]_vars => FollowInv'
  BY <1>1, NextFollow
<1> QED
  BY <1>1, <1>2, <1>3, Underneath, PTL DEF Spec

\* The motor applies each frame it takes from its FIFO.
LEMMA MotorTakes ==
    ASSUME CounterFits, HalInv, FramesInv, MotorNext
    PROVE  \/ fifo'[Motor] = fifo[Motor]
           \/ /\ MotorApply /\ fifo[Motor] # <<>>
              /\ fifo'[Motor] = Tail(fifo[Motor])
              /\ applied' = Opened(Head(fifo[Motor])).name.msgnum
<1>1. Pedal \in Node /\ Motor \in Node
  BY SecureCanAssumption
<1>2. CASE MotorStart \/ MotorRequested \/ MotorListenEnd
  BY <1>2 DEF MotorStart, MotorRequested, MotorListenEnd, halVars, hw
<1>3. CASE MotorRequest
  <2>1. PICK address \in Address[Motor], data \in Payload :
           write_can(Motor, address, data, 8)
    BY <1>3, ClientAssumption DEF MotorRequest
  <2> QED
    BY <1>1, <2>1, WritePort
<1>4. CASE MotorNothing \/ MotorApply \/ MotorReject
  <2>1. read_can(Motor, 8)
    BY <1>4 DEF MotorNothing, MotorApply, MotorReject, MotorRead
  <2>2. \/ fifo'[Motor] = fifo[Motor]
        \/ /\ fifo[Motor] # <<>> /\ fifo'[Motor] = Tail(fifo[Motor])
           /\ RxMessage'[Motor] = Head(fifo[Motor])
           /\ rval'[Motor] = Head(fifo[Motor]).dlc
    BY <1>1, <2>1, ReadPort
  <2>3. CASE fifo[Motor] # <<>> /\ fifo'[Motor] # fifo[Motor]
    <3>1. fifo[Motor] \in Seq(Made)
      BY <1>1 DEF FramesInv, Carries
    <3>2. PICK f \in Made : f = Head(fifo[Motor])
      BY <2>3, <3>1
    <3>3. Opened(f).ok /\ f.dlc = 8
      BY <3>2, MadeOpens DEF Made
    <3>4. MotorApply
      BY <1>4, <2>2, <2>3, <3>2, <3>3 DEF MotorNothing, MotorReject
    <3> QED
      BY <2>2, <2>3, <3>2, <3>4 DEF MotorApply
  <2> QED
    BY <2>2, <2>3
<1> QED
  BY <1>2, <1>3, <1>4 DEF MotorNext

\* The safety part of HeldIsApplied, within the counter's field: a frame that
\* the motor holds leaves its FIFO only by being applied, never rejected,
\* dropped by a restart, or taken by a read that reports nothing; and what is
\* stored, or replaces the newest frame, is the packet of the last sample.
THEOREM HeldLeavesApplied ==
    CounterFits /\ Spec =>
        [][\/ fifo'[Motor] = fifo[Motor]
           \/ \E f : /\ IsSampleFrame(f, Len(samples))
                     /\ fifo'[Motor] = Store(fifo[Motor], f)
           \/ /\ MotorApply /\ fifo[Motor] # <<>>
              /\ fifo'[Motor] = Tail(fifo[Motor])
              /\ applied' = Opened(Head(fifo[Motor])).name.msgnum]_vars
<1> DEFINE Step ==
        \/ fifo'[Motor] = fifo[Motor]
        \/ \E f : /\ IsSampleFrame(f, Len(samples))
                  /\ fifo'[Motor] = Store(fifo[Motor], f)
        \/ /\ MotorApply /\ fifo[Motor] # <<>>
           /\ fifo'[Motor] = Tail(fifo[Motor])
           /\ applied' = Opened(Head(fifo[Motor])).name.msgnum
<1> SUFFICES ASSUME CounterFits PROVE Spec => [][Step]_vars
  OBVIOUS
<1>1. ASSUME HalInv, PortInv, FramesInv, FollowInv, Next
      PROVE  Step
  <2>1. CASE Internal /\ UNCHANGED appVars
    <3>1. CASE Sending(Pedal) /\ fifo'[Motor] = Store(fifo[Motor], PortFrame(Pedal))
      <4>1. IsSampleFrame(PortFrame(Pedal), Len(samples))
        BY <1>1, <3>1, SampleFramesPair DEF FollowInv, SendInv
      <4> QED
        BY <3>1, <4>1
    <3> QED
      BY <1>1, <2>1, <3>1, InternalPort
  <2>2. CASE PedalNext
    <3>1. Pedal \in Node /\ Motor \in Node
      BY SecureCanAssumption
    <3>2. CASE PedalWait
      BY <1>1, <3>1, <3>2, ReadPort DEF PedalWait
    <3>3. CASE PedalStart \/ PedalAdcError \/ PedalSent
      BY <3>3 DEF PedalStart, PedalAdcError, PedalSent, halVars, hw
    <3>4. ASSUME NEW v \in Sample, PedalSample(v) PROVE Step
      <4>1. msgnum \in 0..(MsgMod - 1)
        BY <1>1 DEF FramesInv, NumberInv
      <4>2. PICK address \in Address[Pedal], data \in Payload :
               write_can(Pedal, address, data, 8)
        BY <3>4, <4>1, ClientAssumption DEF PedalSample, SamplePacket, encrypt_can_packet
      <4> QED
        BY <1>1, <3>1, <4>2, WritePort
    <3> QED
      BY <2>2, <3>2, <3>3, <3>4 DEF PedalNext
  <2>3. CASE MotorNext
    BY <1>1, <2>3, MotorTakes
  <2> QED
    BY <1>1, <2>1, <2>2, <2>3 DEF Next
<1>2. HalInv /\ PortInv /\ FramesInv /\ FollowInv /\ [Next]_vars => [Step]_vars
  BY <1>1
<1>3. NumberFits
  BY DEF CounterFits
<1> HIDE DEF Step
<1> QED
  BY <1>2, <1>3, Underneath, FollowInvariance, PTL DEF Spec

-----------------------------------------------------------------------------
(* The types of the two programs' variables. *)

ProgramInv ==
    /\ pedal \in {"setup", "wait", "sample", "send"}
    /\ motor \in {"setup", "request", "requesting", "listen"}
    /\ timeout \in 0..ListenPolls
    /\ applied \in -1..(CtrMod - 1)

\* The polls are counted up to their limit, and a number is taken out of an
\* identifier by its width.
LEMMA ProgramStep ==
    ASSUME ProgramInv, HalInv', [Next]_vars
    PROVE  ProgramInv'
<1> USE DEF ProgramInv
<1>1. ListenPolls \in Nat /\ CtrMod \in Nat \ {0}
  BY SecureCanAssumption, SecCanAssumption
<1>2. CASE UNCHANGED appVars
  BY <1>2 DEF appVars
<1>3. CASE PedalNext
  BY <1>3 DEF PedalNext, PedalStart, PedalWait, PedalSample, PedalAdcError,
     PedalSent, PedalLoop
<1>4. CASE MotorStart \/ MotorRequest \/ MotorRequested \/ MotorListenEnd
  BY <1>1, <1>4 DEF MotorStart, MotorRequest, MotorRequested, MotorListenEnd, MotorLoop
<1>5. CASE MotorNothing \/ MotorApply \/ MotorReject
  <2>1. timeout' \in 0..ListenPolls
    BY <1>1, <1>5 DEF MotorNothing, MotorApply, MotorReject, MotorRead
  <2>2. CASE MotorNothing \/ MotorReject
    BY <2>1, <2>2 DEF MotorNothing, MotorReject, MotorLoop
  <2>3. CASE MotorApply
    <3>1. /\ applied' = Opened(RxMessage'[Motor]).name.msgnum
          /\ UNCHANGED <<pedal, motor>>
      BY <2>3 DEF MotorApply
    <3>2. PICK id \in Nat : id = RxMessage'[Motor].id
      <4>1. Motor \in Node
        BY SecureCanAssumption
      <4>2. RxMessage'[Motor] \in Frame
        BY <4>1 DEF HalInv, HalTypeOK
      <4> QED
        BY <4>2 DEF Frame
    <3>3. Opened(RxMessage'[Motor]).name = NameOf(id)
      BY <3>2 DEF Opened, decrypt_can_packet
    <3>4. id \div BaseMod \in Nat
      BY <3>2, SMTT(30) DEF BaseMod
    <3>5. NameOf(id).msgnum \in 0..(CtrMod - 1)
      BY <1>1, <3>4, ModBounds DEF NameOf
    <3> QED
      BY <2>1, <3>1, <3>3, <3>5
  <2> QED
    BY <1>5, <2>2, <2>3
<1> QED
  BY <1>2, <1>3, <1>4, <1>5 DEF Next, MotorNext, vars

\* The duty cycle is 16 bits wide.
LEMMA DutyType == 0 \in Pulse /\ \A v \in Sample : Duty(v) \in Pulse
<1>1. PulseMod \in Nat \ {0}
  BY DEF PulseMod
<1> QED
  BY <1>1, ModBounds, SecureCanAssumption DEF Duty, Pulse

ApplicationInv == ProgramInv /\ duty \in Pulse /\ FollowInv

\* Every variable of the system keeps its type.
THEOREM SystemTypeCorrect ==
    NumberFits /\ RolledOverRejected(MaxSend - 1) /\ Spec => []TypeOK
<1> SUFFICES ASSUME NumberFits, RolledOverRejected(MaxSend - 1)
             PROVE  Spec => []TypeOK
  OBVIOUS
<1>1. Init => ApplicationInv
  <2> SUFFICES ASSUME Init PROVE ApplicationInv
    OBVIOUS
  <2>1. ProgramInv /\ duty \in Pulse
    BY SecureCanAssumption, SecCanAssumption, DutyType DEF Init, ProgramInv
  <2> QED
    BY <2>1, InitFollow DEF ApplicationInv
<1>2. HalInv /\ HalInv' /\ PortInv /\ FramesInv /\ ApplicationInv /\ [Next]_vars
         => ApplicationInv'
  <2> SUFFICES ASSUME HalInv, HalInv', PortInv, FramesInv, ApplicationInv,
                      [Next]_vars
               PROVE  ApplicationInv'
    OBVIOUS
  <2>1. FollowInv' /\ [Control!Next]_Control!vars
    BY NextFollow DEF ApplicationInv
  <2>2. \/ duty' = duty
        \/ \E i \in 1..Len(samples) : duty' = Duty(samples[i])
    BY <2>1 DEF Control!Next, Control!Press, Control!Follow, Control!vars
  <2>3. \A i \in 1..Len(samples) : samples[i] \in Sample
    BY DEF FramesInv, NumberedInv
  <2>4. \A i \in 1..Len(samples) : Duty(samples[i]) \in Pulse
    BY <2>3, DutyType
  <2>5. duty' \in Pulse
    BY <2>2, <2>4 DEF ApplicationInv
  <2>6. ProgramInv'
    BY ProgramStep DEF ApplicationInv
  <2> QED
    BY <2>1, <2>5, <2>6 DEF ApplicationInv
<1>3. HalInv /\ FramesInv /\ ApplicationInv => TypeOK
  BY SMTT(30)
     DEF TypeOK, HalInv, FramesInv, NumberInv, NumberedInv, ApplicationInv, ProgramInv
<1> QED
  BY <1>1, <1>2, <1>3, Underneath, PTL DEF Spec

-----------------------------------------------------------------------------
(* Resets: a board may restart at any step, its own frame on the bus or its *)
(* processor anywhere in the driver.                                        *)

\* A restart puts one station back to reset and leaves the others alone: the
\* bus is taken from it alone, and nobody else's mailbox is touched.
LEMMA PowerUpStep ==
    ASSUME NEW n \in Node, HalInv, PowerUp(n)
    PROVE  HalInv'
<1> USE DEF HalInv, PowerUp, PowerUpPeripheral, Goto, SetState, Return
<1>1. NoFrame \in Frame
  BY CanHalAssumption DEF NoFrame, Frame
<1>2. <<>> \in Seq(Frame)
  OBVIOUS
<1>3. bus' \in {Quiet} \cup (Node \X Mailboxes)
  BY DEF HalTypeOK
<1>4. HalTypeOK'
  BY <1>1, <1>2, <1>3
     DEF HalTypeOK, Locations, States, Modes, Statuses, MailboxStatuses, Mailboxes
<1>5. ModeInv'
  BY DEF HalTypeOK, ModeInv
<1>6. HandleInv'
  BY DEF HalTypeOK, HandleInv
<1>7. MailboxInv'
  <2> SUFFICES ASSUME NEW m \in Node, NEW k \in Mailboxes
               PROVE  /\ tme'[m][k] = "pending" => k = mailbox'[m] /\ pc'[m] = "poll_tx"
                      /\ tme'[m][k] = "aborting" =>
                            /\ k = mailbox'[m]
                            /\ pc'[m] \in {"transmitted", "enter_init", "error_handler"}
                            /\ pc'[m] = "transmitted" => hcan'[m].State = "TIMEOUT"
                            /\ bus' = OnBus(m, k)
                      /\ bus' = OnBus(m, k) => Outstanding(m, k)' /\ Listening(m)'
    BY DEF MailboxInv
  <2>1. CASE m = n
    <3>1. tme'[n][k] = "empty"
      BY DEF HalTypeOK
    <3>2. bus' # OnBus(n, k)
      BY DEF OnBus, Quiet
    <3> QED
      BY <2>1, <3>1, <3>2
  <2>2. CASE m # n
    <3>1. /\ tme'[m] = tme[m] /\ mailbox'[m] = mailbox[m] /\ pc'[m] = pc[m]
          /\ hcan'[m] = hcan[m] /\ mode'[m] = mode[m] /\ off'[m] = off[m]
      BY <2>2 DEF HalTypeOK
    <3>2. OnBus(m, k) # Quiet /\ \A j \in Mailboxes : OnBus(m, k) # OnBus(n, j)
      BY <2>2 DEF OnBus, Quiet
    <3>3. bus' = OnBus(m, k) <=> bus = OnBus(m, k)
      BY <3>2
    <3> QED
      BY <3>1, <3>3 DEF MailboxInv, Outstanding, Listening
  <2> QED
    BY <2>1, <2>2
<1> QED
  BY <1>4, <1>5, <1>6, <1>7

\* The counter wraps within its type, also when it starts anew.
LEMMA NumberAcrossResets == ResetSpec => []NumberInv
<1>1. ResetInit => NumberInv
  BY SecureCanAssumption DEF ResetInit, Init, NumberInv
<1>2. NumberInv /\ [ResetNext]_resetVars => NumberInv'
  <2> SUFFICES ASSUME NumberInv, [ResetNext]_resetVars
               PROVE  NumberInv'
    OBVIOUS
  <2>1. CASE Run
    <3>1. CASE PedalSent
      BY <3>1, SecureCanAssumption DEF PedalSent, NumberInv
    <3>2. CASE UNCHANGED msgnum
      BY <3>2 DEF NumberInv
    <3>3. PedalSent \/ UNCHANGED msgnum
      BY <2>1 DEF Run, Next, appVars, PedalNext, PedalStart, PedalWait,
         PedalSample, PedalAdcError, MotorNext, MotorStart, MotorRequest,
         MotorRequested, MotorNothing, MotorApply, MotorReject, MotorListenEnd
    <3> QED
      BY <3>1, <3>2, <3>3
  <2>2. CASE ResetPedal
    BY <2>2, SecureCanAssumption DEF ResetPedal, NumberInv
  <2>3. CASE ResetMotor
    BY <2>3 DEF ResetMotor, NumberInv
  <2>4. CASE UNCHANGED resetVars
    BY <2>4 DEF resetVars, vars, appVars, NumberInv
  <2> QED
    BY <2>1, <2>2, <2>3, <2>4 DEF ResetNext
<1> QED
  BY <1>1, <1>2, PTL DEF ResetSpec

\* The inductive invariant of the driver holds through any number of resets of
\* either board.
THEOREM InvarianceAcrossResets == ResetSpec => []HalInv
<1>1. ResetInit => HalInv
  BY InitEstablishes DEF ResetInit, Init
<1>2. HalInv /\ NumberInv /\ [ResetNext]_resetVars => HalInv'
  <2> SUFFICES ASSUME HalInv, NumberInv, [ResetNext]_resetVars
               PROVE  HalInv'
    OBVIOUS
  <2>1. CASE Run
    <3>1. [HalNext]_halVars
      BY <2>1, PedalCalls, MotorCalls DEF Run, Next, Internal, HalNext
    <3> QED
      BY <3>1, NextPreserves
  <2>2. CASE ResetPedal
    BY <2>2, PowerUpStep, SecureCanAssumption DEF ResetPedal
  <2>3. CASE ResetMotor
    BY <2>3, PowerUpStep, SecureCanAssumption DEF ResetMotor
  <2>4. CASE UNCHANGED resetVars
    BY <2>4, NextPreserves DEF resetVars, vars
  <2> QED
    BY <2>1, <2>2, <2>3, <2>4 DEF ResetNext
<1> QED
  BY NumberAcrossResets, <1>1, <1>2, PTL DEF ResetSpec

\* No frame of a write_can that returned, or that a reset cut off, reaches the
\* bus later: after a restart the mailboxes are free and the bus is not ours.
THEOREM NoLateFrameAcrossResets == ResetSpec => []NothingOutstanding
BY InvarianceAcrossResets, MailboxesFree, PTL

-----------------------------------------------------------------------------
(* The order of the samples across resets. *)

\* A restart leaves no mailbox in use and no result of a call.
LEMMA PowerUpPort ==
    ASSUME NEW n \in Node, HalInv, PortInv, PowerUp(n)
    PROVE  PortInv'
<1> USE DEF HalInv, HalTypeOK
<1>1. /\ pc'[n] = "reset" /\ canError'[n] = "none"
      /\ \A k \in Mailboxes : tme'[n][k] = "empty"
  BY DEF PowerUp, PowerUpPeripheral, Goto
<1>2. \A m \in Node : m # n =>
         /\ pc'[m] = pc[m] /\ canError'[m] = canError[m] /\ tme'[m] = tme[m]
         /\ mailbox'[m] = mailbox[m] /\ out'[m] = out[m] /\ msg'[m] = msg[m]
  BY DEF PowerUp, PowerUpPeripheral, Goto
<1>3. ASSUME NEW m \in Node, m # n, NEW k \in Mailboxes
      PROVE  tme'[m] = tme[m] /\ out'[m] = out[m] /\ msg'[m] = msg[m]
             /\ (Outstanding(m, k)' <=> Outstanding(m, k))
  BY <1>2, <1>3 DEF Outstanding
<1>4. \A k \in Mailboxes : ~Outstanding(n, k)'
  BY <1>1 DEF Outstanding
<1>5. \A m \in Node : m = n =>
         /\ pc'[m] = "reset" /\ canError'[m] = "none"
         /\ \A k \in Mailboxes : tme'[m][k] = "empty" /\ ~Outstanding(m, k)'
  BY <1>1, <1>4
<1> QED
  BY <1>2, <1>3, <1>5 DEF PortInv

\* What the mapping to the port needs holds across resets.
LEMMA PortAcrossResets == ResetSpec => []PortInv
<1>1. ResetInit => PortInv
  BY PortInit DEF ResetInit, Init
<1>2. HalInv /\ NumberInv /\ PortInv /\ [ResetNext]_resetVars => PortInv'
  <2> SUFFICES ASSUME HalInv, NumberInv, PortInv, [ResetNext]_resetVars
               PROVE  PortInv'
    OBVIOUS
  <2>1. CASE Run
    <3>1. [HalNext]_halVars
      BY <2>1, PedalCalls, MotorCalls DEF Run, Next, Internal, HalNext
    <3> QED
      BY <3>1, NextImplements
  <2>2. CASE ResetPedal
    BY <2>2, PowerUpPort, SecureCanAssumption DEF ResetPedal
  <2>3. CASE ResetMotor
    BY <2>3, PowerUpPort, SecureCanAssumption DEF ResetMotor
  <2>4. CASE UNCHANGED resetVars
    BY <2>4, NextImplements DEF resetVars, vars
  <2> QED
    BY <2>1, <2>2, <2>3, <2>4 DEF ResetNext
<1> QED
  BY InvarianceAcrossResets, NumberAcrossResets, <1>1, <1>2, PTL DEF ResetSpec

\* The stamps follow the FIFO: a stored frame brings the last sample's index,
\* unless it is the frame it replaces, and a frame taken takes its stamp along.
LEMMA StampsStored ==
    ASSUME NEW q \in Seq(Frame), NEW f \in Frame, NEW s \in Seq(Nat), Len(s) = Len(q)
    PROVE  \/ StampsOf(q, Store(q, f), s) = Store(s, Len(samples))
           \/ Store(q, f) = q /\ StampsOf(q, Store(q, f), s) = s
<1>1. FifoDepth \in Nat \ {0}
  BY CanHalAssumption
<1>2. CASE Len(q) < FifoDepth
  <2>1. Store(q, f) = Append(q, f) /\ Store(s, Len(samples)) = Append(s, Len(samples))
    BY <1>2 DEF Store
  <2>2. Len(Append(q, f)) > Len(q)
    OBVIOUS
  <2> QED
    BY <2>1, <2>2 DEF StampsOf
<1>3. CASE ~(Len(q) < FifoDepth)
  <2>1. PICK r : r = [q EXCEPT ![Len(q)] = f]
    OBVIOUS
  <2>2. Store(q, f) = r /\ Store(s, Len(samples)) = [s EXCEPT ![Len(s)] = Len(samples)]
    BY <1>3, <2>1 DEF Store
  <2>3. PICK n \in Nat : n = Len(q) /\ q \in [1..n -> Frame]
    OBVIOUS
  <2>4. r \in [1..n -> Frame]
    BY <2>1, <2>3
  <2>5. Len(r) = Len(q)
    BY <2>3, <2>4
  <2>6. ~(Len(r) > Len(q)) /\ ~(Len(r) < Len(q))
    BY <2>3, <2>5
  <2> QED
    BY <2>2, <2>6 DEF StampsOf
<1> QED
  BY <1>2, <1>3

LEMMA StampsKept ==
    ASSUME NEW q \in Seq(Frame), NEW s
    PROVE  /\ StampsOf(q, q, s) = s
           /\ q # <<>> => StampsOf(q, Tail(q), s) = Tail(s)
<1>1. ~(Len(q) > Len(q)) /\ ~(Len(q) < Len(q))
  OBVIOUS
<1>2. q # <<>> => ~(Len(Tail(q)) > Len(q)) /\ Len(Tail(q)) < Len(q)
  OBVIOUS
<1> QED
  BY <1>1, <1>2 DEF StampsOf

\* A frame of sample i under number c; after a reset the two are apart.
IsNumbered(f, i, c) ==
    f.id = ExtId(PedalName(c)) /\ f.data = SamplePacket(c, samples[i]).payload

\* The pairs of a frame and the index of a sample it is a frame of.
StampedFrames ==
    {pair \in Sendable \X (1..Len(samples)) :
        \E c \in 0..(MaxSend - 1) : IsNumbered(pair[1], pair[2], c)}

\* No more numbers are used since the last reset than samples were taken.
CountInv ==
    /\ samples \in Seq(Sample) /\ Len(samples) <= MaxSend
    /\ msgnum \in 0..Len(samples)
    /\ pedal = "send" => msgnum < Len(samples)

\* The pedal's running call sends its last sample.
SentInv == Sending(Pedal) =>
    pedal = "send" /\ <<PortFrame(Pedal), Len(samples)>> \in StampedFrames

\* The stamps are in order, and none is older than the sample last applied.
StampInv ==
    /\ Holds(StampedFrames, fifo[Motor], stamps)
    /\ current \in 0..Len(samples)
    /\ \A j \in 1..Len(stamps) : current <= stamps[j]

OrderInv == CountInv /\ SentInv /\ StampInv

LEMMA StampedFramesPair ==
    \A f, i : <<f, i>> \in StampedFrames <=>
        /\ f \in Sendable /\ i \in 1..Len(samples)
        /\ \E c \in 0..(MaxSend - 1) : IsNumbered(f, i, c)
BY DEF StampedFrames

\* The pairs stay as they are unless a sample is appended, which adds to them.
LEMMA StampedFramesGrow ==
    /\ UNCHANGED samples => StampedFrames' = StampedFrames
    /\ \A v \in Sample : CountInv /\ samples' = Append(samples, v)
                            => StampedFrames \subseteq StampedFrames'
<1>1. UNCHANGED samples => StampedFrames' = StampedFrames
  BY DEF StampedFrames, IsNumbered
<1>2. ASSUME NEW v \in Sample, CountInv, samples' = Append(samples, v)
      PROVE  StampedFrames \subseteq StampedFrames'
  <2>1. /\ Len(samples') = Len(samples) + 1 /\ Len(samples) \in Nat
        /\ \A i \in 1..Len(samples) : samples'[i] = samples[i]
    BY <1>2 DEF CountInv
  <2> QED
    BY <2>1 DEF StampedFrames, IsNumbered
<1> QED
  BY <1>1, <1>2

\* The numbers: they are used up one by one and begin again at a reset.
LEMMA CountStep ==
    ASSUME NumberInv, CountInv, [ResetNext]_resetVars
    PROVE  CountInv'
<1> USE DEF CountInv
<1>1. Len(samples) \in Nat /\ MsgMod \in Nat \ {0} /\ MaxSend \in Nat
      /\ msgnum \in 0..(MsgMod - 1)
  BY SecureCanAssumption DEF NumberInv
<1>2. CASE UNCHANGED <<samples, msgnum, pedal>>
  BY <1>2
<1>3. ASSUME NEW v \in Sample, PedalSample(v)
      PROVE  CountInv'
  <2>1. /\ samples' = Append(samples, v) /\ msgnum' = msgnum
        /\ Len(samples) < MaxSend
    BY <1>3 DEF PedalSample
  <2>2. Len(samples') = Len(samples) + 1 /\ samples' \in Seq(Sample)
    BY <2>1
  <2> QED
    BY <1>1, <2>1, <2>2
<1>4. CASE PedalSent
  <2>1. /\ pedal = "send" /\ msgnum' = (msgnum + 1) % MsgMod
        /\ pedal' # "send" /\ UNCHANGED samples
    BY <1>4 DEF PedalSent, PedalLoop
  <2>2. PICK a \in Nat : a = msgnum + 1 /\ a <= MsgMod
    BY <1>1
  <2>3. a % MsgMod \in 0..a
    <3>1. a % MsgMod \in 0..(MsgMod - 1) /\ (a < MsgMod => a % MsgMod = a)
      BY <1>1, <2>2, ModBounds
    <3> QED
      BY <1>1, <2>2, <3>1
  <2>4. a \in 0..Len(samples) /\ msgnum' = a % MsgMod
    BY <1>1, <2>1, <2>2
  <2> QED
    BY <1>1, <2>1, <2>3, <2>4
<1>5. CASE PedalStart \/ PedalWait \/ PedalAdcError
  BY <1>5 DEF PedalStart, PedalWait, PedalAdcError, PedalLoop
<1>6. CASE ResetPedal
  BY <1>1, <1>6 DEF ResetPedal
<1>7. MotorNext \/ ResetMotor \/ (Internal /\ UNCHANGED appVars)
      \/ UNCHANGED resetVars => UNCHANGED <<samples, msgnum, pedal>>
  BY DEF MotorNext, MotorStart, MotorRequest, MotorRequested, MotorRead,
     MotorListenEnd, MotorNothing, MotorApply, MotorReject, ResetMotor, appVars,
     resetVars, vars
<1> QED
  BY <1>2, <1>3, <1>4, <1>5, <1>6, <1>7 DEF ResetNext, Run, Next, PedalNext

\* A step between two calls of the programs stores at most the frame of the
\* last sample, under that sample's index.
LEMMA InternalOrder ==
    ASSUME HalInv, PortInv, CountInv, OrderInv, Internal, UNCHANGED appVars,
           UNCHANGED current,
           stamps' = StampsOf(fifo[Motor], fifo'[Motor], stamps)
    PROVE  SentInv' /\ StampInv'
<1>1. StampedFrames' = StampedFrames /\ UNCHANGED <<samples, pedal>>
  BY StampedFramesGrow DEF appVars
<1>2. SentInv'
  BY <1>1, InternalPort DEF OrderInv, SentInv
<1>3. fifo[Motor] \in Seq(Frame) /\ PortFrame(Pedal) \in Frame
  BY SecureCanAssumption, CanHalAssumption
     DEF HalInv, HalTypeOK, PortFrame, NoFrame, Frame
<1>4. CASE fifo'[Motor] = fifo[Motor]
  <2>1. stamps' = stamps
    BY <1>3, <1>4, StampsKept
  <2> QED
    BY <1>1, <1>2, <1>4, <2>1 DEF OrderInv, StampInv
<1>5. CASE Sending(Pedal) /\ fifo'[Motor] = Store(fifo[Motor], PortFrame(Pedal))
           /\ fifo'[Motor] # fifo[Motor]
  <2>1. PICK i \in Nat : i = Len(samples)
    BY DEF CountInv
  <2>2. /\ Holds(StampedFrames, fifo[Motor], stamps)
        /\ \A j \in 1..Len(stamps) : current <= stamps[j]
        /\ current \in 0..i
    BY <2>1 DEF OrderInv, StampInv
  <2>3. \A j \in 1..Len(stamps) : stamps[j] <= i
    <3>1. \A j \in 1..Len(stamps) : <<fifo[Motor][j], stamps[j]>> \in StampedFrames
      BY <2>2 DEF Holds
    <3>2. \A j \in 1..Len(stamps) : stamps[j] \in 1..Len(samples)
      BY <3>1, StampedFramesPair
    <3> QED
      BY <2>1, <3>2
  <2>4. <<PortFrame(Pedal), i>> \in StampedFrames
    BY <1>5, <2>1 DEF OrderInv, SentInv
  <2>5. PICK s : s = Store(stamps, i)
    OBVIOUS
  <2>6. stamps \in Seq(Nat) /\ Len(stamps) = Len(fifo[Motor])
    BY <2>2 DEF Holds
  <2>7. stamps' = s
    BY <1>3, <1>5, <2>1, <2>5, <2>6, StampsStored
  <2>8. /\ Holds(StampedFrames, fifo'[Motor], s)
        /\ \A j \in 1..Len(s) : \/ s[j] = i
                                \/ j \in 1..Len(stamps) /\ s[j] = stamps[j]
    <3>1. PICK q, f, old : /\ q = fifo[Motor] /\ q \in Seq(Frame)
                           /\ f = PortFrame(Pedal) /\ f \in Frame
                           /\ old = stamps
      BY <1>3
    <3>2. /\ Holds(StampedFrames, q, old) /\ <<f, i>> \in StampedFrames
          /\ \A j \in 1..Len(old) : old[j] <= i
      BY <2>2, <2>3, <2>4, <3>1
    <3>3. /\ Holds(StampedFrames, Store(q, f), Store(old, i))
          /\ \A j \in 1..Len(Store(old, i)) :
                \/ Store(old, i)[j] = i
                \/ j \in 1..Len(old) /\ Store(old, i)[j] = old[j]
      BY <3>1, <3>2, StoreHolds
    <3> QED
      BY <1>5, <2>5, <3>1, <3>3
  <2>9. \A j \in 1..Len(s) : current <= s[j]
    BY <2>2, <2>8
  <2> QED
    BY <1>1, <1>2, <2>1, <2>2, <2>7, <2>8, <2>9 DEF StampInv
<1> QED
  BY <1>2, <1>4, <1>5, InternalPort

\* The stamps stay in order when no frame arrives.
LEMMA StampsInOrder ==
    ASSUME StampInv, CountInv, CountInv', fifo[Motor] \in Seq(Frame),
           StampedFrames \subseteq StampedFrames', Len(samples) <= Len(samples'),
           UNCHANGED current,
           stamps' = StampsOf(fifo[Motor], fifo'[Motor], stamps),
           \/ fifo'[Motor] = fifo[Motor]
           \/ fifo[Motor] # <<>> /\ fifo'[Motor] = Tail(fifo[Motor])
    PROVE  StampInv'
<1>1. PICK R : R = StampedFrames'
  OBVIOUS
<1>2. PICK q, s : q = fifo[Motor] /\ q \in Seq(Frame) /\ s = stamps
  OBVIOUS
<1>3. Holds(R, q, s) /\ \A j \in 1..Len(s) : current <= s[j]
  BY <1>1, <1>2 DEF Holds, StampInv
<1>4. current' \in 0..Len(samples')
  BY DEF StampInv, CountInv
<1>5. CASE fifo'[Motor] = fifo[Motor]
  <2>1. stamps' = s /\ fifo'[Motor] = q
    BY <1>2, <1>5, StampsKept
  <2> QED
    BY <1>1, <1>3, <1>4, <2>1 DEF StampInv
<1>6. CASE fifo[Motor] # <<>> /\ fifo'[Motor] = Tail(fifo[Motor])
  <2>1. q # <<>> /\ stamps' = Tail(s) /\ fifo'[Motor] = Tail(q)
    BY <1>2, <1>6, StampsKept
  <2>2. Holds(R, Tail(q), Tail(s))
    BY <1>2, <1>3, <2>1, TailHolds
  <2>3. \A j \in 1..Len(Tail(s)) : \E k \in 1..Len(s) : Tail(s)[j] = s[k]
    BY <1>2, <1>3, <2>1, TailHolds
  <2>4. PICK r : r = Tail(s)
    OBVIOUS
  <2>5. \A j \in 1..Len(r) : current' <= r[j]
    BY <1>3, <2>3, <2>4
  <2> QED
    BY <1>1, <1>4, <2>1, <2>2, <2>4, <2>5 DEF StampInv
<1> QED
  BY <1>5, <1>6

\* The pedal's program: a new call sends the new sample, whatever number it has.
LEMMA PedalOrder ==
    ASSUME HalInv, PortInv, NumberInv, OrderInv, CountInv', PedalNext, UNCHANGED current,
           stamps' = StampsOf(fifo[Motor], fifo'[Motor], stamps)
    PROVE  SentInv' /\ StampInv' /\ [Restarting!Next]_Restarting!vars
<1>1. /\ Pedal \in Node /\ Motor \in Node /\ fifo[Motor] \in Seq(Frame)
      /\ Len(samples) \in Nat
  BY SecureCanAssumption DEF HalInv, HalTypeOK, OrderInv, CountInv
<1>2. CASE PedalStart \/ PedalAdcError \/ PedalSent
  <2>1. UNCHANGED halVars /\ UNCHANGED <<samples, duty>>
    BY <1>2 DEF PedalStart, PedalAdcError, PedalSent
  <2>2. /\ PortPhase(Pedal)' = PortPhase(Pedal) /\ PortFrame(Pedal)' = PortFrame(Pedal)
        /\ fifo' = fifo /\ StampedFrames' = StampedFrames
    BY <2>1, StampedFramesGrow DEF halVars, sw, hw, PortPhase, PortFrame
  <2>3. ~Sending(Pedal)
    BY <1>2 DEF PedalStart, PedalAdcError, PedalSent, OrderInv, SentInv, Sending,
       PortPhase
  <2>4. SentInv'
    BY <2>2, <2>3 DEF SentInv, Sending
  <2>5. StampInv'
    BY <1>1, <2>1, <2>2, StampsInOrder DEF OrderInv
  <2> QED
    BY <2>1, <2>4, <2>5 DEF Restarting!vars
<1>3. CASE PedalWait
  <2>1. pedal = "wait" /\ read_can(Pedal, 8) /\ UNCHANGED <<samples, duty>>
    BY <1>3 DEF PedalWait
  <2>2. ~Sending(Pedal)
    BY <2>1 DEF OrderInv, SentInv
  <2>3. /\ PortPhase(Pedal)' = PortPhase(Pedal) /\ fifo'[Motor] = fifo[Motor]
        /\ StampedFrames' = StampedFrames
    BY <1>1, <2>1, ReadPort, StampedFramesGrow
  <2>4. SentInv'
    BY <2>2, <2>3 DEF SentInv, Sending
  <2>5. StampInv'
    BY <1>1, <2>1, <2>3, StampsInOrder DEF OrderInv
  <2> QED
    BY <2>1, <2>4, <2>5 DEF Restarting!vars
<1>4. ASSUME NEW v \in Sample, PedalSample(v)
      PROVE  SentInv' /\ StampInv' /\ Restarting!Next
  <2>1. /\ pedal = "sample" /\ Len(samples) < MaxSend
        /\ write_can(Pedal, SamplePacket(msgnum, v).ext_id,
                     SamplePacket(msgnum, v).payload, 8)
        /\ samples' = Append(samples, v) /\ pedal' = "send"
        /\ UNCHANGED duty
    BY <1>4 DEF PedalSample
  <2>2. /\ samples \in Seq(Sample)
        /\ Len(samples') = Len(samples) + 1 /\ samples'[Len(samples')] = v
        /\ msgnum \in 0..(MsgMod - 1) /\ msgnum \in 0..(MaxSend - 1)
    BY <1>1, <2>1, SecureCanAssumption DEF OrderInv, CountInv, NumberInv
  <2>3. StampedFrames \subseteq StampedFrames'
    BY <2>1, StampedFramesGrow DEF OrderInv
  <2>4. PICK address \in Address[Pedal], data \in Payload :
           /\ address = ExtId(PedalName(msgnum))
           /\ data = SamplePacket(msgnum, v).payload
           /\ write_can(Pedal, address, data, 8)
    BY <2>1, <2>2, ClientAssumption DEF SamplePacket, encrypt_can_packet
  <2>5. /\ fifo' = fifo
        /\ Sending(Pedal)' =>
              /\ PortFrame(Pedal)' \in Sendable
              /\ PortFrame(Pedal).id' = address /\ PortFrame(Pedal).data' = data
    BY <1>1, <2>4, WritePort
  <2>6. SentInv'
    <3> SUFFICES ASSUME Sending(Pedal)'
                 PROVE  <<PortFrame(Pedal)', Len(samples')>> \in StampedFrames'
      BY <2>1 DEF SentInv
    <3>1. PICK f \in Sendable : f = PortFrame(Pedal)' /\ f.id = address /\ f.data = data
      BY <2>5
    <3>2. PICK i \in 1..Len(samples') : i = Len(samples')
      BY <1>1, <2>2
    <3>3. PICK c \in 0..(MaxSend - 1) : c = msgnum
      BY <2>2
    <3>4. f.id = ExtId(PedalName(c)) /\ f.data = SamplePacket(c, samples'[i]).payload
      BY <2>2, <2>4, <3>1, <3>2, <3>3
    <3> QED
      BY <3>1, <3>2, <3>4 DEF StampedFrames, IsNumbered
  <2>7. StampInv'
    BY <1>1, <2>2, <2>3, <2>5, StampsInOrder DEF OrderInv
  <2>8. Restarting!Press(v)
    BY <2>1 DEF Restarting!Press
  <2> QED
    BY <2>6, <2>7, <2>8 DEF Restarting!Next
<1> QED
  BY <1>2, <1>3, <1>4 DEF PedalNext

\* The motor's program, but for a sample that it applies.
LEMMA MotorOrder ==
    ASSUME HalInv, PortInv, OrderInv, CountInv', MotorNext, ~MotorApply,
           UNCHANGED current,
           stamps' = StampsOf(fifo[Motor], fifo'[Motor], stamps)
    PROVE  SentInv' /\ StampInv' /\ UNCHANGED <<samples, duty>>
<1>1. /\ Pedal \in Node /\ Motor \in Node /\ fifo[Motor] \in Seq(Frame)
      /\ Len(samples) \in Nat
  BY SecureCanAssumption DEF HalInv, HalTypeOK, OrderInv, CountInv
<1>2. UNCHANGED <<samples, pedal, duty>> /\ StampedFrames' = StampedFrames
  BY StampedFramesGrow DEF MotorNext, MotorStart, MotorRequest, MotorRequested,
     MotorListenEnd, MotorNothing, MotorReject
<1>3. /\ PortPhase(Pedal)' = PortPhase(Pedal) /\ PortFrame(Pedal)' = PortFrame(Pedal)
      /\ \/ fifo'[Motor] = fifo[Motor]
         \/ fifo[Motor] # <<>> /\ fifo'[Motor] = Tail(fifo[Motor])
  <2>1. CASE UNCHANGED halVars
    BY <2>1 DEF halVars, sw, hw, PortPhase, PortFrame
  <2>2. CASE read_can(Motor, 8)
    BY <1>1, <2>2, ReadPort
  <2>3. CASE MotorRequest
    <3>1. write_can(Motor, RequestPacket.ext_id, RequestPacket.payload, 8)
      BY <2>3 DEF MotorRequest
    <3>2. RequestPacket.ext_id \in Address[Motor] /\ RequestPacket.payload \in Payload
      BY ClientAssumption
    <3> QED
      BY <1>1, <3>1, <3>2, WritePort
  <2> QED
    BY <2>1, <2>2, <2>3 DEF MotorNext, MotorStart, MotorRequested, MotorListenEnd,
       MotorNothing, MotorReject, MotorRead
<1>4. StampInv'
  BY <1>1, <1>2, <1>3, StampsInOrder DEF OrderInv
<1> QED
  BY <1>2, <1>3, <1>4 DEF OrderInv, SentInv, Sending

\* The sample that the motor applies is that of the oldest stamp.
LEMMA ApplyOrder ==
    ASSUME RolledOverRejected(MaxSend - 1), HalInv, PortInv, OrderInv, MotorApply,
           current' = Head(stamps),
           stamps' = StampsOf(fifo[Motor], fifo'[Motor], stamps)
    PROVE  SentInv' /\ StampInv' /\ Restarting!Next
<1>1. Motor \in Node /\ fifo[Motor] \in Seq(Frame)
  BY SecureCanAssumption DEF HalInv, HalTypeOK
<1>2. /\ UNCHANGED <<samples, pedal>> /\ StampedFrames' = StampedFrames
      /\ read_can(Motor, 8) /\ rval'[Motor] = 8
      /\ Opened(RxMessage'[Motor]).ok
      /\ duty' = DutyOf(BytesOf(Opened(RxMessage'[Motor]).data))
  BY StampedFramesGrow DEF MotorApply, MotorRead
<1>3. /\ PortPhase(Pedal)' = PortPhase(Pedal) /\ PortFrame(Pedal)' = PortFrame(Pedal)
      /\ fifo[Motor] # <<>> /\ fifo'[Motor] = Tail(fifo[Motor])
      /\ RxMessage'[Motor] = Head(fifo[Motor])
  BY <1>1, <1>2, ReadPort
<1>4. PICK R, s, q :
         /\ R = StampedFrames /\ s = stamps
         /\ q = fifo[Motor] /\ q \in Seq(Frame) /\ q # <<>>
  BY <1>1, <1>3
<1>5. Holds(R, q, s) /\ \A j \in 1..Len(s) : current <= s[j]
  BY <1>4 DEF OrderInv, StampInv
<1>6. /\ Len(s) >= 1 /\ <<Head(q), s[1]>> \in R
      /\ Holds(R, Tail(q), Tail(s))
      /\ \A j \in 1..Len(Tail(s)) : s[1] <= Tail(s)[j]
  BY <1>4, <1>5, TailHolds
<1>7. s \in Seq(Nat) /\ 1 \in 1..Len(s) /\ Head(s) = s[1] /\ current' = s[1]
  BY <1>4, <1>5, <1>6 DEF Holds
\* The oldest frame is one of sample i, no earlier than the last one applied.
<1>8. PICK i, c, f : /\ i \in 1..Len(samples) /\ c \in 0..(MaxSend - 1)
                     /\ i = s[1] /\ f = Head(q) /\ IsNumbered(f, i, c)
                     /\ current <= i
  <2>1. current <= s[1]
    BY <1>5, <1>7
  <2> QED
    BY <1>4, <1>6, <2>1, StampedFramesPair
<1>9. PICK last \in Int : last = MaxSend - 1
  BY SecureCanAssumption
<1>10. PICK v \in Sample : v = samples[i]
  BY <1>8 DEF OrderInv, CountInv
<1>11. /\ f.id = ExtId(PedalName(c)) /\ f.data = SamplePacket(c, v).payload
       /\ Opened(f).ok /\ RxMessage'[Motor] = f
  BY <1>2, <1>3, <1>4, <1>8, <1>10 DEF IsNumbered
<1>12. DutyOf(BytesOf(Opened(f).data)) = Duty(v)
  BY <1>8, <1>10, <1>11, <1>9, SampleOpened
<1>13. Restarting!Follow(i)
  BY <1>2, <1>7, <1>8, <1>10, <1>11, <1>12 DEF Restarting!Follow
<1>14. stamps' = Tail(s) /\ fifo'[Motor] = Tail(q)
  BY <1>3, <1>4, StampsKept
<1>15. StampInv'
  <2>1. PICK r : r = Tail(s)
    OBVIOUS
  <2>2. Holds(StampedFrames', Tail(q), r) /\ \A j \in 1..Len(r) : current' <= r[j]
    BY <1>2, <1>4, <1>6, <1>7, <2>1
  <2>3. current' \in 0..Len(samples')
    BY <1>2, <1>7, <1>8
  <2> QED
    BY <1>14, <2>1, <2>2, <2>3 DEF StampInv
<1>16. SentInv'
  BY <1>2, <1>3 DEF OrderInv, SentInv, Sending
<1> QED
  BY <1>8, <1>13, <1>15, <1>16 DEF Restarting!Next

\* A reset of the pedal cuts its call off; one of the motor empties its FIFO.
LEMMA ResetOrder ==
    ASSUME HalInv, OrderInv, CountInv', ResetPedal \/ ResetMotor
    PROVE  SentInv' /\ StampInv' /\ [Restarting!Next \/ Restarting!Restart]_Restarting!vars
<1>1. /\ Pedal \in Node /\ Motor \in Node /\ Pedal # Motor
  BY SecureCanAssumption DEF HalInv, HalTypeOK
<1>2. UNCHANGED <<samples, current>> /\ StampedFrames' = StampedFrames
  BY StampedFramesGrow DEF ResetPedal, ResetMotor
<1>3. CASE ResetPedal
  <2>1. /\ pc'[Pedal] = "reset" /\ canError'[Pedal] = "none"
        /\ fifo'[Motor] = fifo[Motor] /\ UNCHANGED <<duty, stamps>>
    BY <1>1, <1>3 DEF HalInv, HalTypeOK, ResetPedal, PowerUp, PowerUpPeripheral, Goto
  <2>2. ~Sending(Pedal)'
    BY <2>1 DEF Sending, PortPhase
  <2> QED
    BY <1>2, <2>1, <2>2 DEF SentInv, OrderInv, StampInv, Restarting!vars
<1>4. CASE ResetMotor
  <2>1. /\ pc'[Pedal] = pc[Pedal] /\ canError'[Pedal] = canError[Pedal]
        /\ tme'[Pedal] = tme[Pedal] /\ mailbox'[Pedal] = mailbox[Pedal]
        /\ msg'[Pedal] = msg[Pedal] /\ pedal' = pedal
        /\ fifo'[Motor] = <<>> /\ stamps' = <<>> /\ duty' = 0
    BY <1>1, <1>4 DEF HalInv, HalTypeOK, ResetMotor, PowerUp, PowerUpPeripheral, Goto
  <2>2. SentInv'
    BY <1>2, <2>1 DEF OrderInv, SentInv, Sending, PortPhase, PortFrame
  <2>3. Holds(StampedFrames', fifo'[Motor], stamps')
    BY <2>1 DEF Holds
  <2>4. StampInv'
    BY <1>2, <2>1, <2>3 DEF OrderInv, StampInv
  <2> QED
    BY <1>2, <2>1, <2>2, <2>4 DEF Restarting!Restart
<1> QED
  BY <1>3, <1>4

\* Every step is one of RestartControl or none.
LEMMA NextOrder ==
    ASSUME RolledOverRejected(MaxSend - 1),
           HalInv, PortInv, NumberInv, OrderInv, [ResetNext]_resetVars
    PROVE  OrderInv' /\ [Restarting!Next \/ Restarting!Restart]_Restarting!vars
<1>1. CountInv'
  BY CountStep DEF OrderInv
<1>2. CASE ResetPedal \/ ResetMotor
  BY <1>1, <1>2, ResetOrder DEF OrderInv
<1>3. CASE Run /\ MotorApply
  <2>1. current' = Head(stamps) /\ stamps' = StampsOf(fifo[Motor], fifo'[Motor], stamps)
    BY <1>3 DEF Run
  <2> QED
    BY <1>1, <1>3, <2>1, ApplyOrder DEF OrderInv
<1>4. CASE Run /\ ~MotorApply
  <2>1. /\ UNCHANGED current
        /\ stamps' = StampsOf(fifo[Motor], fifo'[Motor], stamps)
    BY <1>4 DEF Run
  <2>2. CASE Internal /\ UNCHANGED appVars
    BY <1>1, <2>1, <2>2, InternalOrder DEF OrderInv, appVars, Restarting!vars
  <2>3. CASE PedalNext
    BY <1>1, <2>1, <2>3, PedalOrder DEF OrderInv
  <2>4. CASE MotorNext
    BY <1>1, <1>4, <2>1, <2>4, MotorOrder DEF OrderInv, Restarting!vars
  <2> QED
    BY <1>4, <2>2, <2>3, <2>4 DEF Run, Next
<1>5. CASE UNCHANGED resetVars
  <2>1. UNCHANGED <<samples, pedal, duty, current, stamps>> /\ UNCHANGED halVars
    BY <1>5 DEF resetVars, vars, appVars
  <2>2. /\ PortPhase(Pedal)' = PortPhase(Pedal) /\ PortFrame(Pedal)' = PortFrame(Pedal)
        /\ fifo' = fifo /\ StampedFrames' = StampedFrames
    BY <2>1, StampedFramesGrow DEF halVars, sw, hw, PortPhase, PortFrame
  <2> QED
    BY <1>1, <2>1, <2>2 DEF OrderInv, SentInv, StampInv, Sending, Restarting!vars
<1> QED
  BY <1>2, <1>3, <1>4, <1>5 DEF ResetNext

LEMMA InitOrder ==
    ASSUME ResetInit
    PROVE  OrderInv /\ Restarting!Init
<1>1. Pedal \in Node /\ Motor \in Node /\ MaxSend \in Nat
  BY SecureCanAssumption
<1>2. fifo[Motor] = <<>> /\ ~Sending(Pedal)
  BY <1>1 DEF ResetInit, Init, HalInit, Sending, PortPhase
<1>3. Holds(StampedFrames, <<>>, <<>>)
  BY DEF Holds
<1>4. CountInv /\ SentInv
  BY <1>1, <1>2 DEF CountInv, SentInv, ResetInit, Init
<1>5. StampInv
  BY <1>2, <1>3 DEF StampInv, ResetInit, Init
<1> QED
  BY <1>4, <1>5 DEF OrderInv, ResetInit, Init, Restarting!Init

\* Although the numbers begin again at every reset, the motor never goes back
\* to a sample older than one it has applied: this is FollowsAcrossResets for
\* any number of resets of either board, any depth of FIFO and any width of
\* the number, if no frame numbered past its field is accepted by coincidence.
THEOREM SamplesInOrderAcrossResets ==
    RolledOverRejected(MaxSend - 1) /\ ResetSpec => FollowsAcrossResets
<1> SUFFICES ASSUME RolledOverRejected(MaxSend - 1)
             PROVE  ResetSpec => FollowsAcrossResets
  OBVIOUS
<1>1. ResetInit => OrderInv /\ Restarting!Init
  BY InitOrder
<1>2. HalInv /\ PortInv /\ NumberInv /\ OrderInv /\ [ResetNext]_resetVars
         => OrderInv' /\ [Restarting!Next \/ Restarting!Restart]_Restarting!vars
  BY NextOrder
<1> QED
  BY <1>1, <1>2, InvarianceAcrossResets, PortAcrossResets, NumberAcrossResets, PTL
     DEF ResetSpec, FollowsAcrossResets, Restarting!RestartSpec

\* The types of the programs' variables and of the resets.
ResetProgramInv ==
    ProgramInv /\ duty \in Pulse /\ resets \in [Node -> 0..MaxReset]

\* Every variable keeps its type across resets, and each frame the motor holds
\* has its stamp.
THEOREM TypesAcrossResets ==
    RolledOverRejected(MaxSend - 1) /\ ResetSpec => []ResetTypeOK
<1> SUFFICES ASSUME RolledOverRejected(MaxSend - 1)
             PROVE  ResetSpec => []ResetTypeOK
  OBVIOUS
<1>1. ResetInit => OrderInv /\ ResetProgramInv
  <2> SUFFICES ASSUME ResetInit PROVE OrderInv /\ ResetProgramInv
    OBVIOUS
  <2>1. ProgramInv /\ duty \in Pulse
    BY SecureCanAssumption, SecCanAssumption, DutyType DEF ResetInit, Init, ProgramInv
  <2>2. resets \in [Node -> 0..MaxReset]
    BY MaxResetAssumption DEF ResetInit
  <2> QED
    BY <2>1, <2>2, InitOrder DEF ResetProgramInv
<1>2. HalInv /\ HalInv' /\ PortInv /\ NumberInv /\ OrderInv /\ ResetProgramInv
        /\ [ResetNext]_resetVars
           => OrderInv' /\ ResetProgramInv'
  <2> SUFFICES ASSUME HalInv, HalInv', PortInv, NumberInv,
                      OrderInv, ResetProgramInv, [ResetNext]_resetVars
               PROVE  OrderInv' /\ ResetProgramInv'
    OBVIOUS
  <2>1. OrderInv' /\ [Restarting!Next \/ Restarting!Restart]_Restarting!vars
    BY NextOrder
  <2>2. \/ duty' = duty \/ duty' = 0
        \/ \E i \in 1..Len(samples) : duty' = Duty(samples[i])
    BY <2>1 DEF Restarting!Next, Restarting!Press, Restarting!Follow,
       Restarting!Restart, Restarting!vars
  <2>3. \A i \in 1..Len(samples) : samples[i] \in Sample
    BY DEF OrderInv, CountInv
  <2>4. \A i \in 1..Len(samples) : Duty(samples[i]) \in Pulse
    BY <2>3, DutyType
  <2>5. duty' \in Pulse
    BY <2>2, <2>4, DutyType DEF ResetProgramInv
  <2>6. ProgramInv'
    <3>1. CASE ResetPedal \/ ResetMotor
      <4>1. 0 \in 0..ListenPolls /\ -1 \in -1..(CtrMod - 1)
        BY SecureCanAssumption, SecCanAssumption
      <4>2. CASE ResetPedal
        BY <4>2 DEF ResetPedal, ResetProgramInv, ProgramInv
      <4>3. CASE ResetMotor
        BY <4>1, <4>3 DEF ResetMotor, ResetProgramInv, ProgramInv
      <4> QED
        BY <3>1, <4>2, <4>3
    <3>2. CASE Run \/ UNCHANGED resetVars
      BY <3>2, ProgramStep DEF Run, resetVars, ResetProgramInv
    <3> QED
      BY <3>1, <3>2 DEF ResetNext
  <2>7. resets' \in [Node -> 0..MaxReset]
    BY MaxResetAssumption, SecureCanAssumption
       DEF ResetNext, Run, ResetPedal, ResetMotor, resetVars, ResetProgramInv
  <2> QED
    BY <2>1, <2>5, <2>6, <2>7 DEF ResetProgramInv
<1>3. HalInv /\ NumberInv /\ OrderInv /\ ResetProgramInv => ResetTypeOK
  <2> SUFFICES ASSUME HalInv, NumberInv, OrderInv, ResetProgramInv
               PROVE  ResetTypeOK
    OBVIOUS
  <2>1. TypeOK
    BY SMTT(30)
       DEF TypeOK, HalInv, NumberInv, OrderInv, CountInv, ResetProgramInv, ProgramInv
  <2>2. Len(stamps) = Len(fifo[Motor]) /\ current \in 0..Len(samples)
    BY DEF OrderInv, StampInv, Holds
  <2> QED
    BY <2>1, <2>2 DEF ResetTypeOK, ResetProgramInv
<1> QED
  BY <1>1, <1>2, <1>3, InvarianceAcrossResets, PortAcrossResets, NumberAcrossResets, PTL
     DEF ResetSpec

-----------------------------------------------------------------------------
(* The frames across resets: no sample has a number of its own any more. *)

\* Every number a sample or the motor's request goes out under fits the
\* counter's field of the identifier.
FieldFits == MaxSend <= CtrMod /\ (TwoWay => MotorName.msgnum < CtrMod)

\* The frames the programs may have made: a sample's, under any number within
\* the bound, and the request's.
MadeSoFar ==
    {f \in Frame : \/ IsRequestFrame(f)
                   \/ \E i \in 1..Len(samples), c \in 0..(MaxSend - 1) : IsNumbered(f, i, c)}

CarriedInv ==
    /\ CountInv
    /\ motor = "request" => TwoWay
    /\ Carries(MadeSoFar)

\* A sample leaves the frames of the earlier ones what they are.
LEMMA MadeSoFarGrows ==
    /\ UNCHANGED samples => MadeSoFar' = MadeSoFar
    /\ \A v \in Sample : CountInv /\ samples' = Append(samples, v)
                            => MadeSoFar \subseteq MadeSoFar'
<1>1. UNCHANGED samples => MadeSoFar' = MadeSoFar
  BY DEF MadeSoFar, IsNumbered, IsRequestFrame
<1>2. ASSUME NEW v \in Sample, CountInv, samples' = Append(samples, v)
      PROVE  MadeSoFar \subseteq MadeSoFar'
  <2>1. /\ Len(samples') = Len(samples) + 1 /\ Len(samples) \in Nat
        /\ \A i \in 1..Len(samples) : samples'[i] = samples[i]
    BY <1>2 DEF CountInv
  <2>2. \A f : IsRequestFrame(f)' <=> IsRequestFrame(f)
    BY DEF IsRequestFrame
  <2>3. \A f, c : \A i \in 1..Len(samples) : IsNumbered(f, i, c) => IsNumbered(f, i, c)'
    BY <2>1 DEF IsNumbered
  <2> QED
    BY <2>1, <2>2, <2>3 DEF MadeSoFar
<1> QED
  BY <1>1, <1>2

\* A board that starts again carries nothing.
LEMMA PowerUpCarries ==
    ASSUME NEW M, NEW n \in Node, HalInv, Carries(M), PowerUp(n)
    PROVE  Carries(M)'
<1> USE DEF HalInv, HalTypeOK, PowerUp, PowerUpPeripheral, Goto
<1>1. /\ pc'[n] = "reset"
      /\ \A k \in Mailboxes : out'[n][k] = NoFrame /\ tme'[n][k] = "empty"
      /\ fifo'[n] = <<>> /\ RxMessage'[n] = NoFrame
  OBVIOUS
<1>2. \A m \in Node : m # n =>
         /\ pc'[m] = pc[m] /\ msg'[m] = msg[m] /\ out'[m] = out[m] /\ tme'[m] = tme[m]
         /\ fifo'[m] = fifo[m] /\ RxMessage'[m] = RxMessage[m]
  OBVIOUS
<1>3. /\ fifo' \in [Node -> Seq(M)]
      /\ RxMessage' \in [Node -> M \cup {NoFrame}]
  BY DEF Carries
<1>4. \A m \in Node, k \in Mailboxes :
         out'[m][k] \in M \/ (out'[m][k] = NoFrame /\ ~Outstanding(m, k)')
  <2> SUFFICES ASSUME NEW m \in Node, NEW k \in Mailboxes
               PROVE  out'[m][k] \in M \/ (out'[m][k] = NoFrame /\ ~Outstanding(m, k)')
    OBVIOUS
  <2>1. CASE m = n
    BY <1>1, <2>1 DEF Outstanding
  <2>2. CASE m # n
    BY <1>2, <2>2 DEF Outstanding, Carries
  <2> QED
    BY <2>1, <2>2
<1>5. \A m \in Node : pc'[m] = "transmit" => msg'[m] \in M
  <2> SUFFICES ASSUME NEW m \in Node, pc'[m] = "transmit" PROVE msg'[m] \in M
    OBVIOUS
  <2>1. m # n
    BY <1>1
  <2> QED
    BY <1>2, <2>1 DEF Carries
<1> QED
  BY <1>3, <1>4, <1>5 DEF Carries

\* Each step but a sample and a request carries what was carried before it.
LEMMA StepCarries ==
    ASSUME NEW M, HalInv, Carries(M), [ResetNext]_resetVars,
           ~MotorRequest, \A v \in Sample : ~PedalSample(v)
    PROVE  Carries(M)'
<1>1. Pedal \in Node /\ Motor \in Node
  BY SecureCanAssumption
<1>2. CASE Internal
  BY <1>2, DriverCarries, HardwareCarries DEF Internal
<1>3. CASE UNCHANGED halVars
  BY <1>3 DEF Carries, Outstanding, halVars, sw, hw
<1>4. CASE read_can(Pedal, 8) \/ read_can(Motor, 8)
  BY <1>1, <1>4, ReadCarries
<1>5. CASE PowerUp(Pedal) \/ PowerUp(Motor)
  BY <1>1, <1>5, PowerUpCarries
<1>6. \/ Internal \/ UNCHANGED halVars
      \/ read_can(Pedal, 8) \/ read_can(Motor, 8)
      \/ PowerUp(Pedal) \/ PowerUp(Motor)
  BY DEF ResetNext, Run, Next, ResetPedal, ResetMotor, resetVars, vars,
     PedalNext, PedalStart, PedalWait, PedalAdcError, PedalSent, MotorNext,
     MotorStart, MotorRequested, MotorListenEnd, MotorNothing, MotorApply,
     MotorReject, MotorRead
<1> QED
  BY <1>2, <1>3, <1>4, <1>5, <1>6

\* A sample goes out as a frame of the set, whatever number it has.
LEMMA SampleCarries ==
    ASSUME NumberInv, HalInv, CarriedInv, CountInv', NEW v \in Sample, PedalSample(v),
           NEW N, N = MadeSoFar'
    PROVE  Carries(N)'
<1>2. /\ Len(samples) < MaxSend /\ samples' = Append(samples, v)
      /\ write_can(Pedal, SamplePacket(msgnum, v).ext_id,
                   SamplePacket(msgnum, v).payload, 8)
  BY DEF PedalSample
<1>3. /\ Len(samples') = Len(samples) + 1 /\ Len(samples) \in Nat
      /\ samples'[Len(samples')] = v /\ msgnum \in 0..(MaxSend - 1)
      /\ msgnum \in 0..(MsgMod - 1)
  BY <1>2, SecureCanAssumption DEF CarriedInv, CountInv, NumberInv
<1>4. Carries(N)
  BY <1>2, MadeSoFarGrows, CarriesMore DEF CarriedInv
<1>5. PICK address \in Nat, data \in Payload :
         /\ address = ExtId(PedalName(msgnum)) /\ data = SamplePacket(msgnum, v).payload
         /\ write_can(Pedal, address, data, 8)
  BY <1>2, <1>3, CanHalAssumption, ClientAssumption, SecureCanAssumption
     DEF SamplePacket, encrypt_can_packet
<1>6. ASSUME NEW f \in Frame, f.id = address, f.data = data
      PROVE  f \in N
  <2>1. PICK i \in 1..Len(samples'), c \in 0..(MaxSend - 1) :
           i = Len(samples') /\ c = msgnum
    BY <1>3
  <2>2. f.id = ExtId(PedalName(c)) /\ f.data = SamplePacket(c, samples'[i]).payload
    BY <1>3, <1>5, <1>6, <2>1
  <2> QED
    BY <2>1, <2>2 DEF MadeSoFar, IsNumbered
<1> QED
  BY <1>4, <1>5, <1>6, WriteCarries, SecureCanAssumption

\* The motor's request is in the set, if the motor asks at all.
LEMMA RequestCarries ==
    ASSUME HalInv, CarriedInv, MotorRequest, NEW N, N = MadeSoFar
    PROVE  Carries(N)'
<1>1. TwoWay /\ Carries(N)
  BY DEF MotorRequest, CarriedInv
<1>2. \A f \in Frame : f.id = RequestPacket.ext_id /\ f.data = RequestPacket.payload
                          => f \in N
  BY <1>1 DEF MadeSoFar, IsRequestFrame
<1>3. RequestPacket.ext_id \in Nat /\ RequestPacket.payload \in Payload
  BY CanHalAssumption, ClientAssumption, SecureCanAssumption
<1>4. write_can(Motor, RequestPacket.ext_id, RequestPacket.payload, 8)
  BY DEF MotorRequest
<1> QED
  BY <1>1, <1>2, <1>3, <1>4, WriteCarries, SecureCanAssumption

\* Every step, a reset too, keeps what is carried to what may have been made.
LEMMA CarriedStep ==
    ASSUME HalInv, NumberInv, CarriedInv, [ResetNext]_resetVars
    PROVE  CarriedInv'
<1>1. CountInv'
  BY CountStep DEF CarriedInv
<1>2. motor' = "request" => TwoWay
  <2>1. CASE UNCHANGED motor
    BY <2>1 DEF CarriedInv
  <2>2. CASE MotorNext
    BY <2>2 DEF MotorNext, MotorStart, MotorRequest, MotorRequested, MotorListenEnd,
       MotorNothing, MotorApply, MotorReject, MotorLoop, CarriedInv
  <2>3. CASE ResetMotor
    BY <2>3 DEF ResetMotor
  <2>4. UNCHANGED motor \/ MotorNext \/ ResetMotor
    BY DEF ResetNext, Run, Next, ResetPedal, resetVars, vars, appVars, PedalNext,
       PedalStart, PedalWait, PedalAdcError, PedalSent, PedalSample
  <2> QED
    BY <2>1, <2>2, <2>3, <2>4
<1>3. PICK N : N = MadeSoFar'
  OBVIOUS
<1>4. Carries(N)'
  <2>1. CASE \E v \in Sample : PedalSample(v)
    BY <1>1, <1>3, <2>1, SampleCarries
  <2>2. CASE ~\E v \in Sample : PedalSample(v)
    <3>1. UNCHANGED samples
      BY <2>2 DEF ResetNext, Run, Next, ResetPedal, ResetMotor, resetVars, vars,
         appVars, PedalNext, PedalStart, PedalWait, PedalAdcError, PedalSent,
         MotorNext, MotorStart, MotorRequest, MotorRequested, MotorListenEnd,
         MotorNothing, MotorApply, MotorReject
    <3>2. N = MadeSoFar
      BY <1>3, <3>1, MadeSoFarGrows
    <3>3. Carries(N)
      BY <3>2 DEF CarriedInv
    <3>4. CASE MotorRequest
      BY <3>2, <3>4, RequestCarries
    <3>5. CASE ~MotorRequest
      BY <2>2, <3>3, <3>5, StepCarries
    <3> QED
      BY <3>4, <3>5
  <2> QED
    BY <2>1, <2>2
<1> QED
  BY <1>1, <1>2, <1>3, <1>4 DEF CarriedInv, Carries

LEMMA CarriedAcrossResets == ResetSpec => []CarriedInv
<1>1. ResetInit => CarriedInv
  <2> SUFFICES ASSUME ResetInit PROVE CarriedInv
    OBVIOUS
  <2>1. Carries(MadeSoFar)
    BY DEF ResetInit, Init, HalInit, Carries, Outstanding
  <2> QED
    BY <2>1, SecureCanAssumption DEF ResetInit, Init, CarriedInv, CountInv
<1>2. HalInv /\ NumberInv /\ CarriedInv /\ [ResetNext]_resetVars => CarriedInv'
  BY CarriedStep
<1> QED
  BY <1>1, <1>2, InvarianceAcrossResets, NumberAcrossResets, PTL DEF ResetSpec

\* Such a frame is the packet of a name that fits the identifier.
LEMMA MadeSoFarOpens ==
    ASSUME FieldFits, NEW f \in MadeSoFar
    PROVE  Opened(f).ok
<1>1. PICK name \in Name :
         /\ name.msgnum < CtrMod /\ name.baseid < BaseMod
         /\ f.id = ExtId(name) /\ \E data : f.data = Payload4(name, data)
  <2>1. CASE IsRequestFrame(f)
    <3>1. /\ MotorName \in Name
          /\ MotorName.msgnum < CtrMod /\ MotorName.baseid < BaseMod
      BY <2>1 DEF IsRequestFrame, FieldFits, MotorName, Name, BaseMod
    <3>2. f.id = ExtId(MotorName) /\ f.data = Payload4(MotorName, Plain(MasterMsg))
      BY <2>1 DEF IsRequestFrame, RequestPacket, encrypt_can_packet
    <3> QED
      BY <3>1, <3>2
  <2>2. ASSUME NEW i \in 1..Len(samples), NEW c \in 0..(MaxSend - 1), IsNumbered(f, i, c)
        PROVE  \E name \in Name :
                  /\ name.msgnum < CtrMod /\ name.baseid < BaseMod
                  /\ f.id = ExtId(name) /\ \E data : f.data = Payload4(name, data)
    <3>1. c \in Nat /\ c < CtrMod
      BY SecCanAssumption, SecureCanAssumption DEF FieldFits
    <3>2. /\ PedalName(c) \in Name
          /\ PedalName(c).msgnum < CtrMod /\ PedalName(c).baseid < BaseMod
      BY <3>1 DEF PedalName, Name, BaseMod
    <3>3. /\ f.id = ExtId(PedalName(c))
          /\ f.data = Payload4(PedalName(c), Plain(PedalData(samples[i])))
      BY <2>2 DEF IsNumbered, SamplePacket, encrypt_can_packet
    <3> QED
      BY <3>2, <3>3
  <2> QED
    BY <2>1, <2>2 DEF MadeSoFar
<1>2. PICK data : f.data = Payload4(name, data)
  BY <1>1
<1>3. [ext_id |-> f.id, payload |-> f.data] = encrypt_can_packet(name, data)
  BY <1>1, <1>2 DEF encrypt_can_packet
<1>4. decrypt_can_packet(encrypt_can_packet(name, data)).ok = TRUE
  BY <1>1, RoundTrip
<1> QED
  BY <1>3, <1>4 DEF Opened

\* Although a restarted pedal gives its numbers to other samples, every frame
\* that waits at a node opens there, for any number of resets of either board:
\* LegitimateOpens for every cipher and every width of the fields that holds
\* the numbers.
THEOREM FramesOpenAcrossResets == FieldFits /\ ResetSpec => []LegitimateOpens
<1>1. FieldFits /\ CarriedInv => LegitimateOpens
  <2> SUFFICES ASSUME FieldFits, CarriedInv, NEW n \in Node, NEW i \in DOMAIN fifo[n]
               PROVE  Opened(fifo[n][i]).ok
    BY DEF LegitimateOpens
  <2>1. fifo[n] \in Seq(MadeSoFar)
    BY DEF CarriedInv, Carries
  <2>2. fifo[n][i] \in MadeSoFar
    BY <2>1
  <2> QED
    BY <2>2, MadeSoFarOpens
<1>2. CASE FieldFits
  BY <1>1, <1>2, CarriedAcrossResets, PTL
<1> QED
  BY <1>2

\* Across resets too no transmission is refused by the driver's own leftovers,
\* and a station whose program runs is on the bus with its filter active.
THEOREM DriverSafeAcrossResets == ResetSpec => [](NeverRefused /\ OnlineWhenIdle)
<1>1. HalInv => NeverRefused /\ OnlineWhenIdle
  BY DEF HalInv, HandleInv, ModeInv, NeverRefused, OnlineWhenIdle
<1> QED
  BY InvarianceAcrossResets, <1>1, PTL

=============================================================================
