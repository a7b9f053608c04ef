------------------------------ MODULE SecureCan ------------------------------
(***************************************************************************)
(* The two nodes of the demonstration, secure-can.c over the driver of     *)
(* CanHal and the codec of SecCan: the pedal node (adc_stm_loop) samples   *)
(* the pedal and sends each sample; the motor node (master_stm_loop) sets  *)
(* its PWM from the frames that authenticate.  With CAN_TWO_WAY the motor  *)
(* first asks for each sample and the pedal answers.                       *)
(***************************************************************************)
EXTENDS CanHal, SecCan

CONSTANTS
    Pedal, Motor,  \* the two stations
    TwoWay,        \* is CAN_TWO_WAY defined?
    Sample,        \* what read_ADC can return: 12 bits
    MsgMod,        \* values of my_data.msgnum (2^32)
    ListenPolls,   \* reads the motor makes for a reply (50)
    MaxSend        \* bound: samples sent in a behaviour

VARIABLES
    pedal,    \* where the pedal node is in adc_stm_loop
    motor,    \* where the motor node is in master_stm_loop
    msgnum,   \* my_data.msgnum of the pedal
    timeout,  \* the motor's count of reads since its request
    duty,     \* pulse of the PWM channel
    samples,  \* history: the samples encrypted so far
    applied   \* history: message number of the last sample applied, or -1

appVars == <<pedal, motor, msgnum, timeout, duty, samples, applied>>
vars == <<halVars, appVars>>

\* A plain 4-byte word, in the algebra of SecCan: one symbol for its bytes.
Plain(bytes) == {<<"bytes", bytes>>}

\* The bytes of a word: its own if no keystream is left in it, and else bytes
\* that are no sample's.
Noise == <<1, 0, 0, 0>>
BytesOf(word) ==
    IF \E t \in word : word = {t} /\ t[1] = "bytes"
    THEN (CHOOSE t \in word : TRUE)[2] ELSE Noise

\* my_data of the pedal: bytes 2 and 3 keep their initial values.
PedalName(m) == [msgnum |-> m, baseid |-> 512]
PedalData(v) == <<v % 256, v \div 256, 86, 120>>
SamplePacket(m, v) == encrypt_can_packet(PedalName(m), Plain(PedalData(v)))

\* my_data of the motor, initialised anew for every request.
MotorName == [msgnum |-> 1110, baseid |-> 733]
MasterMsg == <<18, 52, 86, 120>>
RequestPacket == encrypt_can_packet(MotorName, Plain(MasterMsg))

ASSUME SecureCanAssumption ==
    /\ Node = {Pedal, Motor} /\ Pedal # Motor
    /\ TwoWay \in BOOLEAN
    /\ Sample \subseteq 0..4095
    /\ MsgMod \in Nat \ {0}
    /\ ListenPolls \in Nat /\ MaxSend \in Nat

\* The driver's constants cover what the two programs do with it.
ASSUME ClientAssumption ==
    /\ 8 \in Length /\ Reader = Node
    /\ \A i \in 0..(MsgMod - 1) :
          /\ ExtId(PedalName(i)) \in Address[Pedal]
          /\ \A v \in Sample : SamplePacket(i, v).payload \in Payload
    /\ RequestPacket.ext_id \in Address[Motor]
    /\ RequestPacket.payload \in Payload

\* The values of change_PWM's 16-bit argument.
PulseMod == 65536
Pulse == 0..(PulseMod - 1)
Duty(v) == (v * 16) % PulseMod

\* Variant: the bytes of the sample in the wrong order.
DutyOf_Swapped(bytes) == ((bytes[2] + 256 * bytes[1]) * 16) % PulseMod

\* The duty cycle that change_PWM gets from the received bytes.
DutyOf(bytes) == ((bytes[1] + 256 * bytes[2]) * 16) % PulseMod

\* Variant: the packet is used whatever decrypt_can_packet returned.
Opened_Unchecked(f) ==
    [decrypt_can_packet([ext_id |-> f.id, payload |-> f.data]) EXCEPT !.ok = TRUE]

Opened(f) == decrypt_can_packet([ext_id |-> f.id, payload |-> f.data])

Init ==
    /\ HalInit
    /\ pedal = "setup" /\ motor = "setup"
    /\ msgnum = 0 /\ timeout = 0 /\ duty = 0
    /\ samples = <<>> /\ applied = -1

-----------------------------------------------------------------------------
(* adc_stm_loop *)

PedalLoop == IF TwoWay THEN "wait" ELSE "sample"

\* setup() and init_ADC are over; a failed init_ADC is only printed.
PedalStart ==
    /\ pedal = "setup" /\ pc[Pedal] = "idle"
    /\ pedal' = PedalLoop
    /\ UNCHANGED <<halVars, motor, msgnum, timeout, duty, samples, applied>>

\* A received frame is the motor's request: it opens and has its data.
IsRequest(f) == Opened(f).ok /\ Opened(f).data = Plain(MasterMsg)

\* One read of the CAN bus while waiting for a request.
PedalWait ==
    /\ pedal = "wait"
    /\ read_can(Pedal, 8)
    /\ pedal' = IF rval'[Pedal] = 8 /\ IsRequest(RxMessage'[Pedal])
                THEN "sample" ELSE "wait"
    /\ UNCHANGED <<motor, msgnum, timeout, duty, samples, applied>>

\* read_ADC returned v: encrypt it and call write_can.
PedalSample(v) ==
    /\ pedal = "sample"
    /\ Len(samples) < MaxSend
    /\ write_can(Pedal, SamplePacket(msgnum, v).ext_id,
                 SamplePacket(msgnum, v).payload, 8)
    /\ samples' = Append(samples, v)
    /\ pedal' = "send"
    /\ UNCHANGED <<motor, msgnum, timeout, duty, applied>>

\* read_ADC timed out: nothing is sent, and the number is not used up.
PedalAdcError ==
    /\ pedal = "sample"
    /\ pedal' = PedalLoop
    /\ UNCHANGED <<halVars, motor, msgnum, timeout, duty, samples, applied>>

\* Variants: the number is kept for the next sample unless this one was
\* reported sent; the number outgrows its type.
PedalSent_Kept ==
    /\ pedal = "send" /\ pc[Pedal] = "idle"
    /\ msgnum' = IF rval[Pedal] = 8 THEN (msgnum + 1) % MsgMod ELSE msgnum
    /\ pedal' = PedalLoop
    /\ UNCHANGED <<halVars, motor, timeout, duty, samples, applied>>
PedalSent_Wide ==
    /\ pedal = "send" /\ pc[Pedal] = "idle"
    /\ msgnum' = msgnum + 1
    /\ pedal' = PedalLoop
    /\ UNCHANGED <<halVars, motor, timeout, duty, samples, applied>>

\* write_can returned; the number is used up whatever it returned.
PedalSent ==
    /\ pedal = "send" /\ pc[Pedal] = "idle"
    /\ msgnum' = (msgnum + 1) % MsgMod
    /\ pedal' = PedalLoop
    /\ UNCHANGED <<halVars, motor, timeout, duty, samples, applied>>

-----------------------------------------------------------------------------
(* master_stm_loop *)

MotorLoop == IF TwoWay THEN "request" ELSE "listen"

\* setup() and setup_PWM are over.
MotorStart ==
    /\ motor = "setup" /\ pc[Motor] = "idle"
    /\ motor' = MotorLoop
    /\ UNCHANGED <<halVars, pedal, msgnum, timeout, duty, samples, applied>>

MotorRequest ==
    /\ motor = "request"
    /\ write_can(Motor, RequestPacket.ext_id, RequestPacket.payload, 8)
    /\ motor' = "requesting"
    /\ UNCHANGED <<pedal, msgnum, timeout, duty, samples, applied>>

MotorRequested ==
    /\ motor = "requesting" /\ pc[Motor] = "idle"
    /\ motor' = "listen"
    /\ timeout' = 0
    /\ UNCHANGED <<halVars, pedal, msgnum, duty, samples, applied>>

\* One call of read_can_packet; only the two-way loop counts them.
MotorRead ==
    /\ motor = "listen"
    /\ TwoWay => timeout < ListenPolls
    /\ read_can(Motor, 8)
    /\ timeout' = IF TwoWay THEN timeout + 1 ELSE 0

MotorNothing ==
    /\ MotorRead
    /\ rval'[Motor] # 8
    /\ UNCHANGED <<pedal, motor, msgnum, duty, samples, applied>>

\* The frame authenticates: its first two bytes set the duty cycle.
MotorApply ==
    /\ MotorRead
    /\ rval'[Motor] = 8
    /\ LET message == Opened(RxMessage'[Motor])
       IN  /\ message.ok
           /\ duty' = DutyOf(BytesOf(message.data))
           /\ applied' = message.name.msgnum
    /\ UNCHANGED <<pedal, motor, msgnum, samples>>

\* It does not: break out of the loop, in two-way mode to the next request.
MotorReject ==
    /\ MotorRead
    /\ rval'[Motor] = 8
    /\ ~Opened(RxMessage'[Motor]).ok
    /\ motor' = MotorLoop
    /\ UNCHANGED <<pedal, msgnum, duty, samples, applied>>

\* Variant: the motor waits for its answer without a limit.
MotorListenEnd_Never == timeout > ListenPolls /\ UNCHANGED vars

MotorListenEnd ==
    /\ motor = "listen"
    /\ TwoWay /\ timeout = ListenPolls
    /\ motor' = "request"
    /\ UNCHANGED <<halVars, pedal, msgnum, timeout, duty, samples, applied>>

-----------------------------------------------------------------------------

PedalNext ==
    \/ PedalStart \/ PedalWait \/ PedalAdcError \/ PedalSent
    \/ \E v \in Sample : PedalSample(v)

MotorNext ==
    \/ MotorStart \/ MotorRequest \/ MotorRequested \/ MotorListenEnd
    \/ MotorNothing \/ MotorApply \/ MotorReject

Internal == \E n \in Node : Driver(n) \/ Hardware(n)

Next ==
    \/ Internal /\ UNCHANGED appVars
    \/ PedalNext
    \/ MotorNext

Spec == Init /\ [][Next]_vars

-----------------------------------------------------------------------------
(* Properties *)

TypeOK ==
    /\ HalTypeOK
    /\ pedal \in {"setup", "wait", "sample", "send"}
    /\ motor \in {"setup", "request", "requesting", "listen"}
    /\ msgnum \in 0..(MsgMod - 1)
    /\ timeout \in 0..ListenPolls
    /\ duty \in Pulse
    /\ samples \in Seq(Sample)
    /\ applied \in -1..(CtrMod - 1)

\* The motor follows the pedal: its duty cycle always stands for a sample the
\* pedal took, and for no earlier one than before, across retransmissions,
\* timeouts, aborted frames, restarts of either station, FIFO overflow and
\* the change from a standard to an extended identifier after message 0.
Control == INSTANCE PedalControl WITH current <- applied + 1
FollowsPedal == Control!Spec

\* Within the bound my_data.msgnum does not wrap.
NumberFits == MaxSend <= MsgMod

\* No frame numbered past the counter's field, up to the number last, is taken
\* for the frame its identifier names.  Up to the nonce's rollover that would
\* take two equal tags under different nonces, at which it fails.
RolledOverRejected(last) ==
    \A c \in CtrMod..last, v \in Sample : ~decrypt_can_packet(SamplePacket(c, v)).ok

\* A frame that one of the nodes made opens at the other, as long as it waits
\* there.
LegitimateOpens ==
    \A n \in Node : \A i \in DOMAIN fifo[n] : Opened(fifo[n][i]).ok

\* No message number is used for two samples: frames with one identifier that
\* are anywhere in the system carry the same bytes, although a frame whose
\* write_can reported a timeout may have been received all the same.
Circulating ==
    {RxMessage[n] : n \in Node} \cup {out[n][k] : n \in Node, k \in Mailboxes}
        \cup UNION {{fifo[n][i] : i \in DOMAIN fifo[n]} : n \in Node}
NumbersNotReused ==
    \A f, g \in Circulating : f.id = g.id => f.data = g.data

\* A sample that has reached the motor's FIFO is applied, or overtaken by a
\* newer frame: a later sample, or one past the counter's field that does not
\* open and has taken its place.
HeldIsApplied ==
    \A k \in 0..(MaxSend - 1) :
        (\E i \in DOMAIN fifo[Motor] : /\ Opened(fifo[Motor][i]).ok
                                       /\ Opened(fifo[Motor][i]).name.msgnum = k)
            ~> \/ applied >= k
               \/ \E i \in DOMAIN fifo[Motor] : ~Opened(fifo[Motor][i]).ok

Parked(n) == pc[n] = "error_handler"

\* Requests and samples keep crossing the bus: neither node waits for the
\* other for ever, whatever is lost on the way.
Progress == <>(Len(samples) = MaxSend \/ Parked(Pedal) \/ Parked(Motor))

\* "the receiving node will verify for every message that the counter has
\* been incremented from the last valid received message" (Appendix A of the
\* protocol description).
CounterIncremented ==
    [][MotorApply => applied' > applied]_vars

\* "A transmitting node simply increments this [counter] on every message
\* sent" (Appendix A): the motor's next request has another number.
RequestsRenumbered ==
    [][MotorRequest /\ canError[Motor] # "none"
          => msg'[Motor].id # out[Motor][mailbox[Motor]].id]_vars

\* Each processor runs: its program or, during a call, the driver.
PedalRuns == PedalNext \/ (Driver(Pedal) /\ UNCHANGED appVars)
MotorRuns == MotorNext \/ (Driver(Motor) /\ UNCHANGED appVars)
ProcessorFairness == WF_vars(PedalRuns) /\ WF_vars(MotorRuns)

\* The peripherals do what they are asked; the bus now and then starts a
\* station's frame and carries it to its end, and a conversion succeeds.
BusFairness ==
    /\ \A n \in Node :
        /\ WF_vars(AcknowledgeInit(n) /\ UNCHANGED appVars)
        /\ SF_vars(Synchronise(n) /\ UNCHANGED appVars)
        /\ SF_vars((\E k \in Mailboxes : StartOfFrame(n, k)) /\ UNCHANGED appVars)
        /\ SF_vars((\E k \in Mailboxes : EndOfFrame(n, k)) /\ UNCHANGED appVars)
    /\ SF_vars(\E v \in Sample : PedalSample(v))

ProcessorSpec == Spec /\ ProcessorFairness
LiveSpec == Spec /\ ProcessorFairness /\ BusFairness

=============================================================================
