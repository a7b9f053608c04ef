# Verification of the secure-CAN automotive demonstration

The repository holds the firmware of two STM32F3 boards on a CAN bus: a *pedal*
node samples a potentiometer and sends each sample, encrypted and
authenticated, to a *motor* node that sets a PWM duty cycle from it. Beside it
are a target that speaks a serial protocol (simpleserial) and a host tool for
the bus. This directory specifies them in TLA+: the packet codec; the CAN driver
over the HAL and the bus, polling and by interrupt; the two programs on top, with
resets of the boards; their analog input and PWM output; the serial target; the
host tool. TLC checks the modules on small instances. TLAPS proves, for every
value of the constants, the safety of every module: that the driver implements
its abstract port and the two programs the abstract pedal, also across resets,
which packets the codec accepts, and the invariants and action properties of
input, output, serial target, host tool and interrupt-driven driver. Liveness is
model-checked; of much of it the safety half is proved.

## 1. The system

### Components

| Component | State | Operations | Correct when | Model |
|---|---|---|---|---|
| Programs, `secure-can/secure-can.c` | `my_data` (number, data), the packet buffer, the motor's `timeout` | `adc_stm_loop`, `master_stm_loop`, with `CAN_TWO_WAY` optional; reset | the motor follows the pedal's samples, in order, for ever | `SecureCan`, `PedalControl`; `SecureCanReset`, `RestartControl` |
| Codec, `secure-can/seccan.c` | none | `encrypt_can_packet`, `decrypt_can_packet` | the receiver accepts exactly what the sender made, and gets it back | `SecCan`, `PacketLink` |
| CAN driver, `secure-can/can.c` | the handle `myhcan`, the statics `msg` and `RxMessage` | `MX_CAN_Init`, `write_can`, `read_can` | success means acknowledged; nothing of a call survives it; the node comes back from timeouts and bus-off | `CanHal`, `CanPort` |
| HAL CAN, polling part, `hal/stm32f3/stm32f3xx_hal_can.c` | handle `State` and `Lock`, the peripheral's registers | `HAL_CAN_Init`, `_DeInit`, `_ConfigFilter`, `_Transmit`, `_Receive` | every path leaves the handle unlocked and the peripheral usable | `CanHal` |
| HAL CAN, interrupt and low-power part (same file) | handle `State`, `ErrorCode`, register IER | `_Transmit_IT`, `_Receive_IT`, `_IRQHandler`, `_Sleep`, `_WakeUp` | each request has one callback, `State` tells what goes on | `CanHalIT` |
| ADC, `secure-can/adc.c` over the HAL ADC | handle, conversion flags | `init_ADC`, `read_ADC` | values are the newest, a failure is permanent and seen | `Adc`, `SampleSource` |
| PWM, `secure-can/pwm.c` over the HAL timer | the pulse, the channel's registers | `setup_PWM`, `change_PWM` | a commanded duty cycle is put out, a new compare value takes over only where a period begins | `Pwm` |
| Board build (`STM_ADC` or not) | | which of the two loops runs | | `NodeIO` |
| Clock and UART, `hal/stm32f3/stm32f3_hal*.c` | `hal_sys_tick`, the UART handle | `HAL_GetTick`, `getch` | waits end, the handle stays usable | tick = poll; `getch` in `SimpleSerial` |
| simpleserial, simpleserial-aes | command table, line buffer, key | `simpleserial_addcmd`, `_get`, `_put`, the callbacks | a line runs its command once, on its own data, or nothing | `Hex`, `SimpleSerial` |
| Host tool, `example_can_py/test_can.py` | connection flags, counter, two threads | connect, listen, send, encrypted send, disconnect, quit, receive callback | the receive thread survives, an open channel can be closed, quit ends | `HostTool` |
| `ref_code`, PCANBasic, other HAL, CMSIS, crypto | | | | not modelled, see section 5 |

### How they interact

Each board runs one thread without interrupts. A program calls the codec and
the driver; the driver calls the HAL; the HAL writes registers and polls them.
Everything hard happens between two register accesses: the peripheral
arbitrates, sends, receives, goes bus-off or enters initialisation mode by
itself, and the other board does what it likes. The boards share the bus only. The same
holds of input and output: the converter raises flags and overwrites its data
register, and the timer counts, between any two accesses of the processor. A
HAL program driven by interrupts is interrupted between reading and writing
`State` or IER. The serial target waits in `getch` for a host that may be slower,
faster or gone. Each host tool has two threads on one channel.

- A transmission is polled for 100 ticks. `HAL_GetTick` counts its own calls,
  so this is a number of polls. After them the HAL aborts the mailbox, and
  `write_can` restarts the peripheral (`HAL_CAN_DeInit`, `MX_CAN_Init`).
- `write_can` decides on that restart by the handle's `State`, which
  `read_can` also writes.
- The filter bank is configured after the peripheral has joined the bus.
- Message 0 of the pedal has identifier 0x200 and goes out as a standard frame;
  every later number yields an identifier above 0x7FF and an extended frame.
- The receiver rebuilds the nonce from the identifier and has no state of its
  own: it remembers no message number.
- Nothing is persisted. After a reset the pedal counts from 0 again, under the
  same keys.
- `adc_stm_loop` prints a failed `init_ADC` and goes on polling.

The list of hazards with their lines is in `PROJECT.json`.

## 2. The modules

| Module | What it specifies |
|---|---|
| `SecCan` | `seccan.c` as operators: `ExtId`, `NameOf`, `Nonce`, `encrypt_can_packet`, `decrypt_can_packet` |
| `PacketLink` | one packet on its way: encrypt, carry or damage, decrypt |
| `MCSecCan` | its instance at the code's field widths |
| `CanHal` | driver, HAL, peripheral and bus of any set of stations; the mapping under which it implements `CanPort` |
| `CanPort` | what `write_can` and `read_can` promise a program |
| `MCCanHal` | an instance of `CanHal` |
| `SecureCan` | the two programs over `CanHal` and `SecCan` (both are extended) |
| `PedalControl` | what the two nodes are for |
| `MCSecureCan` | instances of `SecureCan` |
| `SecureCanReset` | `SecureCan` with resets of either board at any step |
| `RestartControl` | `PedalControl` with restarts of the motor |
| `MCSecureCanReset` | the instance of `SecureCanReset` |
| `Adc` | `adc.c`, the HAL ADC functions it calls, and the converter |
| `SampleSource` | what the pedal may expect of its input; `Adc` implements it |
| `Pwm` | `pwm.c`, the HAL timer functions it calls, and channel 4 of TIM1 |
| `NodeIO` | one board's build: `Adc` with `STM_ADC`, `Pwm` without |
| `Hex` | nibbles and bytes of `simpleserial.c` |
| `SimpleSerial`, `MCSimpleSerial` | `simpleserial-aes.c` over `simpleserial.c` over `getch`; the hosts |
| `HostTool` | `test_can.py`: any number of tools, two threads each |
| `CanHalIT` | the HAL's interrupt-driven and low-power CAN functions on one station |
| `SecCan_proofs`, `PacketLink_proofs`, `CanHal_proofs`, `SecureCan_proofs` (with those of `SecureCanReset`), `NodeIO_proofs` (with those of `Adc` and `Pwm`), `SimpleSerial_proofs`, `HostTool_proofs`, `CanHalIT_proofs` | theorems |

Definitions whose names end in a suffix after an underscore and whose comment
starts with *Variant* (`Cancelled_Not`, `PedalSent_Kept`) are altered versions
of the definition that follows; no specification uses them. They show that each
property depends on the code it is about.

### SecCan and PacketLink

A word of four bytes is a set (of the bits that are one), XOR the symmetric
difference. AES appears as three constant operators, one for each slice of its
output that `seccan.c` uses: `KeyData` (bytes 8..11 under Kenc), `KeyMask`
(bytes 12..15) and `Mac` (bytes 0..3 under Kauth, the XOR with the fixed IV
included). The proofs assume nothing of them. The instances make every slice of
every nonce a symbol of its own, so two words agree only if they are built
alike: an ideal cipher, in which tags never collide. Where a program takes the
bytes of a decrypted word (`BytesOf` in `SecureCan`), a word that still has
keystream in it yields bytes of no sample. `CtrMod` and `NonceMod`
are 2^18 and 2^24 in the code; 11 and 16 bits of base identifier are fixed.

`PacketLink` sends one packet of any message over a bus that may invert the bits
`Flip` of its data, its tag or both, and may put it under the identifier of
another message. `IdealCipher` says what the instance's cipher has and AES has
only nearly: among the messages `Sent`, a tag computed with another nonce or for
a damaged packet is not the one that arrives.

### CanHal

`pc[n]` is where the processor of node `n` is inside the driver, with one
location for each point between which the peripheral can change what the
processor reads next: before each poll, before each restart, around the filter
configuration. Straight-line code between two such points is one action. For
example `TransmitRequest` is `HAL_CAN_Transmit` from its entry to its wait, and
`TransmitPoll`, `TransmitTimeout` and `TransmitDone` are the three things one
evaluation of the wait's condition can do. `read_can` calls `HAL_CAN_Receive`
with a timeout of zero, never waits, and is one action.

`msg` and `RxMessage` are the driver's static structures as the frame they
describe. `MX_CAN_Init` leaves a default identifier in `msg`, and `write_can`
has stored length and data before it refuses an address; both are in the
model. Bytes beyond the length and the unused one of `StdId` and `ExtId` are not.

The peripheral and the bus are external: they follow the reference manual in
`doc/` for the configuration that `MX_CAN_Init` selects.
`NART` disabled: a frame in error stays pending. `ABRQ` empties a mailbox at
once unless its frame is on the bus. `TXFP` disabled: mailboxes compete by
identifier. `RFLM` disabled: a full FIFO gives up its newest frame. `ABOM`
disabled: bus-off ends only through initialisation mode. `INAK` waits for the
end of the frame under way, and leaving initialisation mode for a silent bus.
`ErrorFrame` covers a frame lost by all, and one that some receivers took
although the sender saw an error in its last bit and will send it again. A
station may go bus-off in any error. With no receiver on the bus no frame is
acknowledged.

`Client(n)` calls `write_can` and `read_can` with any of the constants'
arguments whenever the processor is outside the driver: any program at all.

### CanPort and the refinement

`CanPort` has no mailboxes, locks, polls, restarts or modes. A call of
`write_can` runs from `Send` to `Return`; meanwhile its frame may `Pass` to some
of the other stations, perhaps several times, and not after it was acknowledged.
Success may be returned only then; a failure always. `ImplementsPort` maps
`pc`, `canError` and the status of the mailbox in use to the phase of the call.
It says at once that success means acknowledged, that nothing arrives after its
call, that frames are taken in order, and that the FIFO keeps what it should.
TLC checks it in `driver`, and `DriverImplementsPort` is its proof.

### SecureCan and PedalControl

`pedal` and `motor` are the places in the two loops, `PedalNext` and
`MotorNext` their steps. A program's step either calls the driver or, when
`pc` is back at `idle`, uses `rval`. `TwoWay` is the `CAN_TWO_WAY` switch; it
is off in the code as checked in. `samples` and `applied` are history
variables. A sample enters `samples` in the step that encrypts it. A read of
the ADC returns a sample or fails.

`PedalControl` is the purpose: press the pedal; follow some sample that is
not older than the one followed now. `FollowsPedal` is its specification under
`current <- applied + 1`: the number of the last applied message counts the
samples.

### SecureCanReset and RestartControl

`ResetPedal` and `ResetMotor` may happen at any step, with the processor
anywhere in its program or driver. All static variables and registers go back to
their initial values, a frame on the bus is cut off, and the program starts with
`MX_CAN_Init`. Since numbers then start again, the order of samples can no longer
be read off a number: `stamps` and `current` are history variables that keep, for
each frame in the motor's FIFO and for the duty cycle, which sample it is.
`FollowsAcrossResets` is `RestartControl` under that mapping.

### Adc, Pwm and NodeIO

`Adc` has a place for each point between two accesses to the converter. A
conversion (`Conversion`) ends at any of them, sets EOC and EOS and replaces DR.
A sample is only "the conversion it is from": `dr` counts the conversions ended
since, and how often it was read. `NewestAtMostTwice` is the refinement of
`SampleSource`, whose input gives the newest value, and one value at most twice:
twice because EOS, unlike EOC, is not cleared by the read of DR.

`Pwm` keeps the registers the pin can tell apart: the compare value written and
the one in use, channel and output enable, preload, counter. `SecureCan` has the
pulse `change_PWM` is given; `Pwm` says what becomes of it.

A board has one of the two, by its build; `NodeIO` is that choice.

### SimpleSerial and Hex

`Receive`, `Received` and `ReceiveTimeout` are `getch`: it takes the handle,
waits, and gives it back with a byte or, after the timeout, with whatever the
uninitialised variable holds (`host.garbage`). `Command`, `Data` and `End` are
what `simpleserial_get` does with the next byte at its three places. The host
sends lines byte by byte and is of one of two kinds: *paced*, it leaves the
device time to read each byte; not paced, a byte that finds the register full is
lost. A line of a paced host ends with its only newline (`HostAssumption`).
`Sound` and `DataOf` say which lines mean what, from the table in
`simpleserial_put` that writes them; the device decodes by the three ranges of
`hex_decode`.

A line that is too long is not skipped to its end: after the character behind
the data `simpleserial_get` is back at the start of a command and takes the next
known letter for one. `p01?k11` and a newline drops the block and then sets the
key. `AnswerUnderHostsKey` is therefore stated for hosts that put one command
on a line (`OneCommand`); `SplicingHost` of the instance sends such lines all the
same, and the other properties hold with it. `ProgramCommands` is what
`simpleserial.h` asks of a program's registrations: no more than the table holds,
no data longer than the buffer, different letters, none of them a newline. The
four commands of simpleserial-aes satisfy it, and TLC evaluates it for them.

### HostTool

One action for each command of the shell and for each turn of the receive
thread's loop. An exception ends the thread it is raised in, as in Python. The
channel is shared: `Connect` is `Uninitialize` and `Initialize` in one step:
between them the other thread reads nothing. Frames are told apart by length,
which is what the callback's exceptions depend on.

### CanHalIT

`HAL_CAN_Transmit_IT` and the others are cut between their accesses to `State`,
`ErrorCode` and IER, and at the unlock. `__HAL_CAN_ENABLE_IT` is cut between its
read and its write, so `HAL_CAN_Receive_IT`, which enables one interrupt at a time,
is cut within each; it is also cut at its lock and between its two readings of
`State`. The lock of a transmission and its reading of `State` are one step:
only the main program locks across interrupts. EPV and BOF are left out, whose
flags and enables behave like those of EWG. The handler
`HAL_CAN_IRQHandler` runs whole at any cut, with its two helpers, the receive
callback's call of `HAL_CAN_Receive_IT`, and the error branch. `program` is what
the main program may call.

## 3. What is checked

| Run | Instance | Shows |
|---|---|---|
| `codec` | real widths; counters and base ids on both sides of each field's edge | `AcceptedExactly`: accepted iff undamaged and within the fields; then equal to what was sent |
| `driver` | two stations send a standard, an extended and an impossible identifier, lengths 4 and 9; one reads; FIFO of 1 | `HalInv`, `NothingOutstanding`, `OnlineWhenIdle`, `NeverRefused`, `ImplementsPort`; with fairness `CallsEnd`: every call returns, or parks in `Error_Handler` |
| `oneway` | the build as checked in; 4 samples, counter field of 2, FIFO of 2; processors fair | `TypeOK`, `FollowsPedal` also past the field's last number; `HeldIsApplied`: what reaches the motor's FIFO is applied or overtaken |
| `twoway` | `CAN_TWO_WAY`, 2 samples, all fairness | `LegitimateOpens`, `NumbersNotReused`, `FollowsPedal` with requests crossing samples; `Progress`: the two loops never wait for each other for ever |
| `reset` | 3 samples, counter field of 2, FIFO of 2, one reset of each board | `ResetTypeOK`, `NothingOutstanding`, `FollowsAcrossResets` |
| `io` | both builds; 3 failed polls of a conversion, 2 of ADRDY, period of 4 | `AdcInv`, `FailedInitIsSilent`, `NewestAtMostTwice`, `InputKeepsComing`; `DriverInv`, `ChangesBetweenPeriods`: a new compare value takes over only where a period begins, and the pin departs from it only while a change has the channel off; `DutyTakesEffect` |
| `serial` | the four commands of simpleserial-aes, blocks of one byte, three hosts | `AnswerUnderHostsKey` with the paced host; `CallbackEndsLine`, `SoundLineAnswered` also with the paced host whose lines hold a second command; `ReceiverNeverBusy`, `NewlineResynchronises` with all |
| `host` | two tools, queue of 2, one encrypted send each | `ReceiverSurvives` (but for frames under four bytes), `OpenIsKnown`, `QuitEnds` |
| `interrupt` | three mailboxes, FIFO of 2; a program that transmits, sleeps and wakes, or one that receives | `BusyMeansOngoing`, `CallbackOncePerRequest`, `RequestAnswered`, `ReceptionGoesOn` |
| `counter_not_checked` | one way, 3 samples | finds: one number applied twice |
| `counter_exhausted` | the same with a counter field of 2 | finds: a sample that does not authenticate |
| `request_number` | `CAN_TWO_WAY` | finds: two requests with one number |

The last three check sentences of the protocol description
(`doc/CAN_Secure_Side_Channel.pdf`, Appendix A) and the header `seccan.h` and
end in a counterexample; `PROJECT.json` quotes them. `FollowsPedal` and
`CounterIncremented` differ on purpose: a repeated frame sets the duty cycle it
has already set, so the motor still follows the pedal; an older sample never
comes back, because `NothingOutstanding` holds and the FIFO keeps order.

### What the models show besides

Behaviour of the code that the models reproduce and that no property above
speaks against; a reader should know of it.

- After a reset of the pedal the numbers, and with them the keystreams, are used
  again (`secure-can.c:124`). `NumbersNotReused` is stated for boards that are
  not reset.
- `simpleserial_addcmd` accepts eleven commands into a table of ten
  (`simpleserial.c:74`, `>` for `>=`). The program registers four.
- `getch` ignores the status of `HAL_UART_Receive` (`stm32f3_hal.c:90`).
- Every `change_PWM` of a running output takes the pin low, wherever in a period
  it comes: `HAL_TIM_PWM_ConfigChannel` (`pwm.c:60`) clears CC4E
  (`stm32f3xx_hal_tim.c:4949`), and only `HAL_TIM_PWM_Start` (`pwm.c:61`) sets it
  again. The compare value is preloaded and steady, the pulse is not: it can be
  cut short or split. `ChangesBetweenPeriods` bounds this to the change itself.
- PWM duty cycle 0 is high for one count of each period (`pwm.c:26`).
- `HAL_CAN_Transmit_IT` enables the transmit interrupt before it sets TXRQ
  (`stm32f3xx_hal_can.c:766`): flags of the last transmission may be taken for
  its end, and the callback comes early. `HAL_CAN_Sleep` decides on its first
  look at SLAK (line 976) and returns an error for a peripheral that then sleeps.
- A program that transmits *and* receives by interrupt loses updates of `State`
  and IER: `State` is read, and written after an interrupt has changed it (line
  734). With `Programs = {{"transmit", "receive"}}` both `BusyMeansOngoing` and
  `CallbackOncePerRequest` fail, which is why the run `interrupt` has the two
  kinds of program apart. A careful program would have to mask the interrupt
  around its calls. The demonstration calls neither function.
- The host tool prints "Connect success" after a failed connect if an earlier
  one succeeded (`test_can.py:37`), and a two-byte frame, such as its own
  `Send`, ends the receive thread of every other tool.

### Bounds

- `TxPolls` (100) and `InitPolls` (1000, the HAL's `CAN_TIMEOUT_VALUE`) are 0 or
  1: what matters is that the peripheral can do anything, or nothing, before the
  last poll. `driver` has one poll of each wait that fails and is repeated;
  `oneway` one of the initialisation's.
- `FifoDepth` (3) is 1 or 2: 1 makes overflow common, 2 has an oldest frame that
  stays and a newest that is overwritten.
- Two stations, as in the demonstration. The proofs are for any number.
- `MaxSend` bounds the samples of a behaviour: with a FIFO of 2, a mailbox and
  the frame in the motor's hands, 4 are enough for overtaking and overwriting; 3
  for `reset`, where a sample must be older than one that was lost by a reset; 2
  where only the crossing of requests and answers is asked.
- `ListenPolls` (50) is 1. `Sample` is {0, 4095}. `CtrMod`, `NonceMod` and
  `MsgMod` are scaled down so that a run reaches their edges; the run `codec` has
  the code's widths.
- `MaxReset`: one reset of each board, in any order and place.
- `ConversionPolls` (5001), `EnablePolls` (3), `Period` (0xFFFF): with three and
  two polls a flag can rise before the first, between two, and after the last
  poll; with a period of 4 the compare value can be below, at and above the
  counter. The proofs are for every value.
- Blocks of one byte instead of sixteen: the line is a letter, data and a
  newline at any length; all hexadecimal digits and the characters next to their
  ranges occur at both places of a byte.
- `QueueDepth` 2 and `MaxCount` 1: the queue may be empty, hold one, or be full;
  the count is compared with nothing.
- `Programs`: see above. `Mailboxes` is the real three.

`CHECK_DEADLOCK FALSE` is set in `codec`, `driver` and the runs of `SecureCan` and
`SecureCanReset`, because there the system may stop: both processors can park in
`Error_Handler`, the carried packet of `PacketLink` is the end of its behaviour,
and `MaxSend` ends the pedal's program. The other runs check for deadlock.

### Fairness

- Processors: weak fairness of each node's program and driver together. A board
  runs one thread that never sleeps. No fairness between alternatives of a
  program: an ADC may fail and a poll may miss. `oneway` assumes this and
  nothing else.
- Peripherals: weak fairness of `AcknowledgeInit`, whose condition stays once
  the node has left the bus; strong fairness of `Synchronise`, which needs the
  bus to be silent, as it is again and again between frames.
- Bus, in `driver`: a frame on the bus ends, well or in error; nothing says that
  it ever ends well. In `twoway`: a station with a frame gets its turn, and not
  every one of its frames is disturbed, and a conversion succeeds again and again
  (strong fairness). Without these no protocol could make progress.
- `io`: the processor runs, a started converter converts, the timer's clock runs.
  Not that a conversion ends within a wait: `InputKeepsComing` holds although
  every wait may time out.
- `serial`: the device runs. The host may stop anywhere, also inside a line.
- `host`: both threads of a tool are scheduled. No command need ever be given.
- `interrupt`: a call goes on, a pending interrupt is taken, the bus takes a
  pending frame, the peripheral follows MCR.SLEEP. No call need be made and
  nothing need arrive.

## 4. What is proved

Assumptions: those named `...Assumption` in the modules. They bound the
constants' types, say that the counter field is not wider than the nonce's
counter, and that the driver's constants contain the arguments the two programs
use. TLC evaluates them in each run. A theorem with a further hypothesis states
it, and the module of a run evaluates it for its instance (`MCAssumption`).

**Driver.** `Invariance`: `HalSpec => []HalInv`. None of `NothingOutstanding`,
`NeverRefused` and `OnlineWhenIdle` is inductive: that write_can leaves no frame
behind holds only because the abort can leave a mailbox *aborting* just while
its frame is on the bus, that State is then TIMEOUT, that write_can then
restarts, and that INAK comes only when the frame is off the bus. `HalInv` is
the conjunction of the types with three parts:

- `ModeInv`: the processor's location tells the peripheral's mode and, outside
  the restart, that the filter is active;
- `HandleInv`: the lock is held exactly during the wait of `HAL_CAN_Transmit`,
  and after it `State` and the returned status agree on a timeout;
- `MailboxInv`: a mailbox is *pending* only during that wait, *aborting* only
  from a timeout to the end of its frame, and on the bus only if its station
  takes part.

There is a lemma for each action (`TransmitTimeoutStep`, ...), with a step for
each part of the invariant; `NextPreserves` puts them together. `TypeCorrect`,
`NoLateFrame`, `TransmitNotRefused` and `Online` follow.

`DriverImplementsPort` (`HalSpec => ImplementsPort`): every step of driver,
peripheral and bus is a step of `CanPort` or leaves the port as it is. What it
needs besides `HalInv` is `PortInv`: a mailbox in use holds the frame in `msg`,
HAL_OK after the wait stands for a mailbox that was *sent*, and an aborting
mailbox belongs to a call that has failed. The step that could go wrong is a
frame that is acknowledged after `write_can` has timed out on it: the port lets
such a call end in failure although its frame arrived, never the other way
round.

`CallsAreBounded` is the safety half of `CallsEnd`, and with `UsesDriver` of the
whole system's. `StepsLeft(n)` ranks the places of a processor in the driver with
the polls its wait has left; every step of that processor inside a call lowers it
and no other step changes it (`Advance`), from at most `InitPolls + TxPolls + 7`.
So a call is never entered again by the way of its own restart, and what is left
to fairness is that the processor takes steps and that INAK comes.

**System.** `UsesDriver`: `Spec => HalSpec`, so every behaviour of the two
programs is one that the driver's theorems are about; its only invariant is the
range of `msgnum`. `SystemSafety` states the driver's properties for the system.

`FramesOpen` (`CounterFits /\ Spec => []LegitimateOpens`) and `NoNumberReuse`
(`CounterFits /\ Spec => []NumbersNotReused`) hold for any cipher and any samples.
`CounterFits` says that the samples of the behaviour stay within the counter's
field; past it both fail, as `counter_exhausted` shows. Their invariant
`FramesInv` says that every frame outstanding in the driver, in a mailbox, in a
FIFO or in `RxMessage` is the packet of a sample in `samples` under that sample's
number, or the motor's request, and that `msgnum` is the number of samples made
or, while one is being sent, its own. Identifiers that agree then belong to one
number because `ExtId` is injective within the field.

`MotorFollowsPedal` is the refinement the demonstration is about: the programs
over the driver implement `PedalControl`. The argument goes over the port, not
over mailboxes: `DriverImplementsPort` holds of the system by `UsesDriver`, and
so a step of the system changes the motor's FIFO only as `CanPort` says. The
invariant `FollowInv` then has two parts besides the range of `applied`. While
the pedal's call runs, its frame is the last sample's (`SendInv`). The motor's
FIFO holds frames of samples whose indices are in order and all above the
sample applied last (`HeldInv`, with `Holds` for "these indices, in order, stand
for these frames"); storing keeps that, also when the newest frame is replaced,
because what is stored is the last sample. So a repeated frame can set the duty
cycle again and an older one never comes.

Its hypotheses are two. `NumberFits`: `msgnum` does not wrap its 32 bits.
`RolledOverRejected(MaxSend - 1)`: a sample numbered past the counter's field
does not authenticate under the number its identifier shows. Within the field
that is vacuous, and `MotorFollowsPedalInField` has the condition
`MaxSend <= CtrMod` in its place, for any cipher at all. Past it, it says of a
32-bit tag that it does not agree by accident; and it is false once the number
reaches `NonceMod` (2^24 in the code), where the nonce of number 0 comes again: no
theorem, and no property of a run, speaks of a pedal that has sent so many
samples without a reset. The instances satisfy both (`MCAssumption`).

`SystemTypeCorrect` has the same hypotheses, because the range of `duty` and
`applied` depends on what was opened.

`HeldLeavesApplied` is the safety half of `HeldIsApplied`, under `CounterFits`: a
frame leaves the motor's FIFO only by being applied or by being replaced by the
packet of the last sample. It needs the three kinds of knowledge together: every
frame carried has eight bytes and opens (`Made`), so that no read of one reports
nothing and none is rejected; what the pedal sends is its last sample
(`SendInv`); and no step of the driver or a restart touches the FIFO but by
storing (`InternalPort`).

**Resets.** `InvarianceAcrossResets`: `HalInv` survives any number of resets, so
`NoLateFrameAcrossResets`. The step is not that of the initial state: the other
board is anywhere, and the bus may carry its frame.

`SamplesInOrderAcrossResets` (`RolledOverRejected(MaxSend - 1) /\ ResetSpec =>
FollowsAcrossResets`): the motor goes back to no older sample although numbers
begin again. `HalSpec` does not hold here, a reset being no step of it; the port's
invariant is proved again across resets (`PortAcrossResets`), where a reset is a
step that empties the port of its board (`PowerUpPort`). `OrderInv` has indices
where `FollowInv` has numbers: the frame being sent is numbered by a counter that
is at most the number of samples and is the last sample's (`SentInv`), and the
stamps of the FIFO are in order, none older than the one applied last
(`StampInv`). `TypesAcrossResets` follows the same way.

`FramesOpenAcrossResets` is `LegitimateOpens` with resets, for any cipher, where
the fields hold the numbers (`FieldFits`). A number no longer tells which sample
a frame is of, so `FramesInv` fails; `CarriedInv` says instead that what is
carried is the packet of *some* sample made so far under *some* number below
`MaxSend` (`MadeSoFar`), which a reset, that starts numbers again and forgets no
sample, keeps. `DriverSafeAcrossResets` adds `NeverRefused` and `OnlineWhenIdle`.

The proof found a fault in the model: the definition of the stamps had a CASE
with overlapping arms, whose value TLA+ leaves open and TLC takes from the first.
It is a nested IF now.

**Codec.** `NameRecovered` (the receiver reads the sender's name, cut to the
fields), `RoundTrip` (a message that fits comes back whole and authenticates,
whatever the cipher) and `NonceDiverges` (one that does not fit is decrypted
under another nonce; that it is then rejected depends on the cipher).
`IdentifiersFit`: whatever the number, what is on the bus is one of 29 bits.

`OnlyTheSentPacket` (`IdealCipher /\ Spec => []AcceptedExactly`): of all packets
that can arrive the receiver accepts one that is undamaged, under the sender's
identifier, and whose name fits, and no other. The receiver's nonce is that of
the name cut to the identifier's fields (`Cut`). Arithmetic shows that this is
the sender's nonce exactly if the name fits, modulo the widths of the nonce; that
needs `NonceMod` to be a multiple of `CtrMod`, as 2^24 is of 2^18
(`PacketLinkAssumption`). `IdealCipher` closes the other direction: a tag that
agrees comes from an equal nonce and undamaged words. It is a hypothesis of the
theorem, not an assumption of the module, and TLC evaluates it for the instance's
cipher: 63 messages, three words, all damage. With tags of 32 bits it is true of
any set of messages on which no two tags happen to agree, and not of all
messages.

**Input.** `AdcInvariance` for any poll budgets; `FailureIsPermanent`: after a
failed `init_ADC` no value is ever returned. `ImplementsSource`: `AdcSpec`
implements `SampleSource`. Its core is `FlagInv`: a flag that is up, or was just
seen, stands for a conversion read at most once, and one up again between
`ClearFlags` and the read for one not read yet.

**Output.** `DriverInvariance`, and from it `CompareKeepsPeriods`: the compare
value in use changes only where a period begins, whatever the program writes
when, and the pin differs from it only between the reset of CC4E and
`HAL_TIM_PWM_Start`. The first needs that preload is enabled before the counter
ever runs, the second that a running timer's channel is on outside a change. It
does not say that the pin's pulses are whole; they are not (section 3).

**Board.** `BoardRunsEither`: `IOSpec => AdcSpec /\ PwmSpec`, so what is proved of
input and output holds of the board that has one of them.

**Serial target.** For any commands, hosts, lines, losses and timeouts:
`SerialTypeCorrect` (with `BufferInv`: how much of the data has come tells where
`simpleserial_get` is, and it is never more than the command's) and `NeverBusy`.
Under `ProgramCommands`: `Resynchronises`, because a newline is no command's
letter (`TableInv`: the table is the registrations made so far).

The other two are about paced hosts. `FeedInv` says that the byte in the
register and the bytes to come are the line's, so that the device has read its
first `Read` characters; `CutInv` that a command in progress is a piece of the
line up to there, whose end is still to come. `CallbackOnWholeLine` follows.
`AnsweredUnderHostsKey` needs the place in the line (`ParseInv`: before its
command, within it or behind it, and within it what has been read is the line's
first command and nothing else; here one command on a line is used), that a
callback runs on a sound line and decodes it as the host meant it (`AnswerInv`),
and where a new key is (`KeyInv`: it is the device's, except between the last
byte of a key line and the end of its callback). That decoding agrees with the
host is `WholeCommand`, from the arithmetic of digits (`ByteWritten`); the
recursion-free `hex_decode` makes it provable for lines of any length.
`HexRoundTrip` is the same for the pair `simpleserial_put` and `hex_decode`
alone. `SoundLinesRun`, the safety half of `SoundLineAnswered` for hosts with one
command on a line, comes from the same invariant: the byte the device reads calls
a callback exactly if it ends a sound line, and then on that line's command.

**Host tool.** `SurvivesOrdinaryFrames`, `OpenChannelIsKnown` and
`ToolTypeCorrect`, for any number of tools, queue depth and number of sends. That
the callback never meets an incomplete object needs the invariant `ChannelInv`:
only a complete tool opens a channel, and what is in the callback came through
an open channel.

**Interrupt-driven driver.** `ITTypeCorrect`, `BusyIsOngoing` and `OneCallback`, for
any number of mailboxes and depth of FIFO, under `OneDirection`: no program both transmits and
receives by interrupt. Without it both fail (section 3). The invariant says
that a program's direction is the only one that State, IER and the copies of
them in its call can show (`TransmitterInv`, `ReceiverInv`), and that the
transmit interrupt is enabled only for a request that is not answered
(`OwedInv`).

`NoRequestForgotten`, the safety half of `RequestAnswered`, holds of every program,
`OneDirection` or not: while a callback is owed, its call is about to enable the
interrupt, or the interrupt is enabled and a mailbox is in use. `AwaitInv` gives
the reason: only the main program enables the transmit interrupt, so what it has
read of IER and is about to write back holds what is enabled now. The loss of an
update of IER can disable nothing that is needed; it can only enable again what
was disabled, and that is the second callback.

Only model-checked: all liveness (`CallsEnd`, `HeldIsApplied`, `Progress`,
`InputKeepsComing`, `DutyTakesEffect`, `SoundLineAnswered`, `QuitEnds`,
`RequestAnswered`, `ReceptionGoesOn`), which is out of this prover's reach.
`CallsAreBounded`, `HeldLeavesApplied`, `SoundLinesRun` and `NoRequestForgotten`
prove of four of them what is safety: that the steps fairness promises, if they
are taken, can only lead there. Every other property of a passing run is the
statement of a theorem.

## 5. Not modelled

- Of the repository's C and header lines, the great majority is vendored or
  generated: CMSIS register headers, one for each chip of the family; four
  crypto libraries, with ciphers the firmware never calls; HAL drivers of
  peripherals it never touches. Headers define constants and have no behaviour;
  the AES code is a pure function that the models take as a constant operator;
  an unused driver has no state in any run of the program. The models map
  about 2800 lines, which is the firmware's own code, the host tool and the HAL
  functions they reach. A share of the whole tree comparable to that of the
  project's own code is therefore not a matter of more modelling.
- `ref_code`: earlier versions of the codec and of a capture plug-in, run by
  nothing. `PCANBasic.py`: the vendor's binding, external to `HostTool`.
- Time: timeouts are numbers of polls, as they are in the build.
- Pins, clocks, the trigger; printing, and with it `putch`.
- HAL functions of the timer and the ADC that the firmware does not call
  (interrupt, DMA, injected and multi-mode).
- Frames of other stations on the bus: `CanHal` admits any number of stations,
  the runs of `SecureCan` have the two nodes only.
- Collisions of the 32-bit tag: the cipher of the instances is ideal.
- FIFO 1 and the filters of `CanHalIT`: the handler's branches for the two FIFOs
  are alike, and `can.c` fills FIFO 0.

## 6. Plan

Done: all modules of section 2, their runs, and the proofs of section 4. Left:

1. `Adc` below `SecureCan` in place of the free sample, through `SampleSource`:
   `SecureCan` already allows any value or a timeout, so this adds only how old
   a sample can be.
2. `ref_code/securecan_enc.py` beside `SecCan`, as another implementation of the
   same packet.
