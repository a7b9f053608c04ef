----------------------------- MODULE NodeIO_proofs -----------------------------
(***************************************************************************)
(* The input and the output of a board: the invariant of adc.c and its     *)
(* refinement for any numbers of polls, that of pwm.c and its preloading   *)
(* for any period, and both for the board that has either.                 *)
(***************************************************************************)
EXTENDS NodeIO, TLAPS

-----------------------------------------------------------------------------
(* The analog input. *)

\* The inductive invariant holds at power-on.
LEMMA InitEstablishes == AdcInit => AdcInv
<1> USE AdcAssumption DEF AdcInit, Ended, Pending,
        ADC_RET_ADC_INIT, ADC_RET_ADC_START, ADC_RET_ADC_TIMEOUT
<1>1. AdcInit => AdcTypeOK
  <2> SUFFICES ASSUME AdcInit
               PROVE  AdcTypeOK
    OBVIOUS
  <2>1. state \subseteq {"READY", "REG_BUSY", "REG_EOC", "TIMEOUT", "ERROR_INTERNAL"}
    OBVIOUS
  <2>2. dr \in [age : Nat, reads : 0..2]
    OBVIOUS
  <2>3. polls \in 0..ConversionPolls \cup 0..EnablePolls
    OBVIOUS
  <2>4. clocked \in BOOLEAN
    BY Zenon
  <2> QED
    BY <2>1, <2>2, <2>3, <2>4 DEF AdcTypeOK
<1>2. AdcInit => InitInv
  BY DEF InitInv
<1>3. AdcInit => FlagInv
  BY DEF FlagInv
<1> QED
  BY <1>1, <1>2, <1>3 DEF AdcInv

\* init_ADC keeps it: the converter starts exactly when success is reported.
LEMMA InitStep ==
    ASSUME AdcInv,
           HAL_ADC_Init \/ HAL_ADC_ConfigChannel \/ StartEnable \/ EnablePoll
               \/ EnableTimeout \/ Started
    PROVE  AdcInv'
<1> USE AdcAssumption DEF AdcInv, AdcTypeOK, InitInv, FlagInv, Ended, Pending,
        ADC_RET_ADC_INIT, ADC_RET_ADC_START, ADC_RET_ADC_TIMEOUT, InitReturns,
        handle, control, flags
<1>1. CASE HAL_ADC_Init
  <2>1. AdcTypeOK'
    BY <1>1 DEF HAL_ADC_Init
  <2>2. InitInv'
    BY <1>1 DEF HAL_ADC_Init
  <2>3. FlagInv'
    BY <1>1 DEF HAL_ADC_Init
  <2> QED
    BY <2>1, <2>2, <2>3
<1>2. CASE HAL_ADC_ConfigChannel
  BY <1>2 DEF HAL_ADC_ConfigChannel
<1>3. CASE StartEnable
  BY <1>3 DEF StartEnable
<1>4. CASE EnablePoll
  BY <1>4 DEF EnablePoll
<1>5. CASE EnableTimeout
  <2>1. AdcTypeOK'
    BY <1>5 DEF EnableTimeout
  <2>2. InitInv'
    BY <1>5 DEF EnableTimeout
  <2>3. FlagInv'
    BY <1>5 DEF EnableTimeout
  <2> QED
    BY <2>1, <2>2, <2>3
<1>6. CASE Started
  <2>1. AdcTypeOK'
    BY <1>6 DEF Started
  <2>2. InitInv'
    BY <1>6 DEF Started
  <2>3. FlagInv'
    BY <1>6 DEF Started
  <2> QED
    BY <2>1, <2>2, <2>3
<1> QED
  BY <1>1, <1>2, <1>3, <1>4, <1>5, <1>6

\* read_ADC keeps it: the flags are cleared before DR is read.
LEMMA ReadStep ==
    ASSUME AdcInv,
           read_ADC \/ PollAgain \/ PollLast \/ PollTimeout \/ PollEnded
               \/ ClearFlags \/ HAL_ADC_GetValue
    PROVE  AdcInv'
<1> USE AdcAssumption DEF AdcInv, AdcTypeOK, InitInv, FlagInv, Ended, Pending,
        ADC_RET_ADC_INIT, ADC_RET_ADC_START, ADC_RET_ADC_TIMEOUT,
        handle, control, flags
<1>1. CASE read_ADC
  BY <1>1 DEF read_ADC
<1>2. CASE PollAgain
  BY <1>2 DEF PollAgain
<1>3. CASE PollLast
  BY <1>3 DEF PollLast
<1>4. CASE PollTimeout
  <2>1. AdcTypeOK'
    BY <1>4 DEF PollTimeout
  <2>2. InitInv'
    BY <1>4 DEF PollTimeout
  <2>3. FlagInv'
    BY <1>4 DEF PollTimeout
  <2> QED
    BY <2>1, <2>2, <2>3
<1>5. CASE PollEnded
  BY <1>5 DEF PollEnded
<1>6. CASE ClearFlags
  BY <1>6 DEF ClearFlags
<1>7. CASE HAL_ADC_GetValue
  <2>a. dr' \in [age : Nat, reads : 0..2]
    <3>1. dr.age \in Nat /\ dr.reads + 1 \in 0..2
      BY <1>7 DEF HAL_ADC_GetValue
    <3> QED
      BY <1>7, <3>1 DEF HAL_ADC_GetValue
  <2>1. AdcTypeOK'
    BY <1>7, <2>a DEF HAL_ADC_GetValue
  <2>2. InitInv'
    BY <1>7 DEF HAL_ADC_GetValue
  <2>3. FlagInv'
    BY <1>7 DEF HAL_ADC_GetValue
  <2> QED
    BY <2>1, <2>2, <2>3
<1> QED
  BY <1>1, <1>2, <1>3, <1>4, <1>5, <1>6, <1>7

\* A conversion that ends may set the flags at any moment; its value has not
\* been returned yet.
LEMMA ConverterStep ==
    ASSUME AdcInv, Converter
    PROVE  AdcInv'
<1> USE AdcAssumption DEF AdcInv, AdcTypeOK, InitInv, FlagInv, Ended, Pending,
        ADC_RET_ADC_INIT, ADC_RET_ADC_START, ADC_RET_ADC_TIMEOUT,
        handle, control, flags
<1>1. CASE Ready
  BY <1>1 DEF Ready
<1>2. CASE Conversion
  BY <1>2 DEF Conversion
<1> QED
  BY <1>1, <1>2 DEF Converter

\* The invariant of the analog input holds for any numbers of polls.
THEOREM AdcInvariance == AdcSpec => []AdcInv
<1>1. AdcInv /\ [AdcNext]_adcVars => AdcInv'
  <2> SUFFICES ASSUME AdcInv, [AdcNext]_adcVars
               PROVE  AdcInv'
    OBVIOUS
  <2>1. CASE Processor
    BY <2>1, InitStep, ReadStep DEF Processor
  <2>2. CASE Converter
    BY <2>2, ConverterStep
  <2>3. CASE UNCHANGED adcVars
    BY <2>3 DEF adcVars, handle, control, flags, AdcInv, AdcTypeOK, InitInv, FlagInv, Ended
  <2> QED
    BY <2>1, <2>2, <2>3 DEF AdcNext
<1> QED
  BY InitEstablishes, <1>1, PTL DEF AdcSpec

\* A failed init_ADC, which adc_stm_loop ignores, leaves an input that never
\* returns a value and a handle that is not locked.
THEOREM FailureIsPermanent == AdcSpec => []FailedInitIsSilent
<1>1. AdcInv => FailedInitIsSilent
  BY DEF AdcInv, InitInv, FlagInv, FailedInitIsSilent, Pending,
     ADC_RET_ADC_INIT, ADC_RET_ADC_START
<1> QED
  BY AdcInvariance, <1>1, PTL

\* What the pedal's program sees of the input is a SampleSource: values of the
\* newest conversion only, and none more than twice.
THEOREM ImplementsSource == AdcSpec => NewestAtMostTwice
<1> USE DEF handle, control, flags
<1>1. AdcInit => Source!Init
  BY DEF AdcInit, Source!Init, Pending
<1>2. AdcInv /\ AdcInv' /\ [AdcNext]_adcVars
        => [Source!TurnOn \/ Source!Convert \/ Source!Show]_Source!vars
  <2> SUFFICES ASSUME AdcInv, AdcInv', [AdcNext]_adcVars
               PROVE  [Source!TurnOn \/ Source!Convert \/ Source!Show]_Source!vars
    OBVIOUS
  <2> USE DEF AdcInv, InitInv, FlagInv, AdcTypeOK
  <2>1. CASE Started
    <3>1. init = Pending /\ ~adstart /\ adstart' /\ init' = 0 /\ UNCHANGED dr
      BY <2>1 DEF Started, InitReturns, Pending
    <3> QED
      BY <3>1 DEF Source!TurnOn, Pending
  <2>2. CASE Conversion
    BY <2>2 DEF Conversion, Source!Convert
  <2>3. CASE HAL_ADC_GetValue
    BY <2>3 DEF HAL_ADC_GetValue, Source!Show
  <2>4. CASE UNCHANGED <<adstart, dr>> /\ (init' = 0 <=> init = 0)
    BY <2>4 DEF Source!vars
  <2>5. Started \/ Conversion \/ HAL_ADC_GetValue
          \/ (UNCHANGED <<adstart, dr>> /\ (init' = 0 <=> init = 0))
    BY DEF AdcNext, Processor, Converter, adcVars, HAL_ADC_Init,
       HAL_ADC_ConfigChannel, StartEnable, EnablePoll, EnableTimeout, read_ADC,
       PollAgain, PollLast, PollTimeout, PollEnded, ClearFlags, Ready,
       InitReturns, Pending, ADC_RET_ADC_INIT, ADC_RET_ADC_START
  <2> QED
    BY <2>1, <2>2, <2>3, <2>4, <2>5
<1> QED
  BY AdcInvariance, <1>1, <1>2, PTL DEF AdcSpec, NewestAtMostTwice, Source!Spec

-----------------------------------------------------------------------------
(* The PWM output. *)

\* At power-up the counter stands still and nothing is locked.
LEMMA DriverInit == PwmInit => DriverInv
<1> SUFFICES ASSUME PwmInit
             PROVE  DriverInv
    OBVIOUS
<1>1. pulse \in Duty /\ CCR4 \in Duty /\ compare \in Duty /\ counter \in Duty
    BY PwmAssumption DEF PwmInit, Duty
<1>2. PwmTypeOK
    BY <1>1, Zenon DEF PwmInit, PwmTypeOK
<1> QED
    BY <1>2 DEF PwmInit, DriverInv

\* Each step of pwm.c, of the timer functions and of the counter keeps the
\* driver's invariant.
LEMMA DriverStep == DriverInv /\ [PwmNext]_pwmVars => DriverInv'
<1> SUFFICES ASSUME DriverInv, [PwmNext]_pwmVars
             PROVE  DriverInv'
    OBVIOUS
<1> USE PwmAssumption DEF DriverInv, PwmTypeOK, Duty
<1>1. CASE HAL_TIM_PWM_Init
  <2>1. timPc' = "config" /\ Lock' = FALSE /\ ~CEN /\ UNCHANGED <<enables, CCR4>>
      BY <1>1 DEF HAL_TIM_PWM_Init
  <2>2. pulse' \in 0..Period /\ compare' \in 0..Period /\ counter' \in 0..Period
      BY <1>1 DEF HAL_TIM_PWM_Init
  <2> QED
      BY <2>1, <2>2 DEF enables
<1>2. CASE change_PWM
    BY <1>2 DEF change_PWM, enables
<1>3. CASE ConfigBegin
    BY <1>3 DEF ConfigBegin
<1>4. CASE ConfigCompare
    BY <1>4 DEF ConfigCompare, enables
<1>5. CASE ConfigEnd
    BY <1>5 DEF ConfigEnd
<1>6. CASE HAL_TIM_PWM_Start
  <2>1. timPc = "start" /\ timPc' = "idle"
      BY <1>6 DEF HAL_TIM_PWM_Start
  <2>2. CC4E' = TRUE /\ MOE' = TRUE /\ CEN' = TRUE
      BY <1>6 DEF HAL_TIM_PWM_Start
  <2>3. UNCHANGED <<Lock, pulse, OC4PE, CCR4, compare, counter>>
      BY <1>6 DEF HAL_TIM_PWM_Start
  <2> QED
      BY <2>1, <2>2, <2>3
<1>7. CASE Count
    BY <1>7 DEF Count, software, enables
<1>8. CASE UNCHANGED pwmVars
    BY <1>8 DEF pwmVars, software, enables
<1> QED
    BY <1>1, <1>2, <1>3, <1>4, <1>5, <1>6, <1>7, <1>8 DEF PwmNext, Driver

\* The driver's invariant holds always.
THEOREM DriverInvariance == PwmSpec => []DriverInv
<1>1. PwmInit => DriverInv
    BY DriverInit
<1>2. DriverInv /\ [PwmNext]_pwmVars => DriverInv'
    BY DriverStep
<1> QED
    BY <1>1, <1>2, PTL DEF PwmSpec

\* change_PWM on a running timer never replaces the compare value in use but
\* at the beginning of a period, because ConfigCompare finds CCR4 preloaded;
\* and the pin shows that value and the counter except while the channel is
\* switched off for the change, because HAL_TIM_PWM_Start ends every change.
THEOREM CompareKeepsPeriods == PwmSpec => ChangesBetweenPeriods
<1> DEFINE Update == CEN /\ compare' # compare => counter = 0 /\ counter' = Period
           Shown == CEN /\ Level' # (counter' <= compare') => ChannelOff'
<1>1. DriverInv /\ [PwmNext]_pwmVars => Update
  <2> SUFFICES ASSUME DriverInv, [PwmNext]_pwmVars
               PROVE  Update
      OBVIOUS
  <2>1. CASE Count
      BY <2>1 DEF Count
  <2>2. CASE ConfigCompare
      BY <2>2 DEF ConfigCompare, DriverInv
  <2>3. CASE HAL_TIM_PWM_Init
      BY <2>3 DEF HAL_TIM_PWM_Init, DriverInv
  <2>4. CASE change_PWM \/ ConfigBegin \/ ConfigEnd \/ HAL_TIM_PWM_Start
      BY <2>4 DEF change_PWM, ConfigBegin, ConfigEnd, HAL_TIM_PWM_Start
  <2>5. CASE UNCHANGED pwmVars
      BY <2>5 DEF pwmVars
  <2> QED
      BY <2>1, <2>2, <2>3, <2>4, <2>5 DEF PwmNext, Driver
<1>2. DriverInv /\ [PwmNext]_pwmVars => Shown
  <2> SUFFICES ASSUME DriverInv, [PwmNext]_pwmVars, CEN, ~ChannelOff'
               PROVE  Level' <=> (counter' <= compare')
      BY DEF Level
  <2>1. DriverInv'
      BY DriverStep
  <2>2. CEN'
      BY DEF PwmNext, Driver, HAL_TIM_PWM_Init, change_PWM, ConfigBegin, ConfigCompare,
             ConfigEnd, HAL_TIM_PWM_Start, Count, pwmVars, enables
  <2>3. timPc' \in {"idle", "config"}
      BY <2>1, <2>2 DEF DriverInv, PwmTypeOK, ChannelOff
  <2> QED
      BY <2>1, <2>2, <2>3 DEF DriverInv, Level
<1>3. PwmSpec => []DriverInv
    BY DriverInvariance
<1> QED
    BY <1>1, <1>2, <1>3, PTL DEF PwmSpec, ChangesBetweenPeriods

-----------------------------------------------------------------------------
(* The board. *)

\* Whichever build the board runs, its input and its output each behave as on
\* their own: what is proved of them holds of the board.
THEOREM BoardRunsEither == IOSpec => AdcSpec /\ PwmSpec
<1>1. IOInit => AdcInit /\ PwmInit
  BY DEF IOInit
<1>2. [IONext]_ioVars => [AdcNext]_adcVars /\ [PwmNext]_pwmVars
  BY DEF IONext, Pedal, Motor, ioVars
<1> QED
  BY <1>1, <1>2, PTL DEF IOSpec, AdcSpec, PwmSpec

================================================================================
