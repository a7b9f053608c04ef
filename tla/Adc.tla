--------------------------------- MODULE Adc ---------------------------------
(***************************************************************************)
(* The pedal's analog input: adc.c (init_ADC, read_ADC) over the HAL's     *)
(* HAL_ADC_Init, _ConfigChannel, _Start, _PollForConversion and _GetValue, *)
(* over a converter that runs on by itself (continuous mode, overrun       *)
(* overwrites, auto-delay off).                                            *)
(*                                                                         *)
(* A conversion can end between any two of the processor's accesses to the *)
(* converter.  Values are told apart only by the conversion they are from. *)
(* The converter is external: it is modelled from the bits the code uses.  *)
(***************************************************************************)
EXTENDS Integers

CONSTANTS
    ConversionPolls, \* failed polls before read_ADC gives up (5001)
    EnablePolls      \* failed polls of ADRDY before ADC_Enable gives up (3)

ASSUME AdcAssumption == ConversionPolls \in Nat /\ EnablePolls \in Nat

VARIABLES
    adcPc,    \* the processor: in init_ADC, in the pedal's loop, in read_ADC
    state,    \* the handle's State: a set of flags, {} is RESET
    lock,     \* the handle's Lock
    polls,    \* polls made in the running wait
    init,     \* what init_ADC returned, or Pending
    result,   \* what the last read_ADC returned, or Pending
    clocked,  \* the converter has a clock (set up by HAL_ADC_MspInit and RCC)
    aden, adrdy, adstart,  \* CR.ADEN, ISR.ADRDY, CR.ADSTART
    eoc, eos, \* ISR.EOC, ISR.EOS
    dr        \* DR: conversions ended since its own, times it was read (history)

handle == <<state, lock>>
control == <<clocked, aden, adrdy, adstart>>
flags == <<eoc, eos>>
adcVars == <<adcPc, handle, polls, init, result, control, flags, dr>>

ADC_RET_ADC_INIT == -1
ADC_RET_ADC_START == -3
ADC_RET_ADC_TIMEOUT == -4
Pending == 1   \* not returned yet

AdcInit ==
    /\ adcPc = "init"
    /\ state = {} /\ lock = FALSE
    /\ polls = 0
    /\ init = Pending /\ result = Pending
    /\ clocked \in BOOLEAN
    /\ aden = FALSE /\ adrdy = FALSE /\ adstart = FALSE
    /\ eoc = FALSE /\ eos = FALSE
    /\ dr = [age |-> 0, reads |-> 0]

-----------------------------------------------------------------------------
(* init_ADC *)

\* init_ADC returns; adc_stm_loop prints an error and goes on in any case.
InitReturns(code) ==
    /\ init' = code
    /\ adcPc' = "loop"

\* The voltage regulator reads back as enabled only if the converter is
\* clocked; then there is no other way to fail from RESET.
HAL_ADC_Init ==
    /\ adcPc = "init"
    /\ lock' = FALSE
    /\ \/ /\ clocked
          /\ state' = {"READY"}
          /\ adcPc' = "config"
          /\ UNCHANGED init
       \/ /\ ~clocked
          /\ state' = {"ERROR_INTERNAL"}
          /\ InitReturns(ADC_RET_ADC_INIT)
    /\ UNCHANGED <<polls, result, control, flags, dr>>

\* No conversion is ongoing and the channel is an ordinary one: it succeeds,
\* and leaves the handle unlocked.
HAL_ADC_ConfigChannel ==
    /\ adcPc = "config"
    /\ ~adstart /\ ~lock
    /\ adcPc' = "start"
    /\ UNCHANGED <<handle, polls, init, result, control, flags, dr>>

\* HAL_ADC_Start locks the handle, and ADC_Enable sets ADEN.
StartEnable ==
    /\ adcPc = "start"
    /\ ~adstart /\ ~lock
    /\ lock' = TRUE
    /\ aden' = TRUE
    /\ polls' = 0
    /\ adcPc' = "enable"
    /\ UNCHANGED <<state, init, result, clocked, adrdy, adstart, flags, dr>>

EnablePoll ==
    /\ adcPc = "enable"
    /\ ~adrdy
    /\ polls < EnablePolls
    /\ polls' = polls + 1
    /\ UNCHANGED <<adcPc, handle, init, result, control, flags, dr>>

\* Variant: the conversion is started whatever ADC_Enable returned.
EnableTimeout_Started ==
    /\ adcPc = "enable"
    /\ ~adrdy
    /\ polls = EnablePolls
    /\ state' = state \cup {"ERROR_INTERNAL"}
    /\ lock' = FALSE
    /\ adstart' = TRUE
    /\ InitReturns(ADC_RET_ADC_START)
    /\ UNCHANGED <<polls, result, clocked, aden, adrdy, flags, dr>>

\* ADC_Enable gives up, and HAL_ADC_Start does not start the conversion.
EnableTimeout ==
    /\ adcPc = "enable"
    /\ ~adrdy
    /\ polls = EnablePolls
    /\ state' = state \cup {"ERROR_INTERNAL"}
    /\ lock' = FALSE
    /\ InitReturns(ADC_RET_ADC_START)
    /\ UNCHANGED <<polls, result, control, flags, dr>>

\* ADRDY is set: clear the flags and start.
Started ==
    /\ adcPc = "enable"
    /\ adrdy
    /\ state' = (state \ {"READY", "REG_EOC"}) \cup {"REG_BUSY"}
    /\ lock' = FALSE
    /\ eoc' = FALSE /\ eos' = FALSE
    /\ adstart' = TRUE
    /\ InitReturns(0)
    /\ UNCHANGED <<polls, result, clocked, aden, adrdy, dr>>

-----------------------------------------------------------------------------
(* read_ADC *)

read_ADC ==
    /\ adcPc = "loop"
    /\ polls' = 0
    /\ adcPc' = "poll"
    /\ UNCHANGED <<handle, init, result, control, flags, dr>>

\* EOCSelection is DISABLE, which the HAL takes for ADC_EOC_SINGLE_CONV: the
\* wait ends with either flag.
Ended == eoc \/ eos

PollAgain ==
    /\ adcPc = "poll"
    /\ ~Ended
    /\ polls < ConversionPolls
    /\ polls' = polls + 1
    /\ UNCHANGED <<adcPc, handle, init, result, control, flags, dr>>

\* The last poll was in vain; the tick count is read after the flags.
PollLast ==
    /\ adcPc = "poll"
    /\ ~Ended
    /\ polls = ConversionPolls
    /\ adcPc' = "expire"
    /\ UNCHANGED <<handle, polls, init, result, control, flags, dr>>

\* Variant: giving up clears the flags too.
PollTimeout_Clears ==
    /\ adcPc = "expire"
    /\ state' = state \cup {"TIMEOUT"}
    /\ lock' = FALSE
    /\ eoc' = FALSE /\ eos' = FALSE
    /\ result' = ADC_RET_ADC_TIMEOUT
    /\ adcPc' = "loop"
    /\ UNCHANGED <<polls, init, control, dr>>

\* A conversion that ended since the last poll keeps its flags.
PollTimeout ==
    /\ adcPc = "expire"
    /\ state' = state \cup {"TIMEOUT"}
    /\ lock' = FALSE
    /\ result' = ADC_RET_ADC_TIMEOUT
    /\ adcPc' = "loop"
    /\ UNCHANGED <<polls, init, control, flags, dr>>

PollEnded ==
    /\ adcPc = "poll"
    /\ Ended
    /\ state' = state \cup {"REG_EOC"}
    /\ adcPc' = "clear"
    /\ UNCHANGED <<lock, polls, init, result, control, flags, dr>>

\* Variant: only the flag of the single conversion is cleared.
ClearFlags_EocOnly ==
    /\ adcPc = "clear"
    /\ eoc' = FALSE
    /\ adcPc' = "read"
    /\ UNCHANGED <<handle, polls, init, result, control, eos, dr>>

\* HAL_ADC_PollForConversion clears both flags before it returns.
ClearFlags ==
    /\ adcPc = "clear"
    /\ eoc' = FALSE /\ eos' = FALSE
    /\ adcPc' = "read"
    /\ UNCHANGED <<handle, polls, init, result, control, dr>>

\* Reading DR clears EOC, but not EOS.
HAL_ADC_GetValue ==
    /\ adcPc = "read"
    /\ eoc' = FALSE
    /\ dr' = [age |-> dr.age, reads |-> dr.reads + 1]
    /\ result' = 0
    /\ adcPc' = "loop"
    /\ UNCHANGED <<handle, polls, init, control, eos>>

-----------------------------------------------------------------------------
(* The converter (external) *)

Ready ==
    /\ clocked /\ aden /\ ~adrdy
    /\ adrdy' = TRUE
    /\ UNCHANGED <<adcPc, handle, polls, init, result, clocked, aden, adstart,
                   flags, dr>>

\* Variant: overrun preserves the data that has not been read.
Conversion_Preserved ==
    /\ adstart
    /\ eoc' = TRUE /\ eos' = TRUE
    /\ dr' = IF eoc THEN [age |-> dr.age + 1, reads |-> dr.reads] ELSE [age |-> 0, reads |-> 0]
    /\ UNCHANGED <<adcPc, handle, polls, init, result, control>>

\* A conversion ends, and the next begins: ADC_OVR_DATA_OVERWRITTEN.
Conversion ==
    /\ adstart
    /\ eoc' = TRUE /\ eos' = TRUE
    /\ dr' = [age |-> 0, reads |-> 0]
    /\ UNCHANGED <<adcPc, handle, polls, init, result, control>>

-----------------------------------------------------------------------------

Processor ==
    \/ HAL_ADC_Init \/ HAL_ADC_ConfigChannel \/ StartEnable
    \/ EnablePoll \/ EnableTimeout \/ Started
    \/ read_ADC \/ PollAgain \/ PollLast \/ PollTimeout \/ PollEnded
    \/ ClearFlags \/ HAL_ADC_GetValue

Converter == Ready \/ Conversion

AdcNext == Processor \/ Converter

AdcSpec == AdcInit /\ [][AdcNext]_adcVars

-----------------------------------------------------------------------------
(* Properties *)

AdcTypeOK ==
    /\ adcPc \in {"init", "config", "start", "enable", "loop", "poll", "expire",
               "clear", "read"}
    /\ state \subseteq {"READY", "REG_BUSY", "REG_EOC", "TIMEOUT", "ERROR_INTERNAL"}
    /\ lock \in BOOLEAN
    /\ polls \in 0..ConversionPolls \cup 0..EnablePolls
    /\ init \in {Pending, 0, ADC_RET_ADC_INIT, ADC_RET_ADC_START}
    /\ result \in {Pending, 0, ADC_RET_ADC_TIMEOUT}
    /\ clocked \in BOOLEAN /\ aden \in BOOLEAN
    /\ adrdy \in BOOLEAN /\ adstart \in BOOLEAN
    /\ eoc \in BOOLEAN /\ eos \in BOOLEAN
    /\ dr \in [age : Nat, reads : 0..2]

\* adc_stm_loop prints a failed init_ADC and polls on.  Then the converter
\* never runs, no read_ADC ever returns a value, and nothing is wrong with
\* the handle that would make a later call return HAL_BUSY.
FailedInitIsSilent ==
    init \in {ADC_RET_ADC_INIT, ADC_RET_ADC_START} =>
        /\ ~adstart /\ ~lock
        /\ result # 0
        /\ "ERROR_INTERNAL" \in state

\* The inductive invariant behind both: a set flag belongs to a conversion
\* returned at most once, and one that is set again just before DR is read
\* belongs to a conversion not returned at all.
InitInv ==
    /\ init = Pending <=> adcPc \in {"init", "config", "start", "enable"}
    /\ adstart <=> init = 0
    /\ lock <=> adcPc = "enable"
    /\ init \in {ADC_RET_ADC_INIT, ADC_RET_ADC_START} => "ERROR_INTERNAL" \in state
FlagInv ==
    /\ Ended \/ result = 0 \/ adcPc \in {"clear", "read"} => adstart
    /\ dr.age = 0
    /\ Ended \/ adcPc \in {"clear", "read"} => dr.reads <= 1
    /\ Ended /\ adcPc = "read" => dr.reads = 0
AdcInv == AdcTypeOK /\ InitInv /\ FlagInv

\* A value comes only from a converter init_ADC reported started, always from
\* the newest conversion although the flag that was seen may be an older
\* one's, and at most twice from one conversion: EOS of a conversion that
\* ends between the clearing of the flags and the read of DR outlives that
\* read, so the next read_ADC returns the same conversion at once.
Source == INSTANCE SampleSource WITH
    on <- adstart /\ init = 0,
    shown <- IF dr.age = 0 THEN dr.reads ELSE 3
NewestAtMostTwice == Source!Spec

\* Once started, the input never dries up: timeouts lose no conversion, so
\* every read_ADC is followed by one that returns a value.
InputKeepsComing == adstart ~> adcPc = "read"

=============================================================================
