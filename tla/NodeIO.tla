------------------------------- MODULE NodeIO -------------------------------
(***************************************************************************)
(* The input or output of one board: main runs the pedal's loop or the     *)
(* motor's, as the board's build has STM_ADC or not, and so read_ADC on    *)
(* the converter or change_PWM on the timer.                               *)
(***************************************************************************)
EXTENDS Adc, Pwm

VARIABLE STM_ADC   \* the build is the pedal's

ioVars == <<STM_ADC, adcVars, pwmVars>>

IOInit == STM_ADC \in BOOLEAN /\ AdcInit /\ PwmInit

\* adc_stm_loop, and the converter.
Pedal(step) == STM_ADC /\ step /\ UNCHANGED <<STM_ADC, pwmVars>>

\* master_stm_loop, and the timer.
Motor(step) == ~STM_ADC /\ step /\ UNCHANGED <<STM_ADC, adcVars>>

IONext == Pedal(AdcNext) \/ Motor(PwmNext)

IOSpec == IOInit /\ [][IONext]_ioVars

\* The processor runs; a converter that was started goes on converting, and
\* the timer's clock runs.
IOLiveSpec ==
    /\ IOSpec
    /\ WF_ioVars(Pedal(Processor)) /\ WF_ioVars(Pedal(Conversion))
    /\ WF_ioVars(Motor(Driver)) /\ WF_ioVars(Motor(Count))

=============================================================================
