-------------------------------- MODULE Pwm --------------------------------
(***************************************************************************)
(* The output of the motor node: pwm.c (setup_PWM, change_PWM) over the    *)
(* functions of the timer HAL it calls, over channel 4 of timer TIM1.      *)
(*                                                                         *)
(* The timer is external: it counts down from ARR, and an update event     *)
(* ends each period.  CCR4 is preloaded: with OC4PE the compare value in   *)
(* use changes at update events only.  The processor's register accesses   *)
(* that the output can tell apart are steps of their own, and the counter  *)
(* moves on between any two of them.                                       *)
(***************************************************************************)
EXTENDS Integers

CONSTANT Period     \* tim.PwmInit.Period, the auto-reload value (0xFFFF)

ASSUME PwmAssumption == Period \in Nat

VARIABLES
    timPc,      \* place of the processor in the driver; "idle" outside
    Lock,       \* tim.Lock
    pulse,      \* pwm.Pulse
    CC4E,       \* channel 4 is enabled
    MOE,        \* the timer's outputs are enabled
    OC4PE,      \* CCR4 is preloaded
    CEN,        \* the counter runs
    CCR4,       \* the compare value as it was written
    compare,    \* the compare value in use
    counter

software == <<timPc, Lock, pulse>>
enables == <<CC4E, MOE, OC4PE, CEN>>
pwmVars == <<software, enables, CCR4, compare, counter>>

Duty == 0..Period

PwmInit ==
    /\ timPc = "setup" /\ Lock = FALSE /\ pulse = 0
    /\ CC4E = FALSE /\ MOE = FALSE /\ OC4PE = FALSE /\ CEN = FALSE
    /\ CCR4 = 0 /\ compare = 0 /\ counter = 0

\* HAL_TIM_PWM_Init in setup_PWM: the time base, and an update event.
HAL_TIM_PWM_Init ==
    /\ timPc = "setup"
    /\ Lock' = FALSE
    /\ counter' = Period
    /\ compare' = CCR4
    /\ pulse' = 0
    /\ timPc' = "config"
    /\ UNCHANGED <<enables, CCR4>>

\* Variant: the value is scaled and not cut to the width of the counter.
change_PWM_Wide ==
    /\ timPc = "idle"
    /\ \E dcycle \in Duty : pulse' = 2 * dcycle
    /\ timPc' = "config"
    /\ UNCHANGED <<Lock, enables, CCR4, compare, counter>>

\* change_PWM: the motor has accepted a frame.
change_PWM ==
    /\ timPc = "idle"
    /\ \E dcycle \in Duty : pulse' = dcycle
    /\ timPc' = "config"
    /\ UNCHANGED <<Lock, enables, CCR4, compare, counter>>

\* HAL_TIM_PWM_ConfigChannel, TIM_OC4_SetConfig up to the reset of CC4E.
ConfigBegin ==
    /\ timPc = "config"
    /\ ~Lock
    /\ Lock' = TRUE
    /\ CC4E' = FALSE
    /\ timPc' = "compare"
    /\ UNCHANGED <<pulse, MOE, OC4PE, CEN, CCR4, compare, counter>>

\* Variant: CCMR2 is written as if it had been reset, and OC4PE with it.
ConfigCompare_Reset ==
    /\ timPc = "compare"
    /\ OC4PE' = FALSE
    /\ CCR4' = pulse
    /\ compare' = pulse
    /\ timPc' = "preload"
    /\ UNCHANGED <<Lock, pulse, CC4E, MOE, CEN, counter>>

\* TIM_OC4_SetConfig writes CCMR2 back, with OC4PE as it was, and CCR4.
ConfigCompare ==
    /\ timPc = "compare"
    /\ CCR4' = pulse
    /\ compare' = IF OC4PE THEN compare ELSE pulse
    /\ timPc' = "preload"
    /\ UNCHANGED <<Lock, pulse, enables, counter>>

\* Variant: the handle stays locked.
ConfigEnd_Locked ==
    /\ timPc = "preload"
    /\ OC4PE' = TRUE
    /\ timPc' = "start"
    /\ UNCHANGED <<Lock, pulse, CC4E, MOE, CEN, CCR4, compare, counter>>

\* The rest of HAL_TIM_PWM_ConfigChannel: preload, READY, unlock.
ConfigEnd ==
    /\ timPc = "preload"
    /\ OC4PE' = TRUE
    /\ Lock' = FALSE
    /\ timPc' = "start"
    /\ UNCHANGED <<pulse, CC4E, MOE, CEN, CCR4, compare, counter>>

\* Variant: the output is not started again after a change.
HAL_TIM_PWM_Start_Once ==
    /\ timPc = "start"
    /\ CC4E' = ~CEN
    /\ MOE' = TRUE /\ CEN' = TRUE
    /\ timPc' = "idle"
    /\ UNCHANGED <<Lock, pulse, OC4PE, CCR4, compare, counter>>

HAL_TIM_PWM_Start ==
    /\ timPc = "start"
    /\ CC4E' = TRUE /\ MOE' = TRUE /\ CEN' = TRUE
    /\ timPc' = "idle"
    /\ UNCHANGED <<Lock, pulse, OC4PE, CCR4, compare, counter>>

\* The counter counts down; from 0 it is reloaded, an update event.
Count ==
    /\ CEN
    /\ counter' = IF counter = 0 THEN Period ELSE counter - 1
    /\ compare' = IF counter = 0 THEN CCR4 ELSE compare
    /\ UNCHANGED <<software, enables, CCR4>>

Driver ==
    \/ HAL_TIM_PWM_Init
    \/ ConfigBegin \/ ConfigCompare \/ ConfigEnd \/ HAL_TIM_PWM_Start

PwmNext == change_PWM \/ Driver \/ Count

PwmSpec == PwmInit /\ [][PwmNext]_pwmVars

\* The level of PA11.  OCMode PWM1, counting down: active while the counter
\* is not above the compare value.
Level == CC4E /\ MOE /\ counter <= compare

-----------------------------------------------------------------------------
(* Properties *)

PwmTypeOK ==
    /\ timPc \in {"setup", "idle", "config", "compare", "preload", "start"}
    /\ Lock \in BOOLEAN
    /\ CC4E \in BOOLEAN /\ MOE \in BOOLEAN /\ OC4PE \in BOOLEAN /\ CEN \in BOOLEAN
    /\ pulse \in Duty /\ CCR4 \in Duty /\ compare \in Duty /\ counter \in Duty

\* Besides the types: the counter does not run before the compare value is
\* preloaded, the handle is locked inside HAL_TIM_PWM_ConfigChannel only, a
\* channel that is enabled runs, what was written to CCR4 is what was asked
\* for, and outside a change the running timer's channel and outputs are on.
DriverInv ==
    /\ PwmTypeOK
    /\ CEN => OC4PE /\ timPc # "setup"
    /\ timPc = "start" => OC4PE
    /\ Lock <=> timPc \in {"compare", "preload"}
    /\ CC4E => CEN /\ MOE
    /\ timPc \in {"preload", "start", "idle"} => CCR4 = pulse
    /\ CEN /\ timPc \in {"idle", "config"} => CC4E /\ MOE

\* Between the reset of CC4E in TIM_OC4_SetConfig and HAL_TIM_PWM_Start.
ChannelOff == timPc \in {"compare", "preload", "start"}

\* What a change of the duty cycle does to a running timer, wherever in a
\* period it falls.  The compare value in use is replaced where a period
\* begins and nowhere else.  The pin itself is not so steady: every change
\* switches the channel off and on again, in the middle of a period if it
\* comes there.  Only then does the pin differ from what the counter and the
\* compare value in use make of it.
ChangesBetweenPeriods ==
    [][CEN => /\ compare' # compare => counter = 0 /\ counter' = Period
              /\ Level' # (counter' <= compare') => ChannelOff']_pwmVars

\* After set-up a duty cycle that stays commanded is put out: it becomes the
\* compare value in use, as often as it is commanded again the output comes
\* back on, and when the commands cease the pin is high just while the counter
\* is at or below it, so for one count even at duty cycle 0.
DutyTakesEffect ==
    \A d \in Duty :
        /\ <>[](pulse = d /\ timPc # "setup") =>
               <>[](compare = d) /\ []<>(CC4E /\ MOE)
        /\ <>[](pulse = d /\ timPc = "idle") => <>[](Level <=> counter <= d)

=============================================================================
