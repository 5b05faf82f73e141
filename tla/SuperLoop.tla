----------------------------- MODULE SuperLoop -----------------------------
(***************************************************************************)
(* The schedule of the firmware: the super-loop of app_main.c and the       *)
(* control timer (control_timer.c) that paces it.  Each round runs the      *)
(* control tick if the timer has released one, polls the link, the motors   *)
(* and the IMU scheduler, and gives what is left of the period to the idle  *)
(* tick if at least Budget is left.  The idle tick is the only place where  *)
(* the watchdog is refreshed and where a silent link is noticed.            *)
(*                                                                          *)
(* Time is discrete, in one unit for all constants.  A piece of the round   *)
(* takes any time from nothing to its maximum; IdleMax may exceed Budget    *)
(* (nothing in the code stops the idle tick when the budget is spent).      *)
(***************************************************************************)
EXTENDS Integers

CONSTANTS Periods,      \* the control periods a parameter may ask for
          Budget,       \* APP_IDLE_BUDGET_US
          ControlMax,   \* longest motion_control_tick
          LinkMax,      \* longest app_link_poll, motor_link_poll, imu_sched_tick together
          IdleMax,      \* longest app_idle_tick
          Timeout,      \* APP_HEARTBEAT_TIMEOUT_MS
          WatchdogMax,  \* the IWDG's period
          AgeCap        \* bound of this model: ages stop counting there

ASSUME TimeAssumption ==
    /\ Periods \subseteq Nat \ {0} /\ Periods # {}
    /\ Budget \in Nat \ {0}
    /\ ControlMax \in Nat /\ LinkMax \in Nat /\ IdleMax \in Nat
    /\ Timeout \in Nat /\ WatchdogMax \in Nat
    /\ AgeCap \in Nat /\ AgeCap > WatchdogMax

VARIABLES
    pc,        \* where the loop is
    left,      \* time until the piece it is in ends
    period,    \* s_period_us
    next,      \* time until TIM2 fires again
    started,   \* TIM2 has fired: s_isr_timestamp is not 0
    pending,   \* s_pending
    armed,     \* the robot balances or is in manual mode
    silence,   \* now - s_last_cmd_ms
    unfed      \* time since the watchdog was refreshed, or the rate was set

timerVars == <<period, next, started, pending>>
vars == <<pc, left, timerVars, armed, silence, unfed>>

Larger(a, b) == IF a >= b THEN a ELSE b

\* A release waits for the poll it falls into, or for an idle tick that
\* overruns its budget.
Latency == Larger(LinkMax, IdleMax - Budget)

\* Longest time from one idle tick to the next.
Gap(p) == p + Latency + ControlMax + LinkMax

\* A round whose release is late by Latency still leaves Budget of the period.
Feasible == \A p \in Periods : Latency + ControlMax + LinkMax + Budget <= p

ASSUME CapAssumption == \A p \in Periods : AgeCap > Timeout + Gap(p)

TypeOK ==
    /\ pc \in {"top", "control", "poll", "decide", "idle"}
    /\ left \in 0..Larger(ControlMax, Larger(LinkMax, IdleMax))
    /\ period \in Periods
    /\ next \in 1..period
    /\ started \in BOOLEAN /\ pending \in BOOLEAN /\ armed \in BOOLEAN
    /\ silence \in Nat /\ unfed \in Nat

\* The end of app_init: the timer is started last, the watchdog was refreshed
\* by the last checkpoint.
Init ==
    /\ pc = "top" /\ left = 0
    /\ period \in Periods /\ next = period
    /\ started = FALSE /\ pending = FALSE
    /\ armed = FALSE /\ silence = 0 /\ unfed = 0

-----------------------------------------------------------------------------
(* Time and the timer interrupt.                                             *)

\* control_timer_isr_callback, every period.
Release ==
    IF next = 1
    THEN next' = period /\ started' = TRUE /\ pending' = TRUE
    ELSE next' = next - 1 /\ UNCHANGED <<started, pending>>

Older(age) == IF age >= AgeCap THEN age ELSE age + 1

Elapse ==
    /\ left > 0
    /\ left' = left - 1
    /\ Release
    /\ silence' = Older(silence)
    /\ unfed' = Older(unfed)
    /\ UNCHANGED <<pc, period, armed>>

\* control_timer_time_to_deadline_us
TimeToDeadline == IF started THEN next ELSE 0

-----------------------------------------------------------------------------
(* The loop.                                                                 *)

\* control_timer_pending and control_timer_begin_cycle; the tick may fall.
StartControl ==
    /\ pc = "top" /\ pending
    /\ pending' = FALSE
    /\ armed' \in {armed, FALSE}
    /\ pc' = "control" /\ left' \in 0..ControlMax
    /\ UNCHANGED <<period, next, started, silence, unfed>>

StartPoll ==
    /\ left = 0
    /\ \/ pc = "top" /\ ~pending
       \/ pc = "control"
    /\ pc' = "poll" /\ left' \in 0..LinkMax
    /\ UNCHANGED <<timerVars, armed, silence, unfed>>

EndPoll == pc = "poll" /\ left = 0 /\ pc' = "decide" /\ left' = 0

\* No frame, or only rubbish, came.
Quiet == EndPoll /\ UNCHANGED <<timerVars, armed, silence, unfed>>

\* A valid frame; it may arm or disarm.
Frame == EndPoll /\ silence' = 0 /\ armed' \in BOOLEAN /\ UNCHANGED <<timerVars, unfed>>

\* SET_PARAM of another control rate, refused while balancing or in manual mode:
\* control_timer_set_rate_hz.  The update event it generates counts as a
\* release.  A stream of these commands can hold the idle tick off for as long
\* as it lasts, so unfed starts over.
SetRate(p) ==
    /\ EndPoll
    /\ ~armed /\ p # period
    /\ silence' = 0 /\ unfed' = 0
    /\ period' = p /\ next' = p
    /\ started' = TRUE /\ pending' = TRUE
    /\ UNCHANGED armed

\* Bug: the idle tick is given whatever is left of the period.
Bug_EnoughLeft == ~pending /\ TimeToDeadline > 0

EnoughLeft == ~pending /\ TimeToDeadline >= Budget

\* Bug: twice the timeout is waited for.
Bug_StartIdle ==
    /\ pc = "decide" /\ EnoughLeft
    /\ unfed' = 0
    /\ armed' = (armed /\ silence <= 2 * Timeout)
    /\ pc' = "idle" /\ left' \in 0..IdleMax
    /\ UNCHANGED <<timerVars, silence>>

\* Bug: a silent link returns before the watchdog is refreshed.
Bug_StartIdleUnfed ==
    /\ pc = "decide" /\ EnoughLeft
    /\ unfed' = IF silence > Timeout THEN unfed ELSE 0
    /\ armed' = (armed /\ silence <= Timeout)
    /\ pc' = "idle" /\ left' \in 0..IdleMax
    /\ UNCHANGED <<timerVars, silence>>

\* app_idle_tick: debug_wdog_refresh and the link timeout, then the rest.
StartIdle ==
    /\ pc = "decide" /\ EnoughLeft
    /\ unfed' = 0
    /\ armed' = (armed /\ silence <= Timeout)
    /\ pc' = "idle" /\ left' \in 0..IdleMax
    /\ UNCHANGED <<timerVars, silence>>

Again ==
    /\ \/ pc = "decide" /\ ~EnoughLeft
       \/ pc = "idle" /\ left = 0
    /\ pc' = "top" /\ left' = 0
    /\ UNCHANGED <<timerVars, armed, silence, unfed>>

Next ==
    \/ Elapse
    \/ StartControl \/ StartPoll \/ Quiet \/ Frame \/ \E p \in Periods : SetRate(p)
    \/ StartIdle \/ Again

Spec == Init /\ [][Next]_vars

-----------------------------------------------------------------------------
(* Properties.                                                               *)

(* A released control tick starts before Latency is over: the idle tick      *)
(* cannot push it further, because it starts only with Budget left.          *)
ControlInTime == pending => period - next <= Latency

(* The documents promise that the robot disarms when no command comes within *)
(* APP_HEARTBEAT_TIMEOUT_MS; the loop notices one idle gap later at most.    *)
LinkLossInTime == armed => silence <= Timeout + Gap(period)

(* The watchdog is refreshed by the idle tick alone, and often enough, while *)
(* nobody keeps setting the control rate.                                    *)
WatchdogFed == unfed <= WatchdogMax
=============================================================================
