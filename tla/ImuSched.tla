------------------------------ MODULE ImuSched ------------------------------
(***************************************************************************)
(* The three IMU sensors share one SPI bus: the scheduler (imu_sched.c),    *)
(* the bus it owns (spi_bus.c, imu_bus_sched.c) and the sensors' kick and   *)
(* DMA-done handlers (imu_bmi270.c, imu_icm42688.c, imu_bmm150.c).          *)
(*                                                                          *)
(* A data-ready interrupt only marks its sensor pending.  The SPI interrupt *)
(* finishes a transfer and, through spi_bus_idle_hook, runs the scheduler   *)
(* again; the super-loop's imu_sched_tick runs it too and may abort a       *)
(* transfer.  All these interrupts have the same priority, so an interrupt  *)
(* is one action; the thread is a sequence of steps they fall between.      *)
(*                                                                          *)
(* Times are modelled by what the code asks of them: rested holds the       *)
(* sensors whose min_interval is over, overdue says that the transfer in    *)
(* s_active_sensor started longer than its timeout ago.                     *)
(***************************************************************************)
EXTENDS Integers, FiniteSets

CONSTANTS N,             \* IMU_SCHED_SENSOR_COUNT
          Idle,          \* -1: no sensor
          MaxFailures    \* bound: how often a kick may fail to start its transfer

ASSUME SensorAssumption == N \in Nat \ {0} /\ Idle \notin 0..N - 1 /\ MaxFailures \in Nat

Sensors == 0..N - 1

VARIABLES
    timeoutOn,   \* s_timeout_ms is not 0; it is 0 in the shipped configuration
    pending,     \* s_pending_mask
    rested,      \* sensors last served at least min_interval ago
    inflight,    \* the sensors' s_dma_inflight
    busy,        \* s_bus.busy and s_bus.active_dev
    hw,          \* the SPI and its DMA: "off", "on", or "hung" for ever
    active,      \* s_active_sensor
    overdue,     \* now - s_active_start_ms has reached the timeout
    cursor,      \* s_rr_cursor
    running,     \* s_running
    pc,          \* where the thread is
    victim,      \* thread: the sensor it has started or is aborting
    failures     \* failed starts left

schedVars == <<pending, rested, active, overdue, cursor, running>>
busVars == <<inflight, busy, hw>>
vars == <<timeoutOn, schedVars, busVars, pc, victim, failures>>

TypeOK ==
    /\ timeoutOn \in BOOLEAN /\ overdue \in BOOLEAN /\ running \in BOOLEAN
    /\ pending \subseteq Sensors /\ rested \subseteq Sensors /\ inflight \subseteq Sensors
    /\ {busy, active, victim} \subseteq Sensors \cup {Idle}
    /\ hw \in {"off", "on", "hung"} /\ (busy = Idle => hw # "on" \/ pc = "stop")
    /\ cursor \in Sensors
    /\ pc \in {"loop", "read", "abort", "stop", "callback", "run", "mark", "release"}
    /\ failures \in 0..MaxFailures

\* app_imu_init has requested every sensor and not yet run the scheduler.
Init ==
    /\ timeoutOn \in BOOLEAN
    /\ pending = Sensors /\ rested \in SUBSET Sensors
    /\ inflight = {} /\ busy = Idle /\ hw = "off"
    /\ active = Idle /\ overdue = FALSE /\ cursor = 0 /\ running = FALSE
    /\ pc = "run" /\ victim = Idle
    /\ failures = MaxFailures

-----------------------------------------------------------------------------
(* Choosing and starting a transfer.                                         *)

\* imu_sched_pick_rr: how far s is from the cursor.
Distance(s) == (s + N - cursor) % N

\* Bug: the round robin starts at sensor 0 every time.
Bug_Tried(s, eligible) == {e \in eligible : e < s}

\* The eligible sensors tried before s.
Tried(s, eligible) == {e \in eligible : Distance(e) < Distance(s)}

\* The sets of sensors whose kick fails before the kick of s succeeds:
\* eligible sensors in round robin, then the other pending ones, the oldest
\* request first (requests of the same millisecond are common, so any order).
FailedBefore(s, p, eligible) ==
    IF s \in eligible THEN {Tried(s, eligible)}
    ELSE {eligible \cup others : others \in SUBSET (p \ (eligible \cup {s}))}

\* A transfer may hang when the timeouts that end it are configured.
Hardware == IF timeoutOn THEN {"on", "hung"} ELSE {"on"}

\* kick, with the start of the DMA: p is the pending mask it runs on, and fl
\* what is in flight.
Start(s, p, r, fl) ==
    /\ s \in p \ fl
    /\ \E failed \in FailedBefore(s, p, p \cap r) :
           /\ Cardinality(failed \ fl) <= failures
           /\ failures' = failures - Cardinality(failed \ fl)
    /\ pending' = p \ {s}
    /\ inflight' = fl \cup {s} /\ busy' = s /\ hw' \in Hardware

\* Every kick fails; the sensors are marked pending again.
NoStart(p, fl) ==
    /\ Cardinality(p \ fl) <= failures
    /\ failures' = failures - Cardinality(p \ fl)
    /\ pending' = p
    /\ inflight' = fl /\ busy' = Idle

-----------------------------------------------------------------------------
(* Interrupts.                                                               *)

\* EXTI: imu_sched_request
Request(s) ==
    /\ pending' = pending \cup {s}
    /\ UNCHANGED <<timeoutOn, rested, active, overdue, cursor, running, busVars, pc, victim,
                   failures>>

\* imu_sched_run from spi_bus_idle_hook; in an interrupt it takes one step.
RunInInterrupt(p, r, a, fl) ==
    \/ \E s \in Sensors :
           /\ ~running
           /\ Start(s, p, r, fl)
           /\ active' = s /\ overdue' = FALSE /\ cursor' = (s + 1) % N
    \/ /\ ~running => NoStart(p, fl)
       /\ running => pending' = p /\ inflight' = fl /\ busy' = Idle /\ UNCHANGED failures
       /\ hw' = "off"
       /\ active' = a /\ UNCHANGED <<overdue, cursor>>

\* spi_bus_finish: the sensor's DMA-done handler and imu_sched_on_dma_done,
\* then the idle hook.
TransferDone(ok) ==
    LET s == busy
    IN  /\ hw = "on" /\ busy # Idle
        /\ rested' = rested \ {s}
        /\ RunInInterrupt(IF ok THEN pending ELSE pending \cup {s}, rested',
                          IF active = s THEN Idle ELSE active, inflight \ {s})
        /\ UNCHANGED <<timeoutOn, running, pc, victim>>

\* A completion after the thread took the transfer away: ignored.
LateDone ==
    /\ hw = "on" /\ busy = Idle
    /\ hw' = "off"
    /\ UNCHANGED <<timeoutOn, schedVars, inflight, busy, pc, victim, failures>>

\* Time goes by.
Rest(s) ==
    /\ s \notin rested
    /\ rested' = rested \cup {s}
    /\ UNCHANGED <<timeoutOn, pending, active, overdue, cursor, running, busVars, pc, victim,
                   failures>>

Overdue ==
    /\ ~overdue /\ active # Idle
    /\ overdue' = TRUE
    /\ UNCHANGED <<timeoutOn, pending, rested, active, cursor, running, busVars, pc, victim,
                   failures>>

-----------------------------------------------------------------------------
(* The thread: imu_sched_tick.                                               *)

Goto(label) == pc' = label /\ UNCHANGED <<timeoutOn, failures>>

LookAtBus ==
    /\ pc = "loop"
    /\ Goto(IF busy = Idle THEN "run" ELSE "read")
    /\ UNCHANGED <<schedVars, busVars, victim>>

CheckTimeout ==
    /\ pc = "read"
    /\ Goto(IF active # Idle /\ timeoutOn /\ overdue THEN "abort" ELSE "loop")
    /\ UNCHANGED <<schedVars, busVars, victim>>

\* spi_bus_abort: whatever transfer is there now.
TakeAway ==
    /\ pc = "abort"
    /\ Goto(IF busy = Idle THEN "run" ELSE "stop")
    /\ victim' = busy /\ busy' = Idle
    /\ UNCHANGED <<schedVars, inflight, hw>>

\* Bug: the transfer is forgotten, not stopped.
Bug_StopHardware ==
    /\ pc = "stop"
    /\ Goto("callback")
    /\ UNCHANGED <<schedVars, busVars, victim>>

StopHardware ==
    /\ pc = "stop"
    /\ hw' = "off"
    /\ Goto("callback")
    /\ UNCHANGED <<schedVars, inflight, busy, victim>>

\* Bug: the sensor keeps its s_dma_inflight flag.
Bug_TellVictim ==
    /\ pc = "callback"
    /\ rested' = rested \ {victim} /\ pending' = pending \cup {victim}
    /\ active' = IF active = victim THEN Idle ELSE active
    /\ Goto("run")
    /\ UNCHANGED <<overdue, cursor, running, inflight, busy, hw, victim>>

TellVictim ==
    /\ pc = "callback"
    /\ inflight' = inflight \ {victim}
    /\ rested' = rested \ {victim} /\ pending' = pending \cup {victim}
    /\ active' = IF active = victim THEN Idle ELSE active
    /\ Goto("run")
    /\ UNCHANGED <<overdue, cursor, running, busy, hw, victim>>

\* imu_sched_run.  Until it starts a transfer the bus is idle, and data-ready
\* interrupts only add to the pending mask, so this part is one step.
Run ==
    /\ pc = "run" /\ ~running /\ pending # {}
    /\ \/ \E s \in Sensors :
              /\ Start(s, pending, rested, inflight)
              /\ victim' = s /\ running' = TRUE /\ pc' = "mark"
       \/ /\ NoStart(pending, inflight)
          /\ pc' = "loop" /\ UNCHANGED <<hw, victim, running>>
    /\ UNCHANGED <<timeoutOn, rested, active, overdue, cursor>>

\* Nothing is pending, or an interrupt came between LDREX and STREX.
RunNothing ==
    /\ pc = "run"
    /\ Goto("loop")
    /\ UNCHANGED <<schedVars, busVars, victim>>

\* Bug: s_active_sensor is set only if none is.
Bug_Mark ==
    /\ pc = "mark"
    /\ active' = IF active = Idle THEN victim ELSE active
    /\ overdue' = FALSE /\ cursor' = (victim + 1) % N
    /\ Goto("release")
    /\ UNCHANGED <<pending, rested, running, busVars, victim>>

\* The transfer may be over by now: the interrupt that ended it found active
\* unset, and s_running set.
Mark ==
    /\ pc = "mark"
    /\ active' = victim /\ overdue' = FALSE /\ cursor' = (victim + 1) % N
    /\ Goto("release")
    /\ UNCHANGED <<pending, rested, running, busVars, victim>>

Release ==
    /\ pc = "release"
    /\ running' = FALSE
    /\ Goto("loop")
    /\ UNCHANGED <<pending, rested, active, overdue, cursor, busVars, victim>>

Thread ==
    \/ LookAtBus \/ CheckTimeout \/ TakeAway \/ StopHardware \/ TellVictim
    \/ Run \/ RunNothing \/ Mark \/ Release

Interrupt ==
    \/ \E s \in Sensors : Request(s)
    \/ \E ok \in BOOLEAN : TransferDone(ok)
    \/ LateDone

Next == Thread \/ Interrupt \/ Overdue \/ \E s \in Sensors : Rest(s)

\* The super-loop keeps calling imu_sched_tick, transfers that do not hang
\* end, time passes, and not every imu_sched_run of the thread is interrupted
\* between its LDREX and its STREX.
Fairness ==
    /\ WF_vars(Thread) /\ SF_vars(Run)
    /\ WF_vars(\E ok \in BOOLEAN : TransferDone(ok))
    /\ WF_vars(Overdue) /\ \A s \in Sensors : WF_vars(Rest(s))

Spec == Init /\ [][Next]_vars /\ Fairness

-----------------------------------------------------------------------------
(* Properties.                                                               *)

(* The timeout watches the transfer that is on the bus: s_active_sensor      *)
(* names it whenever the thread is not just about to write it, although the  *)
(* SPI interrupt starts transfers too and may end one before it is recorded. *)
TransferWatched == busy # Idle => active = busy \/ (pc = "mark" /\ victim = busy)

(* A sensor is in flight exactly while the bus is its own, or while the      *)
(* thread that aborts its transfer has yet to tell it.                       *)
InflightOwnsBus ==
    \A s \in Sensors :
        s \in inflight <=> busy = s \/ (pc \in {"stop", "callback"} /\ victim = s)

(* No sensor starves: one that is pending gets the bus, however often the    *)
(* others ask for it and fail.                                               *)
NoStarvation == \A s \in Sensors : s \in pending ~> busy = s

(* A transfer that hangs is ended, when the timeouts are configured.         *)
HungTransferEnds == hw = "hung" ~> hw # "hung"
=============================================================================
