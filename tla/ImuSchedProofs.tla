--------------------------- MODULE ImuSchedProofs ---------------------------
(***************************************************************************)
(* Proofs for ImuSched, for any number of sensors: the SPI bus, the         *)
(* in-flight flags of the sensors and the record of the active transfer     *)
(* agree at every step of the thread and of the interrupts.                 *)
(***************************************************************************)
EXTENDS ImuSched, FiniteSetTheorems, TLAPS

\* What the thread may rely on where it is: it holds the scheduler's lock
\* while it records a transfer, nobody starts one while it looks for one or
\* aborts one, and a transfer it started is there or has ended.
Located ==
    /\ running <=> pc \in {"mark", "release"}
    /\ pc \in {"stop", "callback", "run"} => busy = Idle
    /\ pc \in {"stop", "callback", "mark"} => victim \in Sensors
    /\ pc = "mark" => busy \in {Idle, victim}

IInv == TypeOK /\ Located /\ TransferWatched /\ InflightOwnsBus

Machine == {"off", "on", "hung"}

LEMMA SensorFacts ==
    /\ Idle \notin Sensors /\ 0 \in Sensors
    /\ \A s \in Sensors : (s + 1) % N \in Sensors
    /\ Hardware \subseteq Machine
  BY SensorAssumption DEF Sensors, Hardware, Machine

\* What is in flight when the thread is not aborting a transfer.
LEMMA OwnTransfer ==
    ASSUME IInv, pc \notin {"stop", "callback"}
    PROVE  \A s \in Sensors : s \in inflight <=> busy = s
  BY DEF IInv, InflightOwnsBus

LEMMA InitInv ==
    ASSUME Init
    PROVE  IInv
  <1>1. TypeOK
    <2>1. cursor \in Sensors /\ failures \in 0..MaxFailures
      BY SensorFacts, SensorAssumption DEF Init
    <2>2. /\ timeoutOn \in BOOLEAN /\ overdue \in BOOLEAN /\ running \in BOOLEAN
          /\ pending \subseteq Sensors /\ rested \subseteq Sensors /\ inflight \subseteq Sensors
      BY DEF Init
    <2> QED
      BY <2>1, <2>2 DEF Init, TypeOK
  <1> QED
    BY <1>1, SensorFacts DEF Init, IInv, Located, TransferWatched, InflightOwnsBus

LEMMA FailuresCounted ==
    ASSUME NEW failed \in SUBSET Sensors
    PROVE  Cardinality(failed) \in Nat
  <1>1. IsFiniteSet(Sensors)
    BY FS_Interval, SensorAssumption DEF Sensors
  <1>2. IsFiniteSet(failed)
    BY <1>1, FS_Subset
  <1> QED
    BY <1>2, FS_CardinalityType

LEMMA FailuresLeft ==
    ASSUME NEW failed \in SUBSET Sensors, failures \in 0..MaxFailures,
           Cardinality(failed) <= failures, failures' = failures - Cardinality(failed)
    PROVE  failures' \in 0..MaxFailures
  <1>1. Cardinality(failed) \in Nat
    BY FailuresCounted
  <1> QED
    BY <1>1, SensorAssumption

\* A kick, in the thread or in an interrupt, gives the bus to one sensor.
LEMMA StartFacts ==
    ASSUME NEW s \in Sensors, NEW p \in SUBSET Sensors, NEW r, NEW fl,
           failures \in 0..MaxFailures, Start(s, p, r, fl)
    PROVE  /\ pending' \in SUBSET Sensors /\ failures' \in 0..MaxFailures
           /\ inflight' = fl \cup {s} /\ busy' = s /\ hw' \in Machine
  <1>1. PICK failed \in FailedBefore(s, p, p \cap r) :
            /\ Cardinality(failed \ fl) <= failures
            /\ failures' = failures - Cardinality(failed \ fl)
    BY DEF Start
  <1>2. failed \in SUBSET Sensors
    BY <1>1 DEF FailedBefore, Tried
  <1>3. failed \ fl \in SUBSET Sensors
    BY <1>2
  <1>4. failures' \in 0..MaxFailures
    BY <1>1, <1>3, FailuresLeft
  <1> QED
    BY <1>4, SensorFacts DEF Start

\* When every kick fails the bus stays idle.
LEMMA NoStartFacts ==
    ASSUME NEW p \in SUBSET Sensors, NEW fl, failures \in 0..MaxFailures, NoStart(p, fl)
    PROVE  /\ pending' = p /\ failures' \in 0..MaxFailures
           /\ inflight' = fl /\ busy' = Idle
  <1>1. p \ fl \in SUBSET Sensors
    OBVIOUS
  <1>2. failures' \in 0..MaxFailures
    BY <1>1, FailuresLeft DEF NoStart
  <1> QED
    BY <1>2 DEF NoStart

LEMMA TransferDoneInv ==
    ASSUME IInv, NEW ok \in BOOLEAN, TransferDone(ok)
    PROVE  IInv'
  <1> DEFINE s == busy
             p == IF ok THEN pending ELSE pending \cup {s}
             a == IF active = s THEN Idle ELSE active
             fl == inflight \ {s}
  <1>1. /\ s \in Sensors /\ p \in SUBSET Sensors /\ a \in Sensors \cup {Idle}
        /\ failures \in 0..MaxFailures
    BY DEF IInv, TypeOK, TransferDone
  <1>2. /\ UNCHANGED <<timeoutOn, running, pc, victim>>
        /\ rested' \in SUBSET Sensors
        /\ RunInInterrupt(p, rested', a, fl)
    BY DEF IInv, TypeOK, TransferDone
  <1>3. pc \in {"loop", "read", "abort", "mark", "release"}
    BY <1>1, SensorFacts DEF IInv, TypeOK, Located
  <1>4. fl = {}
    BY <1>1, <1>3, OwnTransfer DEF IInv, TypeOK
  <1>5. CASE \E t \in Sensors :
                 /\ ~running /\ Start(t, p, rested', fl)
                 /\ active' = t /\ overdue' = FALSE /\ cursor' = (t + 1) % N
    <2>1. PICK t \in Sensors :
                 /\ ~running /\ Start(t, p, rested', fl)
                 /\ active' = t /\ overdue' = FALSE /\ cursor' = (t + 1) % N
      BY <1>5
    <2>2. /\ pending' \in SUBSET Sensors /\ failures' \in 0..MaxFailures
          /\ inflight' = {t} /\ busy' = t /\ hw' \in Machine
      <3> HIDE DEF p, fl
      <3>1. /\ pending' \in SUBSET Sensors /\ failures' \in 0..MaxFailures
            /\ inflight' = fl \cup {t} /\ busy' = t /\ hw' \in Machine
        BY <1>1, <2>1, StartFacts
      <3> QED
        BY <1>4, <3>1
    <2>3. cursor' \in Sensors
      BY <2>1, SensorFacts
    <2>4. TypeOK'
      BY <1>2, <2>1, <2>2, <2>3, SensorFacts DEF IInv, TypeOK, Machine
    <2>5. pc \in {"loop", "read", "abort"}
      BY <1>3, <2>1 DEF IInv, Located
    <2>6. Located'
      BY <1>2, <2>5 DEF IInv, Located
    <2>7. TransferWatched' /\ InflightOwnsBus'
      BY <1>2, <2>1, <2>2, <2>5 DEF TransferWatched, InflightOwnsBus
    <2> QED
      BY <2>4, <2>6, <2>7 DEF IInv
  <1>6. CASE /\ ~running => NoStart(p, fl)
             /\ running => pending' = p /\ inflight' = fl /\ busy' = Idle /\ UNCHANGED failures
             /\ hw' = "off"
             /\ active' = a /\ UNCHANGED <<overdue, cursor>>
    <2>1. pending' = p /\ failures' \in 0..MaxFailures /\ inflight' = {} /\ busy' = Idle
      BY <1>1, <1>4, <1>6, NoStartFacts DEF IInv, TypeOK
    <2>2. TypeOK'
      BY <1>1, <1>2, <1>6, <2>1, SensorFacts DEF IInv, TypeOK
    <2>3. Located'
      BY <1>2, <1>3, <2>1 DEF IInv, Located
    <2>4. TransferWatched' /\ InflightOwnsBus'
      BY <1>2, <1>3, <2>1, SensorFacts DEF TransferWatched, InflightOwnsBus
    <2> QED
      BY <2>2, <2>3, <2>4 DEF IInv
  <1> QED
    BY <1>2, <1>5, <1>6 DEF RunInInterrupt

LEMMA RunInv ==
    ASSUME IInv, Run
    PROVE  IInv'
  <1>1. /\ pc = "run" /\ ~running /\ busy = Idle
        /\ failures \in 0..MaxFailures /\ pending \in SUBSET Sensors
        /\ UNCHANGED <<timeoutOn, rested, active, overdue, cursor>>
    BY DEF IInv, TypeOK, Located, Run
  <1>2. inflight = {}
    BY <1>1, OwnTransfer, SensorFacts DEF IInv, TypeOK
  <1>3. CASE \E s \in Sensors :
                 /\ Start(s, pending, rested, inflight)
                 /\ victim' = s /\ running' = TRUE /\ pc' = "mark"
    <2>1. PICK s \in Sensors :
                 /\ Start(s, pending, rested, inflight)
                 /\ victim' = s /\ running' = TRUE /\ pc' = "mark"
      BY <1>3
    <2>2. /\ pending' \in SUBSET Sensors /\ failures' \in 0..MaxFailures
          /\ inflight' = {s} /\ busy' = s /\ hw' \in Machine
      BY <1>1, <1>2, <2>1, StartFacts
    <2>3. TypeOK'
      BY <1>1, <2>1, <2>2, SensorFacts DEF IInv, TypeOK, Machine
    <2>4. Located' /\ TransferWatched' /\ InflightOwnsBus'
      BY <2>1, <2>2 DEF Located, TransferWatched, InflightOwnsBus
    <2> QED
      BY <2>3, <2>4 DEF IInv
  <1>4. CASE /\ NoStart(pending, inflight)
             /\ pc' = "loop" /\ UNCHANGED <<hw, victim, running>>
    <2>1. pending' = pending /\ failures' \in 0..MaxFailures /\ inflight' = {} /\ busy' = Idle
      BY <1>1, <1>2, <1>4, NoStartFacts
    <2>2. TypeOK'
      BY <1>1, <1>4, <2>1, SensorFacts DEF IInv, TypeOK
    <2>3. Located' /\ TransferWatched' /\ InflightOwnsBus'
      BY <1>1, <1>4, <2>1, SensorFacts DEF Located, TransferWatched, InflightOwnsBus
    <2> QED
      BY <2>2, <2>3 DEF IInv
  <1> QED
    BY <1>3, <1>4 DEF Run

\* The steps that start and end no transfer.
LEMMA QuietInv ==
    ASSUME IInv,
           \/ \E s \in Sensors : Request(s) \/ Rest(s)
           \/ LateDone \/ Overdue \/ LookAtBus \/ CheckTimeout \/ RunNothing \/ Release
    PROVE  IInv'
  <1>1. CASE \E s \in Sensors : Request(s) \/ Rest(s)
    <2>1. PICK s \in Sensors : Request(s) \/ Rest(s)
      BY <1>1
    <2>2. CASE Request(s)
      BY <2>2 DEF Request, busVars, IInv, TypeOK, Located, TransferWatched, InflightOwnsBus
    <2>3. CASE Rest(s)
      BY <2>3 DEF Rest, busVars, IInv, TypeOK, Located, TransferWatched, InflightOwnsBus
    <2> QED
      BY <2>1, <2>2, <2>3
  <1>2. CASE LateDone
    BY <1>2 DEF LateDone, schedVars, IInv, TypeOK, Located, TransferWatched, InflightOwnsBus
  <1>3. CASE Overdue
    BY <1>3 DEF Overdue, busVars, IInv, TypeOK, Located, TransferWatched, InflightOwnsBus
  <1>4. CASE LookAtBus
    BY <1>4 DEF LookAtBus, Goto, schedVars, busVars, IInv, TypeOK, Located, TransferWatched,
                InflightOwnsBus
  <1>5. CASE CheckTimeout
    BY <1>5 DEF CheckTimeout, Goto, schedVars, busVars, IInv, TypeOK, Located, TransferWatched,
                InflightOwnsBus
  <1>6. CASE RunNothing
    BY <1>6 DEF RunNothing, Goto, schedVars, busVars, IInv, TypeOK, Located, TransferWatched,
                InflightOwnsBus
  <1>7. CASE Release
    BY <1>7 DEF Release, Goto, busVars, IInv, TypeOK, Located, TransferWatched, InflightOwnsBus
  <1> QED
    BY <1>1, <1>2, <1>3, <1>4, <1>5, <1>6, <1>7

\* The steps of an abort, and the record of a transfer just started.
LEMMA AbortInv ==
    ASSUME IInv, TakeAway \/ StopHardware \/ TellVictim \/ Mark
    PROVE  IInv'
  <1>1. CASE TakeAway
    <2>1. TypeOK'
      BY <1>1 DEF TakeAway, Goto, schedVars, IInv, TypeOK
    <2>2. Located'
      BY <1>1, SensorFacts DEF TakeAway, Goto, schedVars, IInv, TypeOK, Located
    <2>3. TransferWatched' /\ InflightOwnsBus'
      BY <1>1, SensorFacts DEF TakeAway, Goto, schedVars, IInv, TypeOK, Located, TransferWatched,
                               InflightOwnsBus
    <2> QED
      BY <2>1, <2>2, <2>3 DEF IInv
  <1>2. CASE StopHardware
    BY <1>2 DEF StopHardware, Goto, schedVars, IInv, TypeOK, Located, TransferWatched,
                InflightOwnsBus
  <1>3. CASE TellVictim
    <2>1. TypeOK'
      BY <1>3 DEF TellVictim, Goto, IInv, TypeOK, Located
    <2>2. Located'
      BY <1>3 DEF TellVictim, Goto, IInv, Located
    <2>3. TransferWatched' /\ InflightOwnsBus'
      BY <1>3, SensorFacts DEF TellVictim, Goto, IInv, Located, TransferWatched, InflightOwnsBus
    <2> QED
      BY <2>1, <2>2, <2>3 DEF IInv
  <1>4. CASE Mark
    <2>1. TypeOK'
      BY <1>4, SensorFacts DEF Mark, Goto, busVars, IInv, TypeOK, Located
    <2>2. Located' /\ TransferWatched' /\ InflightOwnsBus'
      BY <1>4 DEF Mark, Goto, busVars, IInv, Located, TransferWatched, InflightOwnsBus
    <2> QED
      BY <2>1, <2>2 DEF IInv
  <1> QED
    BY <1>1, <1>2, <1>3, <1>4

LEMMA NextInv ==
    ASSUME IInv, [Next]_vars
    PROVE  IInv'
  <1>1. CASE \E ok \in BOOLEAN : TransferDone(ok)
    BY <1>1, TransferDoneInv
  <1>2. CASE Run
    BY <1>2, RunInv
  <1>3. CASE \/ \E s \in Sensors : Request(s) \/ Rest(s)
             \/ LateDone \/ Overdue \/ LookAtBus \/ CheckTimeout \/ RunNothing \/ Release
    BY <1>3, QuietInv
  <1>4. CASE TakeAway \/ StopHardware \/ TellVictim \/ Mark
    BY <1>4, AbortInv
  <1>5. CASE UNCHANGED vars
    BY <1>5 DEF vars, schedVars, busVars, IInv, TypeOK, Located, TransferWatched, InflightOwnsBus
  <1> QED
    BY <1>1, <1>2, <1>3, <1>4, <1>5 DEF Next, Thread, Interrupt

(* The bus, the in-flight flags, the lock and the record of the active       *)
(* transfer agree, wherever the interrupts fall (imu_sched_run,              *)
(* imu_sched_tick, spi_bus_finish, spi_bus_abort).                           *)
THEOREM Invariance == Spec => []IInv
  <1>1. Init => IInv
    BY InitInv
  <1>2. IInv /\ [Next]_vars => IInv'
    BY NextInv
  <1> QED
    BY <1>1, <1>2, PTL DEF Spec

(* The transfer on the bus is the one whose timeout is watched, but for the  *)
(* moment in which the thread is about to record it (imu_sched_run).         *)
THEOREM ActiveIsWatched == Spec => []TransferWatched
  BY Invariance, PTL DEF IInv

(* A sensor's s_dma_inflight is set exactly while the bus is its own or its  *)
(* abort has yet to be reported to it (spi_bus_abort).                       *)
THEOREM FlagsOwnBus == Spec => []InflightOwnsBus
  BY Invariance, PTL DEF IInv
=============================================================================
