-------------------------- MODULE HipControlProofs --------------------------
(***************************************************************************)
(* Proofs for HipControl, for any number of hips and any timeouts that      *)
(* HipAssumption allows: hips are commanded only in time after the robot    *)
(* balanced, on a live bus, from fresh encoders, and while heartbeats come. *)
(***************************************************************************)
EXTENDS HipControl, TLAPS

\* The tick has judged this stamp of hip h, or will take it for invalid.
Judged(h, fault) ==
    \/ at \in {"idle", "store"}
    \/ at \in {"judge", "mark"} /\ h < hip
    \/ at = "mark" /\ h = hip /\ fault \notin expired

\* How old a report may be that counts as valid.  During start-up nothing is
\* judged, but it does not take long enough for a report to grow old.
Recent(h, age, fault) ==
    /\ age >= 0
    /\ startup = 0 => age <= loopAge
    /\ startup = 1 => age <= LoopMax + startAge + (IF startAge = StartWait THEN loopAge ELSE 0)
    /\ startup = 2 => /\ age <= Timeout + LoopMax + loopAge
                      /\ Judged(h, fault) => age <= Timeout + loopAge

HeartbeatsRecent ==
    \A h \in Hip : heartbeat[h].valid => Recent(h, heartbeat[h].age, "heartbeat")

EncodersRecent ==
    \A h \in Hip : encoder[h].valid => Recent(h, encoder[h].age, "encoder")

\* During start-up nothing else happens; the loops begin at the first hip.
Started ==
    /\ startup # 2 => at = "idle"
    /\ at \in {"idle", "check", "read", "store"} => hip = 1

\* A loop over the hips that is under way began on a live bus.
BusHeld ==
    /\ offBefore => busOff
    /\ at = "send" => ~offBefore

\* s_target.enabled is as old as the last coordination; the one of boot is
\* renewed by the first tick.
EnabledRecent ==
    /\ startup = 0 => coordAge = CoordPeriod
    /\ startup # 0 /\ enabled /\ ~balancing =>
          offFor <= coordAge + (IF coordAge = CoordPeriod THEN loopAge ELSE 0)
    /\ at = "send" /\ ~balancing => offFor <= CoordPeriod + loopAge

Answering == \E h \in Hip : heartbeat[h].valid

HeardOf == \E h \in Hip : heartbeat[h].age # Never

\* Once no heartbeat counts as valid, the fault is set, or about to be.
LossNoted ==
    /\ at \in {"judge", "mark", "store"} => faults \subseteq copy
    /\ at = "mark" => expired \subseteq copy
    /\ HeardOf => \/ Answering
                  \/ "heartbeat" \in faults
                  \/ at \in {"judge", "mark", "store"} /\ "heartbeat" \in copy
    /\ at = "send" /\ HeardOf => Answering

Safe == CommandsFollowMode /\ BusOffSilences /\ CommandsOnFreshEncoder /\ HeartbeatLossStops

IInv ==
    /\ TypeOK /\ Started /\ BusHeld /\ EnabledRecent
    /\ HeartbeatsRecent /\ EncodersRecent /\ LossNoted
    /\ Safe

LEMMA Constants ==
    /\ Hips \in Nat /\ Hips >= 1 /\ Timeout \in Nat /\ CmdPeriod \in Nat /\ CoordPeriod \in Nat
    /\ StartWait \in Nat /\ LoopMax \in Nat /\ LoopMax >= 1
    /\ StartWait + 2 * LoopMax <= Timeout
    /\ Stale \in Nat /\ Stale = Timeout + 2 * LoopMax
    /\ OffMax \in Nat /\ OffMax = CoordPeriod + 2 * LoopMax
    /\ Hip \subseteq Nat /\ 1 \in Hip /\ Never = -1
    /\ \A h \in Hip : 1 <= h /\ h <= Hips /\ h # 0
    /\ \A h \in Hip : h # Hips => h + 1 \in Hip
  BY HipAssumption DEF Stale, OffMax, Hip, Never

LEMMA Types ==
    ASSUME TypeOK
    PROVE  /\ loopAge \in Nat /\ loopAge <= LoopMax /\ startup \in 0..2
           /\ startAge \in Nat /\ startAge <= StartWait
           /\ coordAge \in Nat /\ coordAge <= CoordPeriod
           /\ offFor \in Nat /\ offFor <= OffMax + 1
           /\ hip \in Hip /\ hip \in Nat /\ hip <= Hips
           /\ \A h \in Hip : /\ heartbeat[h].age \in Int /\ encoder[h].age \in Int
                             /\ heartbeat[h].valid \in BOOLEAN /\ encoder[h].valid \in BOOLEAN
  BY Constants DEF TypeOK, Reports

\* Without a command nothing can be wrong with one.
LEMMA NoCommand ==
    ASSUME frame' = 0
    PROVE  Safe'
  BY DEF Safe, CommandsFollowMode, BusOffSilences, CommandsOnFreshEncoder, HeartbeatLossStops

LEMMA InitInv ==
    ASSUME Init
    PROVE  IInv
  <1>1. TypeOK
    <2>1. Silent \in [Hip -> Reports]
      BY DEF Silent, Reports
    <2>2. /\ offFor \in 0..OffMax + 1 /\ hip \in Hip /\ loopAge \in 0..LoopMax
          /\ startup \in 0..2 /\ startAge \in 0..StartWait
          /\ cmdAge \in 0..CmdPeriod /\ coordAge \in 0..CoordPeriod
      BY Constants DEF Init
    <2>3. /\ balancing \in BOOLEAN /\ enabled \in BOOLEAN /\ busOff \in BOOLEAN
          /\ offBefore \in BOOLEAN
      BY DEF Init
    <2> QED
      BY <2>1, <2>2, <2>3 DEF Init, TypeOK, Places
  <1>2. \A h \in Hip : /\ heartbeat[h] = [valid |-> FALSE, age |-> Never]
                       /\ encoder[h] = [valid |-> FALSE, age |-> Never]
    BY DEF Init, Silent
  <1>3. Started /\ BusHeld /\ EnabledRecent
    BY Constants DEF Init, Started, BusHeld, EnabledRecent
  <1>4. HeartbeatsRecent /\ EncodersRecent /\ LossNoted
    BY <1>2 DEF Init, HeartbeatsRecent, EncodersRecent, LossNoted, HeardOf
  <1>5. Safe
    BY DEF Init, Safe, CommandsFollowMode, BusOffSilences, CommandsOnFreshEncoder,
           HeartbeatLossStops
  <1> QED
    BY <1>1, <1>3, <1>4, <1>5 DEF IInv

-----------------------------------------------------------------------------
(* The tick.                                                                 *)

LEMMA TickStartInv ==
    ASSUME IInv, TickStart
    PROVE  IInv'
  <1>1. /\ at = "idle" /\ loopAge' = 0 /\ frame' = 0
        /\ UNCHANGED <<balancing, offFor, busOff, offBefore, faults, heartbeat, encoder>>
        /\ UNCHANGED <<hip, copy, expired>>
        /\ at' \in {"idle", "check", "read"}
    BY DEF TickStart, StartUp, Command, hipVars, tickVars
  <1>2. /\ startup' \in 0..2 /\ startAge' \in 0..StartWait /\ startup' # 0
        /\ startup' = 2 /\ startup # 2 => startAge = StartWait /\ startup = 1 /\ at' = "idle"
        /\ startup' = 1 => at' = "idle"
        /\ startup' = 1 /\ startup = 1 => startAge' = startAge /\ startAge < StartWait
        /\ startup' = 1 /\ startup = 0 => startAge' = 0
        /\ startup = 2 => startup' = 2 /\ at' \in {"check", "read"}
    BY <1>1, Types, Constants DEF IInv, TickStart, StartUp, Command, tickVars
  <1>3. TypeOK'
    <2>1. cmdAge' \in 0..CmdPeriod
      BY Constants DEF IInv, TypeOK, TickStart, StartUp, Command
    <2>2. coordAge' \in 0..CoordPeriod
      BY Constants DEF IInv, TypeOK, TickStart, Coordinate
    <2>3. enabled' \in BOOLEAN
      BY DEF IInv, TypeOK, TickStart, Coordinate
    <2> QED
      BY <1>1, <1>2, <2>1, <2>2, <2>3, Constants DEF IInv, TypeOK, Places
  <1>4. Started' /\ BusHeld'
    BY <1>1, <1>2 DEF IInv, Started, BusHeld
  <1>5. EnabledRecent'
    <2>1. CASE coordAge = CoordPeriod
      <3>1. enabled' = balancing
        BY <2>1 DEF TickStart, Coordinate
      <3> QED
        BY <1>1, <1>2, <3>1 DEF EnabledRecent
    <2>2. CASE coordAge # CoordPeriod
      <3>1. enabled' = enabled /\ coordAge' = coordAge /\ startup # 0
        BY <2>2 DEF TickStart, Coordinate, IInv, EnabledRecent
      <3> QED
        BY <1>1, <1>2, <2>2, <3>1, Types DEF IInv, EnabledRecent
    <2> QED
      BY <2>1, <2>2
  <1>6. ASSUME NEW h \in Hip, NEW age \in Int, NEW fault, Recent(h, age, fault)
        PROVE  /\ age >= 0
               /\ startup' = 1 => age <= LoopMax + startAge'
               /\ startup' = 2 => age <= Timeout + LoopMax
               /\ startup' = 2 /\ at' = "idle" => age <= Timeout
    <2>1. CASE startup = 0
      <3>1. startup' = 1 /\ startAge' = 0
        BY <1>2, <2>1
      <3>2. age >= 0 /\ age <= LoopMax
        BY <1>6, <2>1, Types, Constants DEF IInv, Recent
      <3> QED
        BY <3>1, <3>2, Constants
    <2>2. CASE startup = 1
      <3>1. age >= 0 /\ age <= LoopMax + startAge + (IF startAge = StartWait THEN loopAge ELSE 0)
        BY <1>6, <2>2 DEF Recent
      <3>2. startup' = 1 => startAge' = startAge /\ age <= LoopMax + startAge
        BY <1>2, <2>2, <3>1, Types, Constants DEF IInv
      <3>3. startup' = 2 => age <= Timeout
        BY <1>2, <2>2, <3>1, Types, Constants DEF IInv
      <3> QED
        BY <3>1, <3>2, <3>3, Constants
    <2>3. CASE startup = 2
      BY <1>1, <1>2, <1>6, <2>3, Types, Constants DEF IInv, Recent, Judged
    <2> QED
      BY <2>1, <2>2, <2>3, Types DEF IInv
  <1>7. HeartbeatsRecent'
    BY <1>1, <1>2, <1>6, Types, Constants DEF IInv, HeartbeatsRecent, Recent, Judged
  <1>8. EncodersRecent'
    BY <1>1, <1>2, <1>6, Types, Constants DEF IInv, EncodersRecent, Recent, Judged
  <1>9. LossNoted'
    BY <1>1 DEF IInv, LossNoted, HeardOf, Answering
  <1> QED
    BY <1>1, <1>3, <1>4, <1>5, <1>7, <1>8, <1>9, NoCommand DEF IInv

\* The steps of a tick keep these.
KeptVars == <<balancing, offFor, loopAge, startup, startAge, cmdAge, coordAge, enabled,
              busOff, offBefore>>

LEMMA CheckInv ==
    ASSUME IInv, Check
    PROVE  IInv'
  <1>1. /\ at = "check" /\ frame' = 0 /\ UNCHANGED KeptVars
        /\ UNCHANGED <<hip, copy, expired, faults, heartbeat, encoder>>
        /\ at' \in {"send", "read"}
        /\ at' = "send" => ~busOff /\ enabled /\ faults = {}
    BY DEF Check, MayCommand, Kept, targetVars, hipVars, KeptVars
  <1>2. TypeOK'
    BY <1>1 DEF IInv, TypeOK, Places, KeptVars
  <1>3. Started' /\ BusHeld'
    BY <1>1 DEF IInv, Started, BusHeld, KeptVars
  <1>4. EnabledRecent'
    BY <1>1, Types, Constants DEF IInv, Started, EnabledRecent, KeptVars
  <1>5. HeartbeatsRecent' /\ EncodersRecent'
    BY <1>1 DEF IInv, HeartbeatsRecent, EncodersRecent, Recent, Judged, KeptVars
  <1>6. LossNoted'
    BY <1>1 DEF IInv, LossNoted, HeardOf, Answering
  <1> QED
    BY <1>1, <1>2, <1>3, <1>4, <1>5, <1>6, NoCommand DEF IInv

LEMMA NextHipFacts ==
    ASSUME IInv, NEW again, NEW place, NextHip(again, place)
    PROVE  /\ hip' \in Hip
           /\ \/ hip = Hips /\ at' = place /\ hip' = 1
              \/ hip # Hips /\ at' = again /\ hip' = hip + 1
  BY Types, Constants DEF IInv, NextHip

LEMMA SendInv ==
    ASSUME IInv, Send
    PROVE  IInv'
  <1>1. /\ at = "send" /\ UNCHANGED KeptVars
        /\ UNCHANGED <<copy, expired, faults, heartbeat, encoder>>
        /\ at' \in {"send", "read"} /\ hip' \in Hip /\ (at' = "read" => hip' = 1)
    BY NextHipFacts DEF Send, Kept, targetVars, hipVars, KeptVars
  <1>2. \/ frame' = 0
        \/ frame' = hip /\ hip \in Hip /\ encoder[hip].valid
    BY Types DEF IInv, Send
  <1>3. TypeOK'
    BY <1>1, <1>2 DEF IInv, TypeOK, Places, KeptVars
  <1>4. Started' /\ BusHeld' /\ EnabledRecent'
    BY <1>1 DEF IInv, Started, BusHeld, EnabledRecent, KeptVars
  <1>5. HeartbeatsRecent' /\ EncodersRecent'
    BY <1>1 DEF IInv, HeartbeatsRecent, EncodersRecent, Recent, Judged, KeptVars
  <1>6. LossNoted'
    BY <1>1 DEF IInv, LossNoted, HeardOf, Answering
  <1>7. Safe'
    <2>1. CASE frame' = 0
      BY <2>1, NoCommand
    <2>2. CASE frame' = hip /\ hip \in Hip /\ encoder[hip].valid
      <3>1. startup = 2
        BY <1>1 DEF IInv, Started
      <3>2. CommandsFollowMode'
        BY <1>1, Types, Constants DEF IInv, EnabledRecent, CommandsFollowMode, KeptVars
      <3>3. BusOffSilences'
        BY <1>1 DEF IInv, BusHeld, BusOffSilences, KeptVars
      <3>4. CommandsOnFreshEncoder'
        BY <1>1, <2>2, <3>1, Types, Constants DEF IInv, EncodersRecent, Recent,
           CommandsOnFreshEncoder, KeptVars
      <3>5. HeartbeatLossStops'
        <4>1. ASSUME NEW h \in Hip, heartbeat[h].valid
              PROVE  heartbeat[h].age # Never /\ heartbeat[h].age <= Stale
          BY <3>1, <4>1, Types, Constants DEF IInv, HeartbeatsRecent, Recent
        <4>2. HeardOf => \E h \in Hip : heartbeat[h].valid
          BY <1>1 DEF IInv, LossNoted, Answering
        <4> QED
          BY <1>1, <4>1, <4>2 DEF HeartbeatLossStops, HeardOf
      <3> QED
        BY <3>2, <3>3, <3>4, <3>5 DEF Safe
    <2> QED
      BY <1>2, <2>1, <2>2
  <1> QED
    BY <1>3, <1>4, <1>5, <1>6, <1>7 DEF IInv

LEMMA ReadInv ==
    ASSUME IInv, Read
    PROVE  IInv'
  <1>1. /\ at = "read" /\ at' = "judge" /\ copy' = faults /\ frame' = 0 /\ UNCHANGED KeptVars
        /\ UNCHANGED <<hip, expired, faults, heartbeat, encoder>>
    BY DEF Read, Kept, targetVars, hipVars, KeptVars
  <1>2. TypeOK'
    BY <1>1 DEF IInv, TypeOK, Places, KeptVars
  <1>3. Started' /\ BusHeld' /\ EnabledRecent'
    BY <1>1 DEF IInv, Started, BusHeld, EnabledRecent, KeptVars
  <1>4. hip = 1 /\ \A h \in Hip : ~ (h < hip)
    BY <1>1, Constants DEF IInv, Started
  <1>5. HeartbeatsRecent' /\ EncodersRecent'
    BY <1>1, <1>4 DEF IInv, HeartbeatsRecent, EncodersRecent, Recent, Judged, KeptVars
  <1>6. LossNoted'
    BY <1>1 DEF IInv, LossNoted, HeardOf, Answering
  <1> QED
    BY <1>1, <1>2, <1>3, <1>5, <1>6, NoCommand DEF IInv

LEMMA JudgeInv ==
    ASSUME IInv, Judge
    PROVE  IInv'
  <1>1. /\ at = "judge" /\ at' = "mark" /\ frame' = 0 /\ UNCHANGED KeptVars
        /\ UNCHANGED <<hip, faults, heartbeat, encoder>>
        /\ copy' = copy \cup expired' /\ expired' \subseteq Timeouts
        /\ "heartbeat" \notin expired' => ~ (heartbeat[hip].valid /\ TooOld(heartbeat[hip].age))
        /\ "encoder" \notin expired' =>
               ~ (encoder[hip].age # Never /\ TooOld(encoder[hip].age))
    BY DEF Judge, Kept, targetVars, hipVars, KeptVars, Timeouts
  <1>2. TypeOK'
    BY <1>1 DEF IInv, TypeOK, Places, KeptVars
  <1>3. Started' /\ BusHeld' /\ EnabledRecent'
    BY <1>1 DEF IInv, Started, BusHeld, EnabledRecent, KeptVars
  <1>4. \A h \in Hip : Judged(h, "heartbeat")' =>
            h < hip \/ (h = hip /\ "heartbeat" \notin expired')
    BY <1>1 DEF Judged
  <1>5. \A h \in Hip : Judged(h, "encoder")' =>
            h < hip \/ (h = hip /\ "encoder" \notin expired')
    BY <1>1 DEF Judged
  <1>6. HeartbeatsRecent'
    <2> SUFFICES ASSUME NEW h \in Hip, heartbeat[h].valid
                 PROVE  Recent(h, heartbeat[h].age, "heartbeat")'
      BY <1>1 DEF HeartbeatsRecent
    <2>1. Recent(h, heartbeat[h].age, "heartbeat")
      BY DEF IInv, HeartbeatsRecent
    <2>2. h = hip /\ "heartbeat" \notin expired' => heartbeat[h].age <= Timeout + loopAge
      BY <1>1, Types, Constants DEF IInv, TooOld
    <2>3. h < hip => Judged(h, "heartbeat")
      BY <1>1 DEF Judged
    <2> QED
      BY <1>1, <1>4, <2>1, <2>2, <2>3 DEF Recent, KeptVars
  <1>7. EncodersRecent'
    <2> SUFFICES ASSUME NEW h \in Hip, encoder[h].valid
                 PROVE  Recent(h, encoder[h].age, "encoder")'
      BY <1>1 DEF EncodersRecent
    <2>1. Recent(h, encoder[h].age, "encoder")
      BY DEF IInv, EncodersRecent
    <2>2. h = hip /\ "encoder" \notin expired' => encoder[h].age <= Timeout + loopAge
      BY <1>1, <2>1, Types, Constants DEF IInv, TooOld, Recent
    <2>3. h < hip => Judged(h, "encoder")
      BY <1>1 DEF Judged
    <2> QED
      BY <1>1, <1>5, <2>1, <2>2, <2>3 DEF Recent, KeptVars
  <1>8. LossNoted'
    BY <1>1 DEF IInv, LossNoted, HeardOf, Answering
  <1> QED
    BY <1>1, <1>2, <1>3, <1>6, <1>7, <1>8, NoCommand DEF IInv

LEMMA InvalidatedFacts ==
    ASSUME NEW reports \in [Hip -> Reports], NEW fault, NEW h \in Hip,
           NEW marked, marked = Invalidated(reports, fault)
    PROVE  /\ marked \in [Hip -> Reports]
           /\ marked[h].age = reports[h].age
           /\ marked[h].valid => reports[h].valid /\ ~ (fault \in expired /\ h = hip)
           /\ fault \notin expired => marked = reports
  BY DEF Invalidated, Reports

LEMMA MarkInv ==
    ASSUME IInv, Mark
    PROVE  IInv'
  <1>1. /\ at = "mark" /\ frame' = 0 /\ UNCHANGED KeptVars
        /\ UNCHANGED <<copy, faults>>
        /\ expired' = {} /\ hip' \in Hip
        /\ \/ hip = Hips /\ at' = "store" /\ hip' = 1
           \/ hip # Hips /\ at' = "judge" /\ hip' = hip + 1
    BY NextHipFacts DEF Mark, Kept, targetVars, KeptVars
  <1>2. /\ heartbeat' \in [Hip -> Reports]
        /\ \A h \in Hip :
               /\ heartbeat'[h].age = heartbeat[h].age
               /\ heartbeat'[h].valid =>
                      heartbeat[h].valid /\ ~ ("heartbeat" \in expired /\ h = hip)
        /\ "heartbeat" \notin expired => heartbeat' = heartbeat
    BY InvalidatedFacts, Constants DEF IInv, TypeOK, Mark
  <1>3. /\ encoder' \in [Hip -> Reports]
        /\ \A h \in Hip :
               /\ encoder'[h].age = encoder[h].age
               /\ encoder'[h].valid => encoder[h].valid /\ ~ ("encoder" \in expired /\ h = hip)
    BY InvalidatedFacts, Constants DEF IInv, TypeOK, Mark
  <1>4. TypeOK'
    BY <1>1, <1>2, <1>3 DEF IInv, TypeOK, Places, KeptVars
  <1>5. Started' /\ BusHeld' /\ EnabledRecent'
    BY <1>1 DEF IInv, Started, BusHeld, EnabledRecent, KeptVars
  <1>6. \A h \in Hip : h < hip \/ h = hip \/ (at' = "judge" /\ ~ (h < hip'))
    BY <1>1, Types, Constants DEF IInv
  <1>7. HeartbeatsRecent'
    BY <1>1, <1>2, <1>6 DEF IInv, HeartbeatsRecent, Recent, Judged, KeptVars
  <1>8. EncodersRecent'
    BY <1>1, <1>3, <1>6 DEF IInv, EncodersRecent, Recent, Judged, KeptVars
  <1>9. LossNoted'
    BY <1>1, <1>2 DEF IInv, LossNoted, HeardOf, Answering
  <1> QED
    BY <1>1, <1>4, <1>5, <1>7, <1>8, <1>9, NoCommand DEF IInv

LEMMA StoreInv ==
    ASSUME IInv, Store
    PROVE  IInv'
  <1>1. /\ at = "store" /\ at' = "idle" /\ frame' = 0 /\ faults' = copy /\ copy' = {}
        /\ offBefore' = busOff
        /\ UNCHANGED <<balancing, offFor, loopAge, startup, startAge, cmdAge, coordAge, enabled,
                       busOff, hip, expired, heartbeat, encoder>>
    BY DEF Store, targetVars
  <1>2. TypeOK'
    BY <1>1 DEF IInv, TypeOK, Places
  <1>3. Started' /\ BusHeld' /\ EnabledRecent'
    BY <1>1 DEF IInv, Started, BusHeld, EnabledRecent
  <1>4. HeartbeatsRecent' /\ EncodersRecent'
    BY <1>1 DEF IInv, HeartbeatsRecent, EncodersRecent, Recent, Judged
  <1>5. LossNoted'
    BY <1>1 DEF IInv, LossNoted, HeardOf, Answering
  <1> QED
    BY <1>1, <1>2, <1>3, <1>4, <1>5, NoCommand DEF IInv

-----------------------------------------------------------------------------
(* The interrupt, the mode, and time.                                        *)

LEMMA RxHeartbeatInv ==
    ASSUME IInv, NEW g \in Hip, RxHeartbeat(g)
    PROVE  IInv'
  <1>1. /\ frame' = 0 /\ UNCHANGED KeptVars /\ faults' = faults \ {"heartbeat"}
        /\ UNCHANGED <<at, hip, copy, expired, encoder>>
    BY DEF RxHeartbeat, Kept, targetVars, tickVars, KeptVars
  <1>2. /\ heartbeat' \in [Hip -> Reports]
        /\ heartbeat'[g] = Heard
        /\ \A h \in Hip : h # g => heartbeat'[h] = heartbeat[h]
    BY Constants DEF IInv, TypeOK, RxHeartbeat, Heard, Reports
  <1>3. TypeOK'
    BY <1>1, <1>2 DEF IInv, TypeOK, KeptVars
  <1>4. Started' /\ BusHeld' /\ EnabledRecent'
    BY <1>1 DEF IInv, Started, BusHeld, EnabledRecent, KeptVars
  <1>5. EncodersRecent'
    BY <1>1 DEF IInv, EncodersRecent, Recent, Judged, KeptVars
  <1>6. HeartbeatsRecent'
    <2>1. Recent(g, 0, "heartbeat")'
      BY <1>1, Types, Constants DEF IInv, Recent, KeptVars
    <2> QED
      BY <1>1, <1>2, <2>1 DEF IInv, HeartbeatsRecent, Recent, Judged, Heard, KeptVars
  <1>7. Answering'
    BY <1>2 DEF Answering, Heard
  <1>8. LossNoted'
    BY <1>1, <1>7 DEF IInv, LossNoted
  <1> QED
    BY <1>1, <1>3, <1>4, <1>5, <1>6, <1>8, NoCommand DEF IInv

LEMMA RxEncoderInv ==
    ASSUME IInv, NEW g \in Hip, RxEncoder(g)
    PROVE  IInv'
  <1>1. /\ frame' = 0 /\ UNCHANGED KeptVars /\ faults' = faults \ {"encoder"}
        /\ UNCHANGED <<at, hip, copy, expired, heartbeat>>
    BY DEF RxEncoder, Kept, targetVars, tickVars, KeptVars
  <1>2. /\ encoder' \in [Hip -> Reports]
        /\ encoder'[g] = Heard
        /\ \A h \in Hip : h # g => encoder'[h] = encoder[h]
    BY Constants DEF IInv, TypeOK, RxEncoder, Heard, Reports
  <1>3. TypeOK'
    BY <1>1, <1>2 DEF IInv, TypeOK, KeptVars
  <1>4. Started' /\ BusHeld' /\ EnabledRecent'
    BY <1>1 DEF IInv, Started, BusHeld, EnabledRecent, KeptVars
  <1>5. HeartbeatsRecent'
    BY <1>1 DEF IInv, HeartbeatsRecent, Recent, Judged, KeptVars
  <1>6. EncodersRecent'
    <2>1. Recent(g, 0, "encoder")'
      BY <1>1, Types, Constants DEF IInv, Recent, KeptVars
    <2> QED
      BY <1>1, <1>2, <2>1 DEF IInv, EncodersRecent, Recent, Judged, Heard, KeptVars
  <1>7. LossNoted'
    BY <1>1 DEF IInv, LossNoted, HeardOf, Answering
  <1> QED
    BY <1>1, <1>3, <1>4, <1>5, <1>6, <1>7, NoCommand DEF IInv

LEMMA BusOffModeInv ==
    ASSUME IInv, BusOff \/ Mode
    PROVE  IInv'
  <1>1. /\ frame' = 0
        /\ UNCHANGED <<at, hip, copy, expired, loopAge, startup, startAge, cmdAge, coordAge,
                       faults, heartbeat, encoder>>
    BY DEF BusOff, Mode, tickVars, targetVars, hipVars
  <1>2. HeartbeatsRecent' /\ EncodersRecent' /\ LossNoted'
    BY <1>1 DEF IInv, HeartbeatsRecent, EncodersRecent, Recent, Judged, LossNoted, HeardOf,
       Answering
  <1>3. Started'
    BY <1>1 DEF IInv, Started
  <1>4. CASE BusOff
    <2>1. /\ busOff' /\ ~enabled' /\ (offBefore' => offBefore \/ at = "idle")
          /\ UNCHANGED <<balancing, offFor>>
      BY <1>4 DEF BusOff
    <2>2. TypeOK'
      <3>1. busOff' \in BOOLEAN /\ enabled' \in BOOLEAN /\ offBefore' \in BOOLEAN
        BY <1>4 DEF BusOff, IInv, TypeOK
      <3> QED
        BY <1>1, <2>1, <3>1 DEF IInv, TypeOK
    <2>3. BusHeld' /\ EnabledRecent'
      BY <1>1, <2>1 DEF IInv, BusHeld, EnabledRecent
    <2> QED
      BY <1>1, <1>2, <1>3, <2>2, <2>3, NoCommand DEF IInv
  <1>5. CASE Mode
    <2>1. at = "idle" /\ offFor' = 0 /\ UNCHANGED <<enabled, busOff, offBefore>>
      BY <1>5 DEF Mode, targetVars
    <2>2. balancing' \in BOOLEAN
      BY <1>5 DEF Mode
    <2>3. TypeOK'
      BY <1>1, <2>1, <2>2, Constants DEF IInv, TypeOK
    <2>4. BusHeld' /\ EnabledRecent'
      BY <1>1, <2>1, Types, Constants DEF IInv, BusHeld, EnabledRecent
    <2> QED
      BY <1>1, <1>2, <1>3, <2>3, <2>4, NoCommand DEF IInv
  <1> QED
    BY <1>4, <1>5

LEMMA AgedFacts ==
    ASSUME NEW max \in Nat, NEW age \in {Never} \cup 0..max
    PROVE  /\ Aged(age, max) \in {Never} \cup 0..max
           /\ age # Never => Aged(age, max) # Never /\ Aged(age, max) \in 0..max
           /\ age = Never => Aged(age, max) = Never
           /\ Aged(age, max) <= age + 1
           /\ age \in 0..max => Aged(age, max) = IF age = max THEN age ELSE age + 1
  BY Constants DEF Aged

LEMMA AllAgedFacts ==
    ASSUME NEW reports \in [Hip -> Reports], NEW older, older = AllAged(reports)
    PROVE  /\ older \in [Hip -> Reports]
           /\ \A h \in Hip : /\ older[h].valid = reports[h].valid
                             /\ older[h].age <= reports[h].age + 1
                             /\ older[h].age = Never <=> reports[h].age = Never
                             /\ reports[h].age >= 0 => older[h].age >= 0
  <1>1. Stale + 1 \in Nat
    BY Constants
  <1>2. ASSUME NEW h \in Hip
        PROVE  /\ reports[h] \in Reports
               /\ older[h] = [valid |-> reports[h].valid,
                              age |-> Aged(reports[h].age, Stale + 1)]
    BY DEF AllAged, Reports
  <1>3. ASSUME NEW h \in Hip
        PROVE  /\ older[h] \in Reports
               /\ older[h].valid = reports[h].valid
               /\ older[h].age <= reports[h].age + 1
               /\ older[h].age = Never <=> reports[h].age = Never
               /\ reports[h].age >= 0 => older[h].age >= 0
    <2>1. /\ reports[h].valid \in BOOLEAN
          /\ reports[h].age \in {Never} \cup 0..Stale + 1
      BY <1>2 DEF Reports
    <2>2. /\ Aged(reports[h].age, Stale + 1) \in {Never} \cup 0..Stale + 1
          /\ Aged(reports[h].age, Stale + 1) <= reports[h].age + 1
          /\ Aged(reports[h].age, Stale + 1) = Never <=> reports[h].age = Never
      BY <1>1, <2>1, AgedFacts
    <2>3. reports[h].age >= 0 => Aged(reports[h].age, Stale + 1) >= 0
      BY <2>1, <2>2, Constants
    <2>4. PICK age : age = Aged(reports[h].age, Stale + 1)
      OBVIOUS
    <2>5. older[h] = [valid |-> reports[h].valid, age |-> age]
      BY <1>2, <2>4
    <2>6. older[h].valid = reports[h].valid /\ older[h].age = age
      BY <2>5
    <2>7. older[h] \in Reports
      BY <2>1, <2>2, <2>4, <2>5 DEF Reports
    <2> QED
      BY <2>2, <2>3, <2>4, <2>6, <2>7
  <1>4. older = [h \in Hip |-> older[h]]
    BY DEF AllAged
  <1> QED
    BY <1>3, <1>4

LEMMA ElapseInv ==
    ASSUME IInv, Elapse
    PROVE  IInv'
  <1>1. /\ frame' = 0 /\ loopAge' = loopAge + 1 /\ loopAge < LoopMax
        /\ UNCHANGED <<balancing, at, hip, copy, expired, startup, enabled, busOff, offBefore,
                       faults>>
    BY DEF Elapse, tickVars
  <1>2. /\ heartbeat' \in [Hip -> Reports]
        /\ \A h \in Hip : /\ heartbeat'[h].valid = heartbeat[h].valid
                          /\ heartbeat'[h].age <= heartbeat[h].age + 1
                          /\ heartbeat'[h].age = Never <=> heartbeat[h].age = Never
                          /\ heartbeat[h].age >= 0 => heartbeat'[h].age >= 0
    BY AllAgedFacts DEF IInv, TypeOK, Elapse
  <1>3. /\ encoder' \in [Hip -> Reports]
        /\ \A h \in Hip : /\ encoder'[h].valid = encoder[h].valid
                          /\ encoder'[h].age <= encoder[h].age + 1
                          /\ encoder[h].age >= 0 => encoder'[h].age >= 0
    BY AllAgedFacts DEF IInv, TypeOK, Elapse
  <1>4. startAge' = IF startAge = StartWait THEN startAge ELSE startAge + 1
    BY Types, AgedFacts, Constants DEF IInv, TypeOK, Elapse
  <1>5. coordAge' = IF coordAge = CoordPeriod THEN coordAge ELSE coordAge + 1
    BY Types, AgedFacts, Constants DEF IInv, TypeOK, Elapse
  <1>6. offFor' = IF balancing THEN 0 ELSE IF offFor = OffMax + 1 THEN offFor ELSE offFor + 1
    <2>1. OffMax + 1 \in Nat /\ offFor \in 0..OffMax + 1
      BY Constants DEF IInv, TypeOK
    <2> QED
      BY <2>1, AgedFacts DEF Elapse
  <1>7. TypeOK'
    <2>1. cmdAge' \in 0..CmdPeriod
      <3>1. CmdPeriod \in Nat /\ cmdAge \in 0..CmdPeriod
        BY Constants DEF IInv, TypeOK
      <3>2. cmdAge' = IF cmdAge = CmdPeriod THEN cmdAge ELSE cmdAge + 1
        BY <3>1, AgedFacts DEF Elapse
      <3> QED
        BY <3>1, <3>2
    <2>2. /\ loopAge' \in 0..LoopMax /\ startAge' \in 0..StartWait
          /\ coordAge' \in 0..CoordPeriod /\ offFor' \in 0..OffMax + 1
      BY <1>1, <1>4, <1>5, <1>6, Types, Constants DEF IInv
    <2> QED
      BY <1>1, <1>2, <1>3, <2>1, <2>2 DEF IInv, TypeOK
  <1>8. Started' /\ BusHeld'
    BY <1>1 DEF IInv, Started, BusHeld
  <1>9. EnabledRecent'
    BY <1>1, <1>5, <1>6, Types, Constants DEF IInv, EnabledRecent
  <1>10. ASSUME NEW h \in Hip, NEW age \in Int, NEW later \in Int, NEW fault,
                Recent(h, age, fault), later <= age + 1, later >= 0
         PROVE  /\ startup' = 0 => later <= loopAge'
                /\ startup' = 1 => later <= LoopMax + startAge' +
                                            (IF startAge' = StartWait THEN loopAge' ELSE 0)
                /\ startup' = 2 => later <= Timeout + LoopMax + loopAge'
                /\ startup' = 2 /\ Judged(h, fault) => later <= Timeout + loopAge'
    <2>1. CASE startup = 1
      <3>1. CASE startAge = StartWait
        BY <1>1, <1>4, <1>10, <2>1, <3>1, Types, Constants DEF IInv, Recent
      <3>2. CASE startAge # StartWait
        BY <1>1, <1>4, <1>10, <2>1, <3>2, Types, Constants DEF IInv, Recent
      <3> QED
        BY <3>1, <3>2
    <2>2. CASE startup # 1
      BY <1>1, <1>10, <2>2, Types, Constants DEF IInv, Recent
    <2> QED
      BY <2>1, <2>2
  <1>11. HeartbeatsRecent'
    <2> SUFFICES ASSUME NEW h \in Hip, heartbeat'[h].valid
                 PROVE  Recent(h, heartbeat[h].age, "heartbeat")'
      BY DEF HeartbeatsRecent
    <2>1. Recent(h, heartbeat[h].age, "heartbeat")
      BY <1>2 DEF IInv, HeartbeatsRecent
    <2>2. PICK later \in Int : later = heartbeat'[h].age
      BY <1>2, Constants DEF Reports
    <2>3. heartbeat[h].age \in Int /\ later <= heartbeat[h].age + 1 /\ later >= 0
      BY <1>2, <2>1, <2>2, Types DEF IInv, Recent
    <2>4. Judged(h, "heartbeat")' <=> Judged(h, "heartbeat")
      BY <1>1 DEF Judged
    <2> QED
      BY <1>10, <2>1, <2>2, <2>3, <2>4 DEF Recent
  <1>12. EncodersRecent'
    <2> SUFFICES ASSUME NEW h \in Hip, encoder'[h].valid
                 PROVE  Recent(h, encoder[h].age, "encoder")'
      BY DEF EncodersRecent
    <2>1. Recent(h, encoder[h].age, "encoder")
      BY <1>3 DEF IInv, EncodersRecent
    <2>2. PICK later \in Int : later = encoder'[h].age
      BY <1>3, Constants DEF Reports
    <2>3. encoder[h].age \in Int /\ later <= encoder[h].age + 1 /\ later >= 0
      BY <1>3, <2>1, <2>2, Types DEF IInv, Recent
    <2>4. Judged(h, "encoder")' <=> Judged(h, "encoder")
      BY <1>1 DEF Judged
    <2> QED
      BY <1>10, <2>1, <2>2, <2>3, <2>4 DEF Recent
  <1>13. LossNoted'
    BY <1>1, <1>2 DEF IInv, LossNoted, HeardOf, Answering
  <1> QED
    BY <1>1, <1>7, <1>8, <1>9, <1>11, <1>12, <1>13, NoCommand DEF IInv

-----------------------------------------------------------------------------

LEMMA NextInv ==
    ASSUME IInv, [Next]_vars
    PROVE  IInv'
  <1>1. CASE UNCHANGED vars
    BY <1>1 DEF vars, tickVars, targetVars, hipVars, IInv, TypeOK, Started, BusHeld,
       EnabledRecent, HeartbeatsRecent, EncodersRecent, Recent, Judged, LossNoted, HeardOf,
       Answering, Safe, CommandsFollowMode, BusOffSilences, CommandsOnFreshEncoder,
       HeartbeatLossStops
  <1>2. CASE \E h \in Hip : RxHeartbeat(h) \/ RxEncoder(h)
    BY <1>2, RxHeartbeatInv, RxEncoderInv
  <1> QED
    BY <1>1, <1>2, TickStartInv, CheckInv, SendInv, ReadInv, JudgeInv, MarkInv, StoreInv,
       BusOffModeInv, ElapseInv DEF Next

\* The inductive invariant: what keeps a hip from being commanded wrongly.
THEOREM Invariance == Spec => []IInv
  <1>1. Init => IInv
    BY InitInv
  <1>2. IInv /\ [Next]_vars => IInv'
    BY NextInv
  <1> QED
    BY <1>1, <1>2, PTL DEF Spec

\* The variables keep their types, for any number of hips and any timeouts.
THEOREM TypeCorrect == Spec => []TypeOK
  BY Invariance, PTL DEF IInv

\* hip_send_commands sends only while the robot balances, or soon after.
THEOREM OnlyBalancing == Spec => []CommandsFollowMode
  BY Invariance, PTL DEF IInv, Safe

\* hip_control_on_bus_off ends the position commands of every later tick.
THEOREM SilentOffTheBus == Spec => []BusOffSilences
  BY Invariance, PTL DEF IInv, Safe

\* hip_send_commands skips a hip whose encoder has not reported in time, for
\* every interleaving of hip_update_faults with the receive interrupt.
THEOREM FreshEncoders == Spec => []CommandsOnFreshEncoder
  BY Invariance, PTL DEF IInv, Safe

\* hip_update_faults stops the commands when every heartbeat has stopped.
THEOREM HeartbeatsNeeded == Spec => []HeartbeatLossStops
  BY Invariance, PTL DEF IInv, Safe
=============================================================================
