----------------------------- MODULE HipControl -----------------------------
(***************************************************************************)
(* Who may move the hips, and on what data: hip_control.c, called every     *)
(* control tick by motion_control_tick, and its two callers in the CAN      *)
(* interrupt, hip_control_on_can_rx and hip_control_on_bus_off.             *)
(*                                                                          *)
(* The tick holds one now_ms from its start and shares s_faults and the     *)
(* state of the hips with the interrupt, which may come between any two of  *)
(* its steps; time may go by between them, too.  Stamps are modelled by     *)
(* their ages, so that now_ms - stamp is the stamp's age less that of       *)
(* now_ms, and negative where uint32_t wraps round.                         *)
(*                                                                          *)
(* Left out: what is commanded (heights, limit switches), the faults that   *)
(* are reported but stop nothing (torque, kinematics, stall, and bus-off,   *)
(* where s_bus_off does it), the requests for telemetry (a drive may report *)
(* at any time) and hip_control_on_bus_recovered, which nothing calls.      *)
(***************************************************************************)
EXTENDS Integers

CONSTANTS Hips,         \* the number of hips; the loops visit them in order
          Timeout,      \* HIP_TELEM_TIMEOUT_MS
          CmdPeriod,    \* HIP_CMD_PERIOD_MS
          CoordPeriod,  \* the 20 ms of hip_behavior_tick in motion_control_tick
          StartWait,    \* from the control mode frames to the axis state frames
          LoopMax       \* longest time from one control tick to the next

ASSUME HipAssumption ==
    /\ Hips \in Nat \ {0}
    /\ Timeout \in Nat /\ CmdPeriod \in Nat /\ CoordPeriod \in Nat /\ StartWait \in Nat
    /\ LoopMax \in Nat \ {0}
    /\ CmdPeriod <= Timeout /\ CoordPeriod <= Timeout
    /\ StartWait + 2 * LoopMax <= Timeout  \* no timeout runs out during start-up

Hip == 1..Hips

VARIABLES
    balancing,  \* motion_modes_get() is BALANCING
    offFor,     \* how long it has not been
    at,         \* what the tick does next
    hip,        \* the hip its loop is at
    loopAge,    \* how long ago the last or current tick took now_ms
    startup,    \* s_startup_step
    startAge,   \* age of s_startup_next_ms - StartWait
    cmdAge,     \* age of s_last_cmd_ms
    coordAge,   \* age of s_last_hip_coord_ms
    enabled,    \* s_target.enabled
    busOff,     \* s_bus_off
    offBefore,  \* it was set when the tick began, or between ticks
    faults,     \* s_faults, of which only the timeouts stop anything
    copy,       \* the local faults of hip_update_faults
    expired,    \* which of the hip's stamps it has found too old
    heartbeat,  \* heartbeat_valid and the age of last_heartbeat_ms, of each hip
    encoder,    \* encoder_valid and the age of last_encoder_ms, of each hip
    frame       \* the hip this step sends a position to, 0 if none

tickVars == <<at, hip, copy, expired>>
targetVars == <<startup, startAge, cmdAge, coordAge, enabled>>
hipVars == <<faults, heartbeat, encoder>>
vars == <<balancing, offFor, tickVars, loopAge, targetVars, busOff, offBefore, hipVars, frame>>

Never == -1
Timeouts == {"heartbeat", "encoder"}
Places == {"idle", "check", "send", "read", "judge", "mark", "store"}

\* How late the age of a report may be noticed, or a change of mode; ages are
\* counted up to what the code and the properties tell apart.
Stale == Timeout + 2 * LoopMax
OffMax == CoordPeriod + 2 * LoopMax
Reports == [valid : BOOLEAN, age : {Never} \cup 0..Stale + 1]

TypeOK ==
    /\ balancing \in BOOLEAN /\ offFor \in 0..OffMax + 1
    /\ at \in Places /\ hip \in Hip
    /\ loopAge \in 0..LoopMax
    /\ startup \in 0..2 /\ startAge \in 0..StartWait
    /\ cmdAge \in 0..CmdPeriod /\ coordAge \in 0..CoordPeriod
    /\ enabled \in BOOLEAN /\ busOff \in BOOLEAN /\ offBefore \in BOOLEAN
    /\ faults \subseteq Timeouts /\ copy \subseteq Timeouts /\ expired \subseteq Timeouts
    /\ heartbeat \in [Hip -> Reports] /\ encoder \in [Hip -> Reports]
    /\ frame \in {0} \cup Hip

Silent == [h \in Hip |-> [valid |-> FALSE, age |-> Never]]

Init ==
    /\ balancing = FALSE /\ offFor = OffMax + 1
    /\ at = "idle" /\ hip = 1 /\ loopAge = 0
    /\ startup = 0 /\ startAge = 0
    /\ cmdAge = CmdPeriod /\ coordAge = CoordPeriod
    /\ enabled = TRUE /\ busOff = FALSE /\ offBefore = FALSE
    /\ faults = {} /\ copy = {} /\ expired = {}
    /\ heartbeat = Silent /\ encoder = Silent
    /\ frame = 0

-----------------------------------------------------------------------------
(* The control tick.                                                         *)

\* hip_behavior_tick and hip_control_set_target, every CoordPeriod.
Coordinate ==
    IF coordAge = CoordPeriod
    THEN enabled' = balancing /\ coordAge' = 0
    ELSE UNCHANGED <<enabled, coordAge>>

\* hip_control_startup_step; the frames' acceptance is not looked at.
StartUp ==
    /\ startup < 2
    /\ \/ startup = 0 /\ startup' = 1 /\ startAge' = 0
       \/ startup = 1 /\ startAge = StartWait /\ startup' = 2 /\ UNCHANGED startAge
       \/ startup = 1 /\ startAge < StartWait /\ UNCHANGED <<startup, startAge>>
    /\ UNCHANGED <<tickVars, cmdAge>>

\* The tick goes on to the position commands when they are due.
Command ==
    /\ startup = 2
    /\ IF cmdAge = CmdPeriod
       THEN at' = "check" /\ cmdAge' = 0
       ELSE at' = "read" /\ UNCHANGED cmdAge
    /\ UNCHANGED <<hip, copy, expired, startup, startAge>>

TickStart ==
    /\ at = "idle"
    /\ loopAge' = 0
    /\ Coordinate
    /\ StartUp \/ Command
    /\ frame' = 0
    /\ UNCHANGED <<balancing, offFor, busOff, offBefore, hipVars>>

\* Bug: the loops visit one hip too many.
Bug_NextHip(again, place) ==
    IF hip > Hips THEN at' = place /\ hip' = 1
    ELSE at' = again /\ hip' = hip + 1

\* The loops over the hips go on with the next one, or to what follows.
NextHip(again, place) ==
    IF hip = Hips THEN at' = place /\ hip' = 1
    ELSE at' = again /\ hip' = hip + 1

Kept == UNCHANGED <<balancing, offFor, loopAge, targetVars, busOff, offBefore>>

\* Bug: enabled, which hip_control_on_bus_off clears, is taken to be enough.
Bug_MayCommand == enabled /\ faults = {}

\* Bug: only the encoders' timeout keeps commands back.
Bug_MayCommandDeaf == ~busOff /\ enabled /\ "encoder" \notin faults

\* Bug: s_target.enabled is not looked at.
Bug_MayCommandAlways == ~busOff /\ faults = {}

\* The early returns of hip_send_commands.
MayCommand ==
    /\ ~busOff
    /\ enabled
    /\ faults = {}

Check ==
    /\ at = "check"
    /\ at' = IF MayCommand THEN "send" ELSE "read"
    /\ frame' = 0
    /\ Kept /\ UNCHANGED <<hip, copy, expired, hipVars>>

\* The loop of hip_send_commands.
Send ==
    /\ at = "send"
    /\ frame' = IF encoder[hip].valid THEN hip ELSE 0
    /\ NextHip("send", "read")
    /\ Kept /\ UNCHANGED <<copy, expired, hipVars>>

\* hip_update_faults begins with a copy of s_faults ...
Read ==
    /\ at = "read"
    /\ at' = "judge" /\ copy' = faults
    /\ frame' = 0
    /\ Kept /\ UNCHANGED <<hip, expired, hipVars>>

\* (now_ms - stamp) > HIP_TELEM_TIMEOUT_MS, in uint32_t.
TooOld(age) == age - loopAge > Timeout \/ age < loopAge

\* ... adds what it finds too old, a hip at a time ...
Judge ==
    /\ at = "judge"
    /\ expired' = {f \in {"heartbeat"} : heartbeat[hip].valid /\ TooOld(heartbeat[hip].age)}
                  \cup {f \in {"encoder"} : encoder[hip].age # Never /\ TooOld(encoder[hip].age)}
    /\ copy' = copy \cup expired'
    /\ at' = "mark"
    /\ frame' = 0
    /\ Kept /\ UNCHANGED <<hip, hipVars>>

\* Bug: the readings of an encoder that timed out stay valid.
Bug_Invalidated(reports, fault) ==
    IF fault \in expired /\ fault = "heartbeat"
    THEN [reports EXCEPT ![hip].valid = FALSE] ELSE reports

Invalidated(reports, fault) ==
    IF fault \in expired THEN [reports EXCEPT ![hip].valid = FALSE] ELSE reports

\* ... takes what was too old for invalid, even if it has come again since ...
Mark ==
    /\ at = "mark"
    /\ heartbeat' = Invalidated(heartbeat, "heartbeat")
    /\ encoder' = Invalidated(encoder, "encoder")
    /\ expired' = {}
    /\ NextHip("judge", "store")
    /\ frame' = 0
    /\ Kept /\ UNCHANGED <<copy, faults>>

\* ... and writes the copy back over what the interrupt did to s_faults.
Store ==
    /\ at = "store"
    /\ at' = "idle" /\ faults' = copy /\ copy' = {}
    /\ offBefore' = busOff
    /\ frame' = 0
    /\ UNCHANGED <<balancing, offFor, loopAge, targetVars, busOff, hip, expired,
                   heartbeat, encoder>>

-----------------------------------------------------------------------------
(* The CAN interrupt, the rest of the firmware, and time.                    *)

\* hip_control_on_can_rx: a report of either hip clears the fault of both.
Heard == [valid |-> TRUE, age |-> 0]

RxHeartbeat(h) ==
    /\ heartbeat' = [heartbeat EXCEPT ![h] = Heard]
    /\ faults' = faults \ {"heartbeat"}
    /\ frame' = 0
    /\ Kept /\ UNCHANGED <<tickVars, encoder>>

RxEncoder(h) ==
    /\ encoder' = [encoder EXCEPT ![h] = Heard]
    /\ faults' = faults \ {"encoder"}
    /\ frame' = 0
    /\ Kept /\ UNCHANGED <<tickVars, heartbeat>>

\* hip_control_on_bus_off
BusOff ==
    /\ busOff' = TRUE /\ enabled' = FALSE
    /\ offBefore' = (offBefore \/ at = "idle")
    /\ frame' = 0
    /\ UNCHANGED <<balancing, offFor, tickVars, loopAge, startup, startAge, cmdAge, coordAge,
                   hipVars>>

\* The robot starts or stops balancing: in the loop, before the hips' turn.
Mode ==
    /\ at = "idle"
    /\ balancing' = ~balancing
    /\ offFor' = 0
    /\ frame' = 0
    /\ UNCHANGED <<tickVars, loopAge, targetVars, busOff, offBefore, hipVars>>

Aged(age, max) == IF age \in {Never, max} THEN age ELSE age + 1
AllAged(reports) == [h \in Hip |-> [reports[h] EXCEPT !.age = Aged(@, Stale + 1)]]

Elapse ==
    /\ loopAge < LoopMax
    /\ loopAge' = loopAge + 1
    /\ offFor' = IF balancing THEN 0 ELSE Aged(offFor, OffMax + 1)
    /\ startAge' = Aged(startAge, StartWait)
    /\ cmdAge' = Aged(cmdAge, CmdPeriod) /\ coordAge' = Aged(coordAge, CoordPeriod)
    /\ heartbeat' = AllAged(heartbeat) /\ encoder' = AllAged(encoder)
    /\ frame' = 0
    /\ UNCHANGED <<balancing, tickVars, startup, enabled, busOff, offBefore, faults>>

Next ==
    \/ TickStart \/ Check \/ Send \/ Read \/ Judge \/ Mark \/ Store
    \/ \E h \in Hip : RxHeartbeat(h) \/ RxEncoder(h)
    \/ BusOff \/ Mode \/ Elapse

Spec == Init /\ [][Next]_vars

-----------------------------------------------------------------------------
(* Properties.                                                               *)

(* A hip is given a position only while the robot balances, or for one       *)
(* coordination period and the ticks around it after it stopped: bus-off and *)
(* set_target may write s_target.enabled in any order.                       *)
CommandsFollowMode ==
    frame # 0 => balancing \/ offFor <= OffMax

(* Once the bus went off no later tick sends a position, although the        *)
(* behaviour goes on setting s_target.enabled while the robot balances.      *)
BusOffSilences == frame # 0 => ~offBefore

(* A hip is commanded only from an encoder reading that is younger than the  *)
(* timeout and the two ticks it takes to notice, whatever the interrupt does *)
(* to the validity while the timeouts are judged.                            *)
CommandsOnFreshEncoder ==
    frame # 0 => encoder[frame].age \in 0..Stale

(* Once heartbeats have come and all have stopped, commands stop.            *)
HeartbeatLossStops ==
    LET heard == {h \in Hip : heartbeat[h].age # Never}
    IN  frame # 0 /\ heard # {} =>
            \E h \in heard : heartbeat[h].age <= Stale
=============================================================================
