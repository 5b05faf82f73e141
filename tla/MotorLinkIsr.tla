---------------------------- MODULE MotorLinkIsr ----------------------------
(***************************************************************************)
(* The motor link frame by frame: each operation of the backend queues its  *)
(* frames one at a time, each frame first looks at s_bus_off and the FIFO's *)
(* free level and is then added, and the FDCAN error interrupt may come     *)
(* between any two of these steps.  The interrupt itself takes two steps:   *)
(* it sets s_bus_off, then clears s_enable_applied.                         *)
(*                                                                          *)
(* View is the link as the callers see it.  That it behaves as              *)
(* MotorLinkSpec is not obvious, because motor_link_enable writes           *)
(* s_enable_applied at its end, after the interrupt may have cleared it.    *)
(***************************************************************************)
EXTENDS MotorLink, Sequences

CONSTANT Order   \* the nodes in the order the backend addresses them

ASSUME OrderAssumption ==
    /\ Order \in Seq(Sides)
    /\ \A s \in Sides : \E i \in DOMAIN Order : Order[i] = s
    /\ \A i, j \in DOMAIN Order : Order[i] = Order[j] => i = j

VARIABLES
    up, enabled, busOff, sent,   \* the backend, as in MotorLink
    axis, torque,                \* the drives
    lost,                        \* history, as in MotorLink
    op,       \* the operation the thread is in, "none" outside the backend
    todo,     \* its frames still to be queued
    adding,   \* the first of them has passed the checks of motor_link_can_send
    ok,       \* no frame of it was refused
    before,   \* history: the link as the operation found it
    isr       \* the error interrupt is between its two assignments

backendVars == <<up, enabled, busOff, sent>>
driveVars == <<axis, torque>>
opVars == <<op, todo, adding, ok, before>>
vars == <<backendVars, driveVars, lost, opVars, isr>>

\* The link's record, made of the variables.
Current ==
    [up |-> up, enabled |-> enabled, busOff |-> busOff, sent |-> sent,
     axis |-> axis, torque |-> torque, lost |-> lost]

Init ==
    /\ up \in BOOLEAN
    /\ enabled = FALSE /\ busOff = FALSE /\ sent = [s \in Sides |-> None]
    /\ axis = [s \in Sides |-> "idle"] /\ torque = ZeroTorque
    /\ lost = FALSE
    /\ op = "none" /\ todo = <<>> /\ adding = FALSE /\ ok = TRUE
    /\ before = Current
    /\ isr = FALSE

-----------------------------------------------------------------------------
(* The operations.                                                           *)

\* What a frame tells its node; None where only the kind matters.
Frame(kind, s, v) == [kind |-> kind, side |-> s, value |-> v]

ToAll(kind, v) == [i \in DOMAIN Order |-> Frame(kind, Order[i], v)]

\* Bug: the torque register keeps what it held before.
Bug_EnableFrame(n, s) ==
    CASE n = 3 -> Frame("mode", s, None)
      [] n = 0 -> Frame("axis", s, "closed")
      [] OTHER -> Frame("clear", s, None)

\* A node is told to clear its errors, its mode, zero torque, closed loop.
EnableFrame(n, s) ==
    CASE n = 1 -> Frame("clear", s, None)
      [] n = 2 -> Frame("mode", s, None)
      [] n = 3 -> Frame("torque", s, Zero)
      [] OTHER -> Frame("axis", s, "closed")

\* The frames of motor_link_enable(true), node by node.
EnableFrames ==
    [n \in 1..4 * Len(Order) |-> EnableFrame(n % 4, Order[(n + 3) \div 4])]

\* motor_link_enable(false) zeroes the torques of an enabled link first.
DisableFrames ==
    (IF enabled THEN ToAll("torque", Zero) ELSE <<>>) \o ToAll("axis", "idle")

ModeFrames == ToAll("mode", None) \o ToAll("torque", Zero)

\* left_changed and right_changed are decided before the first frame.
TorqueFrames(cmd) ==
    [i \in DOMAIN Order |->
        IF sent[Order[i]] # cmd[Order[i]]
        THEN Frame("torque", Order[i], cmd[Order[i]]) ELSE Frame("same", Order[i], None)]

Begin(name, frames) ==
    /\ op = "none" /\ ~isr
    /\ op' = name /\ todo' = frames /\ ok' = TRUE
    /\ before' = Current
    /\ UNCHANGED <<backendVars, driveVars, lost, adding, isr>>

Enable == up /\ ~busOff /\ Begin("on", EnableFrames)

Disable == up /\ ~busOff /\ Begin("off", DisableFrames)

SetMode == up /\ enabled /\ Begin("mode", ModeFrames)

Torque(cmd) ==
    /\ up /\ enabled /\ ~busOff
    /\ \E s \in Sides : sent[s] # cmd[s]
    /\ Begin("torque", TorqueFrames(cmd))

-----------------------------------------------------------------------------
(* motor_link_can_send, for the first frame of todo.                         *)

AtFrame == op # "none" /\ todo # <<>> /\ ~adding /\ ~isr

\* The side's command has not changed: there is no frame for it.
Skip ==
    /\ AtFrame /\ Head(todo).kind = "same"
    /\ todo' = Tail(todo)
    /\ UNCHANGED <<backendVars, driveVars, lost, op, adding, ok, before, isr>>

\* s_bus_off is set or the FIFO is full: the frame is dropped.
Refuse ==
    /\ AtFrame /\ Head(todo).kind # "same"
    /\ todo' = Tail(todo) /\ ok' = FALSE
    /\ UNCHANGED <<backendVars, driveVars, lost, op, adding, before, isr>>

Check ==
    /\ AtFrame /\ Head(todo).kind # "same"
    /\ up /\ ~busOff
    /\ adding' = TRUE
    /\ UNCHANGED <<backendVars, driveVars, lost, op, todo, ok, before, isr>>

\* The FIFO takes the frame; a bus that went off since the check does not
\* carry it to the drive.
Add ==
    LET frame == Head(todo)
    IN  /\ adding /\ ~isr
        /\ adding' = FALSE /\ todo' = Tail(todo)
        /\ axis' = IF frame.kind = "axis" /\ ~busOff
                   THEN [axis EXCEPT ![frame.side] = frame.value] ELSE axis
        /\ torque' = IF frame.kind = "torque" /\ ~busOff
                     THEN [torque EXCEPT ![frame.side] = frame.value] ELSE torque
        /\ sent' = IF op = "torque" THEN [sent EXCEPT ![frame.side] = frame.value] ELSE sent
        /\ UNCHANGED <<up, enabled, busOff, lost, op, ok, before, isr>>

-----------------------------------------------------------------------------
(* The operation's last assignments.                                         *)

\* Bug: s_enable_applied is set whatever the frames came to.
Bug_Finish ==
    /\ op # "none" /\ todo = <<>> /\ ~isr
    /\ enabled' = CASE op = "on" -> TRUE [] op = "off" -> FALSE [] OTHER -> enabled
    /\ sent' = IF op \in {"off", "mode"} THEN [s \in Sides |-> None] ELSE sent
    /\ lost' = IF op \in {"on", "off"} THEN ~ok \/ busOff ELSE lost
    /\ op' = "none"
    /\ UNCHANGED <<up, busOff, driveVars, todo, adding, ok, before, isr>>

Finish ==
    /\ op # "none" /\ todo = <<>> /\ ~isr
    /\ enabled' = CASE op = "on" -> ok [] op = "off" -> FALSE [] OTHER -> enabled
    /\ sent' = IF op \in {"off", "mode"} THEN [s \in Sides |-> None] ELSE sent
    /\ lost' = IF op \in {"on", "off"} THEN ~ok \/ busOff ELSE lost
    /\ op' = "none"
    /\ UNCHANGED <<up, busOff, driveVars, todo, adding, ok, before, isr>>

-----------------------------------------------------------------------------
(* HAL_FDCAN_ErrorStatusCallback with FDCAN_IT_BUS_OFF.                      *)

BusOffSet ==
    /\ up /\ ~busOff
    /\ busOff' = TRUE /\ isr' = TRUE
    /\ UNCHANGED <<up, enabled, sent, driveVars, lost, opVars>>

BusOffClear ==
    /\ isr
    /\ enabled' = FALSE /\ lost' = TRUE /\ isr' = FALSE
    /\ UNCHANGED <<up, busOff, sent, driveVars, opVars>>

Next ==
    \/ Enable \/ Disable \/ SetMode \/ \E cmd \in [Sides -> Torques] : Torque(cmd)
    \/ Skip \/ Refuse \/ Check \/ Add \/ Finish
    \/ BusOffSet \/ BusOffClear

Spec == Init /\ [][Next]_vars

-----------------------------------------------------------------------------
(* Properties.                                                               *)

\* What the operation in progress comes to if no further frame is accepted.
Outcome ==
    LET complete == ok /\ todo = <<>>
    IN  [up |-> up,
         enabled |-> CASE op = "on" -> complete [] op = "off" -> FALSE [] OTHER -> enabled,
         busOff |-> FALSE,
         sent |-> IF op \in {"off", "mode"} THEN [s \in Sides |-> None] ELSE sent,
         axis |-> axis, torque |-> torque,
         lost |-> IF op \in {"on", "off"} THEN ~complete ELSE lost]

\* What the callers see of a link whose bus is off.
Silenced ==
    [up |-> up, enabled |-> FALSE, busOff |-> TRUE, sent |-> [s \in Sides |-> None],
     axis |-> axis, torque |-> torque, lost |-> TRUE]

\* An operation takes effect at its end, or when the interrupt cuts it short.
\* With the bus off, s_enable_applied and the record of what was sent count
\* for nothing.
View ==
    IF isr THEN Outcome
    ELSE IF busOff THEN Silenced
    ELSE IF op = "none" THEN Current
    ELSE before

Abs == INSTANCE MotorLinkSpec WITH link <- View

(* The interleaved backend implements the atomic one: whenever the bus-off   *)
(* interrupt preempts enable, disable, set_control_mode or a torque command, *)
(* the callers cannot tell it from an interrupt that came just after it.     *)
ImplementsSpec == Abs!Spec

(* A torque other than zero reaches only a drive whose enable sequence was   *)
(* queued in full, whatever frames were refused and wherever the interrupt   *)
(* fell.                                                                     *)
TorqueReachesClosedDrive ==
    [][\A s \in Sides : torque'[s] \notin {torque[s], Zero} => axis[s] = "closed"]_vars
=============================================================================
