---------------------------- MODULE RobotSafety ----------------------------
(***************************************************************************)
(* Who may drive the wheels: the motion modes (motion_modes.cpp,            *)
(* motion_control.cpp), arming and disarming (app_arm.c), the operator's    *)
(* commands (app_cmd.c, the motor and balance methods of app_rpc.c), manual *)
(* motor mode (app_motor.c), the idle work that watches the link            *)
(* (app_main.c), composed with the motor link they share (MotorLink).       *)
(*                                                                          *)
(* Every handler runs to completion in the super-loop and is one action;    *)
(* the bus-off interrupt and a restart of the MCU fall between any two.     *)
(* Timestamps are modelled by their ages, in the units of the thresholds;    *)
(* an age stops counting one above the largest threshold it is held against.*)
(***************************************************************************)
EXTENDS MotorLink

CONSTANTS ImuFallen,     \* IMU_FAULT_FALLEN_MS
          MotorFallen,   \* MOTOR_LINK_FAULT_FALLEN_MS
          ImuFatal,      \* IMU_FAULT_FATAL_MS
          MotorFatal,    \* MOTOR_LINK_FAULT_FATAL_MS
          LinkTimeout,   \* APP_HEARTBEAT_TIMEOUT_MS
          KtKnown        \* MOTOR_LINK_KT_NM_PER_A or _KV_RPM_PER_V configured

ASSUME AgeAssumption ==
    /\ ImuFallen \in Nat /\ ImuFatal \in Nat /\ ImuFallen <= ImuFatal
    /\ MotorFallen \in Nat /\ MotorFatal \in Nat /\ MotorFallen <= MotorFatal
    /\ LinkTimeout \in Nat
    /\ KtKnown \in BOOLEAN

VARIABLES
    mode,        \* s_mode (motion_modes.cpp)
    output,      \* s_output_enabled (motion_control.cpp)
    manual,      \* s_motor_manual.enabled
    manualCmd,   \* s_motor_manual.left, .right
    estimate,    \* the estimator's pitch, as far as the modes look at it
    imuAge,      \* now - s_last_imu_ok_ms, Never while that is 0
    irqAge,      \* now - s_last_imu_irq_ms, likewise
    motorAge,    \* now - s_last_motor_ok_ms, likewise
    linkAge,     \* now - s_last_cmd_ms
    armHeld,     \* s_last_teleop_flags: its ARM bit
    reboot,      \* g_reboot_request = 1
    link         \* the motor link and its drives

ctlVars == <<mode, output, manual, manualCmd>>
ageVars == <<imuAge, irqAge, motorAge, linkAge>>
vars == <<ctlVars, estimate, ageVars, armHeld, reboot, link>>

\* MOTION_MODE_CALIBRATION is declared but no code ever sets it.
Modes == {"disarmed", "balancing", "fallen", "fault"}
Estimates == {"invalid", "upright", "leaning"}
Never == -1
Ages(threshold) == {Never} \cup 0..threshold + 1

TypeOK ==
    /\ mode \in Modes
    /\ output \in BOOLEAN
    /\ manual \in BOOLEAN
    /\ manualCmd \in [Sides -> Torques]
    /\ estimate \in Estimates
    /\ imuAge \in Ages(ImuFatal) /\ irqAge \in Ages(ImuFatal)
    /\ motorAge \in Ages(MotorFatal)
    /\ linkAge \in 0..LinkTimeout + 1
    /\ armHeld \in BOOLEAN
    /\ reboot \in BOOLEAN
    /\ link \in LinkStates

\* Software state at the end of app_init; l is what became of the motor link.
Booted(l) ==
    /\ mode = "disarmed" /\ output = TRUE
    /\ manual = FALSE /\ manualCmd = ZeroTorque
    /\ estimate = "invalid"
    /\ imuAge = Never /\ irqAge = Never /\ motorAge = Never
    /\ linkAge = 0
    /\ armHeld = FALSE /\ reboot = FALSE
    /\ link = l

Init == \E initOk \in BOOLEAN : Booted(LinkInit(initOk))

Rebooted(l) ==
    /\ mode' = "disarmed" /\ output' = TRUE
    /\ manual' = FALSE /\ manualCmd' = ZeroTorque
    /\ estimate' = "invalid"
    /\ imuAge' = Never /\ irqAge' = Never /\ motorAge' = Never
    /\ linkAge' = 0
    /\ armHeld' = FALSE /\ reboot' = FALSE
    /\ link' = l

-----------------------------------------------------------------------------
(* Arming and disarming (app_arm.c).                                         *)

\* motion_control_can_arm.  A valid estimate implies a valid active IMU, which
\* is what the IMU health reports; calibrated and fresh wheel velocities are
\* the parameters' and the drives' to give.

\* Bug: arming is refused only while balancing.
Bug_CanArm(calibrated, wheelOk) ==
    /\ mode # "balancing"
    /\ calibrated
    /\ estimate = "upright"
    /\ wheelOk

CanArm(calibrated, wheelOk) ==
    /\ mode \in {"disarmed", "fallen"}
    /\ calibrated
    /\ estimate = "upright"
    /\ wheelOk

\* Bug: motor_link_get_wheel_velocities does not look at s_bus_off.
Bug_WheelReports == BOOLEAN

\* motor_link_get_wheel_velocities never reports both wheels fresh without a
\* working link.
WheelReports == IF CanSend(link) THEN BOOLEAN ELSE {FALSE}

\* Bug: app_try_arm_balancing(false), which leaves manual mode as it is.
Bug_TryArm ==
    \E calibrated \in BOOLEAN, wheelOk \in WheelReports :
        IF CanArm(calibrated, wheelOk)
        THEN \E r \in EnableOutcomes(link) :
                 /\ mode' = IF r.ok THEN "balancing" ELSE "disarmed"
                 /\ link' = r.link
                 /\ UNCHANGED <<output, manual, manualCmd>>
        ELSE UNCHANGED <<ctlVars, link>>

\* app_try_arm_balancing(true)
TryArm ==
    \E calibrated \in BOOLEAN, wheelOk \in WheelReports :
        IF CanArm(calibrated, wheelOk)
        THEN \E r \in EnableOutcomes(link) :
                 /\ mode' = IF r.ok THEN "balancing" ELSE "disarmed"
                 /\ output' = TRUE
                 /\ manual' = FALSE /\ manualCmd' = ZeroTorque
                 /\ link' = r.link
        ELSE UNCHANGED <<ctlVars, link>>

\* Bug: the early return does not look at manual mode.
Bug_DisarmFrom(l) ==
    IF mode = "disarmed"
    THEN /\ link' = l
         /\ UNCHANGED ctlVars
    ELSE /\ mode' = "disarmed" /\ output' = TRUE
         /\ manual' = FALSE /\ manualCmd' = ZeroTorque
         /\ \E zeroed \in TorqueOutcomes(l, ZeroTorque) :
                \E r \in DisableOutcomes(zeroed) : link' = r.link

\* app_disarm_robot, from motor link state l.  A failed disable is logged and
\* forgotten: the next call returns early.
DisarmFrom(l) ==
    IF mode = "disarmed" /\ ~manual
    THEN /\ link' = l
         /\ UNCHANGED ctlVars
    ELSE /\ mode' = "disarmed" /\ output' = TRUE
         /\ manual' = FALSE /\ manualCmd' = ZeroTorque
         /\ \E zeroed \in TorqueOutcomes(l, ZeroTorque) :
                \E r \in DisableOutcomes(zeroed) : link' = r.link

-----------------------------------------------------------------------------
(* Frames from the operator.  Any valid frame counts as link liveness        *)
(* (app_link_dispatch), whatever it asks for.                                *)

LinkAlive == linkAge' = 0 /\ UNCHANGED <<estimate, imuAge, irqAge, motorAge>>

\* ROBOT_MSG_CMD_HEARTBEAT, and every frame that asks for something else.
Heartbeat == LinkAlive /\ UNCHANGED <<ctlVars, armHeld, reboot, link>>

\* ROBOT_MSG_CMD_TELEOP: estop is a level, arm an edge.
Teleop(estop, arm) ==
    /\ LinkAlive
    /\ armHeld' = arm
    /\ IF estop THEN DisarmFrom(link)
       ELSE IF arm /\ ~armHeld THEN TryArm
       ELSE UNCHANGED <<ctlVars, link>>
    /\ UNCHANGED reboot

\* ROBOT_MSG_CMD_ARM and ROBOT_RPC_METHOD_BALANCE_ENABLE
ArmRequest == LinkAlive /\ TryArm /\ UNCHANGED <<armHeld, reboot>>

\* ROBOT_MSG_CMD_DISARM and ROBOT_RPC_METHOD_BALANCE_DISABLE
DisarmRequest == LinkAlive /\ DisarmFrom(link) /\ UNCHANGED <<armHeld, reboot>>

\* ROBOT_MSG_CMD_REBOOT: the request is served by the idle tick; payload 0,
\* the normal reboot, leaves no request behind.
RebootRequest(bootloader) ==
    /\ LinkAlive
    /\ reboot' = bootloader
    /\ UNCHANGED <<ctlVars, armHeld, link>>

\* Bug: the controller's output and mode are left alone.
Bug_ManualOn ==
    /\ LinkAlive
    /\ \E l \in SetModeOutcomes(link) : \E r \in EnableOutcomes(l) :
           /\ link' = r.link
           /\ manual' = r.ok
    /\ manualCmd' = ZeroTorque
    /\ UNCHANGED <<mode, output, armHeld, reboot>>

\* ROBOT_RPC_METHOD_MOTOR_ENABLE: app_motor_manual_enable(true)
ManualOn ==
    /\ LinkAlive
    /\ \E l \in SetModeOutcomes(link) : \E r \in EnableOutcomes(l) :
           /\ link' = r.link
           /\ manual' = r.ok
           /\ output' = ~r.ok
    /\ mode' = "disarmed" /\ manualCmd' = ZeroTorque
    /\ UNCHANGED <<armHeld, reboot>>

\* ROBOT_RPC_METHOD_MOTOR_DISABLE: app_motor_manual_enable(false).  The mode
\* is left as it is.
ManualOff ==
    /\ LinkAlive
    /\ manual' = FALSE /\ manualCmd' = ZeroTorque /\ output' = TRUE
    /\ \E zeroed \in TorqueOutcomes(link, ZeroTorque) :
           \E r \in DisableOutcomes(zeroed) : link' = r.link
    /\ UNCHANGED <<mode, armHeld, reboot>>

\* app_motor_manual_apply.  Without a torque constant the backend cannot
\* convert the current and commands zero.
ManualApply(l, cmd) ==
    IF manual THEN TorqueOutcomes(l, IF KtKnown THEN cmd ELSE ZeroTorque) ELSE {l}

\* Bug: an intensity that is not finite (None) is stored as well.
Bug_ManualRun(side, intensity) ==
    /\ LinkAlive
    /\ \E i \in {intensity, None} :
           manualCmd' = IF manual THEN [manualCmd EXCEPT ![side] = i] ELSE manualCmd
    /\ link' \in ManualApply(link, manualCmd')
    /\ UNCHANGED <<mode, output, manual, armHeld, reboot>>

\* ROBOT_RPC_METHOD_MOTOR_RUN: app_motor_manual_run
ManualRun(side, intensity) ==
    /\ LinkAlive
    /\ manualCmd' = IF manual THEN [manualCmd EXCEPT ![side] = intensity] ELSE manualCmd
    /\ link' \in ManualApply(link, manualCmd')
    /\ UNCHANGED <<mode, output, manual, armHeld, reboot>>

-----------------------------------------------------------------------------
(* The control tick: motion_control_tick with motion_modes_step.             *)

Exceeds(age, threshold) == age > threshold

\* Bug: the timeouts are looked at in FALLEN only.
Bug_ModesStep(kill, imu, irq, motor) ==
    LET next == IF mode = "balancing" /\ kill THEN "fallen" ELSE mode
        faults == /\ next = "fallen"
                  /\ \/ Exceeds(imu, ImuFatal) \/ Exceeds(irq, ImuFatal)
                     \/ Exceeds(motor, MotorFatal)
    IN  IF faults THEN "fault" ELSE next

\* kill: the pitch is beyond thetaKill, by the estimate if it is valid and by
\* the raw accelerometer otherwise.
ModesStep(kill, imu, irq, motor) ==
    LET falls == mode = "balancing" /\
                 (kill \/ Exceeds(imu, ImuFallen) \/ Exceeds(motor, MotorFallen))
        next == IF falls THEN "fallen" ELSE mode
        faults == /\ next \notin {"disarmed", "fault"}
                  /\ \/ Exceeds(imu, ImuFatal) \/ Exceeds(irq, ImuFatal)
                     \/ Exceeds(motor, MotorFatal)
    IN  IF faults THEN "fault" ELSE next

\* Bug: the estimate is not asked whether it is valid.
Bug_Wanted(m, est) == IF m = "balancing" THEN [Sides -> Torques] ELSE {ZeroTorque}

\* The torques the tick asks for: the controller's in BALANCING with a valid
\* estimate, zero otherwise and when the controller's are not finite.
Wanted(m, est) ==
    IF m = "balancing" /\ est # "invalid" THEN [Sides -> Torques] ELSE {ZeroTorque}

\* When the last data-ready interrupt came: not since the last tick, before
\* this one took the time, or between that and its reading the stamp, in a
\* later millisecond.
Interrupts == {"none", "before", "after"}

\* now_ms - last_imu_irq_ms; uint32_t wraps round when the stamp is the later.
IrqAge(irq) ==
    CASE irq = "none" -> irqAge
      [] irq = "before" -> 0
      [] irq = "after" -> ImuFatal + 1

\* What a tick finds: new samples, the estimate and the kill switch (neither
\* without a sample; thetaKill may lie inside the arming angle), interrupts,
\* wheel telemetry.
Tick(imuOk, est, kill, irq, wheelOk) ==
    /\ est # "invalid" \/ kill => imuOk
    /\ estimate' = est
    /\ imuAge' = IF imuOk THEN 0 ELSE imuAge
    /\ irqAge' = IF irq = "none" THEN irqAge ELSE 0
    /\ motorAge' = IF wheelOk THEN 0 ELSE motorAge
    /\ mode' = ModesStep(kill, imuAge', IrqAge(irq), motorAge')
    /\ \E l \in IF mode' # mode THEN {r.link : r \in DisableOutcomes(link)} ELSE {link} :
           IF output
           THEN \E cmd \in Wanted(mode', est) : link' \in TorqueOutcomes(l, cmd)
           ELSE link' = l
    /\ UNCHANGED <<output, manual, manualCmd, linkAge, armHeld, reboot>>

ControlTick ==
    \E imuOk, kill \in BOOLEAN, est \in Estimates, irq \in Interrupts, wheelOk \in WheelReports :
        Tick(imuOk, est, kill, irq, wheelOk)

-----------------------------------------------------------------------------
(* The idle tick (app_idle_tick): manual output, a pending bootloader        *)
(* reboot, then the link timeout.                                            *)

IdleTick ==
    \E l \in ManualApply(link, manualCmd) :
        IF reboot
        THEN \E initOk \in BOOLEAN : Rebooted(Restart(l, initOk))
        ELSE /\ IF linkAge > LinkTimeout THEN DisarmFrom(l)
                ELSE link' = l /\ UNCHANGED ctlVars
             /\ UNCHANGED <<estimate, ageVars, armHeld, reboot>>

\* The watchdog bites or the supply fails.
McuReset == \E initOk \in BOOLEAN : Rebooted(Restart(link, initOk))

\* The FDCAN error interrupt.
BusOff ==
    /\ CanSend(link)
    /\ link' = BusOffIsr(link)
    /\ UNCHANGED <<ctlVars, estimate, ageVars, armHeld, reboot>>

\* A unit of time goes by.
Aged(age, threshold) == IF age \in {Never, threshold + 1} THEN age ELSE age + 1

Elapse ==
    /\ imuAge' = Aged(imuAge, ImuFatal) /\ irqAge' = Aged(irqAge, ImuFatal)
    /\ motorAge' = Aged(motorAge, MotorFatal) /\ linkAge' = Aged(linkAge, LinkTimeout)
    /\ UNCHANGED <<ctlVars, estimate, armHeld, reboot, link>>

Operator ==
    \/ \E estop, arm \in BOOLEAN : Teleop(estop, arm)
    \/ Heartbeat
    \/ ArmRequest
    \/ DisarmRequest
    \/ \E bootloader \in BOOLEAN : RebootRequest(bootloader)
    \/ ManualOn
    \/ ManualOff
    \/ \E side \in Sides, intensity \in Torques : ManualRun(side, intensity)

Next == Operator \/ ControlTick \/ IdleTick \/ McuReset \/ BusOff \/ Elapse

Spec == Init /\ [][Next]_vars

\* The super-loop comes round to the control tick and to the idle tick again
\* and again, and time goes by.
FairSpec == Spec /\ WF_vars(ControlTick) /\ WF_vars(IdleTick) /\ WF_vars(Elapse)

-----------------------------------------------------------------------------
(* Properties.                                                               *)

(* The wheels have at most one owner: a link the firmware holds enabled is   *)
(* held either for the balancer or for manual mode, never for neither, in    *)
(* whatever order arm, disarm, estop, manual, fault and timeout handlers ran *)
(* and whichever of their frames were refused.                               *)
PowerHasOwner ==
    link.enabled => \/ mode = "balancing" /\ output /\ ~manual
                    \/ mode = "disarmed" /\ ~output /\ manual

(* Manual mode and the balancer never write torques at the same time: the    *)
(* control tick's output is off exactly while manual mode is on, and then    *)
(* the robot is disarmed.                                                    *)
ManualExcludesController == manual = ~output /\ (manual => mode = "disarmed")

(* What the firmware believes about the drives is true unless a power        *)
(* command was refused in part, or bus-off or a restart came since: enabled  *)
(* means both drives in closed loop, not enabled means both idle.            *)
BeliefMatchesDrives ==
    /\ link.enabled => \A s \in Sides : link.axis[s] = "closed"
    /\ ~link.enabled => link.lost \/ \A s \in Sides : link.axis[s] = "idle"

(* Torques are sent only when they change, so the record of what was sent    *)
(* must agree with the drive, or a command would be suppressed and the wheel *)
(* keep another torque.  Holds for the shipped configuration (no torque      *)
(* constant): with one, manual mode followed by ARM breaks it.               *)
SentRecordTruthful ==
    ~KtKnown => \A s \in Sides :
        link.enabled /\ link.sent[s] # None => link.sent[s] = link.torque[s]

(* Balancing starts from DISARMED or FALLEN only, upright, with both drives  *)
(* in closed loop at zero torque, never with a torque left from before.      *)
ArmFromRest ==
    [][mode # "balancing" /\ mode' = "balancing" =>
           /\ mode \in {"disarmed", "fallen"}
           /\ estimate = "upright"
           /\ link'.enabled /\ ~manual'
           /\ \A s \in Sides : link'.axis[s] = "closed" /\ link'.torque[s] = Zero]_vars

(* A drive is given a torque other than zero only by a tick that leaves the  *)
(* robot balancing on a valid estimate, or from manual mode when a torque    *)
(* constant is configured (by the last output before a link timeout, too);   *)
(* no late frame after a fall, a disarm or an estop.                         *)
TorqueNeedsAuthority ==
    [][\A s \in Sides :
           link'.torque[s] \notin {link.torque[s], Zero} =>
               \/ mode' = "balancing" /\ estimate' # "invalid"
               \/ manual /\ KtKnown]_vars

(* A silent link disarms the robot, from any mode and also from manual mode. *)
SilentLinkDisarms ==
    (linkAge > LinkTimeout) ~> (linkAge <= LinkTimeout \/ (mode = "disarmed" /\ ~manual))

(* A balancing robot that loses its IMUs stops balancing or gets them back.  *)
SensorLossStopsBalancing ==
    (mode = "balancing" /\ imuAge > ImuFallen) ~> (mode # "balancing" \/ imuAge <= ImuFallen)

(* A balancing robot whose CAN bus went off stops balancing, provided a tick *)
(* has ever seen both wheels report: before that the motor timeout is off.   *)
BusOffStopsBalancing ==
    (mode = "balancing" /\ link.busOff /\ motorAge # Never) ~> (mode # "balancing")

(* What the comments say: FAULT is for an IMU or a motor link that has been  *)
(* silent too long.  It is not: an interrupt that comes while a tick runs,   *)
(* after a millisecond boundary, makes the age of the stamp wrap round.      *)
FaultOnlyOnLoss ==
    [][mode # "fault" /\ mode' = "fault" =>
           \/ imuAge' > ImuFatal \/ irqAge' > ImuFatal \/ motorAge' > MotorFatal]_vars
=============================================================================
