----------------------------- MODULE MotorLink -----------------------------
(***************************************************************************)
(* The wheel side of the CAN motor link: the SteadyWin backend              *)
(* (app/drivers/motors/motor_backend_steadywin_can_impl.inc) together with  *)
(* the two drives it commands.                                              *)
(*                                                                          *)
(* An operation of the backend is a handler that runs to completion in the  *)
(* super-loop and queues up to eight CAN frames, each of which the FDCAN    *)
(* TX FIFO may refuse on its own.  It is modelled by the set of its         *)
(* outcomes, one for every combination of refused frames; MotorLinkIsr      *)
(* models the same operations frame by frame, with the bus-off interrupt    *)
(* between any two frames.                                                  *)
(*                                                                          *)
(* A frame the FIFO accepts is taken to reach its drive.  The              *)
(* MOTORS_ENABLE pin is defined by no header of this board, so              *)
(* motor_link_apply_enable_gpio is empty and frames are the only way to     *)
(* switch a drive off.  The control mode is always MOTOR_CONTROL_TORQUE:    *)
(* no caller sets another one.                                              *)
(*                                                                          *)
(* The Bug_ operators are mutants: each breaks the definition below it the  *)
(* way a plausible mistake in the code would, and PROJECT.json names the    *)
(* property that then fails.                                                *)
(***************************************************************************)
EXTENDS Integers

CONSTANTS Sides,    \* the wheel nodes, MOTOR_LINK_CAN_LEFT_ID and _RIGHT_ID
          Torques,  \* the wheel torques the model tells apart
          Zero,     \* zero torque
          None      \* "nothing sent yet": s_left_sent_valid / s_right_sent_valid clear

ASSUME TorqueAssumption == Zero \in Torques /\ None \notin Torques

ZeroTorque == [s \in Sides |-> Zero]

(***************************************************************************)
(* Backend state and drive state.                                           *)
(*   up       s_initialized                                                 *)
(*   enabled  s_enable_applied                                              *)
(*   busOff   s_bus_off                                                     *)
(*   sent     s_left_sent / s_right_sent, None when not valid               *)
(*   axis     the drive's axis state: AXIS_STATE_IDLE or CLOSED_LOOP        *)
(*   torque   the drive's input torque register                             *)
(*   lost     history: the last power command was not carried out in full,  *)
(*            or bus-off or a restart came since                            *)
(***************************************************************************)
LinkStates ==
    [up : BOOLEAN, enabled : BOOLEAN, busOff : BOOLEAN,
     sent : [Sides -> Torques \cup {None}],
     axis : [Sides -> {"idle", "closed"}],
     torque : [Sides -> Torques],
     lost : BOOLEAN]

Results == [link : LinkStates, ok : BOOLEAN]

\* Before the first boot: drives idle.  motor_link_init may fail, which leaves
\* s_initialized clear for ever.
LinkInit(initOk) ==
    [up |-> initOk, enabled |-> FALSE, busOff |-> FALSE,
     sent |-> [s \in Sides |-> None],
     axis |-> [s \in Sides |-> "idle"],
     torque |-> ZeroTorque,
     lost |-> FALSE]

\* The drives of the sides in accepted take the value v.
Put(f, accepted, v) == [s \in Sides |-> IF s \in accepted THEN v ELSE f[s]]

CanSend(l) == l.up /\ ~l.busOff

(***************************************************************************)
(* motor_link_enable(true): for each node clear errors, controller mode,    *)
(* zero torque, closed loop.  zeroed and closed are the nodes whose zero    *)
(* torque and closed-loop frames were accepted; the call also fails when a  *)
(* clear-errors or controller-mode frame was refused, which may leave both  *)
(* drives on all the same.  A failed call idles nothing.                    *)
(***************************************************************************)
EnableDone(l) ==
    [link |-> [l EXCEPT !.torque = ZeroTorque,
                        !.axis = [s \in Sides |-> "closed"],
                        !.enabled = TRUE,
                        !.lost = FALSE],
     ok |-> TRUE]

\* Bug: the link counts as enabled although frames were refused.
Bug_EnableFailed(l, zeroed, closed) ==
    [link |-> [l EXCEPT !.torque = Put(l.torque, zeroed, Zero),
                        !.axis = Put(l.axis, closed, "closed"),
                        !.enabled = TRUE,
                        !.lost = TRUE],
     ok |-> FALSE]

EnableFailed(l, zeroed, closed) ==
    [link |-> [l EXCEPT !.torque = Put(l.torque, zeroed, Zero),
                        !.axis = Put(l.axis, closed, "closed"),
                        !.enabled = FALSE,
                        !.lost = TRUE],
     ok |-> FALSE]

EnableOutcomes(l) ==
    IF ~CanSend(l)
    THEN {[link |-> l, ok |-> FALSE]}
    ELSE {EnableDone(l)} \cup
         {EnableFailed(l, zeroed, closed) :
              zeroed \in SUBSET Sides, closed \in SUBSET Sides}

(***************************************************************************)
(* motor_link_enable(false): zero torque if the link was enabled, then axis *)
(* idle.  The backend forgets its enable state whatever was accepted.       *)
(***************************************************************************)

\* Bug: s_left_sent_valid and s_right_sent_valid are not cleared.
Bug_EnableOff(l, zeroed, idled) ==
    LET ok == idled = Sides /\ (l.enabled => zeroed = Sides)
    IN  [link |-> [l EXCEPT !.torque = Put(l.torque, zeroed, Zero),
                            !.axis = Put(l.axis, idled, "idle"),
                            !.enabled = FALSE,
                            !.lost = ~ok],
         ok |-> ok]

EnableOff(l, zeroed, idled) ==
    LET ok == idled = Sides /\ (l.enabled => zeroed = Sides)
    IN  [link |-> [l EXCEPT !.torque = Put(l.torque, zeroed, Zero),
                            !.axis = Put(l.axis, idled, "idle"),
                            !.sent = [s \in Sides |-> None],
                            !.enabled = FALSE,
                            !.lost = ~ok],
         ok |-> ok]

DisableOutcomes(l) ==
    IF ~CanSend(l)
    THEN {[link |-> l, ok |-> FALSE]}
    ELSE {EnableOff(l, zeroed, idled) :
              zeroed \in SUBSET (IF l.enabled THEN Sides ELSE {}),
              idled \in SUBSET Sides}

(***************************************************************************)
(* motor_link_set_wheel_torque_commands: only to an enabled link, and only  *)
(* the sides whose command differs from what was sent last.  Inside the     *)
(* 4 ms target period nothing is sent (the empty set of accepted frames).   *)
(***************************************************************************)
Changed(l, cmd) == {s \in Sides : l.sent[s] # cmd[s]}

SendTorque(l, cmd, accepted) ==
    [l EXCEPT !.torque = [s \in Sides |-> IF s \in accepted THEN cmd[s] ELSE l.torque[s]],
              !.sent = [s \in Sides |-> IF s \in accepted THEN cmd[s] ELSE l.sent[s]]]

TorqueOutcomes(l, cmd) ==
    IF CanSend(l) /\ l.enabled
    THEN {SendTorque(l, cmd, accepted) : accepted \in SUBSET Changed(l, cmd)}
    ELSE {l}

(***************************************************************************)
(* motor_link_set_control_mode(MOTOR_CONTROL_TORQUE): an enabled link       *)
(* repeats the mode and a zero torque to both drives and drops its record   *)
(* of what was sent; refused frames go unnoticed.                           *)
(***************************************************************************)
SetModeOutcomes(l) ==
    IF l.enabled
    THEN {[l EXCEPT !.torque = Put(l.torque, zeroed, Zero),
                    !.sent = [s \in Sides |-> None]] :
              zeroed \in SUBSET (IF CanSend(l) THEN Sides ELSE {})}
    ELSE {l}

\* HAL_FDCAN_ErrorStatusCallback with FDCAN_IT_BUS_OFF.  Nothing in the
\* firmware clears s_bus_off again before the next boot.
BusOffIsr(l) == [l EXCEPT !.busOff = TRUE, !.enabled = FALSE, !.lost = TRUE]

\* The MCU restarts: the backend's variables start over (motor_link_init),
\* the drives keep their axis state and their torque.
Restart(l, initOk) ==
    [LinkInit(initOk) EXCEPT !.axis = l.axis, !.torque = l.torque,
                             !.lost = \E s \in Sides : l.axis[s] # "idle"]
=============================================================================
