--------------------------- MODULE MotorLinkSpec ---------------------------
(***************************************************************************)
(* What the motor link promises its callers: every operation of MotorLink   *)
(* happens at once, and bus-off falls between two of them.  RobotSafety is  *)
(* written against this promise; MotorLinkIsr shows that the frame-by-frame *)
(* backend with its preempting interrupt keeps it.                          *)
(***************************************************************************)
EXTENDS MotorLink

VARIABLE link

Init == \E initOk \in BOOLEAN : link = LinkInit(initOk)

Enable == \E r \in EnableOutcomes(link) : link' = r.link

Disable == \E r \in DisableOutcomes(link) : link' = r.link

SetMode == link' \in SetModeOutcomes(link)

Torque(cmd) == link' \in TorqueOutcomes(link, cmd)

\* The record of what was sent is not promised once the bus is off: no
\* operation reads it again before the next boot.
BusOff ==
    /\ CanSend(link)
    /\ link' = [BusOffIsr(link) EXCEPT !.sent = [s \in Sides |-> None]]

Next == Enable \/ Disable \/ SetMode \/ BusOff \/ \E cmd \in [Sides -> Torques] : Torque(cmd)

Spec == Init /\ [][Next]_link
=============================================================================
