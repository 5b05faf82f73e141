-------------------------- MODULE MCMotorLinkIsr --------------------------
(* Two nodes, addressed left first, as the backend does.                     *)
EXTENDS MotorLinkIsr
CONSTANTS left, right
MCSides == {left, right}
MCOrder == <<left, right>>
=============================================================================
