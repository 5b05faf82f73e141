--------------------------- MODULE MCRobotSafety ---------------------------
(* RobotSafety with every threshold at its smallest: one unit of age without *)
(* samples is enough to fall, two are fatal.                                 *)
EXTENDS RobotSafety
=============================================================================
