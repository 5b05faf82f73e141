---------------------------- MODULE MCHipControl ----------------------------
(* HipControl with two hips and every time at one unit.                      *)
EXTENDS HipControl
=============================================================================
