---------------------------- MODULE MCSuperLoop ----------------------------
(* The loop in units of 304 us: Budget is 4 units, 400 Hz is a period of 8.  *)
EXTENDS SuperLoop
=============================================================================
