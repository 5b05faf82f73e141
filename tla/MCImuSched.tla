---------------------------- MODULE MCImuSched ----------------------------
(* The three sensors of the board.                                           *)
EXTENDS ImuSched
=============================================================================
