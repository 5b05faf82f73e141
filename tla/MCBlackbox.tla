------------------------------ MODULE MCBlackbox ------------------------------
(* Model values for Blackbox come from the .cfg.                              *)
EXTENDS Blackbox
=============================================================================
