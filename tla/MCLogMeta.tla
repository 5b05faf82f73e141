------------------------------ MODULE MCLogMeta ------------------------------
(* Model values for LogMetaSaves come from the .cfg. *)
EXTENDS LogMetaSaves
=============================================================================
