--------------------------- MODULE MCParamStorage ---------------------------
(* A sector of five flashwords, records of two, and of three after an update.*)
EXTENDS ParamStorage
=============================================================================
