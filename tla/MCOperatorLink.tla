---------------------------- MODULE MCOperatorLink ----------------------------
(* OperatorLink with a ring that no frame fits into evenly.                  *)
EXTENDS OperatorLink
=============================================================================
