---------------------------- MODULE MCCliExecutor ----------------------------
(* The instance of CliExecutor that TLC checks; its values are in the .cfg files. *)
EXTENDS CliExecutor
=============================================================================
