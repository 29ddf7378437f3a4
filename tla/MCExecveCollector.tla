------------------------- MODULE MCExecveCollector -------------------------
(* Small process trees for ExecveCollector. *)
EXTENDS ExecveCollector
=============================================================================
