---------------------------- MODULE MC_Evidence ----------------------------
(* An execution by the service and one by a worker, for the same step. *)
EXTENDS Evidence
CONSTANTS e, w, s1
MCStepOf == [r \in {e, w} |-> s1]
=============================================================================
