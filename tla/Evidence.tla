------------------------------ MODULE Evidence ------------------------------
(***************************************************************************)
(* Executions that store artifacts beside processes that purge them: the   *)
(* two sides share the files and the tables and nothing else.              *)
(***************************************************************************)
EXTENDS Execution, Retention

vars == <<storeVars, execVars, purge>>

TypeOK == StoreTypeOK /\ ExecTypeOK /\ RetentionTypeOK

Init == StoreInit /\ ExecInit /\ RetentionInit

\* Time passes for an artifact written under a policy with a retention period,
\* whether or not its row is committed yet.
Expire(a) ==
    /\ a \in run[a[1]].saved \ expired
    /\ expired' = expired \cup {a}
    /\ UNCHANGED <<files, rows, toolRefs, evidence, faults, execVars, purge>>

Next ==
    \/ ExecNext /\ UNCHANGED purge
    \/ RetentionNext /\ UNCHANGED execVars
    \/ \E a \in Artifacts : Expire(a)

Spec == Init /\ [][Next]_vars /\ RetentionFairness

-----------------------------------------------------------------------------
\* An artifact row that has not expired has its content: whatever writes fail
\* and whatever passes run, nobody finds a row without the file behind it
\* before its time.
ContentWhileLive == rows \ expired \subseteq files

\* No tool run and no observation refers to an artifact without a row, however
\* purges interleave with the transactions that store new results.
ReferencesResolve ==
    /\ \A r \in Runs : toolRefs[r] \subseteq rows
    /\ \A s \in Steps : evidence[s] \subseteq rows

\* Nothing a provider produced is on disk, and no step succeeded, unless the
\* policy allowed the execution and that decision was recorded.
StoredOnlyAllowed ==
    /\ \A a \in files : decisions[a[1]] = "allow"
    /\ \A s \in Steps : step[s] = "succeeded" =>
          \E r \in Runs : StepOf[r] = s /\ decisions[r] = "allow"

\* A caller that is told of a success finds it persisted: every artifact of
\* the execution was written, and has its row until it expires.
ReportedIsDurable ==
    \A r \in Runs : run[r].reported = "ok" =>
       /\ <<r, "result">> \in run[r].saved
       /\ run[r].saved \ expired \subseteq rows
       /\ run[r].saved \ expired \subseteq files

\* Every expired artifact loses its row and its content in the end, although
\* concurrent passes run into rows and files another one has removed, and a
\* pass may stop between the two.
ExpiredEventuallyGone ==
    \A a \in Artifacts : a \in rows \cap expired ~> a \notin rows \cup files
=============================================================================
