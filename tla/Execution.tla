----------------------------- MODULE Execution -----------------------------
(***************************************************************************)
(* The execution of one capability: by the execution service for a step of *)
(* a local workflow, or by a worker for a job.  Both go through            *)
(* Registry.Execute: evaluate the policy, record the decision, validate,   *)
(* run the provider.  The service then stores whatever there is, failures  *)
(* included, and goes on when a file cannot be written; the worker stores  *)
(* the normalised result of a success only and stops at the first error.   *)
(***************************************************************************)
EXTENDS ArtifactStore

CONSTANT WorkerRuns   \* the executions that a worker performs

VARIABLES
    run,        \* each execution, see Run below
    step,       \* status column of each step run
    decisions   \* recorded policy decision of each execution

execVars == <<run, step, decisions>>

\* todo: artifacts still to write; saved: those written; failed: some write or
\* the transaction failed; verdict: what will be persisted; reported: what the
\* caller was told.
Run == [pc : {"new", "authorize", "validate", "provider", "store", "done"},
        todo : Seq(Names), saved : SUBSET Artifacts, failed : BOOLEAN,
        verdict : {"none", "succeeded", "failed", "retryable"},
        reported : {"none", "ok", "error"}]

NewRun == [pc |-> "new", todo |-> <<>>, saved |-> {}, failed |-> FALSE,
           verdict |-> "none", reported |-> "none"]

ExecTypeOK ==
    /\ run \in [Runs -> Run]
    /\ \A r \in Runs : run[r].pc = "store" => run[r].verdict # "none"
    /\ step \in [Steps -> {"running", "succeeded", "failed", "retryable"}]
    /\ decisions \in [Runs -> {"none", "allow", "deny", "require_approval"}]

ExecInit ==
    /\ run = [r \in Runs |-> NewRun]
    /\ step = [s \in Steps |-> "running"]
    /\ decisions = [r \in Runs |-> "none"]

Goto(r, label) == run' = [run EXCEPT ![r].pc = label]

Ended(r) == [run EXCEPT ![r].pc = "done", ![r].reported = "error"]

\* Service.Execute reads the previous observations that some capabilities need.
Load(r) ==
    /\ run[r].pc = "new"
    /\ Goto(r, "authorize")
    /\ UNCHANGED <<storeVars, step, decisions>>

\* That read fails: an error, and nothing is persisted for the step.
LoadFails(r) ==
    /\ run[r].pc = "new" /\ r \notin WorkerRuns
    /\ Fault
    /\ run' = Ended(r)
    /\ UNCHANGED <<files, rows, expired, toolRefs, evidence, step, decisions>>

\* Fault: a refusal is not classified as a failure.
RefusedUnclassified(r) ==
    IF r \in WorkerRuns THEN Ended(r) ELSE [run EXCEPT ![r].pc = "store"]

\* An error before the provider ran has no output: the service persists a
\* failed step without artifacts, the worker reports it to the queue.
Refused(r) ==
    IF r \in WorkerRuns THEN Ended(r)
    ELSE [run EXCEPT ![r].pc = "store", ![r].verdict = "failed"]

\* Fault: the provider may run although its decision could not be recorded.
AuthorizeUnrecorded(r, decision) ==
    /\ run[r].pc = "authorize"
    /\ \/ /\ decisions' = [decisions EXCEPT ![r] = decision] /\ UNCHANGED faults
       \/ Fault /\ UNCHANGED decisions
    /\ run' = IF decision = "allow" THEN [run EXCEPT ![r].pc = "validate"] ELSE Refused(r)
    /\ UNCHANGED <<files, rows, expired, toolRefs, evidence, step>>

\* Registry.authorize: the decision is recorded before it is obeyed, and a
\* decision that cannot be recorded counts as a refusal.
Authorize(r, decision) ==
    /\ run[r].pc = "authorize"
    /\ \/ /\ decisions' = [decisions EXCEPT ![r] = decision]
          /\ run' = IF decision = "allow" THEN [run EXCEPT ![r].pc = "validate"] ELSE Refused(r)
          /\ UNCHANGED faults
       \/ Fault /\ run' = Refused(r) /\ UNCHANGED decisions
    /\ UNCHANGED <<files, rows, expired, toolRefs, evidence, step>>

\* The capability is not registered, which no decision records.
Unknown(r) ==
    /\ run[r].pc = "authorize"
    /\ run' = Refused(r)
    /\ UNCHANGED <<storeVars, step, decisions>>

Validate(r) ==
    /\ run[r].pc = "validate"
    /\ Goto(r, "provider") \/ run' = Refused(r)
    /\ UNCHANGED <<storeVars, step, decisions>>

\* What a provider leaves to store: a process that ran has a normalised result
\* and perhaps raw output, one whose version check failed only a diagnostic,
\* and an error before that nothing.
Outputs(verdict) ==
    {<<"result">>, <<"raw", "result">>}
       \cup (IF verdict = "failed" THEN {<<"raw">>, <<>>} ELSE {})

Execute(r, verdict) ==
    /\ run[r].pc = "provider"
    /\ \E todo \in Outputs(verdict) :
          run' = IF r \in WorkerRuns
                 THEN IF verdict = "succeeded"
                      THEN [run EXCEPT ![r].pc = "store", ![r].todo = <<"result">>,
                                       ![r].verdict = verdict]
                      ELSE Ended(r)
                 ELSE [run EXCEPT ![r].pc = "store", ![r].todo = todo, ![r].verdict = verdict]
    /\ UNCHANGED <<storeVars, step, decisions>>

\* Local.Put writes the redacted content; the metadata stays with the caller.
Put(r) ==
    /\ run[r].pc = "store" /\ run[r].todo # <<>>
    /\ LET a == <<r, Head(run[r].todo)>>
       IN  /\ files' = files \cup {a}
           /\ run' = [run EXCEPT ![r].todo = Tail(@), ![r].saved = @ \cup {a}]
    /\ UNCHANGED <<rows, expired, toolRefs, evidence, faults, step, decisions>>

\* Fault: an artifact counts as stored although its write failed.
PutFailsCounted(r) ==
    /\ run[r].pc = "store" /\ run[r].todo # <<>>
    /\ Fault
    /\ run' = [run EXCEPT ![r].todo = Tail(@), ![r].failed = TRUE,
                          ![r].saved = @ \cup {<<r, Head(run[r].todo)>>}]
    /\ UNCHANGED <<files, rows, expired, toolRefs, evidence, step, decisions>>

\* The write fails, perhaps after it created the file.
PutFails(r) ==
    /\ run[r].pc = "store" /\ run[r].todo # <<>>
    /\ Fault
    /\ files' \in {files, files \cup {<<r, Head(run[r].todo)>>}}
    /\ run' = IF r \in WorkerRuns THEN Ended(r)
              ELSE [run EXCEPT ![r].todo = Tail(@), ![r].failed = TRUE]
    /\ UNCHANGED <<rows, expired, toolRefs, evidence, step, decisions>>

\* The columns of the tool run: the worker names its result as stdout.
Columns(r) == {a \in run[r].saved : r \in WorkerRuns \/ a[2] # "result"}

\* Fault: a failed write of an artifact is not reported.
ReportVerdict(r) == IF run[r].verdict # "succeeded" THEN "error" ELSE "ok"

\* What Execute returns once PersistResult has committed.
Report(r) == IF run[r].failed \/ run[r].verdict # "succeeded" THEN "error" ELSE "ok"

\* One transaction: status, tool run, artifacts, and for a success the
\* observations with the saved artifacts as evidence, if there are any.
PersistResult(r) ==
    /\ run[r].pc = "store" /\ run[r].todo = <<>>
    /\ step' = [step EXCEPT ![StepOf[r]] = run[r].verdict]
    /\ InsertRows(r, run[r].saved, Columns(r))
    /\ \/ UNCHANGED evidence
       \/ run[r].verdict = "succeeded" /\ Observe(StepOf[r], run[r].saved)
    /\ run' = [run EXCEPT ![r].pc = "done", ![r].reported = Report(r)]
    /\ UNCHANGED <<files, expired, faults, decisions>>

PersistFails(r) ==
    /\ run[r].pc = "store" /\ run[r].todo = <<>>
    /\ Fault
    /\ run' = Ended(r)
    /\ UNCHANGED <<files, rows, expired, toolRefs, evidence, step, decisions>>

\* The process dies.
Crash(r) ==
    /\ run[r].pc \notin {"new", "done"}
    /\ Fault
    /\ run' = [run EXCEPT ![r].pc = "done"]
    /\ UNCHANGED <<files, rows, expired, toolRefs, evidence, step, decisions>>

ExecNext ==
    \E r \in Runs :
       \/ Load(r) \/ LoadFails(r) \/ Unknown(r) \/ Validate(r)
       \/ \E d \in {"allow", "deny", "require_approval"} : Authorize(r, d)
       \/ \E v \in {"succeeded", "failed", "retryable"} : Execute(r, v)
       \/ Put(r) \/ PutFails(r) \/ PersistResult(r) \/ PersistFails(r) \/ Crash(r)
=============================================================================
