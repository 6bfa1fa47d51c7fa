--------------------------- MODULE EvidenceProofs ---------------------------
(***************************************************************************)
(* Proofs about Evidence for any number of executions, steps, purging      *)
(* processes and failures.                                                 *)
(***************************************************************************)
EXTENDS Evidence, TLAPS

\* An execution on its way: nothing is stored before the decision is recorded,
\* and a success that may still be reported has its result written or to write.
RunInv(r) ==
    /\ run[r].pc \in {"new", "authorize"} => decisions[r] = "none"
    /\ run[r].pc \in {"new", "authorize", "validate", "provider"} => run[r].todo = <<>>
    /\ run[r].pc \in {"validate", "provider"} => decisions[r] = "allow"
    /\ run[r].pc = "store" => \/ run[r].todo = <<>> /\ run[r].verdict # "succeeded"
                              \/ decisions[r] = "allow"
    /\ run[r].pc = "store" /\ run[r].verdict = "succeeded" /\ ~run[r].failed =>
           \/ <<r, "result">> \in run[r].saved
           \/ run[r].todo \in {<<"result">>, <<"raw", "result">>}
    /\ run[r].reported = "ok" => run[r].pc = "done" /\ <<r, "result">> \in run[r].saved

\* An execution saves its own artifacts only.
OwnInv == \A r \in Runs : \A a \in run[r].saved : a[1] = r

\* A purger only holds artifacts past their time, a row is of an artifact its
\* execution wrote, and such an artifact keeps its file until it expires.
StoreInv ==
    /\ \A p \in Purgers : purge[p].items \subseteq expired
    /\ \A a \in rows : a \in run[a[1]].saved
    /\ \A r \in Runs : run[r].saved \ expired \subseteq files
    /\ \A r \in Runs : run[r].reported = "ok" => run[r].saved \ expired \subseteq rows

EvidenceInv ==
    /\ TypeOK
    /\ \A r \in Runs : RunInv(r)
    /\ OwnInv
    /\ StoreInv
    /\ StoredOnlyAllowed
    /\ ReferencesResolve

-----------------------------------------------------------------------------
(* Steps of an execution that neither write a file nor commit. *)

\* What every step of one execution does to the others.
LEMMA OthersKeep ==
    ASSUME TypeOK, NEW r \in Runs, NEW u \in Run, run' = [run EXCEPT ![r] = u],
           \A q \in Runs \ {r} : decisions'[q] = decisions[q],
           \A q \in Runs : RunInv(q), RunInv(r)'
    PROVE  \A q \in Runs : RunInv(q)'
<1> SUFFICES ASSUME NEW q \in Runs \ {r} PROVE RunInv(q)'
  OBVIOUS
<1>1. run'[q] = run[q] /\ decisions'[q] = decisions[q]
  BY DEF TypeOK, ExecTypeOK
<1> QED
  BY <1>1 DEF RunInv

\* The run moves on with what it had saved: the store sees nothing of it.
LEMMA MoveKeeps ==
    ASSUME EvidenceInv, NEW r \in Runs, NEW u \in Run, run' = [run EXCEPT ![r] = u],
           u.saved = run[r].saved, u.reported \in {run[r].reported, "error"},
           u.pc = "store" => u.verdict # "none",
           RunInv(r)',
           UNCHANGED <<files, rows, expired, toolRefs, evidence, step, purge>>,
           faults' \in 0..MaxFaults,
           decisions' \in [Runs -> {"none", "allow", "deny", "require_approval"}],
           \A q \in Runs \ {r} : decisions'[q] = decisions[q],
           decisions[r] = "allow" => decisions'[r] = "allow"
    PROVE  EvidenceInv'
<1>1. run \in [Runs -> Run] /\ run' \in [Runs -> Run]
  BY DEF EvidenceInv, TypeOK, ExecTypeOK
<1>2. run'[r] = u /\ \A q \in Runs \ {r} : run'[q] = run[q]
  BY <1>1
<1>3. TypeOK'
  BY <1>1, <1>2 DEF EvidenceInv, TypeOK, StoreTypeOK, ExecTypeOK, RetentionTypeOK
<1>4. \A q \in Runs : RunInv(q)'
  BY OthersKeep DEF EvidenceInv
<1>5. \A q \in Runs : run'[q].saved = run[q].saved /\ run'[q].reported \in {run[q].reported, "error"}
  BY <1>2
<1>6. StoreInv'
  <2>1. \A a \in rows : a[1] \in Runs
    BY DEF EvidenceInv, TypeOK, StoreTypeOK, Artifacts
  <2> QED
    BY <1>5, <2>1 DEF EvidenceInv, StoreInv
<1>7. StoredOnlyAllowed'
  <2>1. \A a \in files : a[1] \in Runs
    BY DEF EvidenceInv, TypeOK, StoreTypeOK, Artifacts
  <2>2. \A q \in Runs : decisions[q] = "allow" => decisions'[q] = "allow"
    OBVIOUS
  <2> QED
    BY <2>1, <2>2 DEF EvidenceInv, StoredOnlyAllowed
<1>8. ReferencesResolve' /\ OwnInv'
  BY <1>5 DEF EvidenceInv, ReferencesResolve, OwnInv
<1> QED
  BY <1>3, <1>4, <1>6, <1>7, <1>8 DEF EvidenceInv

LEMMA FaultType ==
    ASSUME TypeOK, Fault
    PROVE  faults' \in 0..MaxFaults
BY StoreAssumption DEF Fault, TypeOK, StoreTypeOK

\* The execution ends with an error, and perhaps a failed call.
LEMMA EndedKeeps ==
    ASSUME EvidenceInv, NEW r \in Runs, run' = Ended(r), faults' \in 0..MaxFaults,
           UNCHANGED <<files, rows, expired, toolRefs, evidence, step, purge>>,
           decisions' \in [Runs -> {"none", "allow", "deny", "require_approval"}],
           \A q \in Runs \ {r} : decisions'[q] = decisions[q],
           decisions[r] = "allow" => decisions'[r] = "allow"
    PROVE  EvidenceInv'
<1> DEFINE u == [run[r] EXCEPT !.pc = "done", !.reported = "error"]
<1>1. run \in [Runs -> Run]
  BY DEF EvidenceInv, TypeOK, ExecTypeOK
<1>2. u \in Run /\ u.saved = run[r].saved /\ u.reported = "error" /\ u.pc = "done"
  BY <1>1 DEF Run
<1>3. run' = [run EXCEPT ![r] = u]
  BY <1>1 DEF Ended
<1> HIDE DEF u
<1>4. RunInv(r)'
  BY <1>1, <1>2, <1>3 DEF RunInv
<1> QED
  BY <1>2, <1>3, <1>4, MoveKeeps

\* The execution is refused before its provider ran.
LEMMA RefusedKeeps ==
    ASSUME EvidenceInv, NEW r \in Runs, run' = Refused(r), faults' \in 0..MaxFaults,
           run[r].pc \in {"authorize", "validate"},
           UNCHANGED <<files, rows, expired, toolRefs, evidence, step, purge>>,
           decisions' \in [Runs -> {"none", "allow", "deny", "require_approval"}],
           \A q \in Runs \ {r} : decisions'[q] = decisions[q],
           decisions[r] = "allow" => decisions'[r] = "allow"
    PROVE  EvidenceInv'
<1>1. run \in [Runs -> Run]
  BY DEF EvidenceInv, TypeOK, ExecTypeOK
<1>2. CASE r \in WorkerRuns
  BY <1>2, EndedKeeps DEF Refused
<1>3. CASE r \notin WorkerRuns
  <2> DEFINE u == [run[r] EXCEPT !.pc = "store", !.verdict = "failed"]
  <2>1. /\ u \in Run /\ u.saved = run[r].saved /\ u.reported = run[r].reported
        /\ u.pc = "store" /\ u.verdict = "failed" /\ u.todo = run[r].todo
    BY <1>1 DEF Run
  <2>2. run' = [run EXCEPT ![r] = u]
    BY <1>1, <1>3 DEF Refused
  <2>3. run[r].todo = <<>> /\ run[r].reported # "ok"
    BY DEF EvidenceInv, RunInv
  <2> HIDE DEF u
  <2>4. RunInv(r)'
    BY <1>1, <2>1, <2>2, <2>3 DEF RunInv
  <2> QED
    BY <2>1, <2>2, <2>4, MoveKeeps
<1> QED
  BY <1>2, <1>3

\* The execution goes on to the label, before its provider ran.
LEMMA GotoKeeps ==
    ASSUME EvidenceInv, NEW r \in Runs, NEW label \in {"authorize", "validate", "provider"},
           Goto(r, label), faults' = faults,
           run[r].pc \in {"new", "authorize", "validate"},
           label = "authorize" => decisions'[r] = "none",
           label # "authorize" => decisions'[r] = "allow",
           UNCHANGED <<files, rows, expired, toolRefs, evidence, step, purge>>,
           decisions' \in [Runs -> {"none", "allow", "deny", "require_approval"}],
           \A q \in Runs \ {r} : decisions'[q] = decisions[q],
           decisions[r] = "allow" => decisions'[r] = "allow"
    PROVE  EvidenceInv'
<1> DEFINE u == [run[r] EXCEPT !.pc = label]
<1>1. run \in [Runs -> Run] /\ faults' \in 0..MaxFaults
  BY DEF EvidenceInv, TypeOK, ExecTypeOK, StoreTypeOK
<1>2. /\ u \in Run /\ u.saved = run[r].saved /\ u.reported = run[r].reported
      /\ u.pc = label /\ u.todo = run[r].todo
  BY <1>1 DEF Run
<1>3. run' = [run EXCEPT ![r] = u]
  BY <1>1 DEF Goto
<1>4. run[r].todo = <<>> /\ run[r].reported # "ok"
  BY DEF EvidenceInv, RunInv
<1> HIDE DEF u
<1>5. RunInv(r)'
  BY <1>1, <1>2, <1>3, <1>4 DEF RunInv
<1> QED
  BY <1>1, <1>2, <1>3, <1>5, MoveKeeps

LEMMA EarlyStep ==
    ASSUME EvidenceInv, NEW r \in Runs, UNCHANGED purge,
           \/ Load(r) \/ LoadFails(r) \/ Unknown(r) \/ Validate(r) \/ PersistFails(r)
           \/ \E d \in {"allow", "deny", "require_approval"} : Authorize(r, d)
    PROVE  EvidenceInv'
<1>1. decisions \in [Runs -> {"none", "allow", "deny", "require_approval"}] /\ TypeOK
      /\ faults \in 0..MaxFaults /\ RunInv(r)
  BY DEF EvidenceInv, TypeOK, ExecTypeOK, StoreTypeOK
<1>2. CASE Load(r)
  BY <1>1, <1>2, GotoKeeps DEF Load, storeVars, RunInv
<1>3. CASE LoadFails(r) \/ PersistFails(r)
  BY <1>1, <1>3, EndedKeeps, FaultType DEF LoadFails, PersistFails
<1>4. CASE Unknown(r)
  BY <1>1, <1>4, RefusedKeeps DEF Unknown, storeVars
<1>5. CASE Validate(r)
  <2>1. CASE Goto(r, "provider")
    BY <1>1, <1>5, <2>1, GotoKeeps DEF Validate, storeVars, RunInv
  <2>2. CASE run' = Refused(r)
    BY <1>1, <1>5, <2>2, RefusedKeeps DEF Validate, storeVars
  <2> QED
    BY <1>5, <2>1, <2>2 DEF Validate
<1>6. ASSUME NEW d \in {"allow", "deny", "require_approval"}, Authorize(r, d)
      PROVE  EvidenceInv'
  <2>1. /\ run[r].pc = "authorize" /\ decisions[r] = "none"
        /\ UNCHANGED <<files, rows, expired, toolRefs, evidence, step>>
    BY <1>1, <1>6 DEF Authorize, RunInv
  <2>2. CASE decisions' = [decisions EXCEPT ![r] = d] /\ UNCHANGED faults
    <3>1. /\ decisions' \in [Runs -> {"none", "allow", "deny", "require_approval"}]
          /\ decisions'[r] = d /\ \A q \in Runs \ {r} : decisions'[q] = decisions[q]
      BY <1>1, <2>2
    <3>2. CASE run' = Refused(r)
      BY <1>1, <2>1, <2>2, <3>1, <3>2, RefusedKeeps
    <3>3. CASE d = "allow" /\ run' = [run EXCEPT ![r].pc = "validate"]
      BY <1>1, <2>1, <2>2, <3>1, <3>3, GotoKeeps DEF Goto
    <3> QED
      BY <1>6, <2>1, <2>2, <3>1, <3>2, <3>3 DEF Authorize
  <2>3. CASE Fault /\ run' = Refused(r) /\ UNCHANGED decisions
    BY <1>1, <2>1, <2>3, RefusedKeeps, FaultType
  <2> QED
    BY <1>6, <2>2, <2>3 DEF Authorize
<1> QED
  BY <1>2, <1>3, <1>4, <1>5, <1>6

LEMMA CrashStep ==
    ASSUME EvidenceInv, NEW r \in Runs, UNCHANGED purge, Crash(r)
    PROVE  EvidenceInv'
<1> DEFINE u == [run[r] EXCEPT !.pc = "done"]
<1>1. run \in [Runs -> Run] /\ faults' \in 0..MaxFaults /\ RunInv(r)
      /\ decisions \in [Runs -> {"none", "allow", "deny", "require_approval"}]
  BY FaultType DEF Crash, EvidenceInv, TypeOK, ExecTypeOK
<1>2. u \in Run /\ u.saved = run[r].saved /\ u.reported = run[r].reported /\ u.pc = "done"
  BY <1>1 DEF Run
<1>3. run' = [run EXCEPT ![r] = u]
  BY <1>1 DEF Crash
<1> HIDE DEF u
<1>4. RunInv(r)'
  BY <1>1, <1>2, <1>3 DEF RunInv, Crash
<1> QED
  BY <1>1, <1>2, <1>3, <1>4, MoveKeeps DEF Crash

LEMMA ExecuteStep ==
    ASSUME EvidenceInv, NEW r \in Runs, UNCHANGED purge,
           NEW v \in {"succeeded", "failed", "retryable"}, Execute(r, v)
    PROVE  EvidenceInv'
<1>1. /\ run \in [Runs -> Run] /\ faults \in 0..MaxFaults /\ RunInv(r)
      /\ decisions \in [Runs -> {"none", "allow", "deny", "require_approval"}]
  BY DEF EvidenceInv, TypeOK, ExecTypeOK, StoreTypeOK
<1>2. /\ run[r].pc = "provider" /\ decisions[r] = "allow" /\ run[r].reported # "ok"
      /\ UNCHANGED <<files, rows, expired, toolRefs, evidence, faults, step, decisions>>
  BY <1>1 DEF Execute, storeVars, RunInv
<1>3. CASE run' = Ended(r)
  BY <1>1, <1>2, <1>3, EndedKeeps
<1>4. ASSUME NEW todo \in {<<"result">>, <<"raw", "result">>, <<"raw">>, <<>>},
             v = "succeeded" => todo \in {<<"result">>, <<"raw", "result">>},
             run' = [run EXCEPT ![r].pc = "store", ![r].todo = todo, ![r].verdict = v]
      PROVE  EvidenceInv'
  <2> DEFINE u == [run[r] EXCEPT !.pc = "store", !.todo = todo, !.verdict = v]
  <2>1. todo \in Seq(Names)
    <3>1. "raw" \in Names /\ "result" \in Names
      BY DEF Names
    <3>2. /\ <<"result">> \in Seq(Names) /\ <<"raw", "result">> \in Seq(Names)
          /\ <<"raw">> \in Seq(Names) /\ <<>> \in Seq(Names)
      BY <3>1
    <3> QED
      BY <1>4, <3>2
  <2>2. /\ u \in Run /\ u.saved = run[r].saved /\ u.reported = run[r].reported
        /\ u.pc = "store" /\ u.todo = todo /\ u.verdict = v
    BY <1>1, <2>1 DEF Run
  <2>3. run' = [run EXCEPT ![r] = u]
    BY <1>1, <1>4
  <2> HIDE DEF u
  <2>4. RunInv(r)'
    BY <1>1, <1>2, <1>4, <2>2, <2>3 DEF RunInv
  <2> QED
    BY <1>1, <1>2, <2>2, <2>3, <2>4, MoveKeeps
<1> QED
  BY <1>3, <1>4 DEF Execute, Outputs

-----------------------------------------------------------------------------
(* Files and rows. *)

\* A write, of a success or of what a failed write left behind.
LEMMA WriteStep ==
    ASSUME EvidenceInv, NEW r \in Runs, UNCHANGED purge, Put(r) \/ PutFails(r)
    PROVE  EvidenceInv'
<1> DEFINE a == <<r, Head(run[r].todo)>>
<1>1. /\ run \in [Runs -> Run] /\ RunInv(r) /\ TypeOK
      /\ decisions \in [Runs -> {"none", "allow", "deny", "require_approval"}]
  BY DEF EvidenceInv, TypeOK, ExecTypeOK
<1>2. /\ run[r].pc = "store" /\ run[r].todo # <<>> /\ run[r].todo \in Seq(Names)
      /\ decisions[r] = "allow" /\ run[r].verdict # "none" /\ run[r].reported # "ok"
  BY <1>1 DEF Put, PutFails, RunInv, Run, TypeOK, ExecTypeOK
<1>3. /\ Head(run[r].todo) \in Names /\ Tail(run[r].todo) \in Seq(Names)
      /\ a \in Artifacts
  BY <1>2 DEF Artifacts
<1>4. /\ UNCHANGED <<rows, expired, toolRefs, evidence, step, decisions>>
      /\ files \subseteq files' /\ files' \subseteq files \cup {a}
  BY DEF Put, PutFails
<1>5. faults' \in 0..MaxFaults
  BY <1>1, FaultType DEF Put, PutFails, TypeOK, StoreTypeOK
<1>6. PICK u \in Run :
          /\ run' = [run EXCEPT ![r] = u]
          /\ u.pc = "store" => u.verdict # "none"
          /\ u.saved = run[r].saved \/ (u.saved = run[r].saved \cup {a} /\ a \in files')
          /\ u.reported # "ok"
          /\ RunInv(r)'
  <2>1. CASE Put(r)
    <3> DEFINE u == [run[r] EXCEPT !.todo = Tail(@), !.saved = @ \cup {a}]
    <3>1. /\ u \in Run /\ u.pc = "store" /\ u.verdict = run[r].verdict
          /\ u.saved = run[r].saved \cup {a} /\ u.reported = run[r].reported
          /\ u.todo = Tail(run[r].todo) /\ u.failed = run[r].failed
      BY <1>1, <1>2, <1>3 DEF Run
    <3>2. run' = [run EXCEPT ![r] = u] /\ a \in files'
      BY <1>1, <2>1 DEF Put
    <3> HIDE DEF u
    <3>3. run'[r] = u
      BY <1>1, <3>2
    <3>4. run[r].todo = <<"result">> => a = <<r, "result">>
      OBVIOUS
    <3>5. run[r].todo = <<"raw", "result">> => Tail(run[r].todo) = <<"result">>
      OBVIOUS
    <3>6. RunInv(r)'
      BY <1>1, <1>2, <1>4, <3>1, <3>3, <3>4, <3>5 DEF RunInv
    <3> QED
      BY <1>2, <3>1, <3>2, <3>6
  <2>2. CASE PutFails(r) /\ r \in WorkerRuns
    <3> DEFINE u == [run[r] EXCEPT !.pc = "done", !.reported = "error"]
    <3>1. u \in Run /\ u.saved = run[r].saved /\ u.reported = "error" /\ u.pc = "done"
      BY <1>1 DEF Run
    <3>2. run' = [run EXCEPT ![r] = u]
      BY <1>1, <2>2 DEF PutFails, Ended
    <3> HIDE DEF u
    <3>3. RunInv(r)'
      BY <1>1, <3>1, <3>2 DEF RunInv
    <3> QED
      BY <3>1, <3>2, <3>3
  <2>3. CASE PutFails(r) /\ r \notin WorkerRuns
    <3> DEFINE u == [run[r] EXCEPT !.todo = Tail(@), !.failed = TRUE]
    <3>1. /\ u \in Run /\ u.pc = "store" /\ u.verdict = run[r].verdict
          /\ u.saved = run[r].saved /\ u.reported = run[r].reported
          /\ u.todo = Tail(run[r].todo) /\ u.failed = TRUE
      BY <1>1, <1>2, <1>3 DEF Run
    <3>2. run' = [run EXCEPT ![r] = u]
      BY <1>1, <2>3 DEF PutFails
    <3> HIDE DEF u
    <3>3. RunInv(r)'
      BY <1>1, <1>2, <1>4, <3>1, <3>2 DEF RunInv
    <3> QED
      BY <1>2, <3>1, <3>2, <3>3
  <2> QED
    BY <2>1, <2>2, <2>3
<1> HIDE DEF a
<1>7. run' \in [Runs -> Run] /\ run'[r] = u /\ \A q \in Runs \ {r} : run'[q] = run[q]
  BY <1>1, <1>6
<1>8. TypeOK'
  <2>1. files' \in SUBSET Artifacts
    BY <1>3, <1>4 DEF EvidenceInv, TypeOK, StoreTypeOK
  <2> QED
    BY <1>4, <1>5, <1>6, <1>7, <2>1 DEF EvidenceInv, TypeOK, StoreTypeOK, ExecTypeOK, RetentionTypeOK
<1>9. \A q \in Runs : RunInv(q)'
  BY <1>4, <1>6, OthersKeep DEF EvidenceInv
<1>10. StoreInv'
  <2>1. \A b \in rows : b[1] \in Runs
    BY DEF EvidenceInv, TypeOK, StoreTypeOK, Artifacts
  <2>2. \A q \in Runs : run[q].saved \subseteq run'[q].saved
                        /\ (run'[q].saved \ run[q].saved) \subseteq files'
    BY <1>6, <1>7
  <2>3. \A q \in Runs : run'[q].reported = "ok" => run'[q] = run[q]
    BY <1>6, <1>7
  <2> QED
    BY <1>4, <2>1, <2>2, <2>3 DEF EvidenceInv, StoreInv
<1>11. StoredOnlyAllowed'
  <2>1. a[1] = r
    BY DEF a
  <2> QED
    BY <1>2, <1>4, <2>1 DEF EvidenceInv, StoredOnlyAllowed
<1>12. ReferencesResolve'
  BY <1>4 DEF EvidenceInv, ReferencesResolve
<1>13. OwnInv'
  BY <1>6, <1>7 DEF EvidenceInv, OwnInv, a
<1> QED
  BY <1>8, <1>9, <1>10, <1>11, <1>12, <1>13 DEF EvidenceInv

\* One transaction adds the rows of the artifacts and the references to them.
LEMMA PersistStep ==
    ASSUME EvidenceInv, NEW r \in Runs, UNCHANGED purge, PersistResult(r)
    PROVE  EvidenceInv'
<1> DEFINE u == [run[r] EXCEPT !.pc = "done", !.reported = Report(r)]
<1>1. run \in [Runs -> Run] /\ RunInv(r) /\ run[r] \in Run /\ StepOf[r] \in Steps
  BY StoreAssumption DEF EvidenceInv, TypeOK, ExecTypeOK
<1>2. /\ run[r].pc = "store" /\ run[r].todo = <<>> /\ run[r].verdict # "none"
      /\ UNCHANGED <<files, expired, faults, decisions>>
      /\ rows' = rows \cup run[r].saved
      /\ toolRefs' = [toolRefs EXCEPT ![r] = Columns(r)]
      /\ step' = [step EXCEPT ![StepOf[r]] = run[r].verdict]
  BY DEF PersistResult, InsertRows, EvidenceInv, TypeOK, ExecTypeOK
<1>3. u \in Run /\ u.saved = run[r].saved /\ u.reported = Report(r) /\ u.pc = "done"
  BY <1>1 DEF Run, Report
<1>4. run' = [run EXCEPT ![r] = u]
  BY <1>1 DEF PersistResult
<1>5. Report(r) = "ok" => run[r].verdict = "succeeded" /\ ~run[r].failed
  BY DEF Report
<1>6. <<>> \notin {<<"result">>, <<"raw", "result">>}
  OBVIOUS
<1> HIDE DEF u
<1>7. run' \in [Runs -> Run] /\ run'[r] = u /\ \A q \in Runs \ {r} : run'[q] = run[q]
  BY <1>1, <1>3, <1>4
<1>8. RunInv(r)'
  BY <1>1, <1>2, <1>3, <1>5, <1>6, <1>7 DEF RunInv
<1>9. \A q \in Runs : RunInv(q)'
  BY <1>2, <1>3, <1>4, <1>8, OthersKeep DEF EvidenceInv
<1>10. run[r].saved \subseteq Artifacts /\ Columns(r) \subseteq run[r].saved
  BY <1>1 DEF Run, Columns
<1>11. \A s \in Steps : evidence'[s] \subseteq evidence[s] \cup run[r].saved
  BY DEF PersistResult, Observe, EvidenceInv, TypeOK, StoreTypeOK
<1>12. evidence' \in [Steps -> SUBSET Artifacts]
  BY <1>1, <1>10 DEF PersistResult, Observe, EvidenceInv, TypeOK, StoreTypeOK
<1>13. TypeOK'
  <2>1. step' \in [Steps -> {"running", "succeeded", "failed", "retryable"}]
    BY <1>1, <1>2 DEF Run, EvidenceInv, TypeOK, ExecTypeOK
  <2>2. rows' \in SUBSET Artifacts /\ toolRefs' \in [Runs -> SUBSET Artifacts]
    BY <1>2, <1>10 DEF EvidenceInv, TypeOK, StoreTypeOK
  <2> QED
    BY <1>2, <1>3, <1>7, <1>12, <2>1, <2>2
    DEF EvidenceInv, TypeOK, StoreTypeOK, ExecTypeOK, RetentionTypeOK
<1>14. \A q \in Runs : run'[q].saved = run[q].saved
  BY <1>3, <1>7
<1>15. StoreInv'
  <2>1. \A b \in rows : b[1] \in Runs
    BY DEF EvidenceInv, TypeOK, StoreTypeOK, Artifacts
  <2>2. \A b \in run[r].saved : b[1] = r
    BY DEF EvidenceInv, OwnInv
  <2>3. \A q \in Runs \ {r} : run'[q].reported = "ok" => run'[q].saved \ expired \subseteq rows
    BY <1>7 DEF EvidenceInv, StoreInv
  <2> QED
    BY <1>2, <1>14, <2>1, <2>2, <2>3 DEF EvidenceInv, StoreInv
<1>16. StoredOnlyAllowed'
  <2>1. run[r].verdict = "succeeded" => decisions[r] = "allow"
    BY <1>1, <1>2 DEF RunInv
  <2>2. \A s \in Steps : step'[s] = IF s = StepOf[r] THEN run[r].verdict ELSE step[s]
    BY <1>2 DEF EvidenceInv, TypeOK, ExecTypeOK
  <2> QED
    BY <1>2, <2>1, <2>2 DEF EvidenceInv, StoredOnlyAllowed
<1>17. ReferencesResolve'
  <2>1. \A q \in Runs : toolRefs'[q] = IF q = r THEN Columns(r) ELSE toolRefs[q]
    BY <1>2 DEF EvidenceInv, TypeOK, StoreTypeOK
  <2> QED
    BY <1>2, <1>10, <1>11, <2>1 DEF EvidenceInv, ReferencesResolve
<1>18. OwnInv'
  BY <1>14 DEF EvidenceInv, OwnInv
<1> QED
  BY <1>9, <1>13, <1>15, <1>16, <1>17, <1>18 DEF EvidenceInv

-----------------------------------------------------------------------------
(* Time and retention. *)

LEMMA ExpireStep ==
    ASSUME EvidenceInv, NEW a \in Artifacts, Expire(a)
    PROVE  EvidenceInv'
<1>1. /\ expired' = expired \cup {a}
      /\ UNCHANGED <<files, rows, toolRefs, evidence, faults, run, step, decisions, purge>>
  BY DEF Expire, execVars
<1>2. TypeOK'
  BY <1>1 DEF EvidenceInv, TypeOK, StoreTypeOK, ExecTypeOK, RetentionTypeOK
<1>3. \A r \in Runs : RunInv(r)'
  BY <1>1 DEF EvidenceInv, RunInv
<1>4. StoreInv'
  BY <1>1 DEF EvidenceInv, StoreInv
<1>5. StoredOnlyAllowed' /\ ReferencesResolve' /\ OwnInv'
  BY <1>1 DEF EvidenceInv, StoredOnlyAllowed, ReferencesResolve, OwnInv
<1> QED
  BY <1>2, <1>3, <1>4, <1>5 DEF EvidenceInv

\* The next state of a pass.
LEMMA NextItemType ==
    ASSUME TypeOK, NEW p \in Purgers, NEW items \in SUBSET Artifacts
    PROVE  /\ NextItem(p, items) \in [Purgers -> Pass]
           /\ NextItem(p, items)[p].items = items
           /\ NextItem(p, items)[p].pc \in {"idle", "content"}
           /\ \A q \in Purgers \ {p} : NextItem(p, items)[q] = purge[q]
<1>1. purge \in [Purgers -> Pass]
  BY DEF TypeOK, RetentionTypeOK
<1>2. NoPass \in Pass /\ [pc |-> "content", items |-> items, item |-> <<>>] \in Pass
  BY DEF NoPass, Pass
<1> QED
  BY <1>1, <1>2 DEF NextItem, NoPass

\* Whatever a pass does to its own state, files lose expired artifacts only and
\* rows lose them with every reference.
LEMMA PassKeeps ==
    ASSUME EvidenceInv, NEW p \in Purgers, UNCHANGED execVars, expired' = expired,
           purge' \in [Purgers -> Pass],
           purge'[p].items \subseteq expired,
           purge'[p].pc \in {"row", "commit"} => purge'[p].item \in purge'[p].items,
           \A q \in Purgers \ {p} : purge'[q] = purge[q],
           NEW gone \in SUBSET Artifacts, gone \subseteq expired,
           files' \subseteq files, files \ gone \subseteq files',
           \/ UNCHANGED <<rows, toolRefs, evidence>>
           \/ /\ rows' = rows \ gone
              /\ toolRefs' = [r \in Runs |-> toolRefs[r] \ gone]
              /\ evidence' = [s \in Steps |-> evidence[s] \ gone],
           faults' \in 0..MaxFaults
    PROVE  EvidenceInv'
<1>1. UNCHANGED <<run, step, decisions>>
  BY DEF execVars
<1>2. /\ rows' \subseteq rows /\ rows \ expired \subseteq rows'
      /\ toolRefs' \in [Runs -> SUBSET Artifacts] /\ evidence' \in [Steps -> SUBSET Artifacts]
  BY DEF EvidenceInv, TypeOK, StoreTypeOK
<1>3. TypeOK'
  BY <1>1, <1>2 DEF EvidenceInv, TypeOK, StoreTypeOK, ExecTypeOK, RetentionTypeOK
<1>4. \A r \in Runs : RunInv(r)'
  BY <1>1 DEF EvidenceInv, RunInv
<1>5. StoreInv'
  BY <1>1, <1>2 DEF EvidenceInv, StoreInv
<1>6. StoredOnlyAllowed' /\ OwnInv'
  BY <1>1 DEF EvidenceInv, StoredOnlyAllowed, OwnInv
<1>7. ReferencesResolve'
  BY DEF EvidenceInv, ReferencesResolve
<1> QED
  BY <1>3, <1>4, <1>5, <1>6, <1>7 DEF EvidenceInv

LEMMA RetentionStep ==
    ASSUME EvidenceInv, NEW p \in Purgers, UNCHANGED execVars,
           ListExpired(p) \/ DeleteContent(p) \/ FindRow(p) \/ DeleteRow(p) \/ PassStops(p)
    PROVE  EvidenceInv'
<1>1. /\ TypeOK /\ purge \in [Purgers -> Pass] /\ purge[p] \in Pass
      /\ purge[p].items \subseteq expired /\ purge[p].items \subseteq Artifacts
      /\ purge[p].pc \in {"row", "commit"} => purge[p].item \in purge[p].items
      /\ faults \in 0..MaxFaults /\ rows \subseteq Artifacts
  BY DEF EvidenceInv, TypeOK, StoreTypeOK, RetentionTypeOK, StoreInv, Pass
<1>2. NoPass \in Pass /\ NoPass.items = {} /\ NoPass.pc = "idle"
  BY DEF NoPass, Pass
<1>3. ASSUME UNCHANGED <<files, rows, expired, toolRefs, evidence>>, faults' \in 0..MaxFaults,
             purge' = [purge EXCEPT ![p] = NoPass]
      PROVE  EvidenceInv'
  BY <1>1, <1>2, <1>3, PassKeeps
<1>4. CASE ListExpired(p)
  <2>1. PICK items \in SUBSET (rows \cap expired) : purge' = NextItem(p, items)
    BY <1>4 DEF ListExpired
  <2>2. UNCHANGED <<files, rows, expired, toolRefs, evidence, faults>>
    BY <1>4 DEF ListExpired, storeVars
  <2>3. /\ items \in SUBSET Artifacts
        /\ purge' \in [Purgers -> Pass] /\ purge'[p].items = items
        /\ purge'[p].pc \in {"idle", "content"}
        /\ \A q \in Purgers \ {p} : purge'[q] = purge[q]
    BY <1>1, <2>1, NextItemType
  <2>4. items \subseteq expired /\ files' \subseteq files /\ files \ items \subseteq files'
    BY <2>1, <2>2
  <2>5. /\ purge'[p].items \subseteq expired /\ faults' \in 0..MaxFaults
        /\ purge'[p].pc \in {"row", "commit"} => purge'[p].item \in purge'[p].items
    BY <1>1, <2>2, <2>3, <2>4
  <2> QED
    BY <2>2, <2>3, <2>4, <2>5, PassKeeps
<1>5. CASE DeleteContent(p)
  <2>1. PICK a \in purge[p].items :
            /\ files' = files \ {a}
            /\ purge' = [purge EXCEPT ![p].pc = "row", ![p].item = a]
            /\ UNCHANGED <<rows, expired, toolRefs, evidence, faults>>
    BY <1>5 DEF DeleteContent
  <2> DEFINE u == [purge[p] EXCEPT !.pc = "row", !.item = a]
  <2>2. u \in Pass /\ u.items = purge[p].items /\ u.item = a
    BY <1>1 DEF Pass
  <2>3. purge' = [purge EXCEPT ![p] = u]
    BY <1>1, <2>1
  <2> HIDE DEF u
  <2>4. {a} \in SUBSET Artifacts /\ {a} \subseteq expired
    BY <1>1
  <2>5. /\ purge' \in [Purgers -> Pass] /\ purge'[p].items \subseteq expired
        /\ purge'[p].item \in purge'[p].items
        /\ \A q \in Purgers \ {p} : purge'[q] = purge[q]
    BY <1>1, <2>1, <2>2, <2>3
  <2>6. files' \subseteq files /\ files \ {a} \subseteq files' /\ faults' \in 0..MaxFaults
    BY <1>1, <2>1
  <2> QED
    BY <2>1, <2>4, <2>5, <2>6, PassKeeps
<1>6. CASE FindRow(p)
  <2>1. UNCHANGED <<files, rows, expired, toolRefs, evidence, faults>>
    BY <1>6 DEF FindRow, storeVars
  <2>2. CASE purge' = [purge EXCEPT ![p].pc = "commit"]
    <3> DEFINE u == [purge[p] EXCEPT !.pc = "commit"]
    <3>1. u \in Pass /\ u.items = purge[p].items /\ u.item = purge[p].item
      BY <1>1 DEF Pass
    <3>2. purge' = [purge EXCEPT ![p] = u]
      BY <1>1, <2>2
    <3> HIDE DEF u
    <3>3. purge[p].item \in purge[p].items
      BY <1>1, <1>6 DEF FindRow
    <3> QED
      BY <1>1, <2>1, <3>1, <3>2, <3>3, PassKeeps
  <2>3. CASE purge' = [purge EXCEPT ![p] = NoPass]
    BY <1>1, <1>3, <2>1, <2>3
  <2> QED
    BY <1>6, <2>2, <2>3 DEF FindRow
<1>7. CASE DeleteRow(p)
  <2> DEFINE a == purge[p].item
  <2>1. /\ a \in purge[p].items /\ UNCHANGED <<files, expired, faults>>
        /\ rows' = rows \ {a}
        /\ toolRefs' = [r \in Runs |-> toolRefs[r] \ {a}]
        /\ evidence' = [s \in Steps |-> evidence[s] \ {a}]
        /\ purge' = NextItem(p, purge[p].items \ {a})
    BY <1>1, <1>7 DEF DeleteRow, DeleteArtifact
  <2> HIDE DEF a
  <2>2. {a} \in SUBSET Artifacts /\ {a} \subseteq expired
    BY <1>1, <2>1
  <2>3. /\ purge' \in [Purgers -> Pass] /\ purge'[p].items = purge[p].items \ {a}
        /\ purge'[p].pc \in {"idle", "content"}
        /\ \A q \in Purgers \ {p} : purge'[q] = purge[q]
    BY <1>1, <2>1, NextItemType
  <2> QED
    BY <1>1, <2>1, <2>2, <2>3, PassKeeps
<1>8. CASE PassStops(p)
  BY <1>1, <1>3, <1>8, FaultType DEF PassStops
<1> QED
  BY <1>4, <1>5, <1>6, <1>7, <1>8

-----------------------------------------------------------------------------
LEMMA EvidenceInit == Init => EvidenceInv
<1> SUFFICES ASSUME Init PROVE EvidenceInv
  OBVIOUS
<1>1. /\ NewRun \in Run /\ NewRun.pc = "new" /\ NewRun.todo = <<>> /\ NewRun.saved = {}
      /\ NewRun.reported = "none"
  BY DEF NewRun, Run
<1>2. NoPass \in Pass /\ NoPass.items = {} /\ NoPass.pc = "idle"
  BY DEF NoPass, Pass
<1>3. /\ run = [r \in Runs |-> NewRun] /\ purge = [p \in Purgers |-> NoPass]
      /\ decisions = [r \in Runs |-> "none"] /\ step = [s \in Steps |-> "running"]
      /\ files = {} /\ rows = {} /\ expired = {} /\ faults = 0
      /\ toolRefs = [r \in Runs |-> {}] /\ evidence = [s \in Steps |-> {}]
  BY DEF Init, StoreInit, ExecInit, RetentionInit
<1> HIDE DEF NewRun, NoPass
<1>4. StoreTypeOK
  BY <1>3, StoreAssumption DEF StoreTypeOK
<1>5. ExecTypeOK /\ RetentionTypeOK
  BY <1>1, <1>2, <1>3 DEF ExecTypeOK, RetentionTypeOK
<1>6. \A r \in Runs : RunInv(r)
  BY <1>1, <1>3 DEF RunInv
<1>7. StoreInv /\ OwnInv /\ StoredOnlyAllowed /\ ReferencesResolve
  BY <1>1, <1>2, <1>3 DEF StoreInv, OwnInv, StoredOnlyAllowed, ReferencesResolve
<1> QED
  BY <1>4, <1>5, <1>6, <1>7 DEF EvidenceInv, TypeOK

LEMMA EvidenceStep == EvidenceInv /\ [Next]_vars => EvidenceInv'
<1> SUFFICES ASSUME EvidenceInv, [Next]_vars PROVE EvidenceInv'
  OBVIOUS
<1>1. CASE ExecNext /\ UNCHANGED purge
  BY <1>1, EarlyStep, ExecuteStep, WriteStep, PersistStep, CrashStep DEF ExecNext
<1>2. CASE RetentionNext /\ UNCHANGED execVars
  BY <1>2, RetentionStep DEF RetentionNext
<1>3. CASE \E a \in Artifacts : Expire(a)
  BY <1>3, ExpireStep
<1>4. CASE UNCHANGED vars
  <2>1. UNCHANGED <<files, rows, expired, toolRefs, evidence, faults, run, step, decisions, purge>>
    BY <1>4 DEF vars, storeVars, execVars
  <2> QED
    BY <2>1 DEF EvidenceInv, TypeOK, StoreTypeOK, ExecTypeOK, RetentionTypeOK, RunInv, StoreInv,
                OwnInv, StoredOnlyAllowed, ReferencesResolve
<1> QED
  BY <1>1, <1>2, <1>3, <1>4 DEF Next

LEMMA EvidenceInvariant == Spec => []EvidenceInv
  BY EvidenceInit, EvidenceStep, PTL DEF Spec

\* The files, the tables, the executions and the passes keep their types.
THEOREM TypeCorrect == Spec => []TypeOK
<1>1. EvidenceInv => TypeOK
  BY DEF EvidenceInv
<1> QED
  BY <1>1, EvidenceInvariant, PTL

\* A row that has not expired has its file: a purge removes expired content only,
\* and a row is only inserted for a file that was written.
THEOREM ContentWhileLiveHolds == Spec => []ContentWhileLive
<1>1. EvidenceInv => ContentWhileLive
  <2> SUFFICES ASSUME EvidenceInv, NEW a \in rows \ expired PROVE a \in files
    BY DEF ContentWhileLive
  <2>1. a[1] \in Runs /\ a \in run[a[1]].saved
    BY DEF EvidenceInv, TypeOK, StoreTypeOK, Artifacts, StoreInv
  <2> QED
    BY <2>1 DEF EvidenceInv, StoreInv
<1> QED
  BY <1>1, EvidenceInvariant, PTL

\* Neither a tool run nor an observation refers to an artifact without a row.
THEOREM ReferencesResolveHolds == Spec => []ReferencesResolve
<1>1. EvidenceInv => ReferencesResolve
  BY DEF EvidenceInv
<1> QED
  BY <1>1, EvidenceInvariant, PTL

\* Content on disk and succeeded steps have a recorded decision to allow them.
THEOREM StoredOnlyAllowedHolds == Spec => []StoredOnlyAllowed
<1>1. EvidenceInv => StoredOnlyAllowed
  BY DEF EvidenceInv
<1> QED
  BY <1>1, EvidenceInvariant, PTL

\* A caller that is told of a success finds its result, rows and files in place
\* until they expire.
THEOREM ReportedIsDurableHolds == Spec => []ReportedIsDurable
<1>1. EvidenceInv => ReportedIsDurable
  BY DEF EvidenceInv, RunInv, StoreInv, ReportedIsDurable
<1> QED
  BY <1>1, EvidenceInvariant, PTL
=============================================================================
