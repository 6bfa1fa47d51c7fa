--------------------------- MODULE WorkflowEngine ---------------------------
(***************************************************************************)
(* One workflow run of the engine (internal/workflow), driven by the       *)
(* invocations of `platform workflow run` and `platform run retry`         *)
(* (cmd/platform), with its persisted state, its approvals and the task    *)
(* row through which operators pause, resume and cancel it.                *)
(*                                                                         *)
(* Steps are their ranks in the topological order the engine computes.     *)
(* A capability call is a nondeterministic outcome; documents are          *)
(* abstracted to whether a binding can read them and whether a nonempty    *)
(* condition holds of them.  The run context is cancelled only through the *)
(* task row: the command line installs no signal handler, so an interrupt  *)
(* is a crash.                                                             *)
(***************************************************************************)
EXTENDS Naturals, FiniteSets

CONSTANTS
    N,              \* number of steps
    DependsOn,      \* Step.DependsOn
    Bindings,       \* sources of Step.Bindings
    SuccessOf,      \* sources of a success: condition ({} or one step)
    NonEmptyOf,     \* sources of a nonempty: or changed: condition
    Gated,          \* steps whose definition or manifest requires approval
    Rerun,          \* steps with RerunOnInputChange
    MaxParallel,    \* policy.ProgramParallelism
    MaxAttempts,    \* Retry.MaxAttempts
    Outputs,        \* what capabilities may produce
    Plans,          \* target plans an invocation may be given
    Commands        \* task commands operators use

Steps == 1..N

Nothing == "nothing"
Readable == {"full", "empty"}

ASSUME WorkflowAssumption ==
    /\ N \in Nat
    /\ DependsOn \in [Steps -> SUBSET Steps]
    /\ \A s \in Steps : DependsOn[s] \subseteq 1..(s-1)
    /\ Bindings \in [Steps -> SUBSET Steps]
    /\ SuccessOf \in [Steps -> SUBSET Steps]
    /\ NonEmptyOf \in [Steps -> SUBSET Steps]
    /\ Gated \subseteq Steps
    /\ Rerun \subseteq Steps
    /\ MaxParallel \in Nat \ {0}
    /\ MaxAttempts \in Nat \ {0}
    /\ Outputs \subseteq Readable \cup {"malformed", Nothing}
    /\ Commands \subseteq {"pause", "resume", "cancel"}

VARIABLES
    task,       \* status of the task row
    disk,       \* the run state that a resume loads
    inserted,   \* inputs for which step_runs has a row of the step
    decision,   \* approvals row of each step run in disk
    pc,         \* where the invocation is
    plan,       \* target plan the invocation was given
    gate,       \* TRUE when Engine.Approval is set
    paused, cancelled,  \* Controls
    ctxDone,    \* runCtx is cancelled
    mem,        \* the run state in memory
    finished, blocked,  \* of Engine.Run
    ready,      \* ready steps still to be considered in this round
    wave,       \* steps planned in this round
    attempt, outcome,   \* of each step of the wave
    primary     \* TRUE once a primary failure was committed

rowVars == <<task, disk, inserted, decision>>
controlVars == <<paused, cancelled, ctxDone>>
roundVars == <<finished, blocked, ready, wave>>
execVars == <<attempt, outcome, primary>>
vars == <<rowVars, pc, plan, gate, controlVars, mem, roundVars, execVars>>

-----------------------------------------------------------------------------
(* The run state. *)

NoInput == [plan |-> Nothing, bound |-> <<>>]
NoStep == [status |-> "none", input |-> NoInput, out |-> Nothing,
           approval |-> "not_required"]
NoRun == [run |-> "none", steps |-> [s \in Steps |-> NoStep]]

StepStatus == {"none", "running", "succeeded", "failed", "skipped",
               "cancelled", "awaiting_approval"}
RunStatus == {"none", "running", "paused", "completed", "failed", "cancelled"}
Satisfied == {"succeeded", "skipped"}

Status(s) == mem.steps[s].status

\* transitivelyDependsOn: the least set with the dependencies of s that holds
\* the dependencies of its members.
Ancestors(s) ==
    {a \in Steps : \A C \in SUBSET Steps :
        (DependsOn[s] \subseteq C /\ \A c \in C : DependsOn[c] \subseteq C) => a \in C}

\* Validate: bindings and conditions name transitive dependencies only.
Validate == \A s \in Steps : /\ Bindings[s] \subseteq Ancestors(s)
                             /\ SuccessOf[s] \subseteq Ancestors(s)
                             /\ NonEmptyOf[s] \subseteq Ancestors(s)

\* Fault: a skipped dependency holds its dependents back.
DependenciesNotSkipped(s) == \A d \in DependsOn[s] : Status(d) = "succeeded"

DependenciesSucceeded(s) == \A d \in DependsOn[s] : Status(d) \in Satisfied

Condition(s) ==
    /\ \A c \in SuccessOf[s] : Status(c) = "succeeded"
    /\ \A c \in NonEmptyOf[s] : mem.steps[c].out = "full"

\* resolveInput: a skipped source leaves the field of the definition alone.
Resolvable(s) ==
    \A b \in Bindings[s] :
        \/ Status(b) = "skipped" /\ mem.steps[b].out = Nothing
        \/ Status(b) # "none" /\ mem.steps[b].out \in Readable
ResolveInput(s) == [plan |-> plan,
                    bound |-> [b \in Bindings[s] |-> mem.steps[b].out]]

\* transitionStep: a new step state, without output.
TransitionStep(s, status, approval) ==
    mem' = [mem EXCEPT !.steps[s] =
              [status |-> status, input |-> ResolveInput(s), out |-> Nothing,
               approval |-> approval]]

\* Fault: a step that opted into reruns always reruns.
RetainedUnlessRerun(s) == Status(s) = "succeeded" /\ s \notin Rerun

Retained(s) ==
    /\ Status(s) = "succeeded"
    /\ s \in Rerun => mem.steps[s].input = ResolveInput(s)

-----------------------------------------------------------------------------
(* WorkflowPersister.Save: the database transaction, then the state file.  *)
(* A step run keeps its id, and so its approvals row, while its input hash *)
(* is unchanged; a decided row is never overwritten.                       *)

SameRow(s, state) == /\ disk.steps[s].status # "none"
                     /\ disk.steps[s].input = state.steps[s].input

\* Fault: an existing row is left alone (ON CONFLICT DO NOTHING).
SavedDecisionOnce(s, state) ==
    LET row == IF SameRow(s, state) THEN decision[s] ELSE "none"
        asked == state.steps[s].approval
    IN  IF row # "none" \/ asked = "not_required" THEN row ELSE asked

SavedDecision(s, state) ==
    LET row == IF SameRow(s, state) THEN decision[s] ELSE "none"
        asked == state.steps[s].approval
    IN  IF row \in {"approved", "rejected"} \/ asked = "not_required"
        THEN row ELSE asked

\* UNIQUE(workflow_run_id, step_definition_id, idempotency_key): a new id for an
\* input that already has a row fails the transaction.
Conflict(state) ==
    \E s \in Steps : /\ state.steps[s].status # "none"
                     /\ ~SameRow(s, state)
                     /\ state.steps[s].input \in inserted[s]

\* SaveWorkflowState.
Transaction(state) ==
    /\ ~Conflict(state)
    /\ inserted' = [s \in Steps |-> IF state.steps[s].status = "none" THEN inserted[s]
                                    ELSE inserted[s] \cup {state.steps[s].input}]

Save(state) == /\ Transaction(state)
               /\ disk' = state
               /\ decision' = [s \in Steps |-> SavedDecision(s, state)]

\* The transaction failed, or it committed and the file was not renamed.
SaveFails(state) ==
    /\ disk' = disk
    /\ \/ UNCHANGED <<inserted, decision>>
       \/ /\ Transaction(state)
          /\ decision' = [s \in Steps |-> IF SameRow(s, state)
                                          THEN SavedDecision(s, state)
                                          ELSE decision[s]]

\* save in the middle of Run: an error makes Run return.
SaveThen(next) == \/ Save(mem') /\ pc' = next
                  \/ SaveFails(mem') /\ pc' = "report"

\* terminal, fail and the two pauses: Run returns whether or not it saved.
Return(status) == /\ mem' = [mem EXCEPT !.run = status]
                  /\ Save(mem') \/ SaveFails(mem')
                  /\ pc' = "report"
                  /\ UNCHANGED <<task, plan, gate, controlVars, roundVars,
                                 execVars>>

-----------------------------------------------------------------------------
(* workflowRun: one invocation. *)

Idle == /\ pc' = "off"
        /\ plan' = Nothing /\ gate' = FALSE
        /\ paused' = FALSE /\ cancelled' = FALSE /\ ctxDone' = FALSE
        /\ finished' = {} /\ blocked' = {} /\ ready' = {} /\ wave' = {}
        /\ attempt' = [s \in Steps |-> 0]
        /\ outcome' = [s \in Steps |-> "none"]
        /\ primary' = FALSE

Awaiting == {s \in Steps : disk.steps[s].status = "awaiting_approval"}

\* What Run begins with: the steps it loaded and those it takes for finished.
StartWith(p, approve, loaded, done) ==
    /\ pc = "off"
    /\ Validate
    /\ plan' = p
    /\ \A s \in Awaiting : decision[s] # "rejected"
    /\ gate' = (approve \/ \E s \in Awaiting : decision[s] = "approved")
    /\ cancelled' = (task = "cancelled")
    /\ paused' = (task = "paused")
    /\ mem' = [loaded EXCEPT !.run = "running"]
    /\ finished' = done
    /\ SaveThen("loop")
    /\ UNCHANGED <<task, ctxDone, blocked, ready, wave, execVars>>

\* Fault: a resume takes every recorded step for finished.
StartFinishesRecorded(p, approve) ==
    StartWith(p, approve, disk, {s \in Steps \ Rerun : disk.steps[s].status # "none"})

\* --approve-moderate, or one approved record among the awaiting steps, opens
\* the gate for every step; a rejected record refuses the invocation.
Start(p, approve) ==
    StartWith(p, approve, disk,
              {s \in Steps \ Rerun : disk.steps[s].status = "succeeded"})

\* SetTaskStatus after Run; its error is ignored.
TaskStatusOf == [completed |-> "completed", paused |-> "paused",
                 failed |-> "failed", cancelled |-> "cancelled"]
Report ==
    /\ pc = "report"
    /\ \/ task' = task
       \/ mem.run \in DOMAIN TaskStatusOf /\ task' = TaskStatusOf[mem.run]
    /\ mem' = disk
    /\ Idle
    /\ UNCHANGED <<disk, inserted, decision>>

\* The process dies; what it had not saved is gone.
Crash ==
    /\ pc # "off"
    /\ mem' = disk
    /\ Idle
    /\ UNCHANGED rowVars

-----------------------------------------------------------------------------
(* The loop of Engine.Run. *)

Complete == /\ pc = "loop"
            /\ finished = Steps
            /\ Return("completed")

StopCancelled == /\ pc = "loop"
                 /\ finished # Steps /\ cancelled
                 /\ Return("cancelled")

StopPaused == /\ pc = "loop"
              /\ finished # Steps /\ ~cancelled /\ paused
              /\ Return("paused")

\* Fault: a dependency only has to be recorded.
ReadyWhenRecorded ==
    {s \in Steps \ (finished \cup blocked) : \A d \in DependsOn[s] : Status(d) # "none"}


Ready == {s \in Steps \ (finished \cup blocked) : DependenciesSucceeded(s)}

LoopBody == /\ pc = "loop"
            /\ finished # Steps /\ ~cancelled /\ ~paused

\* Waiting for an approval, or "workflow has no runnable steps".
StopNothingReady == /\ LoopBody
                    /\ Ready = {}
                    /\ Return(IF blocked # {} THEN "paused" ELSE "failed")

SelectReady ==
    /\ LoopBody
    /\ Ready # {}
    /\ ready' = Ready /\ wave' = {}
    /\ attempt' = [s \in Steps |-> 0]
    /\ outcome' = [s \in Steps |-> "none"]
    /\ primary' = FALSE
    /\ pc' = "plan"
    /\ UNCHANGED <<rowVars, plan, gate, controlVars, mem, finished, blocked>>

\* s is the next ready step in topological order.
Considering(s) ==
    /\ pc = "plan"
    /\ Cardinality(wave) < MaxParallel
    /\ s \in ready /\ \A t \in ready : s <= t

Considered(s) ==
    /\ ready' = ready \ {s}
    /\ UNCHANGED <<rowVars, pc, plan, gate, controlVars, execVars>>

PlanInputError(s) == /\ Considering(s)
                     /\ ~Resolvable(s)
                     /\ Return("failed")

PlanRetain(s) == /\ Considering(s)
                 /\ Resolvable(s) /\ Retained(s)
                 /\ finished' = finished \cup {s}
                 /\ Considered(s)
                 /\ UNCHANGED <<mem, blocked, wave>>

\* Fault: a skipped step is not finished.
PlanSkipUnfinished(s) ==
    /\ Considering(s)
    /\ Resolvable(s) /\ ~Retained(s) /\ ~Condition(s)
    /\ TransitionStep(s, "skipped", "not_required")
    /\ Considered(s)
    /\ UNCHANGED <<finished, blocked, wave>>


PlanSkip(s) == /\ Considering(s)
               /\ Resolvable(s) /\ ~Retained(s) /\ ~Condition(s)
               /\ TransitionStep(s, "skipped", "not_required")
               /\ finished' = finished \cup {s}
               /\ Considered(s)
               /\ UNCHANGED <<blocked, wave>>

PlanAwait(s) == /\ Considering(s)
                /\ Resolvable(s) /\ ~Retained(s) /\ Condition(s)
                /\ s \in Gated /\ ~gate
                /\ TransitionStep(s, "awaiting_approval", "pending")
                /\ blocked' = blocked \cup {s}
                /\ Considered(s)
                /\ UNCHANGED <<finished, wave>>

PlanRun(s) == /\ Considering(s)
              /\ Resolvable(s) /\ ~Retained(s) /\ Condition(s)
              /\ s \in Gated => gate
              /\ TransitionStep(s, "running",
                    IF s \in Gated THEN "approved" ELSE "not_required")
              /\ wave' = wave \cup {s}
              /\ Considered(s)
              /\ UNCHANGED <<finished, blocked>>

\* Every considered step changed the state, so the round always saves.
PlanDone ==
    /\ pc = "plan"
    /\ ready = {} \/ Cardinality(wave) = MaxParallel
    /\ mem' = mem
    /\ SaveThen(IF wave = {} THEN "loop" ELSE "wave")
    /\ attempt' = [s \in Steps |-> IF s \in wave THEN 1 ELSE 0]
    /\ outcome' = [s \in Steps |-> IF s \in wave THEN "pending" ELSE "none"]
    /\ UNCHANGED <<task, plan, gate, controlVars, roundVars, primary>>

-----------------------------------------------------------------------------
(* executeWave: one goroutine per planned step, joined before committing.  *)

Executing(s) == pc = "wave" /\ s \in wave /\ outcome[s] = "pending"

StepSucceeds(s, o) ==
    /\ Executing(s)
    /\ outcome' = [outcome EXCEPT ![s] = o]
    /\ UNCHANGED <<rowVars, pc, plan, gate, controlVars, mem, roundVars,
                   attempt, primary>>

\* Fault: one attempt too many.
StepRetriesOnceMore(s) ==
    /\ Executing(s)
    /\ attempt[s] <= MaxAttempts
    /\ attempt' = [attempt EXCEPT ![s] = @ + 1]
    /\ UNCHANGED <<rowVars, pc, plan, gate, controlVars, mem, roundVars, outcome, primary>>

\* A retryable error, and the backoff timer fired.
StepRetries(s) ==
    /\ Executing(s)
    /\ attempt[s] < MaxAttempts
    /\ attempt' = [attempt EXCEPT ![s] = @ + 1]
    /\ UNCHANGED <<rowVars, pc, plan, gate, controlVars, mem, roundVars,
                   outcome, primary>>

\* The error is a primary failure unless the run was cancelled by then.
StepErrs(s) ==
    /\ Executing(s)
    /\ outcome' = [outcome EXCEPT ![s] = IF ctxDone THEN "cancelled"
                                                    ELSE "failed"]
    /\ UNCHANGED <<rowVars, pc, plan, gate, controlVars, mem, roundVars,
                   attempt, primary>>

\* Outcomes are committed in topological order once all are in.
Committing(s) ==
    /\ pc = "wave"
    /\ s \in wave /\ \A t \in wave : outcome[t] # "pending" /\ s <= t

Commit(s) ==
    /\ Committing(s)
    /\ IF outcome[s] \in {"failed", "cancelled"}
       THEN /\ mem' = [mem EXCEPT !.steps[s].status = outcome[s]]
            /\ primary' = (primary \/ outcome[s] = "failed")
            /\ UNCHANGED finished
       ELSE /\ mem' = [mem EXCEPT !.steps[s].status = "succeeded",
                                  !.steps[s].out = outcome[s]]
            /\ finished' = finished \cup {s}
            /\ UNCHANGED primary
    /\ wave' = wave \ {s}
    /\ SaveThen(IF wave' = {} THEN "settle" ELSE "wave")
    /\ UNCHANGED <<task, plan, gate, controlVars, blocked, ready, attempt,
                   outcome>>

\* After the wave, cancellation goes before failure.
SettleCancelled == pc = "settle" /\ cancelled /\ Return("cancelled")

SettleFailed == pc = "settle" /\ ~cancelled /\ primary /\ Return("failed")

SettleNext ==
    /\ pc = "settle" /\ ~cancelled /\ ~primary
    /\ pc' = "loop"
    /\ UNCHANGED <<rowVars, plan, gate, controlVars, mem, roundVars, execVars>>

-----------------------------------------------------------------------------
(* Control of a running invocation, and the operators. *)

\* Once Run has returned nothing looks at the controls any more.
Running == pc \notin {"off", "report"}

\* watchTaskControls polls the task row; it stops after a cancellation.
Watch ==
    /\ Running /\ ~cancelled
    /\ task \in {"cancelled", "paused"}
    /\ cancelled' = (task = "cancelled")
    /\ paused' = (paused \/ task = "paused")
    /\ UNCHANGED <<rowVars, pc, plan, gate, ctxDone, mem, roundVars, execVars>>

\* The goroutine of Run that waits for Controls.Done.
PropagateCancel ==
    /\ Running /\ cancelled /\ ~ctxDone
    /\ ctxDone' = TRUE
    /\ UNCHANGED <<rowVars, pc, plan, gate, paused, cancelled, mem, roundVars,
                   execVars>>

\* platform task pause|resume|cancel: SetTaskStatus overwrites any status.
CommandStatus == [pause |-> "paused", resume |-> "running",
                  cancel |-> "cancelled"]
TaskCommand(c) ==
    /\ task' = CommandStatus[c]
    /\ UNCHANGED <<disk, inserted, decision, pc, plan, gate, controlVars, mem, roundVars,
                   execVars>>

\* DecideApproval.
DecideApproval(s, d) ==
    /\ decision[s] = "pending"
    /\ decision' = [decision EXCEPT ![s] = d]
    /\ UNCHANGED <<task, disk, inserted, pc, plan, gate, controlVars, mem, roundVars,
                   execVars>>

-----------------------------------------------------------------------------
Init ==
    /\ task = "running"
    /\ disk = NoRun /\ mem = NoRun
    /\ inserted = [s \in Steps |-> {}]
    /\ decision = [s \in Steps |-> "none"]
    /\ pc = "off"
    /\ plan = Nothing /\ gate = FALSE
    /\ paused = FALSE /\ cancelled = FALSE /\ ctxDone = FALSE
    /\ finished = {} /\ blocked = {} /\ ready = {} /\ wave = {}
    /\ attempt = [s \in Steps |-> 0]
    /\ outcome = [s \in Steps |-> "none"]
    /\ primary = FALSE

Execute(s) == \/ \E o \in Outputs : StepSucceeds(s, o)
              \/ StepRetries(s) \/ StepErrs(s)

Consider(s) == \/ PlanInputError(s) \/ PlanRetain(s) \/ PlanSkip(s)
               \/ PlanAwait(s) \/ PlanRun(s)

Engine == \/ Complete \/ StopCancelled \/ StopPaused
          \/ StopNothingReady \/ SelectReady \/ PlanDone
          \/ SettleCancelled \/ SettleFailed \/ SettleNext
          \/ Report
          \/ \E s \in Steps : Consider(s) \/ Execute(s) \/ Commit(s)

Environment == \/ \E p \in Plans, approve \in BOOLEAN : Start(p, approve)
               \/ Crash \/ Watch \/ PropagateCancel
               \/ \E c \in Commands : TaskCommand(c)
               \/ \E s \in Steps, d \in {"approved", "rejected"} :
                      DecideApproval(s, d)

Next == Engine \/ Environment

Spec == Init /\ [][Next]_vars

(* Run goes on while it can: every capability call is bounded by the step's *)
(* timeout, so each planned step has an outcome in the end.                 *)
FairSpec == Spec /\ WF_vars(Engine)

-----------------------------------------------------------------------------
(* Properties *)

Input == {NoInput} \cup UNION {[plan: Plans, bound: [B -> Outputs \cup {Nothing}]]
                               : B \in {Bindings[s] : s \in Steps}}
StepState == [status: StepStatus, input: Input, out: Outputs \cup {Nothing},
              approval: {"not_required", "pending", "approved"}]
State == [run: RunStatus, steps: [Steps -> StepState]]

\* The state of Engine.Run and of the rows it writes has its types, and no step
\* is tried more often than its retry policy allows.
TypeOK ==
    /\ task \in {"running", "paused", "cancelled", "completed", "failed"}
    /\ disk \in State /\ mem \in State
    /\ inserted \in [Steps -> SUBSET Input]
    /\ decision \in [Steps -> {"none", "pending", "approved", "rejected"}]
    /\ pc \in {"off", "loop", "plan", "wave", "settle", "report"}
    /\ plan \in Plans \cup {Nothing}
    /\ {gate, paused, cancelled, ctxDone, primary} \subseteq BOOLEAN
    /\ finished \subseteq Steps /\ blocked \subseteq Steps
    /\ ready \subseteq Steps /\ wave \subseteq Steps
    /\ attempt \in [Steps -> 0..MaxAttempts]
    /\ outcome \in [Steps -> Outputs \cup {"none", "pending", "failed",
                                          "cancelled"}]

\* A run persisted as completed has every step persisted as succeeded or
\* skipped, whatever crashes, failed saves, pauses and resumes came before.
CompletedMeansAll ==
    disk.run = "completed" =>
        \A s \in Steps : disk.steps[s].status \in Satisfied

\* The error "workflow has no runnable steps" is unreachable: while steps are
\* unfinished and none waits for an approval, some step is ready.
SomeStepRunnable ==
    LoopBody /\ blocked = {} => Ready # {}

\* "Every step in a wave has satisfied dependencies" (docs/workflows.md): no
\* step executes beside, or ahead of, one it depends on.
WaveIndependent ==
    pc = "wave" => \A s \in wave : DependenciesSucceeded(s)

\* A gated step that was started has a decided approvals row for the very
\* input it was started with: an execution is never left looking unasked for.
GatedIsDecided ==
    \A s \in Gated :
        disk.steps[s].status \in {"running", "succeeded", "failed", "cancelled"}
            => decision[s] \in {"approved", "rejected"}

\* "Successful unchanged steps ... are not repeated" (README.md): a persisted
\* success is never replaced, by a resume, a crash or a failed save, except
\* for a step that opted into reruns and whose input really changed.
SuccessKept ==
    [][\A s \in Steps : disk.steps[s].status = "succeeded" =>
            \/ disk'.steps[s] = disk.steps[s]
            \/ s \in Rerun /\ disk'.steps[s].input # disk.steps[s].input]_vars

\* Every invocation ends: Run returns and the process exits.
RunEnds == pc # "off" ~> pc = "off"

\* README.md: a run that paused for an approval is resumed with --resume and
\* --approve-moderate.  With no operator asking for a pause, an invocation
\* that has the approval does not end paused.
ApprovedResumeProceeds ==
    pc = "report" /\ gate => mem.run # "paused"

\* docs/workflows.md: "A changed plan changes step input hashes, preventing
\* stale successful steps from being silently reused."
NoStaleReuse ==
    pc = "report" /\ mem.run = "completed" =>
        \A s \in Steps : mem.steps[s].status = "succeeded" =>
                            mem.steps[s].input.plan = plan
=============================================================================
