------------------------ MODULE WorkflowEngineProofs ------------------------
(***************************************************************************)
(* Proofs about WorkflowEngine for every workflow definition, any number   *)
(* of steps, plans and attempts, and any sequence of invocations, crashes, *)
(* failed saves and operator commands.                                     *)
(***************************************************************************)
EXTENDS WorkflowEngine, WellFoundedInduction, TLAPS

Decision == {"none", "pending", "approved", "rejected"}

\* Of the rows that a save writes.
SavedType == inserted \in [Steps -> SUBSET Input] /\ decision \in [Steps -> Decision]

\* An invocation has a plan, and the steps of a wave that executes have an
\* outcome, if only a pending one.
TypeInv ==
    /\ TypeOK
    /\ pc # "off" => plan \in Plans
    /\ pc = "wave" => \A s \in wave : outcome[s] # "none"

\* The input a step is resolved to is one that the run state can hold.
LEMMA InputType ==
    ASSUME TypeOK, plan \in Plans, NEW s \in Steps
    PROVE  ResolveInput(s) \in Input
<1>1. Bindings[s] \subseteq Steps
  BY WorkflowAssumption
<1>2. \A b \in Bindings[s] : mem.steps[b].out \in Outputs \cup {Nothing}
  BY <1>1 DEF TypeOK, State, StepState
<1>3. [b \in Bindings[s] |-> mem.steps[b].out] \in [Bindings[s] -> Outputs \cup {Nothing}]
  BY <1>2
<1>4. ResolveInput(s) \in [plan: Plans, bound: [Bindings[s] -> Outputs \cup {Nothing}]]
  BY <1>3 DEF ResolveInput
<1> QED
  BY <1>4 DEF Input

\* A transition of a step leaves a run state.
LEMMA TransitionType ==
    ASSUME TypeOK, plan \in Plans, NEW s \in Steps, NEW status \in StepStatus,
           NEW approval \in {"not_required", "pending", "approved"},
           TransitionStep(s, status, approval)
    PROVE  mem' \in State
<1> DEFINE new == [status |-> status, input |-> ResolveInput(s), out |-> Nothing,
                   approval |-> approval]
<1>1. new \in StepState
  BY InputType DEF StepState
<1>2. mem' = [mem EXCEPT !.steps[s] = new]
  BY DEF TransitionStep
<1> HIDE DEF new
<1> QED
  BY <1>1, <1>2 DEF TypeOK, State

\* Whether or not a save succeeds, the file holds a run state and the rows hold
\* decisions.
LEMMA SaveType ==
    ASSUME TypeOK, NEW state \in State, Save(state) \/ SaveFails(state)
    PROVE  disk' \in State /\ SavedType'
<1>1. \A s \in Steps : state.steps[s].approval \in {"not_required", "pending", "approved"}
  BY DEF State, StepState
<1>2. \A s \in Steps : SavedDecision(s, state) \in Decision
  BY <1>1 DEF SavedDecision, TypeOK, Decision
<1>3. \A s \in Steps : state.steps[s].input \in Input
  BY DEF State, StepState
<1>4. inserted' \in [Steps -> SUBSET Input]
  BY <1>3 DEF Save, SaveFails, Transaction, TypeOK
<1> QED
  BY <1>2, <1>4 DEF Save, SaveFails, SavedType, TypeOK, Decision

\* Run returns with a well-typed state.
LEMMA ReturnType ==
    ASSUME TypeInv, pc # "off", NEW status \in RunStatus, Return(status)
    PROVE  TypeInv'
<1>1. mem' \in State
  BY DEF Return, TypeInv, TypeOK, State
<1>2. disk' \in State /\ SavedType'
  BY <1>1, SaveType DEF Return, TypeInv
<1> QED
  BY <1>1, <1>2 DEF Return, TypeInv, TypeOK, SavedType, Decision, controlVars, roundVars, execVars

\* The actions inside a round.
LEMMA ConsiderType ==
    ASSUME TypeInv, NEW s \in Steps, Consider(s)
    PROVE  TypeInv'
<1>1. pc = "plan" /\ plan \in Plans
  BY DEF Consider, PlanInputError, PlanRetain, PlanSkip, PlanAwait, PlanRun, Considering, TypeInv
<1>2. CASE PlanInputError(s)
  BY <1>1, <1>2, ReturnType DEF PlanInputError, RunStatus
<1>3. CASE PlanRetain(s) \/ PlanSkip(s) \/ PlanAwait(s) \/ PlanRun(s)
  <2>1. mem' \in State
    BY <1>1, <1>3, TransitionType DEF PlanRetain, PlanSkip, PlanAwait, PlanRun, StepStatus, TypeInv, TypeOK
  <2>2. /\ UNCHANGED <<rowVars, pc, plan, gate, controlVars, execVars>>
        /\ ready' \subseteq Steps /\ finished' \subseteq Steps /\ blocked' \subseteq Steps
        /\ wave' \subseteq Steps
    BY <1>3 DEF PlanRetain, PlanSkip, PlanAwait, PlanRun, Considered, TypeInv, TypeOK
  <2> QED
    BY <1>1, <2>1, <2>2 DEF TypeInv, TypeOK, rowVars, controlVars, execVars
<1> QED
  BY <1>2, <1>3 DEF Consider

\* What the commit of an outcome makes of the step.
Committed(s) ==
    IF outcome[s] \in {"failed", "cancelled"}
    THEN [mem.steps[s] EXCEPT !.status = outcome[s]]
    ELSE [mem.steps[s] EXCEPT !.status = "succeeded", !.out = outcome[s]]

LEMMA CommitStep ==
    ASSUME TypeInv, NEW s \in Steps, Commit(s)
    PROVE  /\ Committed(s) \in StepState
           /\ mem' = [mem EXCEPT !.steps = [mem.steps EXCEPT ![s] = Committed(s)]]
           /\ mem' \in State
<1>1. pc = "wave" /\ s \in wave /\ outcome[s] \notin {"pending", "none"}
  BY DEF Commit, Committing, TypeInv
<1>2. mem.steps[s] \in StepState
  BY DEF TypeInv, TypeOK, State
<1>3. outcome[s] \in Outputs \cup {"failed", "cancelled"}
  BY <1>1 DEF TypeInv, TypeOK
<1>4. Committed(s) \in StepState
  BY <1>2, <1>3 DEF Committed, StepState, StepStatus
<1>5. mem' = [mem EXCEPT !.steps = [mem.steps EXCEPT ![s] = Committed(s)]]
  <2>1. CASE outcome[s] \in {"failed", "cancelled"}
    BY <2>1 DEF Commit, Committed, TypeInv, TypeOK, State
  <2>2. CASE outcome[s] \notin {"failed", "cancelled"}
    <3> DEFINE one == [mem.steps[s] EXCEPT !.status = "succeeded"]
    <3>1. mem' = [mem EXCEPT !.steps[s].status = "succeeded", !.steps[s].out = outcome[s]]
      BY <2>2 DEF Commit
    <3>2. mem.steps \in [Steps -> StepState] /\ mem = [run |-> mem.run, steps |-> mem.steps]
      BY DEF TypeInv, TypeOK, State
    <3> QED
      BY <2>2, <3>1, <3>2 DEF Committed
  <2> QED
    BY <2>1, <2>2
<1> QED
  BY <1>4, <1>5 DEF TypeInv, TypeOK, State

LEMMA CommitType ==
    ASSUME TypeInv, NEW s \in Steps, Commit(s)
    PROVE  TypeInv'
<1>1. pc = "wave" /\ plan \in Plans
  BY DEF Commit, Committing, TypeInv
<1>2. mem' \in State
  BY CommitStep
<1>3. finished' \subseteq Steps
  BY DEF Commit, TypeInv, TypeOK
<1>4. primary' \in BOOLEAN
  BY DEF Commit, TypeInv, TypeOK
<1>5. disk' \in State /\ SavedType' /\ pc' \in {"wave", "settle", "report"}
  BY <1>2, SaveType DEF Commit, SaveThen, TypeInv
<1> QED
  BY <1>1, <1>2, <1>3, <1>4, <1>5 DEF Commit, TypeInv, TypeOK, SavedType, Decision, controlVars

\* An invocation begins.
LEMMA StartType ==
    ASSUME TypeInv, NEW p \in Plans, NEW approve \in BOOLEAN, Start(p, approve)
    PROVE  TypeInv'
<1>1. mem' \in State
  BY DEF Start, StartWith, TypeInv, TypeOK, State, RunStatus
<1>2. disk' \in State /\ SavedType' /\ pc' \in {"loop", "report"}
  BY <1>1, SaveType DEF Start, StartWith, SaveThen, TypeInv
<1>3. gate' \in BOOLEAN /\ paused' \in BOOLEAN /\ cancelled' \in BOOLEAN
  BY DEF Start, StartWith
<1>4. finished' \subseteq Steps
  BY DEF Start, StartWith
<1> QED
  BY <1>1, <1>2, <1>3, <1>4 DEF Start, StartWith, TypeInv, TypeOK, SavedType, Decision, execVars

LEMMA PlanDoneType ==
    ASSUME TypeInv, PlanDone
    PROVE  TypeInv'
<1>1. pc = "plan" /\ plan \in Plans /\ mem' = mem
  BY DEF PlanDone, TypeInv
<1>2. disk' \in State /\ SavedType' /\ pc' \in {"loop", "wave", "report"}
  BY <1>1, SaveType DEF PlanDone, SaveThen, TypeInv, TypeOK
<1>3. attempt' \in [Steps -> 0..MaxAttempts]
  BY WorkflowAssumption DEF PlanDone
<1>4. outcome' \in [Steps -> Outputs \cup {"none", "pending", "failed", "cancelled"}]
  BY DEF PlanDone
<1>5. wave' = wave /\ \A s \in wave : outcome'[s] # "none"
  BY DEF PlanDone, roundVars, TypeInv, TypeOK
<1> QED
  BY <1>1, <1>2, <1>3, <1>4, <1>5 DEF PlanDone, TypeInv, TypeOK, SavedType, Decision, controlVars, roundVars

LEMMA ExecuteType ==
    ASSUME TypeInv, NEW s \in Steps, Execute(s)
    PROVE  TypeInv'
<1>1. /\ pc = "wave" /\ s \in wave /\ outcome[s] = "pending"
      /\ UNCHANGED <<rowVars, pc, plan, gate, controlVars, mem, roundVars, primary>>
  BY DEF Execute, StepSucceeds, StepRetries, StepErrs, Executing
<1>2. outcome' \in [Steps -> Outputs \cup {"none", "pending", "failed", "cancelled"}]
  BY DEF Execute, StepSucceeds, StepRetries, StepErrs, TypeInv, TypeOK
<1>3. \A t \in wave : outcome'[t] # "none"
  BY <1>1, WorkflowAssumption
  DEF Execute, StepSucceeds, StepRetries, StepErrs, TypeInv, TypeOK, Readable, Nothing
<1>4. attempt' \in [Steps -> 0..MaxAttempts]
  BY WorkflowAssumption DEF Execute, StepSucceeds, StepRetries, StepErrs, TypeInv, TypeOK
<1> QED
  BY <1>1, <1>2, <1>3, <1>4 DEF TypeInv, TypeOK, rowVars, controlVars, roundVars

LEMMA IdleType ==
    ASSUME TypeInv, Idle, mem' = disk, UNCHANGED <<disk, inserted, decision>>,
           task' \in {"running", "paused", "cancelled", "completed", "failed"}
    PROVE  TypeInv'
<1>1. attempt' \in [Steps -> 0..MaxAttempts]
  BY WorkflowAssumption DEF Idle
<1>2. outcome' \in [Steps -> Outputs \cup {"none", "pending", "failed", "cancelled"}]
  BY DEF Idle
<1>3. {gate, paused, cancelled, ctxDone, primary}' \subseteq BOOLEAN
  BY DEF Idle
<1> QED
  BY <1>1, <1>2, <1>3 DEF Idle, TypeInv, TypeOK

LEMMA TypeInit == Init => TypeInv
<1> SUFFICES ASSUME Init PROVE TypeInv
  OBVIOUS
<1>1. NoStep \in StepState
  BY DEF NoStep, NoInput, StepState, Input, StepStatus
<1>2. NoRun \in State
  BY <1>1 DEF NoRun, State, RunStatus
<1>3. attempt \in [Steps -> 0..MaxAttempts]
  BY WorkflowAssumption DEF Init
<1>4. {gate, paused, cancelled, ctxDone, primary} \subseteq BOOLEAN
  BY DEF Init
<1> QED
  BY <1>2, <1>3, <1>4 DEF Init, TypeInv, TypeOK

LEMMA TypeStep == TypeInv /\ [Next]_vars => TypeInv'
<1> SUFFICES ASSUME TypeInv, [Next]_vars PROVE TypeInv'
  OBVIOUS
<1>1. CASE \/ Complete \/ StopCancelled \/ StopPaused \/ StopNothingReady
           \/ SettleCancelled \/ SettleFailed
  <2>1. pc # "off" /\ \E r \in RunStatus : Return(r)
    BY <1>1 DEF Complete, StopCancelled, StopPaused, StopNothingReady, SettleCancelled,
                SettleFailed, LoopBody, RunStatus
  <2> QED
    BY <2>1, ReturnType
<1>2. CASE SelectReady
  <2>1. attempt' \in [Steps -> 0..MaxAttempts] /\ Ready \subseteq Steps
    BY <1>2, WorkflowAssumption DEF SelectReady, Ready
  <2> QED
    BY <1>2, <2>1 DEF SelectReady, LoopBody, TypeInv, TypeOK, rowVars, controlVars
<1>3. CASE PlanDone
  BY <1>3, PlanDoneType
<1>4. CASE SettleNext
  BY <1>4 DEF SettleNext, TypeInv, TypeOK, rowVars, controlVars, roundVars, execVars
<1>5. CASE Report
  <2>1. task' \in {"running", "paused", "cancelled", "completed", "failed"}
    BY <1>5 DEF Report, TaskStatusOf, TypeInv, TypeOK
  <2> QED
    BY <1>5, <2>1, IdleType DEF Report
<1>6. CASE \E s \in Steps : Consider(s) \/ Execute(s) \/ Commit(s)
  BY <1>6, ConsiderType, ExecuteType, CommitType
<1>7. CASE \E p \in Plans, approve \in BOOLEAN : Start(p, approve)
  BY <1>7, StartType
<1>8. CASE Crash
  BY <1>8, IdleType DEF Crash, rowVars, TypeInv, TypeOK
<1>9. CASE Watch \/ PropagateCancel
  BY <1>9 DEF Watch, PropagateCancel, TypeInv, TypeOK, rowVars, roundVars, execVars
<1>10. CASE \E c \in Commands : TaskCommand(c)
  BY <1>10, WorkflowAssumption
  DEF TaskCommand, CommandStatus, TypeInv, TypeOK, controlVars, roundVars, execVars
<1>11. CASE \E s \in Steps, d \in {"approved", "rejected"} : DecideApproval(s, d)
  BY <1>11 DEF DecideApproval, TypeInv, TypeOK, controlVars, roundVars, execVars
<1>12. CASE UNCHANGED vars
  BY <1>12 DEF vars, rowVars, controlVars, roundVars, execVars, TypeInv, TypeOK
<1> QED
  BY <1>1, <1>2, <1>3, <1>4, <1>5, <1>6, <1>7, <1>8, <1>9, <1>10, <1>11, <1>12
  DEF Next, Engine, Environment

\* The state of Engine.Run and of the rows it writes keeps its types, and no
\* step is tried more often than its retry policy allows, for every workflow.
THEOREM TypeCorrect == Spec => []TypeOK
<1>1. TypeInv => TypeOK
  BY DEF TypeInv
<1> QED
  BY <1>1, TypeInit, TypeStep, PTL DEF Spec

-----------------------------------------------------------------------------
(* The loop of Engine.Run. *)

\* Of the run state in memory, a step either is as it was saved or was considered
\* in this round, and then a saved success gave way to a changed input only.
Kept == \A s \in Steps :
    \/ mem.steps[s] = disk.steps[s]
    \/ /\ s \notin ready
       /\ disk.steps[s].status = "succeeded" =>
              s \in Rerun /\ mem.steps[s].input # disk.steps[s].input

\* Finished steps stay satisfied because no step is at once finished and still
\* to be considered or committed; outside a round memory is what was saved.
LoopInv ==
    /\ Running => mem.run = "running" /\ \A s \in finished : Status(s) \in Satisfied
    /\ ready \cap wave = {} /\ finished \cap ready = {} /\ finished \cap wave = {}
    /\ pc = "off" => ready = {} /\ wave = {}
    /\ pc \in {"plan", "wave"} => \A s \in wave : Status(s) = "running"
    /\ pc \in {"loop", "wave", "settle"} => mem = disk
    /\ pc = "plan" => Kept

\* A gated step of a run state that was started carries its approval.
Started == {"running", "succeeded", "failed", "cancelled"}
Approved(st) == \A s \in Gated :
    st.steps[s].status \in Started => st.steps[s].approval = "approved"

GateInv == Approved(mem) /\ Approved(disk) /\ GatedIsDecided

\* No step depends on one that may rerun.
NoRerunDependency == \A s \in Steps : DependsOn[s] \cap Rerun = {}

\* The condition of a step, in the run state st.
ConditionIn(st, s) ==
    /\ \A c \in SuccessOf[s] : st.steps[c].status = "succeeded"
    /\ \A c \in NonEmptyOf[s] : st.steps[c].out = "full"

\* Recorded steps are closed under dependencies, and a skipped step would be
\* skipped again.
Closed(st) == \A s \in Steps :
    /\ st.steps[s].status # "none" =>
           \A d \in DependsOn[s] : st.steps[d].status \in Satisfied
    /\ st.steps[s].status = "skipped" =>
           st.steps[s].out = Nothing /\ ~ConditionIn(st, s)

WaveInv ==
    /\ pc # "off" => Validate
    /\ Closed(mem) /\ Closed(disk)
    /\ pc \in {"plan", "wave"} => \A s \in ready \cup wave : DependenciesSucceeded(s)

\* A transition changes one step, and a commit the status and output of one.
LEMMA TransitionEffect ==
    ASSUME TypeOK, NEW s \in Steps, NEW status, NEW approval,
           TransitionStep(s, status, approval)
    PROVE  /\ mem'.run = mem.run
           /\ mem'.steps[s] = [status |-> status, input |-> ResolveInput(s),
                               out |-> Nothing, approval |-> approval]
           /\ \A t \in Steps \ {s} : mem'.steps[t] = mem.steps[t]
BY DEF TransitionStep, TypeOK, State

LEMMA CommitEffect ==
    ASSUME TypeInv, NEW s \in Steps, Commit(s)
    PROVE  /\ mem'.run = mem.run
           /\ mem'.steps[s].status = IF outcome[s] \in {"failed", "cancelled"}
                                     THEN outcome[s] ELSE "succeeded"
           /\ mem'.steps[s].approval = mem.steps[s].approval
           /\ \A t \in Steps \ {s} : mem'.steps[t] = mem.steps[t]
<1>1. /\ mem'.run = mem.run /\ mem'.steps[s] = Committed(s)
      /\ \A t \in Steps \ {s} : mem'.steps[t] = mem.steps[t]
  BY CommitStep DEF TypeInv, TypeOK, State
<1>2. mem.steps[s] \in StepState
  BY DEF TypeInv, TypeOK, State
<1> QED
  BY <1>1, <1>2 DEF Committed, StepState

\* What Run returns with: its state is saved, or the saved one stays.
LEMMA ReturnEffect ==
    ASSUME TypeInv, NEW status, Return(status)
    PROVE  /\ mem'.run = status /\ mem'.steps = mem.steps
           /\ disk' = mem' \/ disk' = disk
           /\ pc' = "report" /\ UNCHANGED <<finished, ready, wave>>
BY DEF Return, Save, SaveFails, roundVars, TypeInv, TypeOK, State

\* The actions in which Run returns.
Returns == \/ Complete \/ StopCancelled \/ StopPaused \/ StopNothingReady
           \/ SettleCancelled \/ SettleFailed \/ \E s \in Steps : PlanInputError(s)

LEMMA LoopReturns ==
    ASSUME TypeInv, LoopInv, Returns
    PROVE  LoopInv'
<1>1. \E r \in RunStatus : Return(r)
  BY DEF Returns, Complete, StopCancelled, StopPaused, StopNothingReady, SettleCancelled,
         SettleFailed, PlanInputError, RunStatus
<1>2. pc' = "report" /\ UNCHANGED <<finished, ready, wave>>
  BY <1>1, ReturnEffect
<1> QED
  BY <1>2 DEF LoopInv, Running

LEMMA LoopStart ==
    ASSUME TypeInv, LoopInv, NEW p, NEW approve, Start(p, approve)
    PROVE  LoopInv'
<1>1. /\ ready' = {} /\ wave' = {} /\ mem'.run = "running" /\ mem'.steps = disk.steps
      /\ \A s \in finished' : disk.steps[s].status = "succeeded"
  BY DEF Start, StartWith, LoopInv, TypeInv, TypeOK, State
<1>2. SaveThen("loop")
  BY DEF Start, StartWith
<1>3. pc' = "report" \/ (pc' = "loop" /\ disk' = mem')
  BY <1>2 DEF SaveThen, Save
<1> QED
  BY <1>1, <1>3 DEF LoopInv, Running, Status, Satisfied

LEMMA LoopConsider ==
    ASSUME TypeInv, LoopInv, NEW s \in Steps,
           PlanRetain(s) \/ PlanSkip(s) \/ PlanAwait(s) \/ PlanRun(s)
    PROVE  LoopInv'
<1>1. /\ pc = "plan" /\ pc' = "plan" /\ disk' = disk
      /\ s \in ready /\ ready' = ready \ {s}
      /\ s \notin finished /\ s \notin wave
  BY DEF PlanRetain, PlanSkip, PlanAwait, PlanRun, Considering, Considered, rowVars, LoopInv
<1>2. CASE PlanRetain(s)
  <2>1. mem' = mem /\ wave' = wave /\ finished' = finished \cup {s} /\ Status(s) = "succeeded"
    BY <1>2 DEF PlanRetain, Retained
  <2> QED
    BY <1>1, <2>1 DEF LoopInv, Running, Status, Satisfied, Kept
<1>3. CASE PlanSkip(s) \/ PlanAwait(s) \/ PlanRun(s)
  <2>1. PICK status, approval :
            /\ TransitionStep(s, status, approval)
            /\ PlanSkip(s) => status = "skipped"
            /\ PlanRun(s) => status = "running"
    BY <1>3 DEF PlanSkip, PlanAwait, PlanRun
  <2>2. /\ mem'.run = mem.run /\ mem'.steps[s].input = ResolveInput(s)
        /\ mem'.steps[s].status = status
        /\ \A t \in Steps \ {s} : mem'.steps[t] = mem.steps[t]
    <3> DEFINE new == [status |-> status, input |-> ResolveInput(s), out |-> Nothing,
                       approval |-> approval]
    <3>1. mem'.run = mem.run /\ mem'.steps[s] = new
          /\ \A t \in Steps \ {s} : mem'.steps[t] = mem.steps[t]
      BY <2>1, TransitionEffect DEF TypeInv
    <3>2. new.input = ResolveInput(s) /\ new.status = status
      OBVIOUS
    <3> QED
      BY <3>1, <3>2
  <2>3. ~Retained(s)
    BY <1>3 DEF PlanSkip, PlanAwait, PlanRun
  <2>4. mem.steps[s] = disk.steps[s]
    BY <1>1 DEF LoopInv, Kept
  <2>5. Kept'
    BY <1>1, <2>2, <2>3, <2>4 DEF LoopInv, Kept, Retained, Status
  <2>6. CASE PlanSkip(s)
    <3>1. wave' = wave /\ finished' = finished \cup {s} /\ mem'.steps[s].status = "skipped"
      BY <2>1, <2>2, <2>6 DEF PlanSkip
    <3> QED
      BY <1>1, <2>2, <2>5, <3>1 DEF LoopInv, Running, Status, Satisfied, TypeInv, TypeOK
  <2>7. CASE PlanAwait(s)
    <3>1. wave' = wave /\ finished' = finished
      BY <2>7 DEF PlanAwait
    <3> QED
      BY <1>1, <2>2, <2>5, <3>1 DEF LoopInv, Running, Status, Satisfied, TypeInv, TypeOK
  <2>8. CASE PlanRun(s)
    <3>1. wave' = wave \cup {s} /\ finished' = finished /\ mem'.steps[s].status = "running"
      BY <2>1, <2>2, <2>8 DEF PlanRun
    <3> QED
      BY <1>1, <2>2, <2>5, <3>1 DEF LoopInv, Running, Status, Satisfied, TypeInv, TypeOK
  <2> QED
    BY <1>3, <2>6, <2>7, <2>8
<1> QED
  BY <1>2, <1>3

LEMMA LoopCommit ==
    ASSUME TypeInv, LoopInv, NEW s \in Steps, Commit(s)
    PROVE  LoopInv'
<1>1. /\ pc = "wave" /\ s \in wave /\ s \notin finished /\ s \notin ready
      /\ wave' = wave \ {s} /\ ready' = ready
      /\ (pc' \in {"wave", "settle"} /\ disk' = mem') \/ pc' = "report"
  BY DEF Commit, Committing, SaveThen, Save, LoopInv
<1>2. /\ mem'.run = mem.run
      /\ \A t \in Steps \ {s} : mem'.steps[t] = mem.steps[t]
      /\ \/ finished' = finished
         \/ finished' = finished \cup {s} /\ mem'.steps[s].status = "succeeded"
  BY CommitEffect DEF Commit
<1> QED
  BY <1>1, <1>2 DEF LoopInv, Running, Status, Satisfied, TypeInv, TypeOK

LEMMA LoopStep == TypeInv /\ LoopInv /\ [Next]_vars => LoopInv'
<1> SUFFICES ASSUME TypeInv, LoopInv, [Next]_vars PROVE LoopInv'
  OBVIOUS
<1>1. CASE Returns
  BY <1>1, LoopReturns
<1>2. CASE SelectReady
  <2>1. /\ pc = "loop" /\ pc' = "plan" /\ mem' = mem /\ disk' = disk
        /\ finished' = finished /\ wave' = {} /\ ready' \cap finished = {}
    BY <1>2 DEF SelectReady, LoopBody, Ready, rowVars
  <2> QED
    BY <2>1 DEF LoopInv, Running, Status, Kept
<1>3. CASE PlanDone
  <2>1. /\ pc = "plan" /\ mem' = mem /\ UNCHANGED <<finished, ready, wave>>
        /\ (pc' \in {"loop", "wave"} /\ disk' = mem') \/ pc' = "report"
    BY <1>3 DEF PlanDone, SaveThen, Save, roundVars
  <2> QED
    BY <2>1 DEF LoopInv, Running, Status
<1>4. CASE SettleNext
  BY <1>4 DEF SettleNext, LoopInv, Running, Status, rowVars, roundVars
<1>5. CASE Report \/ Crash
  BY <1>5 DEF Report, Crash, Idle, LoopInv, Running
<1>6. CASE \E s \in Steps : PlanRetain(s) \/ PlanSkip(s) \/ PlanAwait(s) \/ PlanRun(s)
  BY <1>6, LoopConsider
<1>7. CASE \E s \in Steps : Commit(s)
  BY <1>7, LoopCommit
<1>8. CASE \E p \in Plans, approve \in BOOLEAN : Start(p, approve)
  BY <1>8, LoopStart
<1>9. CASE \/ Watch \/ PropagateCancel \/ \E s \in Steps : Execute(s)
           \/ \E c \in Commands : TaskCommand(c)
           \/ \E s \in Steps, d \in {"approved", "rejected"} : DecideApproval(s, d)
           \/ UNCHANGED vars
  <2>1. UNCHANGED <<pc, mem, disk, roundVars>>
    BY <1>9 DEF Execute, StepSucceeds, StepRetries, StepErrs, Watch, PropagateCancel,
                TaskCommand, DecideApproval, vars, rowVars
  <2> QED
    BY <2>1 DEF LoopInv, Running, Status, Kept, roundVars
<1> QED
  BY <1>1, <1>2, <1>3, <1>4, <1>5, <1>6, <1>7, <1>8, <1>9
  DEF Next, Engine, Environment, Returns, Consider

LEMMA LoopInvariant == Spec => [](TypeInv /\ LoopInv)
<1>1. Init => LoopInv
  BY DEF Init, LoopInv, Running
<1> QED
  BY <1>1, TypeInit, TypeStep, LoopStep, PTL DEF Spec

-----------------------------------------------------------------------------
(* What the loop promises. *)

\* A save in the middle of Run happens entirely, or Run returns.
LEMMA SaveThenEffect ==
    ASSUME NEW next, SaveThen(next)
    PROVE  (disk' = mem' /\ pc' = next) \/ (disk' = disk /\ pc' = "report")
BY DEF SaveThen, Save, SaveFails

\* The actions that may save, and the ones that leave the run state alone.
LEMMA DiskUnchanged ==
    ASSUME [Next]_vars, ~Returns, ~PlanDone, \A s \in Steps : ~Commit(s),
           \A p \in Plans, approve \in BOOLEAN : ~Start(p, approve)
    PROVE  disk' = disk
BY DEF Next, Engine, Environment, Returns, Consider, Execute, SelectReady, SettleNext, Report,
       Crash, Watch, PropagateCancel, TaskCommand, DecideApproval, StepSucceeds, StepRetries,
       StepErrs, PlanRetain, PlanSkip, PlanAwait, PlanRun, Considered, rowVars, vars

LEMMA CompletedStep ==
    ASSUME TypeInv, LoopInv, [Next]_vars, CompletedMeansAll
    PROVE  CompletedMeansAll'
<1> USE DEF CompletedMeansAll
<1>1. CASE Complete
  <2>1. mem'.steps = mem.steps /\ (disk' = mem' \/ disk' = disk)
    BY <1>1, ReturnEffect DEF Complete
  <2>2. \A s \in Steps : mem.steps[s].status \in Satisfied
    BY <1>1 DEF Complete, LoopInv, Running, Status
  <2> QED
    BY <2>1, <2>2
<1>2. CASE Returns /\ ~Complete
  <2>1. \E r \in RunStatus \ {"completed"} : Return(r)
    BY <1>2 DEF Returns, StopCancelled, StopPaused, StopNothingReady, SettleCancelled,
                SettleFailed, PlanInputError, RunStatus
  <2>2. mem'.run # "completed" /\ (disk' = mem' \/ disk' = disk)
    BY <2>1, ReturnEffect
  <2> QED
    BY <2>2
<1>3. CASE PlanDone \/ (\E s \in Steps : Commit(s))
           \/ \E p \in Plans, approve \in BOOLEAN : Start(p, approve)
  <2>1. PICK next \in {"loop", "wave", "settle"} : SaveThen(next)
    BY <1>3 DEF PlanDone, Commit, Start, StartWith
  <2>2. (disk' = mem' /\ pc' = next) \/ disk' = disk
    BY <2>1, SaveThenEffect
  <2>3. LoopInv'
    BY LoopStep
  <2> QED
    BY <2>2, <2>3 DEF LoopInv, Running
<1> QED
  BY <1>1, <1>2, <1>3, DiskUnchanged

\* A run persisted as completed has every step persisted as succeeded or skipped,
\* for every workflow and any history of crashes, failed saves and resumes.
THEOREM CompletedMeansAllHolds == Spec => []CompletedMeansAll
<1>1. Init => CompletedMeansAll
  BY DEF Init, CompletedMeansAll, NoRun
<1>2. TypeInv /\ LoopInv /\ CompletedMeansAll /\ [Next]_vars => CompletedMeansAll'
  BY CompletedStep
<1> QED
  BY <1>1, <1>2, LoopInvariant, PTL DEF Spec

LEMMA SuccessStep ==
    ASSUME TypeInv, LoopInv, [Next]_vars, NEW s \in Steps, disk.steps[s].status = "succeeded"
    PROVE  \/ disk'.steps[s] = disk.steps[s]
           \/ s \in Rerun /\ disk'.steps[s].input # disk.steps[s].input
<1>1. CASE Returns
  <2>1. pc \in {"loop", "settle", "plan"} /\ \E r \in RunStatus : Return(r)
    BY <1>1 DEF Returns, Complete, StopCancelled, StopPaused, StopNothingReady, SettleCancelled,
                SettleFailed, PlanInputError, Considering, LoopBody, RunStatus
  <2>2. mem'.steps = mem.steps /\ (disk' = mem' \/ disk' = disk)
    BY <2>1, ReturnEffect
  <2> QED
    BY <2>1, <2>2 DEF LoopInv, Kept
<1>2. CASE PlanDone
  <2>1. pc = "plan" /\ mem' = mem /\ (disk' = mem' \/ disk' = disk)
    BY <1>2, SaveThenEffect DEF PlanDone
  <2> QED
    BY <2>1 DEF LoopInv, Kept
<1>3. CASE \E t \in Steps : Commit(t)
  <2>1. PICK t \in Steps : Commit(t)
    BY <1>3
  <2>2. mem = disk /\ Status(t) = "running" /\ (disk' = mem' \/ disk' = disk)
    BY <2>1, SaveThenEffect DEF Commit, Committing, LoopInv
  <2>3. mem'.steps[s] = mem.steps[s]
    BY <2>1, <2>2, CommitEffect DEF Status
  <2> QED
    BY <2>2, <2>3
<1>4. CASE \E p \in Plans, approve \in BOOLEAN : Start(p, approve)
  <2>1. mem'.steps = disk.steps
    BY <1>4 DEF Start, StartWith, TypeInv, TypeOK, State
  <2>2. disk' = mem' \/ disk' = disk
    BY <1>4, SaveThenEffect DEF Start, StartWith
  <2> QED
    BY <2>1, <2>2
<1> QED
  BY <1>1, <1>2, <1>3, <1>4, DiskUnchanged

\* A persisted success is never replaced, except for a step that opted into reruns
\* and whose input changed: Run considers a succeeded step only to retain it.
THEOREM SuccessKeptHolds == Spec => SuccessKept
<1>1. TypeInv /\ LoopInv /\ [Next]_vars =>
        [\A s \in Steps : disk.steps[s].status = "succeeded" =>
            \/ disk'.steps[s] = disk.steps[s]
            \/ s \in Rerun /\ disk'.steps[s].input # disk.steps[s].input]_vars
  BY SuccessStep
<1> QED
  BY <1>1, LoopInvariant, PTL DEF Spec, SuccessKept

\* The topological order is the induction: the least unfinished step has only
\* finished, hence satisfied, dependencies.
LEMMA LeastUnfinished ==
    ASSUME NEW S \in SUBSET Steps, S # {}
    PROVE  \E s \in S : \A t \in Steps : t < s => t \notin S
<1>1. S \subseteq Nat
  BY WorkflowAssumption DEF Steps
<1>2. PICK s \in S : \A t \in S : <<t, s>> \notin OpToRel(<, Nat)
  BY <1>1, NatLessThanWellFounded, WFMin
<1> QED
  BY <1>1, <1>2 DEF OpToRel

\* "workflow has no runnable steps" is unreachable in every workflow.
THEOREM SomeStepRunnableHolds == Spec => []SomeStepRunnable
<1>1. TypeInv /\ LoopInv => SomeStepRunnable
  <2> SUFFICES ASSUME TypeInv, LoopInv, LoopBody, blocked = {}
               PROVE  Ready # {}
    BY DEF SomeStepRunnable
  <2>1. PICK s \in Steps \ finished : \A t \in Steps : t < s => t \in finished
    <3>1. Steps \ finished # {} /\ Steps \ finished \in SUBSET Steps
      BY DEF LoopBody, TypeInv, TypeOK
    <3>2. PICK s \in Steps \ finished : \A t \in Steps : t < s => t \notin Steps \ finished
      BY <3>1, LeastUnfinished
    <3> QED
      BY <3>2
  <2>2. \A d \in DependsOn[s] : d \in Steps /\ d < s
    BY WorkflowAssumption DEF Steps
  <2>3. DependenciesSucceeded(s)
    BY <2>1, <2>2 DEF DependenciesSucceeded, LoopInv, LoopBody, Running
  <2> QED
    BY <2>1, <2>3 DEF Ready
<1> QED
  BY <1>1, LoopInvariant, PTL

-----------------------------------------------------------------------------
(* Approvals. *)

\* A successful save of an approved state decides every row it needs, and a
\* failed one takes no decision back.
LEMMA SaveDecided ==
    ASSUME TypeOK, GatedIsDecided, NEW state \in State, Approved(state), Approved(disk),
           Save(state) \/ SaveFails(state)
    PROVE  Approved(disk') /\ GatedIsDecided'
<1>1. \A s \in Gated : s \in Steps
  BY WorkflowAssumption
<1>2. CASE Save(state)
  <2>1. \A s \in Gated : state.steps[s].status \in Started =>
            SavedDecision(s, state) \in {"approved", "rejected"}
    BY DEF SavedDecision, Approved
  <2> QED
    BY <1>1, <1>2, <2>1 DEF Save, Approved, GatedIsDecided, Started
<1>3. CASE SaveFails(state)
  <2>1. \A s \in Gated : SameRow(s, state) /\ decision[s] \in {"approved", "rejected"} =>
            SavedDecision(s, state) = decision[s]
    BY DEF SavedDecision
  <2> QED
    BY <1>1, <1>3, <2>1 DEF SaveFails, Approved, GatedIsDecided
<1> QED
  BY <1>2, <1>3

\* A step state in memory is approved before and after what a round does to it.
LEMMA ApprovedConsider ==
    ASSUME TypeInv, Approved(mem), NEW s \in Steps, PlanSkip(s) \/ PlanAwait(s) \/ PlanRun(s)
    PROVE  Approved(mem')
<1>1. PICK status, approval :
          /\ TransitionStep(s, status, approval)
          /\ s \in Gated /\ status \in Started => approval = "approved"
  BY DEF PlanSkip, PlanAwait, PlanRun, Started
<1> DEFINE new == [status |-> status, input |-> ResolveInput(s), out |-> Nothing,
                   approval |-> approval]
<1>2. mem'.steps[s] = new /\ \A t \in Steps \ {s} : mem'.steps[t] = mem.steps[t]
  BY <1>1, TransitionEffect DEF TypeInv
<1>3. new.status = status /\ new.approval = approval
  OBVIOUS
<1> HIDE DEF new
<1> QED
  BY <1>1, <1>2, <1>3, WorkflowAssumption DEF Approved

LEMMA ApprovedCommit ==
    ASSUME TypeInv, LoopInv, Approved(mem), NEW s \in Steps, Commit(s)
    PROVE  Approved(mem')
<1>1. Status(s) = "running"
  BY DEF Commit, Committing, LoopInv
<1>2. /\ mem'.steps[s].approval = mem.steps[s].approval
      /\ \A t \in Steps \ {s} : mem'.steps[t] = mem.steps[t]
  BY CommitEffect
<1> QED
  BY <1>1, <1>2, WorkflowAssumption DEF Approved, Status, Started

LEMMA GateStep ==
    ASSUME TypeInv, LoopInv, GateInv, [Next]_vars
    PROVE  GateInv'
<1> USE DEF GateInv
<1>1. ASSUME Approved(mem'), Save(mem') \/ SaveFails(mem')
      PROVE  GateInv'
  <2>1. mem' \in State
    BY TypeStep DEF TypeInv, TypeOK
  <2>2. Approved(disk') /\ GatedIsDecided'
    BY <1>1, <2>1, SaveDecided DEF TypeInv
  <2> QED
    BY <1>1, <2>2 DEF Approved
<1>2. CASE Returns
  <2>1. PICK r \in RunStatus : Return(r)
    BY <1>2 DEF Returns, Complete, StopCancelled, StopPaused, StopNothingReady, SettleCancelled,
                SettleFailed, PlanInputError, RunStatus
  <2>2. Approved(mem') /\ (Save(mem') \/ SaveFails(mem'))
    BY <2>1, ReturnEffect DEF Return, Approved
  <2> QED
    BY <1>1, <2>2
<1>3. CASE PlanDone
  <2>1. Approved(mem') /\ (Save(mem') \/ SaveFails(mem'))
    BY <1>3 DEF PlanDone, SaveThen, Approved
  <2> QED
    BY <1>1, <2>1
<1>4. CASE \E s \in Steps : Commit(s)
  <2>1. Approved(mem') /\ (Save(mem') \/ SaveFails(mem'))
    BY <1>4, ApprovedCommit DEF Commit, SaveThen
  <2> QED
    BY <1>1, <2>1
<1>5. CASE \E p \in Plans, approve \in BOOLEAN : Start(p, approve)
  <2>1. mem'.steps = disk.steps
    BY <1>5 DEF Start, StartWith, TypeInv, TypeOK, State
  <2>2. Save(mem') \/ SaveFails(mem')
    BY <1>5 DEF Start, StartWith, SaveThen
  <2> QED
    BY <1>1, <2>1, <2>2 DEF Approved
<1>6. CASE \E s \in Steps : PlanSkip(s) \/ PlanAwait(s) \/ PlanRun(s)
  <2>1. disk' = disk /\ decision' = decision
    BY <1>6 DEF PlanSkip, PlanAwait, PlanRun, Considered, rowVars
  <2>2. Approved(mem')
    BY <1>6, ApprovedConsider
  <2> QED
    BY <2>1, <2>2 DEF Approved, GatedIsDecided
<1>7. CASE \E s \in Steps, d \in {"approved", "rejected"} : DecideApproval(s, d)
  <2>1. disk' = disk /\ mem' = mem
    BY <1>7 DEF DecideApproval
  <2>2. \A s \in Steps : decision'[s] = decision[s] \/ decision'[s] \in {"approved", "rejected"}
    BY <1>7 DEF DecideApproval, TypeInv, TypeOK
  <2> QED
    BY <2>1, <2>2, WorkflowAssumption DEF Approved, GatedIsDecided
<1>8. CASE Report \/ Crash
  BY <1>8 DEF Report, Crash, rowVars, Approved, GatedIsDecided
<1>9. CASE \/ SelectReady \/ SettleNext \/ Watch \/ PropagateCancel \/ UNCHANGED vars
           \/ \E s \in Steps : PlanRetain(s)
           \/ \E s \in Steps : Execute(s)
           \/ \E c \in Commands : TaskCommand(c)
  <2>1. UNCHANGED <<mem, disk, decision>>
    BY <1>9 DEF SelectReady, SettleNext, PlanRetain, Considered, Execute, StepSucceeds,
                StepRetries, StepErrs, Watch, PropagateCancel, TaskCommand, vars, rowVars
  <2> QED
    BY <2>1 DEF Approved, GatedIsDecided
<1> QED
  BY <1>2, <1>3, <1>4, <1>5, <1>6, <1>7, <1>8, <1>9
  DEF Next, Engine, Environment, Returns, Consider

\* A gated step that was started has a decided approvals row, for every workflow:
\* the state carries the approval of a started step and every save hands it on.
THEOREM GatedIsDecidedHolds == Spec => []GatedIsDecided
<1>1. Init => GateInv
  BY WorkflowAssumption DEF Init, GateInv, Approved, GatedIsDecided, NoRun, NoStep, Started
<1>2. TypeInv /\ LoopInv /\ GateInv /\ [Next]_vars => GateInv'
  BY GateStep
<1>3. GateInv => GatedIsDecided
  BY DEF GateInv
<1> QED
  BY <1>1, <1>2, <1>3, LoopInvariant, PTL DEF Spec

-----------------------------------------------------------------------------
(* Waves. *)

\* Ancestors come earlier, are depended on by some step, and are satisfied in a
\* closed run state when the direct dependencies are.
LEMMA AncestorsBelow ==
    ASSUME NEW s \in Steps
    PROVE  s \notin Ancestors(s)
<1> DEFINE C == {c \in Steps : c < s}
<1>1. C \in SUBSET Steps /\ s \notin C
  BY WorkflowAssumption DEF Steps
<1>2. DependsOn[s] \subseteq C /\ \A c \in C : DependsOn[c] \subseteq C
  BY WorkflowAssumption DEF Steps
<1> HIDE DEF C
<1> QED
  BY <1>1, <1>2 DEF Ancestors

LEMMA AncestorsDepended ==
    ASSUME NEW s \in Steps, NEW a \in Ancestors(s)
    PROVE  a \in Steps /\ \E t \in Steps : a \in DependsOn[t]
<1> DEFINE C == {c \in Steps : \E t \in Steps : c \in DependsOn[t]}
<1>1. C \in SUBSET Steps /\ a \in Steps
  BY DEF Ancestors
<1>2. DependsOn[s] \subseteq C /\ \A c \in C : DependsOn[c] \subseteq C
  BY WorkflowAssumption
<1>3. a \in C
  <2> HIDE DEF C
  <2> QED
    BY <1>1, <1>2 DEF Ancestors
<1> QED
  BY <1>3

LEMMA AncestorsSatisfied ==
    ASSUME NEW st, Closed(st), NEW s \in Steps,
           \A d \in DependsOn[s] : st.steps[d].status \in Satisfied
    PROVE  \A a \in Ancestors(s) : a \in Steps /\ st.steps[a].status \in Satisfied
<1> DEFINE C == {c \in Steps : st.steps[c].status \in Satisfied}
<1>1. C \in SUBSET Steps
  OBVIOUS
<1>2. DependsOn[s] \subseteq C /\ \A c \in C : DependsOn[c] \subseteq C
  BY WorkflowAssumption DEF Closed, Satisfied
<1>3. \A a \in Ancestors(s) : a \in C
  <2> HIDE DEF C
  <2> QED
    BY <1>1, <1>2 DEF Ancestors
<1> QED
  BY <1>3

\* A change of one step keeps a run state closed when the step's dependencies are
\* satisfied and either nothing recorded rests on it or it stays skipped.
LEMMA ClosedChange ==
    ASSUME Validate, NEW old, NEW new, Closed(old), NEW x \in Steps,
           \A t \in Steps \ {x} : new.steps[t] = old.steps[t],
           \A d \in DependsOn[x] : old.steps[d].status \in Satisfied,
           new.steps[x].status = "skipped" =>
               new.steps[x].out = Nothing /\ ~ConditionIn(old, x),
           \/ old.steps[x].status \notin Satisfied
           \/ \A t \in Steps : x \notin DependsOn[t]
           \/ old.steps[x].status = "skipped" /\ new.steps[x].status = "skipped"
    PROVE  Closed(new)
<1>1. \A s \in Steps : (s = x \/ old.steps[s].status # "none") =>
          \A d \in DependsOn[s] : d \in Steps /\ d # s /\ old.steps[d].status \in Satisfied
  BY WorkflowAssumption DEF Closed, Steps
<1>2. \A s \in Steps : (s = x \/ old.steps[s].status # "none") =>
          \A d \in DependsOn[s] : new.steps[d].status \in Satisfied
  BY <1>1 DEF Satisfied
<1>3. ASSUME NEW s \in Steps, s = x \/ old.steps[s].status # "none",
             NEW a \in Ancestors(s)
      PROVE  /\ new.steps[a].status = old.steps[a].status
             /\ new.steps[a].out = old.steps[a].out
  <2>1. a \in Steps /\ old.steps[a].status \in Satisfied
    BY <1>1, <1>3, AncestorsSatisfied
  <2>2. \E t \in Steps : a \in DependsOn[t]
    BY AncestorsDepended
  <2>3. CASE a # x
    BY <2>1, <2>3
  <2>4. CASE a = x
    <3>1. old.steps[x].status = "skipped" /\ new.steps[x].status = "skipped"
      BY <2>1, <2>2, <2>4
    <3> QED
      BY <2>4, <3>1 DEF Closed
  <2> QED
    BY <2>3, <2>4
<1>4. \A s \in Steps : SuccessOf[s] \subseteq Ancestors(s) /\ NonEmptyOf[s] \subseteq Ancestors(s)
  BY DEF Validate
<1>5. \A s \in Steps : (s = x \/ old.steps[s].status # "none") =>
          (ConditionIn(new, s) <=> ConditionIn(old, s))
  BY <1>3, <1>4 DEF ConditionIn
<1> QED
  BY <1>2, <1>5 DEF Closed

\* A step that is considered and not retained either was not satisfied, or has no
\* dependents, or was skipped and is skipped again.
LEMMA WaveConsider ==
    ASSUME NoRerunDependency, TypeInv, LoopInv, WaveInv, NEW s \in Steps,
           PlanSkip(s) \/ PlanAwait(s) \/ PlanRun(s)
    PROVE  WaveInv'
<1>1. /\ pc = "plan" /\ pc' = "plan" /\ disk' = disk /\ s \in ready
      /\ ready' = ready \ {s} /\ wave' \subseteq wave \cup {s}
      /\ ~Retained(s)
  BY DEF PlanSkip, PlanAwait, PlanRun, Considering, Considered, rowVars
<1>2. PICK status, approval :
          /\ TransitionStep(s, status, approval)
          /\ status = "skipped" <=> ~Condition(s)
  BY DEF PlanSkip, PlanAwait, PlanRun
<1> DEFINE new == [status |-> status, input |-> ResolveInput(s), out |-> Nothing,
                   approval |-> approval]
<1>3. mem'.steps[s] = new /\ \A t \in Steps \ {s} : mem'.steps[t] = mem.steps[t]
  BY <1>2, TransitionEffect DEF TypeInv
<1>4. new.status = status /\ new.out = Nothing
  OBVIOUS
<1> HIDE DEF new
<1>5. mem'.steps[s].status = status /\ mem'.steps[s].out = Nothing
  BY <1>3, <1>4
<1>6. Validate /\ Closed(mem) /\ \A t \in ready \cup wave : DependenciesSucceeded(t)
  BY <1>1 DEF WaveInv
<1>7. Condition(s) <=> ConditionIn(mem, s)
  BY DEF Condition, ConditionIn, Status
<1>8. mem.steps[s].status = "skipped" => status = "skipped"
  BY <1>2, <1>6, <1>7 DEF Closed
<1>9. mem.steps[s].status = "succeeded" => \A t \in Steps : s \notin DependsOn[t]
  BY <1>1 DEF Retained, Status, NoRerunDependency
<1>10. Closed(mem')
  <2>1. \A d \in DependsOn[s] : mem.steps[d].status \in Satisfied
    BY <1>1, <1>6 DEF DependenciesSucceeded, Status
  <2>2. \/ mem.steps[s].status \notin Satisfied
        \/ \A t \in Steps : s \notin DependsOn[t]
        \/ mem.steps[s].status = "skipped" /\ mem'.steps[s].status = "skipped"
    BY <1>5, <1>8, <1>9 DEF Satisfied
  <2>3. mem'.steps[s].status = "skipped" =>
            mem'.steps[s].out = Nothing /\ ~ConditionIn(mem, s)
    BY <1>2, <1>5, <1>7
  <2> QED
    BY <1>3, <1>6, <2>1, <2>2, <2>3, ClosedChange
<1>11. ASSUME NEW t \in (ready \cup wave)', NEW d \in DependsOn[t]
       PROVE  mem'.steps[d].status \in Satisfied
  <2>1. t \in ready \cup wave /\ t \in Steps /\ d \in Steps
    BY <1>1, <1>11, WorkflowAssumption DEF TypeInv, TypeOK
  <2>2. mem.steps[d].status \in Satisfied
    BY <1>6, <2>1 DEF DependenciesSucceeded, Status
  <2>3. CASE d = s
    BY <1>5, <1>8, <1>9, <2>1, <2>2, <2>3 DEF Satisfied
  <2> QED
    BY <1>3, <2>1, <2>2, <2>3
<1> QED
  BY <1>1, <1>6, <1>10, <1>11 DEF WaveInv, DependenciesSucceeded, Status, Closed, Validate

LEMMA WaveCommit ==
    ASSUME TypeInv, LoopInv, WaveInv, NEW s \in Steps, Commit(s)
    PROVE  WaveInv'
<1>1. /\ pc = "wave" /\ s \in wave /\ Status(s) = "running"
      /\ wave' \subseteq wave /\ ready' = ready
      /\ disk' = mem' \/ disk' = disk
  BY SaveThenEffect DEF Commit, Committing, LoopInv
<1>2. mem'.steps[s].status # "skipped" /\ \A t \in Steps \ {s} : mem'.steps[t] = mem.steps[t]
  BY CommitEffect
<1>3. Validate /\ Closed(mem) /\ \A t \in ready \cup wave : DependenciesSucceeded(t)
  BY <1>1 DEF WaveInv
<1>4. Closed(mem')
  <2>1. \A d \in DependsOn[s] : mem.steps[d].status \in Satisfied
    BY <1>1, <1>3 DEF DependenciesSucceeded, Status
  <2>2. mem.steps[s].status \notin Satisfied
    BY <1>1 DEF Status, Satisfied
  <2> QED
    BY <1>2, <1>3, <2>1, <2>2, ClosedChange
<1>5. ASSUME NEW t \in (ready \cup wave)', NEW d \in DependsOn[t]
      PROVE  mem'.steps[d].status \in Satisfied
  <2>1. t \in ready \cup wave /\ t \in Steps /\ d \in Steps
    BY <1>1, <1>5, WorkflowAssumption DEF TypeInv, TypeOK
  <2>2. mem.steps[d].status \in Satisfied /\ d # s
    BY <1>1, <1>3, <2>1 DEF DependenciesSucceeded, Status, Satisfied
  <2> QED
    BY <1>2, <2>1, <2>2
<1> QED
  BY <1>1, <1>3, <1>4, <1>5 DEF WaveInv, DependenciesSucceeded, Status, Closed, Validate

LEMMA WaveStep ==
    ASSUME NoRerunDependency, TypeInv, LoopInv, WaveInv, [Next]_vars
    PROVE  WaveInv'
<1>1. ASSUME NEW a, NEW b, a.steps = b.steps, Closed(a)
      PROVE  Closed(b)
  BY <1>1 DEF Closed, ConditionIn
<1>2. CASE Returns
  <2>1. \E r \in RunStatus : Return(r) /\ pc # "off"
    BY <1>2 DEF Returns, Complete, StopCancelled, StopPaused, StopNothingReady, SettleCancelled,
                SettleFailed, PlanInputError, Considering, LoopBody, RunStatus
  <2>2. mem'.steps = mem.steps /\ (disk' = mem' \/ disk' = disk) /\ pc' = "report" /\ pc # "off"
    BY <2>1, ReturnEffect
  <2> QED
    BY <1>1, <2>2 DEF WaveInv, Validate
<1>3. CASE PlanDone
  <2>1. pc = "plan" /\ mem' = mem /\ (disk' = mem' \/ disk' = disk) /\ UNCHANGED <<ready, wave>>
    BY <1>3, SaveThenEffect DEF PlanDone, roundVars
  <2> QED
    BY <2>1 DEF WaveInv, DependenciesSucceeded, Status, Closed, Validate
<1>4. CASE \E s \in Steps : Commit(s)
  BY <1>4, WaveCommit
<1>5. CASE \E p \in Plans, approve \in BOOLEAN : Start(p, approve)
  <2>1. mem'.steps = disk.steps /\ Validate
    BY <1>5 DEF Start, StartWith, TypeInv, TypeOK, State
  <2>2. (disk' = mem' \/ disk' = disk) /\ pc' \in {"loop", "report"}
    BY <1>5, SaveThenEffect DEF Start, StartWith
  <2> QED
    BY <1>1, <2>1, <2>2 DEF WaveInv, Validate
<1>6. CASE \E s \in Steps : PlanSkip(s) \/ PlanAwait(s) \/ PlanRun(s)
  BY <1>6, WaveConsider
<1>7. CASE \E s \in Steps : PlanRetain(s)
  <2>1. pc' = pc /\ mem' = mem /\ disk' = disk /\ wave' = wave /\ ready' \subseteq ready
    BY <1>7 DEF PlanRetain, Considered, rowVars
  <2> QED
    BY <2>1 DEF WaveInv, DependenciesSucceeded, Status, Closed, Validate
<1>8. CASE Report \/ Crash
  BY <1>8 DEF Report, Crash, Idle, rowVars, WaveInv, Closed, Validate
<1>9. CASE SelectReady
  <2>1. pc = "loop" /\ mem' = mem /\ disk' = disk /\ ready' = Ready /\ wave' = {}
    BY <1>9 DEF SelectReady, LoopBody, rowVars
  <2> QED
    BY <2>1 DEF WaveInv, Ready, DependenciesSucceeded, Status, Closed, Validate
<1>10. CASE SettleNext
  BY <1>10 DEF SettleNext, rowVars, WaveInv, Closed, Validate
<1>11. CASE \/ Watch \/ PropagateCancel \/ UNCHANGED vars
            \/ \E s \in Steps : Execute(s)
            \/ \E c \in Commands : TaskCommand(c)
            \/ \E s \in Steps, d \in {"approved", "rejected"} : DecideApproval(s, d)
  <2>1. UNCHANGED <<mem, disk, pc, ready, wave>>
    BY <1>11 DEF Execute, StepSucceeds, StepRetries, StepErrs, Watch, PropagateCancel,
                 TaskCommand, DecideApproval, vars, rowVars, roundVars
  <2> QED
    BY <2>1 DEF WaveInv, DependenciesSucceeded, Status, Closed, Validate
<1> QED
  BY <1>2, <1>3, <1>4, <1>5, <1>6, <1>7, <1>8, <1>9, <1>10, <1>11
  DEF Next, Engine, Environment, Returns, Consider

\* No step executes beside, or ahead of, one it depends on, in every workflow in
\* which nothing depends on a step with RerunOnInputChange: a resume takes that
\* step's old success for satisfied while the step runs again.
THEOREM WaveIndependentHolds == NoRerunDependency => (Spec => []WaveIndependent)
<1> SUFFICES ASSUME NoRerunDependency PROVE Spec => []WaveIndependent
  OBVIOUS
<1>1. Init => WaveInv
  BY DEF Init, WaveInv, Closed, NoRun, NoStep
<1>2. TypeInv /\ LoopInv /\ WaveInv /\ [Next]_vars => WaveInv'
  BY WaveStep
<1>3. WaveInv => WaveIndependent
  BY DEF WaveInv, WaveIndependent
<1> QED
  BY <1>1, <1>2, <1>3, LoopInvariant, PTL DEF Spec
=============================================================================
