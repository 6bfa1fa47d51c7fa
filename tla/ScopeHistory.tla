---------------------------- MODULE ScopeHistory ----------------------------
(***************************************************************************)
(* The scope gate of one program: every `workflow run` compares the plan   *)
(* it was given with the last accepted row of scope_versions, records the  *)
(* plan when it differs, and starts only if the change does not expand the *)
(* scope or the operator passed --acknowledge-scope-expansion.             *)
(*                                                                         *)
(* A plan stands for its digest, which determines its include and exclude  *)
(* rules; two plans may have the same rules (manual discovery roots change *)
(* the digest only).  The check is one transaction that meets the others   *)
(* at two rows.  SELECT ... FOR UPDATE fixes the row it wants when it      *)
(* starts and may then wait for its lock, so what it returns can be older  *)
(* than what another run has committed.  The upsert of a known plan waits  *)
(* for the lock of that plan's row; the clock was read before it, so rows  *)
(* need not be as old as their commits, and two such waits can form a      *)
(* deadlock, which PostgreSQL ends by aborting one of the transactions.    *)
(***************************************************************************)
EXTENDS FiniteSets

CONSTANTS
    Plans,       \* target plan digests
    Includes,    \* include rule digests of each plan
    Excludes,    \* exclude rule digests of each plan
    Callers,     \* invocations of `workflow run` for this program
    NoPlan       \* the empty digest: no row, or a program older than plans

ASSUME PlanAssumption ==
    /\ NoPlan \notin Plans
    /\ Callers \cap Plans = {}
    /\ DOMAIN Includes = Plans
    /\ DOMAIN Excludes = Plans

VARIABLES
    created,     \* the programs row exists
    program,     \* its target_plan_digest
    versions,    \* scope_versions of the program, by plan
    older,       \* the order of created_at: of the rows, and of the times
                 \* that invocations took for a row they are about to insert
    call,        \* each invocation: its step, plan, flag, selected row, lock
    reviewed     \* history: plans an operator accepted as they are

rows == <<created, program, versions, reviewed>>

vars == <<rows, older, call>>

Version == [recorded : BOOLEAN, expands : BOOLEAN, acked : BOOLEAN]

NoVersion == [recorded |-> FALSE, expands |-> FALSE, acked |-> FALSE]

Call == [pc : {"idle", "select", "lock", "decide", "record", "running"},
         plan : Plans \cup {NoPlan}, ack : BOOLEAN,
         base : Plans \cup {NoPlan}, lock : Plans \cup {NoPlan}]

Idle == [pc |-> "idle", plan |-> NoPlan, ack |-> FALSE, base |-> NoPlan, lock |-> NoPlan]

Recorded(p) == versions[p].recorded

\* Whoever has a creation time: the rows, and the rows about to be inserted.
Stamped == {p \in Plans : Recorded(p)} \cup {c \in Callers : call[c].pc = "record"}

\* Types of the rows and of the invocations; only what has a time is ordered.
TypeOK ==
    /\ created \in BOOLEAN
    /\ program \in Plans \cup {NoPlan}
    /\ versions \in [Plans -> Version]
    /\ call \in [Callers -> Call]
    /\ \A c \in Callers : call[c].pc # "idle" => call[c].plan \in Plans
    /\ older \subseteq Stamped \X Stamped
    /\ reviewed \in SUBSET Plans

\* A program of the schema before scope_versions exists, or none does.
Init ==
    /\ created \in BOOLEAN
    /\ program = NoPlan
    /\ versions = [p \in Plans |-> NoVersion]
    /\ older = {}
    /\ call = [c \in Callers |-> Idle]
    /\ reviewed = {}

\* The rows the gate compares with: expands_scope = false OR acknowledged.
Accepted(p) == Recorded(p) /\ (~versions[p].expands \/ versions[p].acked)

\* The row that ORDER BY created_at DESC LIMIT 1 returns.
Newest(p) == /\ Accepted(p)
             /\ \A q \in Plans \ {p} : Accepted(q) => <<q, p>> \in older

AddedIncludes(old, new) == Includes[new] \ Includes[old]

RemovedExcludes(old, new) == Excludes[old] \ Excludes[new]

\* Fault: removed excludes are not an expansion.
ExpandsByIncludes(old, new) == old # NoPlan /\ AddedIncludes(old, new) # {}

ExpandsScope(old, new) ==
    old # NoPlan /\ (AddedIncludes(old, new) # {} \/ RemovedExcludes(old, new) # {})

CreateProgram(p) ==
    /\ ~created
    /\ created' = TRUE
    /\ program' = p
    /\ versions' = [versions EXCEPT ![p] = [recorded |-> TRUE, expands |-> FALSE, acked |-> TRUE]]
    /\ reviewed' = reviewed \cup {p}
    /\ UNCHANGED <<older, call>>

\* `workflow run` loads the scope file and plans before it opens the store.
Begin(c, p, acknowledge) ==
    /\ created /\ call[c].pc = "idle"
    /\ call' = [call EXCEPT ![c] = [Idle EXCEPT !.pc = "select", !.plan = p, !.ack = acknowledge]]
    /\ UNCHANGED <<rows, older>>

\* The SELECT starts: the newest accepted row of its snapshot is the baseline.
Select(c) ==
    /\ call[c].pc = "select"
    /\ \E b \in Plans \cup {NoPlan} :
          /\ IF b = NoPlan THEN \A p \in Plans : ~Accepted(p) ELSE Newest(b)
          /\ call' = [call EXCEPT ![c] = [@ EXCEPT !.pc = "lock", !.base = b]]
    /\ UNCHANGED <<rows, older>>

\* Another transaction holds the row of plan p; a row that does not exist yet
\* cannot be held.
Held(c, p) == p # NoPlan /\ \E d \in Callers \ {c} : call[d].lock = p

\* FOR UPDATE returns with the lock of the row; without a row there is none.
Lock(c) ==
    /\ call[c].pc = "lock" /\ ~Held(c, call[c].base)
    /\ call' = [call EXCEPT ![c] = [@ EXCEPT !.pc = "decide", !.lock = call[c].base]]
    /\ UNCHANGED <<rows, older>>

\* Fault: the run starts without its plan.
StartedUnplanned(c) == [call EXCEPT ![c] = [Idle EXCEPT !.pc = "running"]]

\* The run starts once its transaction has ended, which releases its locks.
Started(c) == [call EXCEPT ![c] = [Idle EXCEPT !.pc = "running", !.plan = call[c].plan]]

\* Fault: the run starts with the transaction of its check still open.
UnchangedUncommitted(c) ==
    /\ call[c].pc = "decide" /\ call[c].base = call[c].plan
    /\ call' = [call EXCEPT ![c] = [Started(c)[c] EXCEPT !.lock = call[c].lock]]
    /\ UNCHANGED <<rows, older>>

\* The plan is the baseline: audit events only, commit, and the run starts.
Unchanged(c) ==
    /\ call[c].pc = "decide" /\ call[c].base = call[c].plan
    /\ call' = Started(c)
    /\ UNCHANGED <<rows, older>>

\* The plan differs: the row to insert gets its time, before its statement.
Stamp(c) ==
    /\ call[c].pc = "decide" /\ call[c].base # call[c].plan
    /\ call' = [call EXCEPT ![c].pc = "record"]
    /\ older' = older \cup (Stamped \X {c})
    /\ UNCHANGED rows

Acknowledged(c) == ~ExpandsScope(call[c].base, call[c].plan) \/ call[c].ack

\* Fault: the row of a known plan gets the classification of the new comparison.
UpsertReclassifies(c) ==
    [versions EXCEPT ![call[c].plan] =
        [recorded |-> TRUE, expands |-> ExpandsScope(call[c].base, call[c].plan),
         acked |-> Acknowledged(c)]]

\* INSERT ... ON CONFLICT: a known plan keeps its classification and only
\* gains an acknowledgement it did not have.
Upsert(c) ==
    [versions EXCEPT ![call[c].plan] =
        IF Recorded(call[c].plan)
        THEN [recorded |-> TRUE, expands |-> @.expands, acked |-> @.acked \/ Acknowledged(c)]
        ELSE [recorded |-> TRUE, expands |-> ExpandsScope(call[c].base, call[c].plan),
              acked |-> Acknowledged(c)]]

\* The time an invocation took for its row is of no use.
Forget(c) == {e \in older : e[1] # c /\ e[2] # c}

\* The time becomes the created_at of a new row; a known plan keeps its own.
Settle(c) ==
    LET p == call[c].plan
    IN  IF Recorded(p) THEN Forget(c)
        ELSE {<<IF e[1] = c THEN p ELSE e[1], IF e[2] = c THEN p ELSE e[2]>> : e \in older}

\* Fault: the programs row takes the plan whether or not it is acknowledged.
RecordAlways(c) ==
    /\ call[c].pc = "record" /\ ~Held(c, call[c].plan)
    /\ versions' = Upsert(c)
    /\ older' = Settle(c)
    /\ program' = call[c].plan
    /\ call' = IF Acknowledged(c) THEN Started(c) ELSE [call EXCEPT ![c] = Idle]
    /\ reviewed' = IF call[c].ack \/ call[c].base = NoPlan
                   THEN reviewed \cup {call[c].plan} ELSE reviewed
    /\ UNCHANGED created

\* The upsert, the programs row and the commit, once nobody else holds the row
\* of the plan; the run starts if the change is acknowledged.
RecordChange(c) ==
    /\ call[c].pc = "record" /\ ~Held(c, call[c].plan)
    /\ versions' = Upsert(c)
    /\ older' = Settle(c)
    /\ program' = IF Acknowledged(c) THEN call[c].plan ELSE program
    /\ call' = IF Acknowledged(c) THEN Started(c) ELSE [call EXCEPT ![c] = Idle]
    /\ reviewed' = IF call[c].ack \/ call[c].base = NoPlan
                   THEN reviewed \cup {call[c].plan} ELSE reviewed
    /\ UNCHANGED created

\* The row a transaction needs next.
Wanted(c) == CASE call[c].pc = "lock"   -> call[c].base
               [] call[c].pc = "record" -> call[c].plan
               [] OTHER                 -> NoPlan

WaitsFor(c, d) == c # d /\ Wanted(c) # NoPlan /\ call[d].lock = Wanted(c)

\* c is on a cycle of transactions that wait for one another.
Deadlocked(c) ==
    \E C \in SUBSET Callers :
       /\ c \in C
       /\ \A d \in C : \E e, f \in C : WaitsFor(d, e) /\ WaitsFor(f, d)

Abort(c) ==
    /\ call' = [call EXCEPT ![c] = Idle]
    /\ older' = Forget(c)
    /\ UNCHANGED rows

\* PostgreSQL's deadlock check aborts a transaction; the command fails.
DeadlockAborted(c) == Deadlocked(c) /\ Abort(c)

\* The transaction fails or its process dies before the commit: a rollback.
Rollback(c) == call[c].pc \in {"select", "lock", "decide", "record"} /\ Abort(c)

\* The invocation ends.
Finish(c) ==
    /\ call[c].pc = "running"
    /\ call' = [call EXCEPT ![c] = Idle]
    /\ UNCHANGED <<rows, older>>

CheckAndRecord(c) ==
    Select(c) \/ Lock(c) \/ Unchanged(c) \/ Stamp(c) \/ RecordChange(c)

Next ==
    \/ \E p \in Plans : CreateProgram(p)
    \/ \E c \in Callers :
          \/ \E p \in Plans, acknowledge \in BOOLEAN : Begin(c, p, acknowledge)
          \/ CheckAndRecord(c)
          \/ DeadlockAborted(c)
          \/ Rollback(c)
          \/ Finish(c)

Spec == Init /\ [][Next]_vars

\* A program's statements end, PostgreSQL grants a row lock in turn and breaks
\* deadlocks.  Nothing says that an invocation which runs ever ends.
FairSpec ==
    /\ Spec
    /\ \A c \in Callers :
          /\ WF_vars(Select(c) \/ Unchanged(c) \/ Stamp(c) \/ DeadlockAborted(c))
          /\ SF_vars(Lock(c) \/ RecordChange(c))

-----------------------------------------------------------------------------
\* What a plan authorizes is within another: no include is added, none of the
\* other's excludes is missing.
Narrows(p, q) == Includes[p] \subseteq Includes[q] /\ Excludes[q] \subseteq Excludes[p]

WithinReviewed(p) == \E q \in reviewed : Narrows(p, q)

\* Whatever sequence of plans, concurrent invocations, stale baselines and
\* failed transactions led to it, the scope of a workflow that runs is within
\* one plan that somebody accepted as it is: reviews never add up to a scope
\* that nobody saw as a whole.
RunsWithinReviewed ==
    \A c \in Callers : call[c].pc = "running" => WithinReviewed(call[c].plan)

\* A run that got through the gate left its plan accepted in the history, and
\* the programs row never names a plan the history holds as pending.
HistoryAgrees ==
    /\ \A c \in Callers : call[c].pc = "running" => Accepted(call[c].plan)
    /\ program # NoPlan => Accepted(program)

\* No step takes an accepted plan back: a review given once is never demanded
\* again because a later comparison classified the plan anew.
AcceptanceKept == [][\A p \in Plans : Accepted(p) => Accepted(p)']_vars

\* Every check ends, although its transaction waits for two rows in an order
\* that depends on the history and holds the first while it waits for the
\* second, and although the runs that passed the gate may go on for ever.
CheckEnds ==
    \A c \in Callers : call[c].pc = "select" ~> call[c].pc \in {"idle", "running"}

\* What the documentation says of the gate: without the flag, no run starts
\* on a plan that expands the scope the programs row records as current.
ExpansionBlocked ==
    [][\A c \in Callers :
          (call[c].pc # "running" /\ call'[c].pc = "running" /\ ~call[c].ack)
             => ~ExpandsScope(program, call[c].plan)]_vars
=============================================================================
