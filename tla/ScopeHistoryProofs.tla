------------------------- MODULE ScopeHistoryProofs -------------------------
(***************************************************************************)
(* Proofs about ScopeHistory for every set of plans, every choice of their *)
(* rules and any number of concurrent invocations.                         *)
(***************************************************************************)
EXTENDS ScopeHistory, TLAPS

\* What the upsert leaves in the row of the plan, and that it touches no other.
LEMMA UpsertRow ==
    ASSUME TypeOK, NEW c \in Callers, RecordChange(c)
    PROVE  LET p == call[c].plan
           IN  /\ p \in Plans
               /\ versions' \in [Plans -> Version]
               /\ versions'[p].recorded
               /\ Recorded(p) => /\ versions'[p].expands = versions[p].expands
                                 /\ versions'[p].acked = (versions[p].acked \/ Acknowledged(c))
               /\ ~Recorded(p) => /\ versions'[p].expands = ExpandsScope(call[c].base, p)
                                  /\ versions'[p].acked = Acknowledged(c)
               /\ \A q \in Plans : q # p => versions'[q] = versions[q]
<1> DEFINE p == call[c].plan
<1>1. p \in Plans /\ Acknowledged(c) \in BOOLEAN /\ ExpandsScope(call[c].base, p) \in BOOLEAN
  <2>1. call[c] \in Call /\ call[c].pc = "record"
    BY DEF RecordChange, TypeOK
  <2>2. ExpandsScope(call[c].base, p) \in BOOLEAN
    BY DEF ExpandsScope
  <2>3. Acknowledged(c) \in BOOLEAN
    BY <2>1, <2>2 DEF Acknowledged, Call
  <2>4. p \in Plans
    BY <2>1 DEF TypeOK
  <2>5. QED
    BY <2>2, <2>3, <2>4
<1>2. versions' = Upsert(c)
  BY DEF RecordChange
<1>3. CASE Recorded(p)
  <2>1. versions' = [versions EXCEPT ![p] = [recorded |-> TRUE, expands |-> versions[p].expands,
                                             acked |-> versions[p].acked \/ Acknowledged(c)]]
    BY <1>1, <1>2, <1>3 DEF Upsert, Recorded
  <2>2. QED
    BY <1>1, <1>3, <2>1 DEF TypeOK, Version, Recorded
<1>4. CASE ~Recorded(p)
  <2>1. versions' = [versions EXCEPT ![p] = [recorded |-> TRUE, expands |-> ExpandsScope(call[c].base, p),
                                             acked |-> Acknowledged(c)]]
    BY <1>1, <1>2, <1>4 DEF Upsert, Recorded
  <2>2. QED
    BY <1>1, <1>4, <2>1 DEF TypeOK, Version
<1>5. QED
  BY <1>3, <1>4

\* A time that is dropped leaves the order of all the others.
LEMMA ForgetOrder ==
    ASSUME NEW c \in Callers, older \subseteq Stamped \X Stamped
    PROVE  Forget(c) \subseteq (Stamped \ {c}) \X (Stamped \ {c})
  BY DEF Forget

\* After the upsert the plan has a time and the invocation has none, and
\* the order speaks of them accordingly.
LEMMA SettleOrder ==
    ASSUME TypeOK, NEW c \in Callers, RecordChange(c)
    PROVE  older' \subseteq (Stamped \X Stamped)'
<1> DEFINE p == call[c].plan
<1>1. p \in Plans /\ versions'[p].recorded /\ \A q \in Plans : q # p => versions'[q] = versions[q]
  BY UpsertRow
<1>2. \A d \in Callers : d # c => call'[d] = call[d]
  BY DEF RecordChange, Started, TypeOK
<1>3. Stamped \ {c} \subseteq Stamped' /\ p \in Stamped'
  BY <1>1, <1>2 DEF Stamped, Recorded
<1>4. older \subseteq Stamped \X Stamped
  BY DEF TypeOK
<1>5. CASE Recorded(p)
  <2>1. older' = Forget(c)
    BY <1>5 DEF RecordChange, Settle
  <2>2. QED
    BY <1>3, <1>4, <2>1, ForgetOrder
<1>6. CASE ~Recorded(p)
  <2>1. older' = {<<IF e[1] = c THEN p ELSE e[1], IF e[2] = c THEN p ELSE e[2]>> : e \in older}
    BY <1>6 DEF RecordChange, Settle
  <2>2. ASSUME NEW x \in Stamped PROVE (IF x = c THEN p ELSE x) \in Stamped'
    BY <1>3, <2>2
  <2>3. QED
    BY <1>4, <2>1, <2>2
<1>7. QED
  BY <1>5, <1>6

\* A rollback leaves typed rows, and a time for whatever is still ordered.
LEMMA AbortTyped ==
    ASSUME TypeOK, NEW c \in Callers, Abort(c)
    PROVE  TypeOK'
<1>1. call' \in [Callers -> Call] /\ \A d \in Callers : call'[d].pc # "idle" => call'[d].plan \in Plans
  BY DEF Abort, Idle, TypeOK, Call
<1>2. Stamped \ {c} \subseteq Stamped'
  BY DEF Abort, TypeOK, Stamped, Recorded, rows
<1>3. older' \subseteq (Stamped \X Stamped)'
  BY <1>2, ForgetOrder DEF Abort, TypeOK
<1>4. QED
  BY <1>1, <1>3 DEF Abort, TypeOK, rows

\* A step of one invocation outside the insert leaves all that is ordered.
LEMMA CallStep ==
    ASSUME TypeOK, UNCHANGED <<rows, older>>, NEW c \in Callers, call[c].pc # "record",
           call' \in [Callers -> Call], \A d \in Callers : d # c => call'[d] = call[d],
           \A d \in Callers : call'[d].pc # "idle" => call'[d].plan \in Plans
    PROVE  TypeOK'
<1>1. Stamped \subseteq Stamped'
  BY DEF Stamped, Recorded, rows
<1>2. QED
  BY <1>1 DEF TypeOK, rows

\* Call records after a SELECT has fixed its row, and after it has the lock.
LEMMA SelectTyped ==
    ASSUME NEW r \in Call, NEW b \in Plans \cup {NoPlan}
    PROVE  [r EXCEPT !.pc = "lock", !.base = b] \in Call
  BY DEF Call

\* The lock taken is the one of the selected row, if there is one.
LEMMA LockTyped ==
    ASSUME NEW r \in Call
    PROVE  [r EXCEPT !.pc = "decide", !.lock = r.base] \in Call
  BY DEF Call

\* Every step keeps the types.
LEMMA TypeStep == TypeOK /\ [Next]_vars => TypeOK'
<1> SUFFICES ASSUME TypeOK, [Next]_vars PROVE TypeOK'
  OBVIOUS
<1> USE PlanAssumption DEF rows
<1>1. ASSUME NEW p \in Plans, CreateProgram(p) PROVE TypeOK'
  <2>1. Stamped \subseteq Stamped'
    BY <1>1 DEF CreateProgram, TypeOK, Stamped, Recorded
  <2>2. QED
    BY <1>1, <2>1 DEF CreateProgram, TypeOK, Version
<1>2. ASSUME NEW c \in Callers, NEW p \in Plans, NEW a \in BOOLEAN, Begin(c, p, a)
      PROVE TypeOK'
  <2>1. call' \in [Callers -> Call] /\ \A d \in Callers : call'[d].pc # "idle" => call'[d].plan \in Plans
    BY <1>2 DEF Begin, Idle, Call, TypeOK
  <2>2. QED
    BY <1>2, <2>1, CallStep DEF Begin, TypeOK
<1>3. ASSUME NEW c \in Callers, Select(c) PROVE TypeOK'
  <2>1. call' \in [Callers -> Call] /\ \A d \in Callers : call'[d].pc # "idle" => call'[d].plan \in Plans
    <3>1. PICK b \in Plans \cup {NoPlan} :
             call' = [call EXCEPT ![c] = [call[c] EXCEPT !.pc = "lock", !.base = b]]
      BY <1>3 DEF Select
    <3>2. [call[c] EXCEPT !.pc = "lock", !.base = b] \in Call
      BY SelectTyped DEF TypeOK
    <3>3. call[c].plan \in Plans
      BY <1>3 DEF Select, TypeOK
    <3>4. QED
      BY <3>1, <3>2, <3>3 DEF TypeOK, Call
  <2>2. QED
    BY <1>3, <2>1, CallStep DEF Select, TypeOK
<1>4. ASSUME NEW c \in Callers, Lock(c) PROVE TypeOK'
  <2>1. call' \in [Callers -> Call] /\ \A d \in Callers : call'[d].pc # "idle" => call'[d].plan \in Plans
    <3>1. [call[c] EXCEPT !.pc = "decide", !.lock = call[c].base] \in Call
      BY LockTyped DEF TypeOK
    <3>2. call[c].plan \in Plans
      BY <1>4 DEF Lock, TypeOK
    <3>3. QED
      BY <1>4, <3>1, <3>2 DEF Lock, TypeOK, Call
  <2>2. QED
    BY <1>4, <2>1, CallStep DEF Lock, TypeOK
<1>5. ASSUME NEW c \in Callers, Unchanged(c) PROVE TypeOK'
  <2>1. call' \in [Callers -> Call] /\ \A d \in Callers : call'[d].pc # "idle" => call'[d].plan \in Plans
    BY <1>5 DEF Unchanged, Started, Idle, Call, TypeOK
  <2>2. QED
    BY <1>5, <2>1, CallStep DEF Unchanged, TypeOK, Started
<1>6. ASSUME NEW c \in Callers, Stamp(c) PROVE TypeOK'
  <2>1. call' \in [Callers -> Call] /\ \A d \in Callers : call'[d].pc # "idle" => call'[d].plan \in Plans
    BY <1>6 DEF Stamp, Call, TypeOK
  <2>2. Stamped \subseteq Stamped' /\ c \in Stamped'
    BY <1>6 DEF Stamp, TypeOK, Stamped, Recorded
  <2>3. QED
    BY <1>6, <2>1, <2>2 DEF Stamp, TypeOK
<1>7. ASSUME NEW c \in Callers, RecordChange(c) PROVE TypeOK'
  <2>1. call[c].plan \in Plans /\ versions' \in [Plans -> Version]
    BY <1>7, UpsertRow
  <2>2. older' \subseteq (Stamped \X Stamped)'
    BY <1>7, SettleOrder
  <2>3. call' \in [Callers -> Call] /\ \A d \in Callers : call'[d].pc # "idle" => call'[d].plan \in Plans
    BY <1>7, <2>1 DEF RecordChange, Started, Idle, Call, TypeOK
  <2>4. QED
    BY <1>7, <2>1, <2>2, <2>3 DEF RecordChange, TypeOK
<1>8. ASSUME NEW c \in Callers, Abort(c) PROVE TypeOK'
  BY <1>8, AbortTyped
<1>9. ASSUME NEW c \in Callers, Finish(c) PROVE TypeOK'
  <2>1. call' \in [Callers -> Call] /\ \A d \in Callers : call'[d].pc # "idle" => call'[d].plan \in Plans
    BY <1>9 DEF Finish, Idle, Call, TypeOK
  <2>2. QED
    BY <1>9, <2>1, CallStep DEF Finish, TypeOK
<1>10. ASSUME UNCHANGED vars PROVE TypeOK'
  BY <1>10 DEF vars, TypeOK, Stamped, Recorded
<1>11. QED
  BY <1>1, <1>2, <1>3, <1>4, <1>5, <1>6, <1>7, <1>8, <1>9, <1>10
     DEF Next, CheckAndRecord, DeadlockAborted, Rollback

\* Every reachable state is well typed.
THEOREM TypeCorrect == Spec => []TypeOK
<1>1. Init => TypeOK
  BY DEF Init, TypeOK, NoVersion, Version, Call, Idle
<1>2. QED
  BY <1>1, TypeStep, PTL DEF Spec

-----------------------------------------------------------------------------
\* An accepted row is within what operators reviewed, and whatever an
\* invocation relies on, its baseline or the plan it runs, is an accepted row.
GateInv ==
    /\ \A p \in Plans : Accepted(p) => WithinReviewed(p)
    /\ \A c \in Callers :
          /\ call[c].pc \in {"lock", "decide", "record"} =>
                call[c].base = NoPlan \/ Accepted(call[c].base)
          /\ call[c].pc = "running" => Accepted(call[c].plan)
    /\ program # NoPlan => Accepted(program)

\* What a step may do to the history: rows and reviews are only added to.
LEMMA HistoryGrows ==
    ASSUME TypeOK, [Next]_vars
    PROVE  /\ reviewed \subseteq reviewed'
           /\ \A p \in Plans : Accepted(p) => Accepted(p)'
<1> USE PlanAssumption DEF TypeOK, Accepted, Recorded, Version
<1>1. ASSUME NEW p \in Plans, CreateProgram(p)
      PROVE reviewed \subseteq reviewed' /\ \A q \in Plans : Accepted(q) => Accepted(q)'
  BY <1>1 DEF CreateProgram
<1>2. ASSUME NEW c \in Callers, RecordChange(c)
      PROVE reviewed \subseteq reviewed' /\ \A q \in Plans : Accepted(q) => Accepted(q)'
  <2>1. reviewed \subseteq reviewed'
    BY <1>2 DEF RecordChange
  <2>2. \A q \in Plans : Accepted(q) => Accepted(q)'
    BY <1>2, UpsertRow
  <2>3. QED
    BY <2>1, <2>2
<1>3. ASSUME versions' = versions, reviewed' = reviewed
      PROVE reviewed \subseteq reviewed' /\ \A q \in Plans : Accepted(q) => Accepted(q)'
  BY <1>3
<1>4. QED
  BY <1>1, <1>2, <1>3 DEF Next, CheckAndRecord, Begin, Select, Lock, Unchanged, Stamp,
     DeadlockAborted, Rollback, Abort, Finish, vars, rows

\* A plan stays within what is reviewed when more is reviewed.
LEMMA WithinGrows ==
    ASSUME reviewed \subseteq reviewed', NEW p \in Plans, WithinReviewed(p)
    PROVE  WithinReviewed(p)'
  BY DEF WithinReviewed

\* The only way into the history: a plan that is reviewed, or that expands
\* nothing of an accepted baseline.
LEMMA RecordedWithin ==
    ASSUME TypeOK, GateInv, NEW c \in Callers, RecordChange(c), Acknowledged(c),
           NEW p \in Plans, p = call[c].plan
    PROVE  WithinReviewed(p)'
<1> DEFINE b == call[c].base
<1>1. p \in Plans /\ b \in Plans \cup {NoPlan} /\ call[c].pc = "record"
  BY DEF RecordChange, TypeOK, Call
<1>2. CASE call[c].ack \/ b = NoPlan
  <2>1. p \in reviewed'
    BY <1>2 DEF RecordChange
  <2>2. QED
    BY <2>1 DEF WithinReviewed, Narrows
<1>3. CASE ~call[c].ack /\ b # NoPlan
  <2>1. Accepted(b) /\ WithinReviewed(b) /\ b \in Plans
    BY <1>1, <1>3 DEF GateInv
  <2>2. Includes[p] \subseteq Includes[b] /\ Excludes[b] \subseteq Excludes[p]
    BY <1>3 DEF Acknowledged, ExpandsScope, AddedIncludes, RemovedExcludes
  <2>3. reviewed' = reviewed
    BY <1>3 DEF RecordChange
  <2>4. PICK q \in reviewed : Narrows(b, q)
    BY <2>1 DEF WithinReviewed
  <2>5. Narrows(p, q)
    BY <2>2, <2>4 DEF Narrows
  <2>6. QED
    BY <2>3, <2>5 DEF WithinReviewed
<1>4. QED
  BY <1>2, <1>3

LEMMA GateStep == TypeOK /\ GateInv /\ [Next]_vars => GateInv'
<1> SUFFICES ASSUME TypeOK, GateInv, [Next]_vars PROVE GateInv'
  OBVIOUS
<1>1. /\ reviewed \subseteq reviewed'
      /\ \A p \in Plans : Accepted(p) => Accepted(p)'
  BY HistoryGrows
<1>2. \A p \in Plans : WithinReviewed(p) => WithinReviewed(p)'
  BY <1>1, WithinGrows
<1> USE PlanAssumption
<1>3. ASSUME NEW p \in Plans, CreateProgram(p) PROVE GateInv'
  <2>1. p \in reviewed' /\ Accepted(p)'
    BY <1>3 DEF CreateProgram, TypeOK, Accepted, Recorded
  <2>2. WithinReviewed(p)'
    BY <2>1 DEF WithinReviewed, Narrows
  <2>3. \A q \in Plans : q # p => (Accepted(q)' <=> Accepted(q))
    BY <1>3 DEF CreateProgram, TypeOK, Accepted, Recorded
  <2>4. QED
    BY <1>1, <1>2, <1>3, <2>1, <2>2, <2>3 DEF GateInv, CreateProgram, TypeOK, Call
<1>4. ASSUME NEW c \in Callers, RecordChange(c) PROVE GateInv'
  <2>1. PICK p \in Plans : p = call[c].plan
    BY <1>4 DEF RecordChange, TypeOK
  <2>2. \A q \in Plans : q # p => (Accepted(q)' <=> Accepted(q))
    BY <1>4, <2>1, UpsertRow DEF Accepted, Recorded
  <2>3. \A d \in Callers : d # c => call'[d] = call[d]
    BY <1>4 DEF RecordChange, Started, TypeOK
  <2>4. CASE Acknowledged(c)
    <3>1. WithinReviewed(p)'
      BY <1>4, <2>1, <2>4, RecordedWithin
    <3>2. Accepted(p)'
      BY <1>4, <2>1, <2>4, UpsertRow DEF Accepted, Recorded
    <3>3. call'[c].pc = "running" /\ call'[c].plan = p /\ program' = p
      BY <1>4, <2>1, <2>4 DEF RecordChange, Started, Idle, TypeOK
    <3>4. QED
      BY <1>1, <1>2, <2>1, <2>2, <2>3, <3>1, <3>2, <3>3 DEF GateInv, TypeOK, Call
  <2>5. CASE ~Acknowledged(c)
    <3>1. ExpandsScope(call[c].base, p) /\ ~Acknowledged(c)
      BY <2>1, <2>5 DEF Acknowledged
    <3>2. Accepted(p)' => Accepted(p)
      BY <1>4, <2>1, <3>1, UpsertRow DEF TypeOK, Accepted, Recorded, Version
    <3>3. call'[c].pc = "idle" /\ program' = program
      BY <1>4, <2>5 DEF RecordChange, Idle, TypeOK
    <3>4. QED
      BY <1>1, <1>2, <2>1, <2>2, <2>3, <3>2, <3>3 DEF GateInv, TypeOK, Call
  <2>6. QED
    BY <2>4, <2>5
<1>5. ASSUME NEW c \in Callers, Select(c) PROVE GateInv'
  BY <1>5
     DEF Select, Newest, GateInv, TypeOK, Call, Accepted, Recorded, WithinReviewed, rows
<1>6. ASSUME NEW c \in Callers, Unchanged(c) PROVE GateInv'
  BY <1>6
     DEF Unchanged, Started, Idle, GateInv, TypeOK, Call, Accepted, Recorded, WithinReviewed, rows
<1>7. ASSUME NEW c \in Callers, NEW p \in Plans, NEW a \in BOOLEAN, Begin(c, p, a)
      PROVE GateInv'
  BY <1>7
     DEF Begin, Idle, GateInv, TypeOK, Call, Accepted, Recorded, WithinReviewed, rows
<1>8. ASSUME NEW c \in Callers, Lock(c) PROVE GateInv'
  BY <1>8
     DEF Lock, GateInv, TypeOK, Call, Accepted, Recorded, WithinReviewed, rows
<1>9. ASSUME NEW c \in Callers, Stamp(c) PROVE GateInv'
  BY <1>9
     DEF Stamp, GateInv, TypeOK, Call, Accepted, Recorded, WithinReviewed, rows
<1>10. ASSUME NEW c \in Callers, Abort(c) \/ Finish(c) PROVE GateInv'
  BY <1>10
     DEF Abort, Finish, Idle, GateInv, TypeOK, Call, Accepted, Recorded, WithinReviewed, rows
<1>11. ASSUME UNCHANGED vars PROVE GateInv'
  BY <1>11
     DEF vars, GateInv, TypeOK, Call, Accepted, Recorded, WithinReviewed, rows
<1>12. QED
  BY <1>3, <1>4, <1>5, <1>6, <1>7, <1>8, <1>9, <1>10, <1>11
     DEF Next, CheckAndRecord, DeadlockAborted, Rollback

LEMMA GateAlways == Spec => [](TypeOK /\ GateInv)
<1>1. Init => GateInv
  BY DEF Init, GateInv, Accepted, Recorded, NoVersion, Idle
<1>2. QED
  BY <1>1, TypeCorrect, GateStep, PTL DEF Spec

\* No workflow runs on rules outside what operators reviewed, for any plans,
\* any history and any interleaving of invocations with stale baselines.
THEOREM RunsAlwaysReviewed == Spec => []RunsWithinReviewed
<1>1. TypeOK /\ GateInv => RunsWithinReviewed
  BY DEF TypeOK, GateInv, RunsWithinReviewed
<1>2. QED
  BY <1>1, GateAlways, PTL

\* What runs, and what the programs row names, is accepted in the history.
THEOREM HistoryAlwaysAgrees == Spec => []HistoryAgrees
<1>1. GateInv => HistoryAgrees
  BY DEF GateInv, HistoryAgrees
<1>2. QED
  BY <1>1, GateAlways, PTL

\* No step takes the acceptance of a plan back.
THEOREM AcceptanceAlwaysKept == Spec => AcceptanceKept
<1>1. TypeOK /\ [Next]_vars => [\A p \in Plans : Accepted(p) => Accepted(p)']_vars
  BY HistoryGrows
<1>2. QED
  BY <1>1, TypeCorrect, PTL DEF Spec, AcceptanceKept

-----------------------------------------------------------------------------
Rules == INSTANCE Scope

\* The scope of a plan, when rule[d] is the rule whose digest is d: the digests
\* of a snapshot are those of the compiled, enabled rules.
PlanScope(p, rule) == [include |-> {rule[d] : d \in Includes[p]},
                       exclude |-> {rule[d] : d \in Excludes[p]}]

\* Fewer includes and more excludes never allow one more URL.
LEMMA NarrowerScope ==
    ASSUME NEW narrow, NEW wide, NEW u,
           narrow.include \subseteq wide.include,
           wide.exclude \subseteq narrow.exclude,
           Rules!Allows(narrow, u)
    PROVE  Rules!Allows(wide, u)
<1>1. u.protocol \in {"http", "https"}
  BY DEF Rules!Allows, Rules!Evaluate
<1>2. ~\E r \in narrow.exclude : Rules!Matches(r, u)
  BY DEF Rules!Allows, Rules!Evaluate
<1>3. \E r \in narrow.include : Rules!Matches(r, u)
  BY <1>1, <1>2 DEF Rules!Allows, Rules!Evaluate, Rules!MismatchReason
<1>4. QED
  BY <1>1, <1>2, <1>3 DEF Rules!Allows, Rules!Evaluate

\* What the gate means for the targets: whatever the digests stand for, every
\* URL the scope of a running workflow allows is one that a single reviewed
\* plan allows.  The comparison of rule digests, which knows nothing of the
\* expressions, therefore never lets a URL through that nobody accepted.
THEOREM GateBoundsURLs ==
    ASSUME NEW CONSTANT rule
    PROVE  Spec => [](\A c \in Callers : call[c].pc = "running" =>
                         \E q \in reviewed : \A u :
                            Rules!Allows(PlanScope(call[c].plan, rule), u)
                               => Rules!Allows(PlanScope(q, rule), u))
<1>1. ASSUME NEW p, NEW q, Narrows(p, q), NEW u, Rules!Allows(PlanScope(p, rule), u)
      PROVE  Rules!Allows(PlanScope(q, rule), u)
  <2>1. PlanScope(p, rule).include \subseteq PlanScope(q, rule).include
    BY <1>1 DEF PlanScope, Narrows
  <2>2. PlanScope(q, rule).exclude \subseteq PlanScope(p, rule).exclude
    BY <1>1 DEF PlanScope, Narrows
  <2>3. QED
    BY <1>1, <2>1, <2>2, NarrowerScope
<1>2. RunsWithinReviewed =>
         \A c \in Callers : call[c].pc = "running" =>
            \E q \in reviewed : \A u :
               Rules!Allows(PlanScope(call[c].plan, rule), u)
                  => Rules!Allows(PlanScope(q, rule), u)
  BY <1>1 DEF RunsWithinReviewed, WithinReviewed
<1>3. QED
  BY <1>2, RunsAlwaysReviewed, PTL
=============================================================================
