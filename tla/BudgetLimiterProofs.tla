------------------------ MODULE BudgetLimiterProofs ------------------------
(***************************************************************************)
(* Proofs about BudgetLimiter for every set of callers, keys and limits.   *)
(***************************************************************************)
EXTENDS BudgetLimiter, FiniteSetTheorems, TLAPS

\* Whatever is configured, a limit is a positive number.
LEMMA LimitPositive == \A s : Limit(s) \in Nat /\ Limit(s) >= 1
  BY BudgetAssumption DEF Limit, positive

\* Every reachable state is well typed, and only callers inside select wait on
\* the current channel.
THEOREM TypeCorrect == Spec => []TypeOK
<1>1. Init => TypeOK
  BY BudgetAssumption DEF Init, TypeOK
<1>2. TypeOK /\ [Next]_vars => TypeOK'
  <2> SUFFICES ASSUME TypeOK, [Next]_vars PROVE TypeOK'
    OBVIOUS
  <2> USE BudgetAssumption DEF TypeOK
  <2>1. ASSUME NEW c \in Callers, NEW r \in Requests, Call(c, r) PROVE TypeOK'
    <3>1. r \in SUBSET Slots
      BY DEF Requests
    <3>2. calls' \in [Callers -> 0..MaxCalls]
      BY <2>1 DEF Call
    <3>3. QED
      BY <2>1, <3>1, <3>2 DEF Call
  <2>2. ASSUME NEW c \in Callers, TryAcquire(c) PROVE TypeOK'
    <3>1. CASE available(request[c])
      <4>1. used' \in [Slots -> Nat] /\ blocked' = blocked /\ pc[c] = "try"
            /\ pc' = [pc EXCEPT ![c] = "held"]
        BY <2>2, <3>1 DEF TryAcquire
      <4>2. QED
        BY <2>2, <3>1, <4>1 DEF TryAcquire
    <3>2. CASE ~available(request[c])
      BY <2>2, <3>2 DEF TryAcquire
    <3>3. QED
      BY <3>1, <3>2
  <2>3. ASSUME NEW c \in Callers, Wake(c) PROVE TypeOK'
    BY <2>3 DEF Wake
  <2>4. ASSUME NEW c \in Callers, Cancel(c) PROVE TypeOK'
    BY <2>4 DEF Cancel
  <2>5. ASSUME NEW c \in Callers, Release(c) PROVE TypeOK'
    BY <2>5 DEF Release, decrement
  <2>6. ASSUME UNCHANGED vars PROVE TypeOK'
    BY <2>6 DEF vars
  <2>7. QED
    BY <2>1, <2>2, <2>3, <2>4, <2>5, <2>6 DEF Next, ReleaseAgain
<1>3. QED
  BY <1>1, <1>2, PTL DEF Spec

\* A sleeping caller has no room: taking slots only leaves less room, and every
\* release wakes everybody.
THEOREM WakeupNeverLost == Spec => []NoLostWakeup
<1>1. Init => NoLostWakeup
  BY DEF Init, NoLostWakeup
<1>2. TypeOK /\ NoLostWakeup /\ [Next]_vars => NoLostWakeup'
  <2> SUFFICES ASSUME TypeOK, NoLostWakeup, [Next]_vars PROVE NoLostWakeup'
    OBVIOUS
  <2> USE LimitPositive DEF TypeOK, NoLostWakeup, available
  <2>1. ASSUME NEW c \in Callers, NEW r \in Requests, Call(c, r) PROVE NoLostWakeup'
    BY <2>1 DEF Call
  <2>2. ASSUME NEW c \in Callers, TryAcquire(c) PROVE NoLostWakeup'
    BY <2>2 DEF TryAcquire
  <2>3. ASSUME NEW c \in Callers, Wake(c) PROVE NoLostWakeup'
    BY <2>3 DEF Wake
  <2>4. ASSUME NEW c \in Callers, Cancel(c) PROVE NoLostWakeup'
    BY <2>4 DEF Cancel
  <2>5. ASSUME NEW c \in Callers, Release(c) PROVE NoLostWakeup'
    BY <2>5 DEF Release
  <2>6. ASSUME UNCHANGED vars PROVE NoLostWakeup'
    BY <2>6 DEF vars
  <2>7. QED
    BY <2>1, <2>2, <2>3, <2>4, <2>5, <2>6 DEF Next, ReleaseAgain
<1>3. QED
  BY <1>1, <1>2, TypeCorrect, PTL DEF Spec

-----------------------------------------------------------------------------
\* Holders of a key are finitely many.
LEMMA HoldersFinite ==
    \A s : IsFiniteSet(Holders(s)) /\ Cardinality(Holders(s)) \in Nat
  <1> SUFFICES ASSUME NEW s PROVE IsFiniteSet(Holders(s)) /\ Cardinality(Holders(s)) \in Nat
    OBVIOUS
  <1>1. IsFiniteSet(Holders(s))
    BY BudgetAssumption, FS_Subset DEF Holders
  <1>2. QED
    BY <1>1, FS_CardinalityType

\* A counter that equals its holders and never passes its limit.
BudgetInv ==
    /\ CountersExact
    /\ \A s \in Slots : used[s] <= Limit(s)
    /\ \A c \in Callers : released[c] <=> pc[c] # "held"

\* The counters always equal the executions in flight, hence the limits hold.
LEMMA BudgetInvariant == Spec => []BudgetInv
<1>1. Init => BudgetInv
  <2> SUFFICES ASSUME Init PROVE BudgetInv
    OBVIOUS
  <2>1. \A s : Holders(s) = {}
    BY DEF Init, Holders
  <2>2. QED
    BY <2>1, FS_EmptySet, LimitPositive DEF Init, BudgetInv, CountersExact
<1>2. TypeOK /\ TypeOK' /\ BudgetInv /\ [Next]_vars => BudgetInv'
  <2> SUFFICES ASSUME TypeOK, TypeOK', BudgetInv, [Next]_vars PROVE BudgetInv'
    OBVIOUS
  <2>1. ASSUME NEW c \in Callers, NEW r \in Requests, Call(c, r) PROVE BudgetInv'
    <3>1. \A s : Holders(s)' = Holders(s)
      BY <2>1 DEF Call, Holders, TypeOK
    <3>2. QED
      BY <2>1, <3>1 DEF Call, BudgetInv, CountersExact, TypeOK
  <2>2. ASSUME NEW c \in Callers, TryAcquire(c), available(request[c]) PROVE BudgetInv'
    <3>1. /\ pc[c] = "try" /\ pc' = [pc EXCEPT ![c] = "held"] /\ request' = request
          /\ used' = [s \in Slots |-> IF s \in request[c] THEN used[s] + 1 ELSE used[s]]
          /\ released' = [released EXCEPT ![c] = FALSE]
      BY <2>2 DEF TryAcquire
    <3>2. ASSUME NEW s \in Slots PROVE used'[s] = Cardinality(Holders(s)')
      <4>1. CASE s \in request[c]
        <5>1. Holders(s)' = Holders(s) \cup {c} /\ c \notin Holders(s)
          BY <3>1, <4>1 DEF Holders, TypeOK
        <5>2. Cardinality(Holders(s) \cup {c}) = Cardinality(Holders(s)) + 1
          BY <5>1, HoldersFinite, FS_AddElement
        <5>3. QED
          BY <3>1, <4>1, <5>1, <5>2 DEF BudgetInv, CountersExact
      <4>2. CASE s \notin request[c]
        <5>1. Holders(s)' = Holders(s)
          BY <3>1, <4>2 DEF Holders, TypeOK
        <5>2. QED
          BY <3>1, <4>2, <5>1 DEF BudgetInv, CountersExact
      <4>3. QED
        BY <4>1, <4>2
    <3>3. \A s \in Slots : used'[s] <= Limit(s)
      BY <2>2, <3>1, LimitPositive DEF available, BudgetInv, TypeOK
    <3>4. QED
      BY <3>1, <3>2, <3>3 DEF BudgetInv, CountersExact, TypeOK
  <2>3. ASSUME NEW c \in Callers, TryAcquire(c), ~available(request[c]) PROVE BudgetInv'
    <3>1. \A s : Holders(s)' = Holders(s)
      BY <2>3 DEF TryAcquire, Holders, TypeOK
    <3>2. QED
      BY <2>3, <3>1 DEF TryAcquire, BudgetInv, CountersExact, TypeOK
  <2>4. ASSUME NEW c \in Callers, Wake(c) PROVE BudgetInv'
    <3>1. \A s : Holders(s)' = Holders(s)
      BY <2>4 DEF Wake, Holders, TypeOK
    <3>2. QED
      BY <2>4, <3>1 DEF Wake, BudgetInv, CountersExact, TypeOK
  <2>5. ASSUME NEW c \in Callers, Cancel(c) PROVE BudgetInv'
    <3>1. \A s : Holders(s)' = Holders(s)
      BY <2>5 DEF Cancel, Holders, TypeOK
    <3>2. QED
      BY <2>5, <3>1 DEF Cancel, BudgetInv, CountersExact, TypeOK
  <2>6. ASSUME NEW c \in Callers, Release(c) PROVE BudgetInv'
    <3>1. /\ pc[c] = "held" /\ pc' = [pc EXCEPT ![c] = "idle"] /\ request' = request
          /\ used' = [s \in Slots |-> IF s \in request[c] THEN decrement(used[s]) ELSE used[s]]
          /\ released' = [released EXCEPT ![c] = TRUE]
      BY <2>6 DEF Release
    <3>2. ASSUME NEW s \in Slots
          PROVE  used'[s] = Cardinality(Holders(s)') /\ used'[s] <= used[s]
      <4>1. CASE s \in request[c]
        <5>1. Holders(s)' = Holders(s) \ {c} /\ c \in Holders(s)
          BY <3>1, <4>1 DEF Holders, TypeOK
        <5>2. Cardinality(Holders(s) \ {c}) = Cardinality(Holders(s)) - 1
          BY <5>1, HoldersFinite, FS_RemoveElement
        <5>3. Cardinality(Holders(s) \ {c}) \in Nat
          BY HoldersFinite, FS_RemoveElement, FS_CardinalityType
        <5>4. QED
          BY <3>1, <4>1, <5>1, <5>2, <5>3, HoldersFinite DEF BudgetInv, CountersExact, decrement
      <4>2. CASE s \notin request[c]
        <5>1. Holders(s)' = Holders(s)
          BY <3>1, <4>2 DEF Holders, TypeOK
        <5>2. QED
          BY <3>1, <4>2, <5>1 DEF BudgetInv, CountersExact, TypeOK
      <4>3. QED
        BY <4>1, <4>2
    <3>3. \A s \in Slots : used'[s] <= Limit(s)
      BY <3>2, LimitPositive DEF BudgetInv, TypeOK
    <3>4. QED
      BY <3>1, <3>2, <3>3 DEF BudgetInv, CountersExact, TypeOK
  <2>7. ASSUME UNCHANGED vars PROVE BudgetInv'
    <3>1. \A s : Holders(s)' = Holders(s)
      BY <2>7 DEF vars, Holders
    <3>2. QED
      BY <2>7, <3>1 DEF vars, BudgetInv, CountersExact
  <2>8. QED
    BY <2>1, <2>2, <2>3, <2>4, <2>5, <2>6, <2>7 DEF Next, ReleaseAgain
<1>3. QED
  BY <1>1, <1>2, TypeCorrect, PTL DEF Spec

\* Counters never leak, whatever order callers wait, cancel and release in.
THEOREM CountersAlwaysExact == Spec => []CountersExact
<1>1. BudgetInv => CountersExact
  BY DEF BudgetInv
<1>2. QED
  BY <1>1, BudgetInvariant, PTL

\* No program, provider or host ever exceeds its limit.
THEOREM LimitsAlwaysRespected == Spec => []LimitsRespected
<1>1. BudgetInv => LimitsRespected
  BY DEF BudgetInv, CountersExact, LimitsRespected
<1>2. QED
  BY <1>1, BudgetInvariant, PTL

\* Whoever waits, waits for a key that is taken up to its limit by callers who
\* hold and do not wait themselves.
WaitersHaveHolders ==
    \A c \in blocked : \E s \in request[c] :
        /\ Cardinality(Holders(s)) = Limit(s)
        /\ \E d \in Callers \ blocked : pc[d] = "held" /\ s \in request[d]

\* The safety core of AcquireReturns: since Acquire takes all of its keys or
\* none, no circle of callers waits for one another, and a limiter that nobody
\* holds makes nobody wait.
THEOREM WaitersWaitForHolders == Spec => []WaitersHaveHolders
<1>1. ASSUME TypeOK, BudgetInv, NoLostWakeup, NEW c \in blocked
      PROVE  \E s \in request[c] :
                /\ Cardinality(Holders(s)) = Limit(s)
                /\ \E d \in Callers \ blocked : pc[d] = "held" /\ s \in request[d]
  <2>1. PICK s \in request[c] : ~(used[s] < Limit(s))
    BY <1>1 DEF NoLostWakeup, available
  <2>2. s \in Slots
    BY <1>1, <2>1 DEF TypeOK
  <2>3. Cardinality(Holders(s)) = Limit(s) /\ Limit(s) > 0
    BY <1>1, <2>1, <2>2, LimitPositive DEF BudgetInv, CountersExact, TypeOK
  <2>4. Holders(s) # {}
    BY <2>3, FS_EmptySet
  <2>5. PICK d \in Callers : pc[d] = "held" /\ s \in request[d]
    BY <2>4 DEF Holders
  <2>6. d \notin blocked
    BY <1>1, <2>5 DEF TypeOK
  <2>7. QED
    BY <2>1, <2>3, <2>5, <2>6
<1>2. TypeOK /\ BudgetInv /\ NoLostWakeup => WaitersHaveHolders
  BY <1>1 DEF WaitersHaveHolders
<1>3. QED
  BY <1>2, TypeCorrect, BudgetInvariant, WakeupNeverLost, PTL
=============================================================================
