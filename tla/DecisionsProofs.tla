-------------------------- MODULE DecisionsProofs --------------------------
(***************************************************************************)
(* Proofs about Policy for any policies, requests and length of a day, and *)
(* about the three components that decide taken together: each of them     *)
(* behaves in the composition as it does alone, so that what is proved of  *)
(* TargetingSpec, PolicySpec and ClassifierSpec holds of Spec.             *)
(***************************************************************************)
EXTENDS MC_Decisions, TargetingProofs, ClassifierProofs

(* Arithmetic.                                                             *)

LEMMA DivMod ==
    ASSUME NEW a \in Nat, NEW b \in Nat, b > 0
    PROVE  /\ a \div b \in Nat /\ a % b \in Nat
           /\ a = b * (a \div b) + (a % b)
           /\ a % b < b
  BY Z3

\* A number below the modulus is its own remainder.
LEMMA ModSmall ==
    ASSUME NEW a \in Nat, NEW b \in Nat, a < b
    PROVE  a % b = a
  BY Z3T(60)

LEMMA ModWrap ==
    ASSUME NEW a \in Nat, NEW b \in Nat, a < b
    PROVE  (b + a) % b = a
  BY Z3T(60)

\* n steps that each have their share of v have at most v together.
LEMMA ShareFits ==
    ASSUME NEW v \in Nat, NEW n \in Nat, 1 <= n, n <= v
    PROVE  /\ share(v, n) \in Int /\ share(v, n) >= 1
           /\ n * share(v, n) <= v
<1>1. /\ v \div n \in Nat /\ v % n \in Nat /\ v % n < n
      /\ v = n * (v \div n) + (v % n)
  BY DivMod
<1>2. v \div n # 0
  BY <1>1
<1>3. share(v, n) = v \div n
  BY <1>1, <1>2 DEF share
<1> QED
  BY <1>1, <1>2, <1>3
-----------------------------------------------------------------------------
LEMMA WeekNat == MinutesPerDay \in Nat /\ MinutesPerDay > 0 /\ Week \in Nat /\ Week > 0
  BY PolicyAssumption DEF Week

LEMMA ParallelismInt ==
    ASSUME NEW p, PolicyType(p)
    PROVE  /\ ProgramParallelism(p) \in Nat
           /\ p.rate > 0 => ProgramParallelism(p) <= p.rate
           /\ p.concurrency > 0 => ProgramParallelism(p) <= p.concurrency
  BY DEF ProgramParallelism, PolicyType

\* What one of n parallel steps receives: a policy of the same kind whose rate
\* and concurrency, when they are limited, stay positive and fit n times.
LEMMA PartFits ==
    ASSUME NEW p, PolicyType(p), NEW n \in 1..ProgramParallelism(p)
    PROVE  /\ PolicyType(ParallelShare(p, n))
           /\ p.rate > 0 => /\ ParallelShare(p, n).rate >= 1
                            /\ n * ParallelShare(p, n).rate <= p.rate
           /\ p.concurrency > 0 => /\ ParallelShare(p, n).concurrency >= 1
                                   /\ n * ParallelShare(p, n).concurrency <= p.concurrency
<1>1. p.rate \in Int /\ p.concurrency \in Int
  BY DEF PolicyType
<1>2. /\ n \in Nat /\ 1 <= n
      /\ p.rate > 0 => n <= p.rate
      /\ p.concurrency > 0 => n <= p.concurrency
  BY <1>1, ParallelismInt
<1>3. CASE n < 2
  <2>1. n = 1 /\ ParallelShare(p, n) = p
    BY <1>2, <1>3 DEF ParallelShare
  <2> QED
    BY <1>1, <2>1
<1>4. CASE n >= 2
  <2>1. ASSUME NEW v \in Int, v > 0 => n <= v
        PROVE  share(v, n) \in Int /\ (v > 0 => share(v, n) >= 1 /\ n * share(v, n) <= v)
    <3>1. CASE v > 0
      BY <1>2, <2>1, <3>1, ShareFits
    <3>2. CASE v < 1
      BY <3>2 DEF share
    <3> QED
      BY <3>1, <3>2
  <2>2. /\ share(p.rate, n) \in Int /\ share(p.concurrency, n) \in Int
        /\ p.rate > 0 => share(p.rate, n) >= 1 /\ n * share(p.rate, n) <= p.rate
        /\ p.concurrency > 0 => share(p.concurrency, n) >= 1
                                /\ n * share(p.concurrency, n) <= p.concurrency
    BY <1>2, <1>1, <2>1
  <2> DEFINE t == [p EXCEPT !.rate = share(p.rate, n)]
  <2>3. ParallelShare(p, n) = [t EXCEPT !.concurrency = share(p.concurrency, n)]
    <3>1. ~(n < 2)
      BY <1>2, <1>4
    <3> QED
      BY <3>1, Zenon DEF ParallelShare
  <2>4. PolicyType(t) /\ t.rate = share(p.rate, n)
    BY <2>2 DEF PolicyType
  <2>5. /\ PolicyType(ParallelShare(p, n))
        /\ ParallelShare(p, n).rate = share(p.rate, n)
        /\ ParallelShare(p, n).concurrency = share(p.concurrency, n)
    <3> HIDE DEF t
    <3> QED
      BY <2>2, <2>3, <2>4 DEF PolicyType
  <2> QED
    BY <2>2, <2>5
<1> QED
  BY <1>2, <1>3, <1>4

\* Every state is well typed; in particular a part is a policy like the one it
\* was cut from.
THEOREM PolicyTypeCorrect == PolicySpec => []PolicyTypeOK
<1>1. PolicyInit => PolicyTypeOK
  BY PolicyAssumption, WeekNat DEF PolicyInit, PolicyTypeOK
<1>2. PolicyTypeOK /\ [PolicyNext]_policyVars => PolicyTypeOK'
  <2> SUFFICES ASSUME PolicyTypeOK, [PolicyNext]_policyVars PROVE PolicyTypeOK'
    OBVIOUS
  <2>1. ASSUME NEW r \in Requests, DispatchJob(r) \/ Begin(r) \/ RequeueJob(r) PROVE PolicyTypeOK'
    BY <2>1 DEF DispatchJob, Begin, RequeueJob, PolicyTypeOK, PolicyType
  <2>2. CASE MinutePasses
    <3>1. clock' \in 0..(Week - 1)
      BY <2>2, WeekNat, DivMod DEF MinutePasses, PolicyTypeOK
    <3> QED
      BY <2>2, <3>1 DEF MinutePasses, PolicyTypeOK, PolicyType
  <2>3. CASE BeginWave
    <3>1. PICK n \in 1..ProgramParallelism(pol) : wave' = n /\ part' = ParallelShare(pol, n)
      BY <2>3 DEF BeginWave
    <3>2. PolicyType(pol)
      BY PolicyAssumption DEF PolicyTypeOK
    <3>3. PolicyType(part') /\ wave' \in Nat
      BY <3>1, <3>2, PartFits, ParallelismInt
    <3> QED
      BY <2>3, <3>3 DEF BeginWave, PolicyTypeOK, PolicyType
  <2>4. CASE StepEnds
    BY <2>4 DEF StepEnds, PolicyTypeOK, PolicyType
  <2>5. CASE UNCHANGED policyVars
    BY <2>5 DEF policyVars, PolicyTypeOK, PolicyType
  <2> QED
    BY <2>1, <2>2, <2>3, <2>4, <2>5 DEF PolicyNext
<1> QED
  BY <1>1, <1>2, PTL DEF PolicySpec

\* The steps of a wave end one after the other, so the bound alone is not
\* inductive: it also needs that a share of a limited budget is never zero or
\* less.
ShareInv ==
    /\ SharesWithinBudget
    /\ pol.rate > 0 => part.rate >= 1
    /\ pol.concurrency > 0 => part.concurrency >= 1

LEMMA FewerFit ==
    ASSUME NEW w \in Nat, NEW x \in Int, NEW v \in Int, w > 0, x >= 1, w * x <= v
    PROVE  (w - 1) * x <= v
<1>1. (w - 1) * x = w * x - x
  OBVIOUS
<1>2. w * x \in Int
  OBVIOUS
<1> QED
  BY <1>1, <1>2

\* The steps of a wave, which executor.go starts with divided policies, never
\* have together more than the rate and the concurrency of the program.
THEOREM SharesAlwaysWithinBudget == PolicySpec => []SharesWithinBudget
<1>1. PolicyTypeOK /\ PolicyInit => ShareInv
  <2> SUFFICES ASSUME PolicyTypeOK, PolicyInit PROVE ShareInv
    OBVIOUS
  <2>1. pol.rate \in Int /\ pol.concurrency \in Int /\ part = pol /\ wave = 0
    BY PolicyAssumption DEF PolicyInit, PolicyType
  <2> QED
    BY <2>1 DEF ShareInv, SharesWithinBudget
<1>2. PolicyTypeOK /\ PolicyTypeOK' /\ ShareInv /\ [PolicyNext]_policyVars => ShareInv'
  <2> SUFFICES ASSUME PolicyTypeOK, PolicyTypeOK', ShareInv, [PolicyNext]_policyVars PROVE ShareInv'
    OBVIOUS
  <2>1. PolicyType(pol) /\ pol.rate \in Int /\ pol.concurrency \in Int
    BY PolicyAssumption DEF PolicyTypeOK, PolicyType
  <2>2. CASE BeginWave
    <3>1. PICK n \in 1..ProgramParallelism(pol) : wave' = n /\ part' = ParallelShare(pol, n)
      BY <2>2 DEF BeginWave
    <3>2. pol' = pol
      BY <2>2 DEF BeginWave
    <3> QED
      BY <2>1, <3>1, <3>2, PartFits DEF ShareInv, SharesWithinBudget
  <2>3. CASE StepEnds
    <3>1. wave \in Nat /\ wave > 0 /\ wave' = wave - 1 /\ pol' = pol /\ part' = part
      BY <2>3 DEF StepEnds, PolicyTypeOK
    <3>2. part.rate \in Int /\ part.concurrency \in Int
      BY DEF PolicyTypeOK, PolicyType
    <3>3. pol.rate > 0 => wave' * part.rate <= pol.rate
      BY <2>1, <3>1, <3>2, FewerFit DEF ShareInv, SharesWithinBudget
    <3>4. pol.concurrency > 0 => wave' * part.concurrency <= pol.concurrency
      BY <2>1, <3>1, <3>2, FewerFit DEF ShareInv, SharesWithinBudget
    <3> QED
      BY <3>1, <3>3, <3>4 DEF ShareInv, SharesWithinBudget
  <2>4. CASE UNCHANGED <<pol, wave, part>>
    BY <2>4 DEF ShareInv, SharesWithinBudget
  <2> QED
    BY <2>2, <2>3, <2>4
    DEF PolicyNext, DispatchJob, Begin, RequeueJob, MinutePasses, policyVars
<1>3. ShareInv => SharesWithinBudget
  BY DEF ShareInv
<1> QED
  BY <1>1, <1>2, <1>3, PolicyTypeCorrect, PTL DEF PolicySpec
-----------------------------------------------------------------------------
(* Scan windows.                                                           *)

\* A minute of the week is a day and a minute of that day.
LEMMA DayAndMinute ==
    ASSUME NEW at \in 0..(Week - 1)
    PROVE  /\ at \div MinutesPerDay \in 0..6
           /\ at % MinutesPerDay \in 0..(MinutesPerDay - 1)
           /\ at = (at \div MinutesPerDay) * MinutesPerDay + (at % MinutesPerDay)
<1> DEFINE M == MinutesPerDay
           d == at \div M
           m == at % M
<1>1. /\ at \in Nat /\ M \in Nat /\ M > 0 /\ at < 7 * M
  BY WeekNat DEF Week
<1>2. d \in Nat /\ m \in Nat /\ at = M * d + m /\ m < M
  BY <1>1, DivMod
<1>3. d < 7
  <2> HIDE DEF d, m
  <2>1. SUFFICES ASSUME d >= 7 PROVE FALSE
    BY <1>2
  <2>2. M * d >= M * 7
    BY <1>1, <1>2, <2>1
  <2> QED
    BY <1>1, <1>2, <2>2
<1> QED
  BY <1>1, <1>2, <1>3

\* How many minutes a window is open for each time.
LEMMA WindowLength ==
    ASSUME NEW w \in Windows, Valid(w)
    PROVE  (w.end - w.start) % MinutesPerDay =
               IF w.start < w.end THEN w.end - w.start ELSE MinutesPerDay + w.end - w.start
<1> DEFINE M == MinutesPerDay
<1>1. /\ M \in Nat /\ M > 0
      /\ w.start \in Nat /\ w.end \in Nat /\ w.start < M /\ w.end < M /\ w.start # w.end
  BY WeekNat DEF Windows, Valid
<1>2. ASSUME NEW a \in Int, -M < a, a < 0 PROVE a % M = M + a
  BY <1>1, <1>2, Z3T(60)
<1>3. w.start < w.end => (w.end - w.start) % M = w.end - w.start
  BY <1>1, ModSmall
<1>4. ~(w.start < w.end) => w.end - w.start \in Int /\ -M < w.end - w.start /\ w.end - w.start < 0
  BY <1>1
<1>5. ~(w.start < w.end) => (w.end - w.start) % M = M + (w.end - w.start)
  BY <1>2, <1>4
<1>6. M + (w.end - w.start) = M + w.end - w.start
  BY <1>1
<1> HIDE DEF M
<1> QED
  BY <1>3, <1>5, <1>6 DEF M

\* scanWindow.contains finds a minute only where the window opens it, also
\* past midnight and past the end of the week.
LEMMA ContainedIsOpen ==
    ASSUME NEW w \in Windows, Valid(w), NEW at \in 0..(Week - 1), contains(w, at)
    PROVE  at \in Opens(w)
<1> DEFINE M      == MinutesPerDay
           day    == at \div M
           minute == at % M
           days   == IF w.day = AnyDay THEN 0..6 ELSE {w.day}
           length == (w.end - w.start) % M
<1>1. /\ M \in Nat /\ M > 0 /\ Week = 7 * M /\ Week \in Nat
      /\ w.day \in 0..7 /\ w.start \in Nat /\ w.end \in Nat
      /\ w.start < M /\ w.end < M /\ w.start # w.end
  BY WeekNat DEF Windows, Valid, Week, AnyDay
<1>2. day \in 0..6 /\ minute \in 0..(M - 1) /\ at = day * M + minute
  BY DayAndMinute
<1>3. ASSUME NEW d \in days, NEW k \in 0..(length - 1), at = (d * M + w.start + k) % Week
      PROVE  at \in Opens(w)
  BY <1>3 DEF Opens
<1>4. length = IF w.start < w.end THEN w.end - w.start ELSE M + w.end - w.start
  BY WindowLength
<1>5. ASSUME w.day \in {AnyDay, day % 7}, w.start <= minute, w.start < w.end => minute < w.end
      PROVE  at \in Opens(w)
  <2>1. day % 7 = day
    BY <1>2
  <2>2. day \in days
    BY <1>2, <1>5, <2>1
  <2>3. minute - w.start \in 0..(length - 1)
    <3> HIDE DEF length, minute
    <3> QED
      BY <1>1, <1>2, <1>4, <1>5
  <2>4. at = (day * M + w.start + (minute - w.start)) % Week
    <3>1. at = day * M + w.start + (minute - w.start)
      <4> HIDE DEF day, minute
      <4> QED
        BY <1>1, <1>2
    <3>2. at % Week = at
      BY <1>1, ModSmall
    <3> QED
      BY <3>1, <3>2
  <2> HIDE DEF day, minute, length, days
  <2> QED
    BY <2>2, <2>3, <2>4, <1>3
<1>6. ASSUME w.day \in {AnyDay, (day + 6) % 7}, w.end < w.start, minute < w.end
      PROVE  at \in Opens(w)
  <2> DEFINE d == (day + 6) % 7
             k == M - w.start + minute
  <2>1. d \in days
    BY <1>2, <1>6
  <2>2. k \in 0..(length - 1)
    <3> HIDE DEF length, minute
    <3> QED
      BY <1>1, <1>2, <1>4, <1>6
  <2>3. at = (d * M + w.start + k) % Week
    <3>1. CASE day = 0
      <4>1. d = 6 /\ at = minute
        <5> HIDE DEF minute
        <5> QED
          BY <1>1, <1>2, <3>1
      <4>2. d * M + w.start + k = Week + at
        <5> HIDE DEF minute, d
        <5> QED
          BY <1>1, <1>2, <4>1
      <4> QED
        BY <1>1, <4>2, ModWrap
    <3>2. CASE day > 0
      <4>1. d = day - 1
        BY <1>2, <3>2
      <4>2. d * M + w.start + k = at
        <5> HIDE DEF day, minute, d
        <5> QED
          BY <1>1, <1>2, <4>1
      <4> QED
        BY <1>1, <4>2, ModSmall
    <3> QED
      BY <1>2, <3>1, <3>2
  <2> HIDE DEF d, k, length, days
  <2> QED
    BY <2>1, <2>2, <2>3, <1>3
<1>7. CASE w.start < w.end
  BY <1>1, <1>5, <1>7 DEF contains
<1>8. CASE w.end < w.start
  BY <1>1, <1>5, <1>6, <1>8 DEF contains
<1> QED
  BY <1>1, <1>7, <1>8

\* withinScanWindows lets a minute pass only when a list is empty or a window of
\* it opens that minute.
LEMMA WithinIsOpen ==
    ASSUME NEW ws \in Seq(Windows), \A i \in DOMAIN ws : Valid(ws[i]),
           NEW at \in 0..(Week - 1), withinScanWindows(ws, at)
    PROVE  OpenAt(ws, at)
<1>1. CASE \E i \in DOMAIN ws : contains(ws[i], at) /\ \A j \in 1..i : Valid(ws[j])
  <2>1. PICK i \in DOMAIN ws : contains(ws[i], at) /\ \A j \in 1..i : Valid(ws[j])
    BY <1>1
  <2>2. i \in 1..i /\ ws[i] \in Windows
    BY <2>1
  <2>3. at \in Opens(ws[i])
    BY <2>1, <2>2, ContainedIsOpen
  <2> QED
    BY <2>1, <2>3 DEF OpenAt, OpenMinutes
<1> QED
  BY <1>1 DEF withinScanWindows, OpenAt

\* What the policy allows at a minute is permitted at that minute.
LEMMA AllowedIsPermitted ==
    ASSUME NEW p \in Policies, NEW r \in Requests, NEW at \in 0..(Week - 1),
           EvaluateAt(p, r, at) = "allow"
    PROVE  Permitted(p, r, at)
<1>1. ~Denies(p, r, at) /\ (r.risk \in {"passive", "low"} \/ r.approved \/ (r.risk = "moderate" /\ p.moderateApproved))
  BY DEF EvaluateAt
<1>2. p.windows \in Seq(Windows) /\ \A i \in DOMAIN p.windows : Valid(p.windows[i])
  BY PolicyAssumption DEF PolicyType
<1>3. OpenAt(p.windows, at)
  BY <1>1, <1>2, WithinIsOpen DEF Denies
<1>4. r.risk # "forbidden" /\ r.capability \notin p.denied
  BY <1>1 DEF Denies
<1> QED
  BY <1>1, <1>3, <1>4 DEF Permitted

\* Registry.authorize stands in front of every execution: whatever a job was
\* allowed when it was dispatched, and however often it was retried, it starts
\* only at a minute and with an approval that the policy gives it then.
THEOREM StartsAlwaysPermitted == PolicySpec => StartsPermitted
<1>1. PolicyTypeOK /\ [PolicyNext]_policyVars
        => [\A r \in Requests : job[r] # "started" /\ job'[r] = "started" => Permitted(pol, r, clock)]_policyVars
  <2> SUFFICES ASSUME PolicyTypeOK, PolicyNext,
                      NEW r \in Requests, job[r] # "started", job'[r] = "started"
               PROVE  Permitted(pol, r, clock)
    BY DEF policyVars
  <2>1. job # job'
    OBVIOUS
  <2>2. PICK q \in Requests : DispatchJob(q) \/ Begin(q) \/ RequeueJob(q)
    BY <2>1 DEF PolicyNext, MinutePasses, BeginWave, StepEnds
  <2>3. q = r /\ EvaluateAt(pol, r, clock) = "allow"
    BY <2>2 DEF DispatchJob, Begin, RequeueJob, PolicyTypeOK
  <2>4. pol \in Policies /\ clock \in 0..(Week - 1)
    BY DEF PolicyTypeOK
  <2> QED
    BY <2>3, <2>4, AllowedIsPermitted
<1> QED
  BY <1>1, PolicyTypeCorrect, PTL DEF PolicySpec, StartsPermitted

-----------------------------------------------------------------------------
(* The composition.                                                        *)

\* Targeting, the policy and the classifier share no state: a step of one is a
\* stuttering step of the others.  This says how MC_Decisions composes them, no
\* more, and carries the theorems about each over to the composition.
LEMMA ComponentsIndependent == Spec => TargetingSpec /\ PolicySpec /\ ClassifierSpec
<1>1. Init => TargetingInit /\ PolicyInit /\ ClassifierInit
  BY DEF Init
<1>2. [Next]_vars => /\ [TargetingNext]_targetingVars
                     /\ [PolicyNext]_policyVars
                     /\ [ClassifierNext]_classifierVars
  BY Zenon DEF Next, vars
<1> QED
  BY <1>1, <1>2, PTL DEF Spec, TargetingSpec, PolicySpec, ClassifierSpec

\* The state that prepared targets, a permitted run and a classification are
\* read from is well typed in every interleaving of the three.
THEOREM TypeCorrect == Spec => []TypeOK
<1>1. TargetingTypeOK /\ PolicyTypeOK /\ ClassifierTypeOK => TypeOK
  BY DEF TypeOK
<1> QED
  BY <1>1, ComponentsIndependent, TargetingTypeCorrect, PolicyTypeCorrect, ClassifierTypeCorrect, PTL

\* The properties of the three components hold of their composition.
THEOREM DecisionsSound ==
    Spec => /\ [](SentAuthorized /\ SeedPortsAuthorized /\ AcceptedAuthorized)
            /\ []SharesWithinBudget /\ StartsPermitted
            /\ []EvidenceOrderFree /\ EvidenceNeverLowers
<1>1. TargetingSpec => [](SentAuthorized /\ SeedPortsAuthorized /\ AcceptedAuthorized)
  BY SentAlwaysAuthorized, SeedPortsAlwaysAuthorized, AcceptedAlwaysAuthorized, PTL
<1>2. PolicySpec => []SharesWithinBudget /\ StartsPermitted
  BY SharesAlwaysWithinBudget, StartsAlwaysPermitted, PTL
<1>3. ClassifierSpec => []EvidenceOrderFree /\ EvidenceNeverLowers
  BY EvidenceAlwaysOrderFree, EvidenceNeverLowered, PTL
<1> QED
  BY <1>1, <1>2, <1>3, ComponentsIndependent, PTL
=============================================================================
