------------------------------- MODULE Policy -------------------------------
(***************************************************************************)
(* The policy: what it decides about a request at an instant, how often    *)
(* the decision is taken, and the shares of the program's budget that the  *)
(* steps of a wave receive.  A job is evaluated when it is dispatched and  *)
(* again before it is executed, perhaps days later; a step of a local      *)
(* workflow only before it is executed.                                    *)
(***************************************************************************)
EXTENDS Integers, Sequences, FiniteSets

CONSTANTS
    MinutesPerDay,  \* 1440 in the code
    Policies,       \* policies under which requests are made, see PolicyType
    Requests        \* requests to execute a capability, see RequestType

AnyDay == 7

Week == 7 * MinutesPerDay

Windows == [day : 0..AnyDay, start : 0..(MinutesPerDay - 1), end : 0..(MinutesPerDay - 1)]

\* A window whose text does not parse, or whose start and end agree, is refused
\* when it is met; equal ends stand for both.
Valid(w) == w.start # w.end

Risks == {"passive", "low", "moderate", "high", "forbidden", "unknown"}

\* needs and grants: authentication, fuzzing, cross-origin, intrusive checks
\* and the headless browser.
PolicyType(p) ==
    p \in [windows : Seq(Windows), allowed : SUBSET STRING, denied : SUBSET STRING,
          grants : SUBSET STRING, methods : SUBSET STRING, maxPayload : Int,
          moderateApproved : BOOLEAN, rate : Int, concurrency : Int]

RequestType(r) ==
    r \in [capability : STRING, risk : Risks, approved : BOOLEAN,
          needs : SUBSET STRING, method : STRING, size : Nat]

ASSUME PolicyAssumption ==
    /\ MinutesPerDay \in Nat \ {0}
    \* Config.Validate refuses a policy with a malformed window.
    /\ \A p \in Policies : PolicyType(p) /\ \A i \in DOMAIN p.windows : Valid(p.windows[i])
    /\ \A r \in Requests : RequestType(r)

VARIABLES
    pol,      \* the policy of the program
    clock,    \* minute of the week, UTC
    job,      \* progress of each request
    wave,     \* steps of the current wave that are executing
    part      \* the policy each of them received

policyVars == <<pol, clock, job, wave, part>>

PolicyTypeOK ==
    /\ pol \in Policies
    /\ clock \in 0..(Week - 1)
    /\ job \in [Requests -> {"new", "queued", "started", "refused", "dead"}]
    /\ wave \in Nat
    /\ PolicyType(part)

-----------------------------------------------------------------------------
(* Decisions.                                                              *)

\* scanWindow.contains: a window that ends before it starts goes past midnight.
contains(w, at) ==
    LET minute == at % MinutesPerDay
        day    == at \div MinutesPerDay
        on(d)  == w.day \in {AnyDay, d % 7}
    IN  IF w.start < w.end THEN on(day) /\ w.start <= minute /\ minute < w.end
        ELSE \/ minute >= w.start /\ on(day)
             \/ minute < w.end /\ on(day + 6)

withinScanWindows(ws, at) ==
    \/ ws = <<>>
    \/ \E i \in DOMAIN ws : contains(ws[i], at) /\ \A j \in 1..i : Valid(ws[j])

ValidateHTTPMethod(p, method) == method \in p.methods

\* The checks of EvaluateAt that deny; their order only decides the reason.
Denies(p, r, at) ==
    \/ r.risk \in {"forbidden", "unknown"}
    \/ r.capability \in p.denied
    \/ p.allowed # {} /\ r.capability \notin p.allowed
    \/ ~withinScanWindows(p.windows, at)
    \/ r.needs \ p.grants # {}
    \/ p.maxPayload > 0 /\ r.size > p.maxPayload
    \/ r.method # "" /\ ~ValidateHTTPMethod(p, r.method)

EvaluateAt(p, r, at) ==
    IF Denies(p, r, at) THEN "deny"
    ELSE IF \/ r.risk \in {"passive", "low"}
            \/ r.approved
            \/ r.risk = "moderate" /\ p.moderateApproved
         THEN "allow" ELSE "require_approval"

-----------------------------------------------------------------------------
(* Budget shares.                                                          *)

\* Fault: shares are rounded up.
shareUp(value, parts) == IF value < 1 THEN value ELSE (value + parts - 1) \div parts

share(value, parts) ==
    IF value < 1 THEN value
    ELSE IF value \div parts < 1 THEN 1 ELSE value \div parts

ParallelShare(p, active) ==
    IF active < 2 THEN p
    ELSE [p EXCEPT !.rate = share(p.rate, active), !.concurrency = share(p.concurrency, active)]

ProgramParallelism(p) ==
    LET wanted == IF p.concurrency < 1 THEN 1 ELSE p.concurrency
    IN  IF p.rate > 0 /\ p.rate < wanted THEN p.rate ELSE wanted

-----------------------------------------------------------------------------
PolicyInit ==
    /\ pol \in Policies
    /\ clock = 0
    /\ job = [r \in Requests |-> "new"]
    /\ wave = 0
    /\ part = pol

\* Dispatcher.Dispatch: only an allowed job reaches the queue.
DispatchJob(r) ==
    /\ job[r] = "new"
    /\ job' = [job EXCEPT ![r] = IF EvaluateAt(pol, r, clock) = "allow" THEN "queued" ELSE "refused"]
    /\ UNCHANGED <<pol, clock, wave, part>>

\* Fault: a job that was dispatched is not evaluated again.
BeginDispatched(r) ==
    /\ job[r] \in {"new", "queued"}
    /\ job' = [job EXCEPT ![r] =
          IF job[r] = "queued" \/ EvaluateAt(pol, r, clock) = "allow" THEN "started" ELSE "refused"]
    /\ UNCHANGED <<pol, clock, wave, part>>

\* Registry.authorize at the start of an execution, by a worker for a queued
\* job or by the execution service; a job refused here is a dead letter.
Begin(r) ==
    /\ job[r] \in {"new", "queued"}
    /\ job' = [job EXCEPT ![r] =
          IF EvaluateAt(pol, r, clock) = "allow" THEN "started"
          ELSE IF @ = "queued" THEN "dead" ELSE "refused"]
    /\ UNCHANGED <<pol, clock, wave, part>>

\* An operator retries the dead letter.
RequeueJob(r) ==
    /\ job[r] = "dead"
    /\ job' = [job EXCEPT ![r] = "queued"]
    /\ UNCHANGED <<pol, clock, wave, part>>

MinutePasses ==
    /\ clock' = (clock + 1) % Week
    /\ UNCHANGED <<pol, job, wave, part>>

\* A wave of at most ProgramParallelism steps, each with its share.
BeginWave ==
    /\ wave = 0
    /\ \E n \in 1..ProgramParallelism(pol) : wave' = n /\ part' = ParallelShare(pol, n)
    /\ UNCHANGED <<pol, clock, job>>

StepEnds ==
    /\ wave > 0
    /\ wave' = wave - 1
    /\ UNCHANGED <<pol, clock, job, part>>

PolicyNext ==
    \/ \E r \in Requests : DispatchJob(r) \/ Begin(r) \/ RequeueJob(r)
    \/ MinutePasses \/ BeginWave \/ StepEnds

PolicySpec == PolicyInit /\ [][PolicyNext]_policyVars

-----------------------------------------------------------------------------
\* The minutes of the week that a window opens, counted from each start: the
\* reading an operator has of "Fri 22:00-02:00 UTC".
Opens(w) ==
    {(d * MinutesPerDay + w.start + k) % Week :
        d \in IF w.day = AnyDay THEN 0..6 ELSE {w.day},
        k \in 0..(((w.end - w.start) % MinutesPerDay) - 1)}

OpenMinutes(ws) == UNION {Opens(ws[i]) : i \in DOMAIN ws}

\* An empty list is unrestricted, a malformed window denies.
OpenAt(ws, at) ==
    ws = <<>> \/ (at \in OpenMinutes(ws) /\ \A i \in DOMAIN ws : Valid(ws[i]))

Permitted(p, r, at) ==
    /\ OpenAt(p.windows, at)
    /\ r.capability \notin p.denied
    /\ r.risk # "forbidden"
    /\ r.risk = "high" => r.approved
    /\ r.risk = "moderate" => r.approved \/ p.moderateApproved

\* No execution starts at a minute, or without an approval, that the policy
\* does not give it, however long the job waited since it was dispatched and
\* however often it was retried.
StartsPermitted ==
    [][\A r \in Requests : job[r] # "started" /\ job'[r] = "started" => Permitted(pol, r, clock)]_policyVars

\* The steps that run at the same time have together no more than the rate and
\* the concurrency configured for the program.
SharesWithinBudget ==
    /\ pol.rate > 0 => wave * part.rate <= pol.rate
    /\ pol.concurrency > 0 => wave * part.concurrency <= pol.concurrency
=============================================================================
