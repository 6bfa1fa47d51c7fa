----------------------------- MODULE JobLedger -----------------------------
(***************************************************************************)
(* What the job queue promises to whoever dispatches a job, without        *)
(* streams, leases, retries or processes: every accepted job has a         *)
(* standing, completion is final, and only a completed job is announced.   *)
(***************************************************************************)
CONSTANT Jobs

VARIABLES
    standing,   \* where each job stands
    announced   \* jobs with an entry in the results stream

ledger == <<standing, announced>>

Standings == {"absent", "queued", "failed", "done"}

Init ==
    /\ standing = [j \in Jobs |-> "absent"]
    /\ announced = {}

Move(j, from, to) ==
    /\ standing[j] \in from
    /\ standing' = [standing EXCEPT ![j] = to]
    /\ UNCHANGED announced

\* The job is accepted for delivery.
Accept(j) == Move(j, {"absent"}, "queued")

\* Its result is durable.  A handler that lost its lease may complete a job
\* another handler has given up.
Complete(j) == Move(j, {"queued", "failed"}, "done")

\* Only dead letters are left of it.
GiveUp(j) == Move(j, {"queued"}, "failed")

\* It is delivered again after it was given up.
Revive(j) == Move(j, {"failed"}, "queued")

\* Its result is published, once or more.
Announce(j) ==
    /\ standing[j] = "done"
    /\ announced' = announced \cup {j}
    /\ UNCHANGED standing

Next == \E j \in Jobs :
    Accept(j) \/ Complete(j) \/ GiveUp(j) \/ Revive(j) \/ Announce(j)

Spec == Init /\ [][Next]_ledger
=============================================================================
