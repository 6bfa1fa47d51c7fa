------------------------------ MODULE JobQueue ------------------------------
(***************************************************************************)
(* Delivery of capability jobs over Redis Streams (internal/queue) by the  *)
(* worker service (internal/worker).                                       *)
(*                                                                         *)
(* The Redis state is the jobs stream with its single consumer group (the  *)
(* last-delivered cursor and the pending-entries list), the retry sorted   *)
(* set, the dead-letter stream and the results stream.  A Redis            *)
(* transaction (TxPipeline) is one action; two Redis calls are two         *)
(* actions, with everything else interleaved between them.                 *)
(*                                                                         *)
(* Time is abstracted: a pending entry may become idle for LeaseTimeout at *)
(* any moment (the handler's refresh is late, or its process is gone), and *)
(* a retry may fall due at any moment.  No call looks at which consumer    *)
(* owns a pending entry, so ownership is not part of the state.            *)
(***************************************************************************)
EXTENDS Naturals, FiniteSets

CONSTANTS
    Jobs,            \* jobs, one per step idempotency key
    Orphans,         \* jobs whose result PersistResult always refuses
    Workers,         \* worker processes, each with a pool and a ticker
    PoolSize,        \* consumer goroutines of a process
    Operators,       \* clients of RetryDeadLetter (CLI, console)
    MaxRetries,      \* WORKER_MAX_RETRIES
    ClaimBatch,      \* entries per ClaimStale (10 in the code)
    MaxMessages,     \* bound: entries ever added to the jobs stream
    MaxFaults,       \* bound: crashes and failed calls
    NoDelivery       \* a consumer or operator that holds nothing

Consumers == Workers \X (1..PoolSize)

\* Entries of the jobs stream, which are also what a consumer is handed.
Delivery == [id: Nat, job: Jobs, attempt: Nat]

\* Members of the retry set and of the dead-letter stream: the job payload,
\* made unique by the message that failed and the consumer that failed it.
Ticket == [id: Nat, job: Jobs, attempt: Nat, by: Consumers]

ASSUME QueueAssumption ==
    /\ Orphans \subseteq Jobs
    /\ PoolSize \in Nat \ {0}
    /\ MaxRetries \in Nat
    /\ ClaimBatch \in Nat \ {0}
    /\ MaxMessages \in Nat
    /\ MaxFaults \in Nat
    /\ NoDelivery \notin Delivery
    /\ NoDelivery \notin Ticket

VARIABLES
    stream,      \* jobs stream
    lastId,      \* highest entry id handed out by XADD
    cursor,      \* last-delivered id of the consumer group
    pel,         \* ids in the pending-entries list
    stale,       \* pending ids idle for at least LeaseTimeout
    retry,       \* retry sorted set
    dead,        \* dead-letter stream
    results,     \* jobs with an entry in the results stream
    succeeded,   \* jobs whose step_runs row is 'succeeded' in PostgreSQL
    dispatched,  \* jobs accepted by Dispatch
    pc,          \* where each consumer is in consume/handle
    via,         \* whether its current work was claimed or read
    task,        \* the delivery being handled
    backlog,     \* the rest of a claimed batch
    pump,        \* per process, due retries fetched and not yet moved
    opStage,     \* per operator, progress of RetryDeadLetter
    opHeld,      \* per operator, the dead letter it fetched
    faults       \* crashes and failed calls so far

redis == <<stream, lastId, cursor, pel, stale, retry, dead, results>>
local == <<pc, via, task, backlog>>
ops   == <<opStage, opHeld>>
vars  == <<redis, succeeded, dispatched, local, pump, ops, faults>>

Handling == {"check", "execute", "ack"}

\* Types of the Redis structures and of the workers' local state; a consumer
\* inside handle, and an operator inside RetryDeadLetter, holds what it works on.
TypeOK ==
    /\ stream \subseteq Delivery
    /\ lastId \in Nat /\ cursor \in Nat
    /\ pel \subseteq Nat /\ stale \subseteq pel
    /\ retry \subseteq Ticket /\ dead \subseteq Ticket
    /\ results \subseteq Jobs /\ succeeded \subseteq Jobs /\ dispatched \subseteq Jobs
    /\ pc \in [Consumers -> {"loop", "drain"} \cup Handling]
    /\ via \in [Consumers -> {"claim", "read"}]
    /\ task \in [Consumers -> Delivery \cup {NoDelivery}]
    /\ \A c \in Consumers : pc[c] \in Handling => task[c] \in Delivery
    /\ backlog \in [Consumers -> SUBSET Delivery]
    /\ pump \in [Workers -> SUBSET Ticket]
    /\ opStage \in [Operators -> {"idle", "fetched", "enqueued"}]
    /\ opHeld \in [Operators -> Ticket \cup {NoDelivery}]
    /\ \A o \in Operators : opStage[o] # "idle" => opHeld[o] \in Ticket
    /\ faults \in 0..MaxFaults

Init ==
    /\ stream = {} /\ lastId = 0 /\ cursor = 0 /\ pel = {} /\ stale = {}
    /\ retry = {} /\ dead = {} /\ results = {}
    /\ succeeded = {} /\ dispatched = {}
    /\ pc = [c \in Consumers |-> "loop"]
    /\ via = [c \in Consumers |-> "read"]
    /\ task = [c \in Consumers |-> NoDelivery]
    /\ backlog = [c \in Consumers |-> {}]
    /\ pump = [w \in Workers |-> {}]
    /\ opStage = [o \in Operators |-> "idle"]
    /\ opHeld = [o \in Operators |-> NoDelivery]
    /\ faults = 0

-----------------------------------------------------------------------------
(* Redis commands.                                                         *)

\* XADD of a job payload to the jobs stream.
XAdd(job, attempt) ==
    /\ lastId < MaxMessages
    /\ lastId' = lastId + 1
    /\ stream' = stream \cup {[id |-> lastId + 1, job |-> job, attempt |-> attempt]}

\* Fault: the deleted entry stays pending.
XDelOnly(id) ==
    /\ stream' = {e \in stream : e.id # id}
    /\ UNCHANGED <<pel, stale>>

\* XACK and XDEL of one entry, in one transaction.  Neither fails when the
\* entry is already gone.
XAckDel(id) ==
    /\ stream' = {e \in stream : e.id # id}
    /\ pel' = pel \ {id}
    /\ stale' = stale \ {id}

\* Entries the group has not delivered yet (XREADGROUP ">").
Undelivered == {e \in stream : e.id > cursor}

\* Pending entries idle for LeaseTimeout, which XAUTOCLAIM may hand over.
Claimable == {e \in stream : e.id \in stale}

Oldest(S) == {e \in S : \A f \in S : e.id <= f.id}

\* The first ClaimBatch members of S in stream order.
FirstOf(S) == {e \in S : Cardinality({f \in S : f.id < e.id}) < ClaimBatch}

-----------------------------------------------------------------------------
(* Producers.                                                              *)

\* Dispatch of a job that passed the registry, scope and policy checks; a
\* rejected one never reaches Redis.
Dispatch(j) ==
    /\ j \notin dispatched
    /\ XAdd(j, 0)
    /\ dispatched' = dispatched \cup {j}
    /\ UNCHANGED <<cursor, pel, stale, retry, dead, results, succeeded, local, pump, ops, faults>>

-----------------------------------------------------------------------------
(* The consumer loop: claim stale entries, handle the batch one by one,    *)
(* then read one new entry and handle it.                                  *)

ClaimStale(c) ==
    /\ pc[c] = "loop"
    /\ Claimable # {}
    /\ backlog' = [backlog EXCEPT ![c] = FirstOf(Claimable)]
    /\ stale' = stale \ {e.id : e \in FirstOf(Claimable)}
    /\ pc' = [pc EXCEPT ![c] = "drain"]
    /\ via' = [via EXCEPT ![c] = "claim"]
    /\ UNCHANGED <<stream, lastId, cursor, pel, retry, dead, results, succeeded, dispatched,
                   task, pump, ops, faults>>

\* Next delivery of the claimed batch.  The others of the batch are not
\* refreshed meanwhile: only the delivery being handled has a lease routine.
NextOfBatch(c) ==
    /\ pc[c] = "drain"
    /\ \E d \in Oldest(backlog[c]) :
          /\ task' = [task EXCEPT ![c] = d]
          /\ backlog' = [backlog EXCEPT ![c] = @ \ {d}]
    /\ pc' = [pc EXCEPT ![c] = "check"]
    /\ UNCHANGED <<redis, succeeded, dispatched, via, pump, ops, faults>>

Read(c) ==
    /\ pc[c] \in {"loop", "drain"} /\ backlog[c] = {}
    /\ \E e \in Oldest(Undelivered) :
          /\ cursor' = e.id
          /\ pel' = pel \cup {e.id}
          /\ task' = [task EXCEPT ![c] = e]
    /\ pc' = [pc EXCEPT ![c] = "check"]
    /\ via' = [via EXCEPT ![c] = "read"]
    /\ UNCHANGED <<stream, lastId, stale, retry, dead, results, succeeded, dispatched,
                   backlog, pump, ops, faults>>

\* Fault: a read that timed out is handled as a delivery with no content.
ReadZero(c) ==
    /\ pc[c] = "drain" /\ backlog[c] = {}
    /\ Undelivered = {}
    /\ pc' = [pc EXCEPT ![c] = "check"]
    /\ UNCHANGED <<redis, succeeded, dispatched, via, task, backlog, pump, ops, faults>>

\* The blocking read timed out.
ReadNothing(c) ==
    /\ pc[c] = "drain" /\ backlog[c] = {}
    /\ Undelivered = {}
    /\ pc' = [pc EXCEPT ![c] = "loop"]
    /\ UNCHANGED <<redis, succeeded, dispatched, via, task, backlog, pump, ops, faults>>

-----------------------------------------------------------------------------
(* handle: what happens to one delivery.                                   *)

\* handle returns; consume goes on with the batch, or to the top of its loop.
Return(c) ==
    /\ pc' = [pc EXCEPT ![c] = IF via[c] = "claim" THEN "drain" ELSE "loop"]
    /\ task' = [task EXCEPT ![c] = NoDelivery]
    /\ UNCHANGED <<via, backlog>>

\* AlreadySucceeded: a job with a persisted success is only acknowledged.
CheckDuplicate(c) ==
    /\ pc[c] = "check"
    /\ pc' = [pc EXCEPT ![c] = IF task[c].job \in succeeded THEN "ack" ELSE "execute"]
    /\ UNCHANGED <<redis, succeeded, dispatched, via, task, backlog, pump, ops, faults>>

\* Fault: the result transaction is not waited for.
PersistLater(c) ==
    /\ pc[c] = "execute" /\ task[c].job \notin Orphans
    /\ pc' = [pc EXCEPT ![c] = "ack"]
    /\ UNCHANGED <<redis, succeeded, dispatched, via, task, backlog, pump, ops, faults>>

\* The capability ran and its result is committed in one PostgreSQL transaction.
PersistResult(c) ==
    /\ pc[c] = "execute" /\ task[c].job \notin Orphans
    /\ succeeded' = succeeded \cup {task[c].job}
    /\ pc' = [pc EXCEPT ![c] = "ack"]
    /\ UNCHANGED <<redis, dispatched, via, task, backlog, pump, ops, faults>>

\* The capability ran and PersistResult fails: for good when the step run does
\* not exist, or this once.  handle returns and the entry stays pending.
PersistRefused(c) ==
    /\ pc[c] = "execute"
    /\ task[c].job \in Orphans \/ faults < MaxFaults
    /\ faults' = IF task[c].job \in Orphans THEN faults ELSE faults + 1
    /\ Return(c)
    /\ UNCHANGED <<redis, succeeded, dispatched, pump, ops>>

\* Faults: the attempt is compared before it is counted; an exhausted job is
\* acknowledged without a dead letter.
FailComparesFirst(c, retryable) ==
    LET attempt == task[c].attempt + 1
        ticket  == [id |-> task[c].id, job |-> task[c].job, attempt |-> attempt, by |-> c]
    IN  /\ pc[c] = "execute"
        /\ IF retryable /\ attempt <= MaxRetries + 1
           THEN retry' = retry \cup {ticket} /\ dead' = dead
           ELSE dead' = dead \cup {ticket} /\ retry' = retry
        /\ XAckDel(task[c].id)
        /\ Return(c)
        /\ UNCHANGED <<lastId, cursor, results, succeeded, dispatched, pump, ops, faults>>

FailDropsExhausted(c, retryable) ==
    LET attempt == task[c].attempt + 1
        ticket  == [id |-> task[c].id, job |-> task[c].job, attempt |-> attempt, by |-> c]
    IN  /\ pc[c] = "execute"
        /\ dead' = dead
        /\ retry' = IF retryable /\ attempt <= MaxRetries THEN retry \cup {ticket} ELSE retry
        /\ XAckDel(task[c].id)
        /\ Return(c)
        /\ UNCHANGED <<lastId, cursor, results, succeeded, dispatched, pump, ops, faults>>

\* Fail after an error of scope, policy, capability or artifact storage.
Fail(c, retryable) ==
    LET attempt == task[c].attempt + 1
        ticket  == [id |-> task[c].id, job |-> task[c].job, attempt |-> attempt, by |-> c]
    IN  /\ pc[c] = "execute"
        /\ IF retryable /\ attempt <= MaxRetries
           THEN retry' = retry \cup {ticket} /\ dead' = dead
           ELSE dead' = dead \cup {ticket} /\ retry' = retry
        /\ XAckDel(task[c].id)
        /\ Return(c)
        /\ UNCHANGED <<lastId, cursor, results, succeeded, dispatched, pump, ops, faults>>

\* Fault: the result is published and the entry stays pending.
PublishOnly(c) ==
    /\ pc[c] = "ack"
    /\ results' = results \cup {task[c].job}
    /\ Return(c)
    /\ UNCHANGED <<stream, lastId, cursor, pel, stale, retry, dead, succeeded, dispatched, pump,
                   ops, faults>>


Ack(c) ==
    /\ pc[c] = "ack"
    /\ results' = results \cup {task[c].job}
    /\ XAckDel(task[c].id)
    /\ Return(c)
    /\ UNCHANGED <<lastId, cursor, retry, dead, succeeded, dispatched, pump, ops, faults>>

\* A call of handle failed for a moment (the duplicate check, the budget, the
\* result transaction, or the final Redis transaction): the error is logged
\* and the entry stays pending.
Abandon(c) ==
    /\ pc[c] \in Handling
    /\ faults < MaxFaults /\ faults' = faults + 1
    /\ Return(c)
    /\ UNCHANGED <<redis, succeeded, dispatched, pump, ops>>

\* The lease routine of the delivery being handled resets its idle time.
Touch(c) ==
    /\ pc[c] \in Handling /\ task[c].id \in stale
    /\ stale' = stale \ {task[c].id}
    /\ UNCHANGED <<stream, lastId, cursor, pel, retry, dead, results, succeeded, dispatched,
                   local, pump, ops, faults>>

\* A pending entry has been idle for LeaseTimeout.
LeaseExpires(id) ==
    /\ id \in pel \ stale
    /\ stale' = stale \cup {id}
    /\ UNCHANGED <<stream, lastId, cursor, pel, retry, dead, results, succeeded, dispatched,
                   local, pump, ops, faults>>

-----------------------------------------------------------------------------
(* PumpRetries: fetch due retries, then move them one transaction at a     *)
(* time.  Every process has a pump, so two may fetch the same member.      *)

\* Fault: due retries are popped when they are fetched.
PumpPops(w) ==
    /\ pump[w] = {}
    /\ \E due \in SUBSET retry \ {{}} : /\ pump' = [pump EXCEPT ![w] = due]
                                       /\ retry' = retry \ due
    /\ UNCHANGED <<stream, lastId, cursor, pel, stale, dead, results, succeeded, dispatched, local,
                   ops, faults>>


PumpFetch(w) ==
    /\ pump[w] = {}
    /\ \E due \in SUBSET retry \ {{}} : pump' = [pump EXCEPT ![w] = due]
    /\ UNCHANGED <<redis, succeeded, dispatched, local, ops, faults>>

PumpMove(w) ==
    /\ \E r \in pump[w] :
          /\ XAdd(r.job, r.attempt)
          /\ retry' = retry \ {r}
          /\ pump' = [pump EXCEPT ![w] = @ \ {r}]
    /\ UNCHANGED <<cursor, pel, stale, dead, results, succeeded, dispatched, local, ops, faults>>

PumpError(w) ==
    /\ pump[w] # {}
    /\ pump' = [pump EXCEPT ![w] = {}]
    /\ faults < MaxFaults /\ faults' = faults + 1
    /\ UNCHANGED <<redis, succeeded, dispatched, local, ops>>

\* A worker process dies (or its Run returns on a consumer error) and is
\* restarted: its pool and its pump start over.
Crash(w) ==
    /\ faults < MaxFaults /\ faults' = faults + 1
    /\ pc' = [c \in Consumers |-> IF c[1] = w THEN "loop" ELSE pc[c]]
    /\ via' = [c \in Consumers |-> IF c[1] = w THEN "read" ELSE via[c]]
    /\ task' = [c \in Consumers |-> IF c[1] = w THEN NoDelivery ELSE task[c]]
    /\ backlog' = [c \in Consumers |-> IF c[1] = w THEN {} ELSE backlog[c]]
    /\ pump' = [pump EXCEPT ![w] = {}]
    /\ UNCHANGED <<redis, succeeded, dispatched, ops>>

-----------------------------------------------------------------------------
(* RetryDeadLetter: fetch the entry, enqueue its job with a fresh attempt  *)
(* count, then delete the entry.  Three Redis calls.                       *)

\* Fault: the dead letter is deleted when it is fetched.
FetchDeletes(o) ==
    /\ opStage[o] = "idle"
    /\ \E d \in dead : opHeld' = [opHeld EXCEPT ![o] = d] /\ dead' = dead \ {d}
    /\ opStage' = [opStage EXCEPT ![o] = "fetched"]
    /\ UNCHANGED <<stream, lastId, cursor, pel, stale, retry, results, succeeded, dispatched, local,
                   pump, faults>>


FetchDeadLetter(o) ==
    /\ opStage[o] = "idle"
    /\ \E d \in dead : opHeld' = [opHeld EXCEPT ![o] = d]
    /\ opStage' = [opStage EXCEPT ![o] = "fetched"]
    /\ UNCHANGED <<redis, succeeded, dispatched, local, pump, faults>>

\* Fault: an error of Enqueue is ignored.
EnqueueUnchecked(o) ==
    /\ opStage[o] = "fetched"
    /\ opStage' = [opStage EXCEPT ![o] = "enqueued"]
    /\ UNCHANGED <<redis, succeeded, dispatched, local, pump, opHeld, faults>>


EnqueueDeadLetter(o) ==
    /\ opStage[o] = "fetched"
    /\ XAdd(opHeld[o].job, 0)
    /\ opStage' = [opStage EXCEPT ![o] = "enqueued"]
    /\ UNCHANGED <<cursor, pel, stale, retry, dead, results, succeeded, dispatched,
                   local, pump, opHeld, faults>>

DeleteDeadLetter(o) ==
    /\ opStage[o] = "enqueued"
    /\ dead' = dead \ {opHeld[o]}
    /\ opStage' = [opStage EXCEPT ![o] = "idle"]
    /\ opHeld' = [opHeld EXCEPT ![o] = NoDelivery]
    /\ UNCHANGED <<stream, lastId, cursor, pel, stale, retry, results, succeeded, dispatched,
                   local, pump, faults>>

\* The command dies or one of its calls fails between two stages.
OperatorFails(o) ==
    /\ opStage[o] # "idle"
    /\ opStage' = [opStage EXCEPT ![o] = "idle"]
    /\ opHeld' = [opHeld EXCEPT ![o] = NoDelivery]
    /\ faults < MaxFaults /\ faults' = faults + 1
    /\ UNCHANGED <<redis, succeeded, dispatched, local, pump>>

-----------------------------------------------------------------------------
Handle(c) ==
    \/ CheckDuplicate(c)
    \/ PersistResult(c)
    \/ PersistRefused(c)
    \/ \E retryable \in BOOLEAN : Fail(c, retryable)
    \/ Ack(c)

Consume(c) == NextOfBatch(c) \/ Read(c) \/ ReadNothing(c) \/ Handle(c)

RetryDeadLetter(o) == FetchDeadLetter(o) \/ EnqueueDeadLetter(o) \/ DeleteDeadLetter(o)

Next ==
    \/ \E j \in Jobs : Dispatch(j)
    \/ \E c \in Consumers : ClaimStale(c) \/ Consume(c) \/ Abandon(c) \/ Touch(c)
    \/ \E id \in pel : LeaseExpires(id)
    \/ \E w \in Workers : PumpFetch(w) \/ PumpMove(w) \/ PumpError(w) \/ Crash(w)
    \/ \E o \in Operators : RetryDeadLetter(o) \/ OperatorFails(o)

Spec == Init /\ [][Next]_vars

\* Consumers and pumps keep running, idle time passes, and the claim timer of
\* consume (LeaseTimeout/2) makes every consumer claim again and again, however
\* many new entries it reads.  Operators and crashes are not fair.
Fairness ==
    /\ \A c \in Consumers : WF_vars(Consume(c)) /\ SF_vars(ClaimStale(c))
    /\ \A id \in 1..MaxMessages : WF_vars(LeaseExpires(id))
    /\ \A w \in Workers : WF_vars(PumpFetch(w)) /\ WF_vars(PumpMove(w))

FairSpec == Spec /\ Fairness

-----------------------------------------------------------------------------
(* Properties.                                                             *)

\* What still stands for job j somewhere in Redis.
Tokens(j) == {t \in stream \cup retry \cup dead : t.job = j}

\* Reliable delivery: a dispatched job is at every moment in the jobs stream,
\* in the retry set or in the dead-letter stream, unless its success is
\* persisted; whatever crashes, lease losses, double pumps and half-done
\* dead-letter retries happen.
NoJobLost == \A j \in dispatched : j \in succeeded \/ Tokens(j) # {}

\* "Workers acknowledge only after the result ... [is] durably persisted":
\* every entry of the results stream belongs to a job persisted as succeeded,
\* also when the acknowledgement is that of a duplicate.
AckAfterPersist == results \subseteq succeeded

\* Every entry of the jobs stream can still reach a consumer: it is either
\* undelivered or pending (so that XAUTOCLAIM finds it), and nothing pending
\* has left the stream.
EntriesReachable ==
    /\ \A e \in stream : e.id > cursor \/ e.id \in pel
    /\ \A id \in pel : \E e \in stream : e.id = id

\* Bounded retries: no copy of a job is scheduled beyond WORKER_MAX_RETRIES,
\* and a dead letter has used at most one attempt more.
RetriesBounded ==
    /\ \A t \in stream \cup retry : t.attempt <= MaxRetries
    /\ \A t \in dead : t.attempt <= MaxRetries + 1

\* A dead letter an operator has already put back is not the only trace of its
\* job, so deleting it is safe even when the new delivery failed meanwhile.
DeletableDeadLetter ==
    \A o \in Operators : opStage[o] = "enqueued" =>
        LET j == opHeld[o].job
        IN  j \in succeeded \/ \E t \in Tokens(j) : t.id > opHeld[o].id

\* A job is settled when its success is persisted or it is dead-lettered.
Settled(j) == j \in succeeded \/ \E d \in dead : d.job = j

\* "exhausted or permanent failures go to the dead-letter stream": every
\* dispatched job ends as a persisted success or as a dead letter.
EveryJobSettles == \A j \in Jobs : j \in dispatched ~> Settled(j)

\* The queue empties: no copy of a job, duplicate or not, circulates forever.
QueueDrains == <>[](stream = {} /\ retry = {} /\ pel = {})

-----------------------------------------------------------------------------
(* The queue implements the ledger: the standing of a job is read off the  *)
(* database and the Redis structures that still hold it.                   *)

Standing(j) ==
    CASE j \notin dispatched -> "absent"
      [] j \in dispatched /\ j \in succeeded -> "done"
      [] j \in dispatched \ succeeded /\ (\E t \in stream \cup retry : t.job = j) -> "queued"
      [] j \in dispatched \ succeeded /\ (\A t \in stream \cup retry : t.job # j)
                                      /\ (\E t \in dead : t.job = j) -> "failed"
      [] OTHER -> "lost"

Ledger == INSTANCE JobLedger WITH
    standing  <- [j \in Jobs |-> Standing(j)],
    announced <- results

\* The detailed queue, with its processes, leases, pumps and operators, takes
\* only steps the ledger allows: no job disappears, a persisted success is
\* never undone, and results are announced for completed jobs only.
ImplementsLedger == Ledger!Spec

=============================================================================
