--------------------------- MODULE JobQueueProofs ---------------------------
(***************************************************************************)
(* Proofs about JobQueue for every number of jobs, workers, consumers,     *)
(* operators and retries.                                                  *)
(***************************************************************************)
EXTENDS JobQueue, TLAPS

\* Every state of the queue is well typed; in particular a consumer that
\* handles something holds a delivery, and an operator past its fetch a dead
\* letter.
THEOREM TypeCorrect == Spec => []TypeOK
<1>1. Init => TypeOK
  BY QueueAssumption DEF Init, TypeOK, Handling
<1>2. TypeOK /\ [Next]_vars => TypeOK'
  <2> SUFFICES ASSUME TypeOK, [Next]_vars PROVE TypeOK'
    OBVIOUS
  <2> USE QueueAssumption DEF TypeOK, Handling
  <2>1. ASSUME NEW j \in Jobs, Dispatch(j) PROVE TypeOK'
    BY <2>1 DEF Dispatch, XAdd, Delivery, local, ops
  <2>2. ASSUME NEW c \in Consumers, ClaimStale(c) PROVE TypeOK'
    BY <2>2 DEF ClaimStale, FirstOf, Claimable, ops
  <2>3. ASSUME NEW c \in Consumers, NextOfBatch(c) PROVE TypeOK'
    BY <2>3 DEF NextOfBatch, Oldest, redis, ops
  <2>4. ASSUME NEW c \in Consumers, Read(c) PROVE TypeOK'
    <3>1. PICK e \in Oldest(Undelivered) : /\ cursor' = e.id /\ pel' = pel \cup {e.id}
                                           /\ task' = [task EXCEPT ![c] = e]
      BY <2>4 DEF Read
    <3>2. e \in Delivery /\ e.id \in Nat
      BY DEF Oldest, Undelivered, Delivery
    <3>3. QED
      BY <2>4, <3>1, <3>2 DEF Read, ops
  <2>5. ASSUME NEW c \in Consumers, ReadNothing(c) PROVE TypeOK'
    BY <2>5 DEF ReadNothing, redis, ops
  <2>6. ASSUME NEW c \in Consumers, CheckDuplicate(c) PROVE TypeOK'
    BY <2>6 DEF CheckDuplicate, redis, ops
  <2>7. ASSUME NEW c \in Consumers, PersistResult(c) PROVE TypeOK'
    BY <2>7 DEF PersistResult, redis, ops, Delivery
  <2>8. ASSUME NEW c \in Consumers, PersistRefused(c) PROVE TypeOK'
    BY <2>8 DEF PersistRefused, Return, redis, ops
  <2>9. ASSUME NEW c \in Consumers, NEW r \in BOOLEAN, Fail(c, r) PROVE TypeOK'
    <3> DEFINE ticket == [id |-> task[c].id, job |-> task[c].job,
                          attempt |-> task[c].attempt + 1, by |-> c]
    <3>1. ticket \in Ticket
      BY <2>9 DEF Fail, Ticket, Delivery
    <3>2. retry' \subseteq Ticket /\ dead' \subseteq Ticket
      BY <2>9, <3>1 DEF Fail
    <3>3. stream' \subseteq Delivery /\ pel' \subseteq Nat /\ stale' \subseteq pel'
      BY <2>9 DEF Fail, XAckDel
    <3>4. QED
      BY <2>9, <3>2, <3>3 DEF Fail, Return, ops
  <2>10. ASSUME NEW c \in Consumers, Ack(c) PROVE TypeOK'
    BY <2>10 DEF Ack, Return, XAckDel, ops, Delivery
  <2>11. ASSUME NEW c \in Consumers, Abandon(c) PROVE TypeOK'
    BY <2>11 DEF Abandon, Return, redis, ops
  <2>12. ASSUME NEW c \in Consumers, Touch(c) PROVE TypeOK'
    BY <2>12 DEF Touch, local, ops
  <2>13. ASSUME NEW id \in pel, LeaseExpires(id) PROVE TypeOK'
    BY <2>13 DEF LeaseExpires, local, ops
  <2>14. ASSUME NEW w \in Workers, PumpFetch(w) PROVE TypeOK'
    BY <2>14 DEF PumpFetch, redis, local, ops
  <2>15. ASSUME NEW w \in Workers, PumpMove(w) PROVE TypeOK'
    BY <2>15 DEF PumpMove, XAdd, Delivery, Ticket, local, ops
  <2>16. ASSUME NEW w \in Workers, PumpError(w) PROVE TypeOK'
    BY <2>16 DEF PumpError, redis, local, ops
  <2>17. ASSUME NEW w \in Workers, Crash(w) PROVE TypeOK'
    BY <2>17 DEF Crash, redis, ops
  <2>18. ASSUME NEW o \in Operators, FetchDeadLetter(o) PROVE TypeOK'
    BY <2>18 DEF FetchDeadLetter, redis, local
  <2>19. ASSUME NEW o \in Operators, EnqueueDeadLetter(o) PROVE TypeOK'
    BY <2>19 DEF EnqueueDeadLetter, XAdd, Delivery, Ticket, local
  <2>20. ASSUME NEW o \in Operators, DeleteDeadLetter(o) PROVE TypeOK'
    BY <2>20 DEF DeleteDeadLetter, local
  <2>21. ASSUME NEW o \in Operators, OperatorFails(o) PROVE TypeOK'
    BY <2>21 DEF OperatorFails, redis, local
  <2>22. ASSUME UNCHANGED vars PROVE TypeOK'
    BY <2>22 DEF vars, redis, local, ops
  <2> HIDE QueueAssumption DEF TypeOK, Handling
  <2>23. QED
    BY <2>1, <2>2, <2>3, <2>4, <2>5, <2>6, <2>7, <2>8, <2>9, <2>10, <2>11, <2>12, <2>13,
       <2>14, <2>15, <2>16, <2>17, <2>18, <2>19, <2>20, <2>21, <2>22
       DEF Next, Consume, Handle, RetryDeadLetter
<1>3. QED
  BY <1>1, <1>2, PTL DEF Spec
-----------------------------------------------------------------------------
(* Identifiers and copies.                                                 *)

\* Every identifier in use was handed out by XADD.
IdsBounded ==
    /\ cursor <= lastId
    /\ \A e \in stream : e.id <= lastId
    /\ \A t \in retry : t.id <= lastId
    /\ \A t \in dead : t.id <= lastId
    /\ \A c \in Consumers : pc[c] \in Handling => task[c].id <= lastId
    /\ \A c \in Consumers : \A d \in backlog[c] : d.id <= lastId
    /\ \A o \in Operators : opStage[o] # "idle" => opHeld[o].id <= lastId

\* An identifier names one payload, in the stream and in every consumer that
\* still holds a copy of it, also after it lost the lease.
CopiesAgree ==
    /\ \A e, f \in stream : e.id = f.id => e = f
    /\ \A c \in Consumers : pc[c] \in Handling =>
          \A e \in stream : e.id = task[c].id => e = task[c]
    /\ \A c \in Consumers : \A d \in backlog[c] : \A e \in stream : e.id = d.id => e = d

\* A consumer about to acknowledge has a persisted success behind it.
AckReady == \A c \in Consumers : pc[c] = "ack" => task[c].job \in succeeded

CopyInv == TypeOK /\ IdsBounded /\ CopiesAgree /\ AckReady /\ AckAfterPersist

\* Copies of a delivery never disagree, and only jobs whose success is
\* persisted are acknowledged with a result.
THEOREM CopiesCorrect == Spec => []CopyInv
<1>1. Init => CopyInv
  <2> SUFFICES ASSUME Init PROVE CopyInv
    OBVIOUS
  <2>1. TypeOK
    BY QueueAssumption DEF Init, TypeOK, Handling
  <2>2. IdsBounded /\ CopiesAgree /\ AckReady /\ AckAfterPersist
    BY DEF Init, IdsBounded, CopiesAgree, AckReady, AckAfterPersist, Handling
  <2>3. QED
    BY <2>1, <2>2 DEF CopyInv
<1>2. CopyInv /\ TypeOK' /\ [Next]_vars => CopyInv'
  <2> SUFFICES ASSUME CopyInv, TypeOK', [Next]_vars PROVE CopyInv'
    OBVIOUS
  <2> USE QueueAssumption DEF CopyInv, TypeOK, IdsBounded, CopiesAgree, AckReady, AckAfterPersist, Handling
  <2>1. ASSUME NEW j \in Jobs, Dispatch(j) PROVE CopyInv'
    <3> DEFINE new == [id |-> lastId + 1, job |-> j, attempt |-> 0]
    <3>1. stream' = stream \cup {new} /\ lastId' = lastId + 1
      BY <2>1 DEF Dispatch, XAdd
    <3>2. new.id = lastId + 1 /\ lastId \in Nat /\ \A e \in stream : e.id \in Nat
      BY DEF Delivery
    <3>3. IdsBounded'
      BY <2>1, <3>1, <3>2 DEF Dispatch, Delivery, Ticket, local, ops
    <3>4. CopiesAgree'
      BY <2>1, <3>1, <3>2 DEF Dispatch, Delivery, local, ops
    <3>5. QED
      BY <2>1, <3>3, <3>4 DEF Dispatch, local, ops
  <2>2. ASSUME NEW c \in Consumers, ClaimStale(c) PROVE CopyInv'
    BY <2>2 DEF ClaimStale, FirstOf, Claimable, ops
  <2>3. ASSUME NEW c \in Consumers, NextOfBatch(c) PROVE CopyInv'
    BY <2>3 DEF NextOfBatch, Oldest, redis, ops
  <2>4. ASSUME NEW c \in Consumers, Read(c) PROVE CopyInv'
    BY <2>4 DEF Read, Oldest, Undelivered, Delivery, ops
  <2>5. ASSUME NEW c \in Consumers, ReadNothing(c) PROVE CopyInv'
    BY <2>5 DEF ReadNothing, redis, ops
  <2>6. ASSUME NEW c \in Consumers, CheckDuplicate(c) PROVE CopyInv'
    BY <2>6 DEF CheckDuplicate, redis, ops
  <2>7. ASSUME NEW c \in Consumers, PersistResult(c) PROVE CopyInv'
    BY <2>7 DEF PersistResult, redis, ops
  <2>8. ASSUME NEW c \in Consumers, PersistRefused(c) PROVE CopyInv'
    BY <2>8 DEF PersistRefused, Return, redis, ops
  <2>9. ASSUME NEW c \in Consumers, NEW r \in BOOLEAN, Fail(c, r) PROVE CopyInv'
    BY <2>9 DEF Fail, Return, XAckDel, ops, Delivery, Ticket
  <2>10. ASSUME NEW c \in Consumers, Ack(c) PROVE CopyInv'
    BY <2>10 DEF Ack, Return, XAckDel, ops
  <2>11. ASSUME NEW c \in Consumers, Abandon(c) PROVE CopyInv'
    BY <2>11 DEF Abandon, Return, redis, ops
  <2>12. ASSUME NEW c \in Consumers, Touch(c) PROVE CopyInv'
    BY <2>12 DEF Touch, local, ops
  <2>13. ASSUME NEW id \in pel, LeaseExpires(id) PROVE CopyInv'
    BY <2>13 DEF LeaseExpires, local, ops
  <2>14. ASSUME NEW w \in Workers, PumpFetch(w) PROVE CopyInv'
    BY <2>14 DEF PumpFetch, redis, local, ops
  <2>15. ASSUME NEW w \in Workers, PumpMove(w) PROVE CopyInv'
    BY <2>15 DEF PumpMove, XAdd, Delivery, Ticket, local, ops
  <2>16. ASSUME NEW w \in Workers, PumpError(w) PROVE CopyInv'
    BY <2>16 DEF PumpError, redis, local, ops
  <2>17. ASSUME NEW w \in Workers, Crash(w) PROVE CopyInv'
    BY <2>17 DEF Crash, redis, ops
  <2>18. ASSUME NEW o \in Operators, FetchDeadLetter(o) PROVE CopyInv'
    BY <2>18 DEF FetchDeadLetter, redis, local
  <2>19. ASSUME NEW o \in Operators, EnqueueDeadLetter(o) PROVE CopyInv'
    BY <2>19 DEF EnqueueDeadLetter, XAdd, Delivery, Ticket, local
  <2>20. ASSUME NEW o \in Operators, DeleteDeadLetter(o) PROVE CopyInv'
    BY <2>20 DEF DeleteDeadLetter, local
  <2>21. ASSUME NEW o \in Operators, OperatorFails(o) PROVE CopyInv'
    BY <2>21 DEF OperatorFails, redis, local
  <2>22. ASSUME UNCHANGED vars PROVE CopyInv'
    BY <2>22 DEF vars, redis, local, ops
  <2> HIDE QueueAssumption DEF CopyInv, TypeOK, IdsBounded, CopiesAgree, AckReady, AckAfterPersist, Handling
  <2>23. QED
    BY <2>1, <2>2, <2>3, <2>4, <2>5, <2>6, <2>7, <2>8, <2>9, <2>10, <2>11, <2>12, <2>13,
       <2>14, <2>15, <2>16, <2>17, <2>18, <2>19, <2>20, <2>21, <2>22
       DEF Next, Consume, Handle, RetryDeadLetter
<1>3. QED
  BY <1>1, <1>2, TypeCorrect, PTL DEF Spec

\* Results are announced only for jobs persisted as succeeded, by the first
\* handler as well as by one that found the delivery to be a duplicate.
THEOREM AckOnlyPersisted == Spec => []AckAfterPersist
<1>1. CopyInv => AckAfterPersist
  BY DEF CopyInv
<1>2. QED
  BY <1>1, CopiesCorrect, PTL

-----------------------------------------------------------------------------
(* Reachability of entries and the retry bound.                            *)

\* The group has delivered everything that is pending.
PendingDelivered == \A id \in pel : id <= cursor

ReachInv == EntriesReachable /\ PendingDelivered

\* Every entry of the jobs stream is either still to be delivered or pending,
\* hence claimable once its lease runs out, and nothing else is pending: XACK
\* and XDEL always go together.
THEOREM EntriesAlwaysReachable == Spec => []EntriesReachable
<1>1. Init => ReachInv
  BY DEF Init, ReachInv, EntriesReachable, PendingDelivered
<1>2. CopyInv /\ CopyInv' /\ ReachInv /\ [Next]_vars => ReachInv'
  <2> SUFFICES ASSUME CopyInv, CopyInv', ReachInv, [Next]_vars PROVE ReachInv'
    OBVIOUS
  <2> USE DEF CopyInv, TypeOK, IdsBounded, CopiesAgree, ReachInv, EntriesReachable, PendingDelivered
  <2>1. ASSUME NEW j \in Jobs, Dispatch(j) PROVE ReachInv'
    BY <2>1 DEF Dispatch, XAdd, Delivery, local, ops
  <2>2. ASSUME NEW c \in Consumers, ClaimStale(c) PROVE ReachInv'
    BY <2>2 DEF ClaimStale, FirstOf, Claimable, ops
  <2>3. ASSUME NEW c \in Consumers, NextOfBatch(c) PROVE ReachInv'
    BY <2>3 DEF NextOfBatch, Oldest, redis, ops
  <2>4. ASSUME NEW c \in Consumers, Read(c) PROVE ReachInv'
    BY <2>4 DEF Read, Oldest, Undelivered, Delivery, ops
  <2>5. ASSUME NEW c \in Consumers, ReadNothing(c) PROVE ReachInv'
    BY <2>5 DEF ReadNothing, redis, ops
  <2>6. ASSUME NEW c \in Consumers, CheckDuplicate(c) PROVE ReachInv'
    BY <2>6 DEF CheckDuplicate, redis, ops
  <2>7. ASSUME NEW c \in Consumers, PersistResult(c) PROVE ReachInv'
    BY <2>7 DEF PersistResult, redis, ops
  <2>8. ASSUME NEW c \in Consumers, PersistRefused(c) PROVE ReachInv'
    BY <2>8 DEF PersistRefused, Return, redis, ops
  <2>9. ASSUME NEW c \in Consumers, NEW r \in BOOLEAN, Fail(c, r) PROVE ReachInv'
    BY <2>9 DEF Fail, Return, XAckDel, ops, Delivery, Ticket
  <2>10. ASSUME NEW c \in Consumers, Ack(c) PROVE ReachInv'
    BY <2>10 DEF Ack, Return, XAckDel, ops
  <2>11. ASSUME NEW c \in Consumers, Abandon(c) PROVE ReachInv'
    BY <2>11 DEF Abandon, Return, redis, ops
  <2>12. ASSUME NEW c \in Consumers, Touch(c) PROVE ReachInv'
    BY <2>12 DEF Touch, local, ops
  <2>13. ASSUME NEW id \in pel, LeaseExpires(id) PROVE ReachInv'
    BY <2>13 DEF LeaseExpires, local, ops
  <2>14. ASSUME NEW w \in Workers, PumpFetch(w) PROVE ReachInv'
    BY <2>14 DEF PumpFetch, redis, local, ops
  <2>15. ASSUME NEW w \in Workers, PumpMove(w) PROVE ReachInv'
    BY <2>15 DEF PumpMove, XAdd, Delivery, Ticket, local, ops
  <2>16. ASSUME NEW w \in Workers, PumpError(w) PROVE ReachInv'
    BY <2>16 DEF PumpError, redis, local, ops
  <2>17. ASSUME NEW w \in Workers, Crash(w) PROVE ReachInv'
    BY <2>17 DEF Crash, redis, ops
  <2>18. ASSUME NEW o \in Operators, FetchDeadLetter(o) PROVE ReachInv'
    BY <2>18 DEF FetchDeadLetter, redis, local
  <2>19. ASSUME NEW o \in Operators, EnqueueDeadLetter(o) PROVE ReachInv'
    BY <2>19 DEF EnqueueDeadLetter, XAdd, Delivery, Ticket, local
  <2>20. ASSUME NEW o \in Operators, DeleteDeadLetter(o) PROVE ReachInv'
    BY <2>20 DEF DeleteDeadLetter, local
  <2>21. ASSUME NEW o \in Operators, OperatorFails(o) PROVE ReachInv'
    BY <2>21 DEF OperatorFails, redis, local
  <2>22. ASSUME UNCHANGED vars PROVE ReachInv'
    BY <2>22 DEF vars, redis, local, ops
  <2> HIDE DEF CopyInv, TypeOK, IdsBounded, CopiesAgree, ReachInv, EntriesReachable, PendingDelivered
  <2>23. QED
    BY <2>1, <2>2, <2>3, <2>4, <2>5, <2>6, <2>7, <2>8, <2>9, <2>10, <2>11, <2>12, <2>13,
       <2>14, <2>15, <2>16, <2>17, <2>18, <2>19, <2>20, <2>21, <2>22
       DEF Next, Consume, Handle, RetryDeadLetter
<1>3. QED
  BY <1>1, <1>2, CopiesCorrect, PTL DEF Spec, ReachInv

\* The retry bound, with the copies that consumers and pumps hold.
AttemptInv ==
    /\ RetriesBounded
    /\ \A c \in Consumers : pc[c] \in Handling => task[c].attempt <= MaxRetries
    /\ \A c \in Consumers : \A d \in backlog[c] : d.attempt <= MaxRetries
    /\ \A w \in Workers : \A t \in pump[w] : t.attempt <= MaxRetries

\* No copy of a job is ever scheduled beyond the retry limit, however many
\* consumers fail the same delivery and however many pumps move it.
THEOREM RetriesAlwaysBounded == Spec => []RetriesBounded
<1>1. Init => AttemptInv
  BY DEF Init, AttemptInv, RetriesBounded, Handling
<1>2. TypeOK /\ TypeOK' /\ AttemptInv /\ [Next]_vars => AttemptInv'
  <2> SUFFICES ASSUME TypeOK, TypeOK', AttemptInv, [Next]_vars PROVE AttemptInv'
    OBVIOUS
  <2> USE QueueAssumption DEF TypeOK, AttemptInv, RetriesBounded, Handling
  <2>1. ASSUME NEW j \in Jobs, Dispatch(j) PROVE AttemptInv'
    BY <2>1 DEF Dispatch, XAdd, Delivery, local, ops
  <2>2. ASSUME NEW c \in Consumers, ClaimStale(c) PROVE AttemptInv'
    BY <2>2 DEF ClaimStale, FirstOf, Claimable, ops
  <2>3. ASSUME NEW c \in Consumers, NextOfBatch(c) PROVE AttemptInv'
    BY <2>3 DEF NextOfBatch, Oldest, redis, ops
  <2>4. ASSUME NEW c \in Consumers, Read(c) PROVE AttemptInv'
    BY <2>4 DEF Read, Oldest, Undelivered, Delivery, ops
  <2>5. ASSUME NEW c \in Consumers, ReadNothing(c) PROVE AttemptInv'
    BY <2>5 DEF ReadNothing, redis, ops
  <2>6. ASSUME NEW c \in Consumers, CheckDuplicate(c) PROVE AttemptInv'
    BY <2>6 DEF CheckDuplicate, redis, ops
  <2>7. ASSUME NEW c \in Consumers, PersistResult(c) PROVE AttemptInv'
    BY <2>7 DEF PersistResult, redis, ops
  <2>8. ASSUME NEW c \in Consumers, PersistRefused(c) PROVE AttemptInv'
    BY <2>8 DEF PersistRefused, Return, redis, ops
  <2>9. ASSUME NEW c \in Consumers, NEW r \in BOOLEAN, Fail(c, r) PROVE AttemptInv'
    BY <2>9 DEF Fail, Return, XAckDel, ops, Delivery, Ticket
  <2>10. ASSUME NEW c \in Consumers, Ack(c) PROVE AttemptInv'
    BY <2>10 DEF Ack, Return, XAckDel, ops
  <2>11. ASSUME NEW c \in Consumers, Abandon(c) PROVE AttemptInv'
    BY <2>11 DEF Abandon, Return, redis, ops
  <2>12. ASSUME NEW c \in Consumers, Touch(c) PROVE AttemptInv'
    BY <2>12 DEF Touch, local, ops
  <2>13. ASSUME NEW id \in pel, LeaseExpires(id) PROVE AttemptInv'
    BY <2>13 DEF LeaseExpires, local, ops
  <2>14. ASSUME NEW w \in Workers, PumpFetch(w) PROVE AttemptInv'
    BY <2>14 DEF PumpFetch, redis, local, ops
  <2>15. ASSUME NEW w \in Workers, PumpMove(w) PROVE AttemptInv'
    BY <2>15 DEF PumpMove, XAdd, Delivery, Ticket, local, ops
  <2>16. ASSUME NEW w \in Workers, PumpError(w) PROVE AttemptInv'
    BY <2>16 DEF PumpError, redis, local, ops
  <2>17. ASSUME NEW w \in Workers, Crash(w) PROVE AttemptInv'
    BY <2>17 DEF Crash, redis, ops
  <2>18. ASSUME NEW o \in Operators, FetchDeadLetter(o) PROVE AttemptInv'
    BY <2>18 DEF FetchDeadLetter, redis, local
  <2>19. ASSUME NEW o \in Operators, EnqueueDeadLetter(o) PROVE AttemptInv'
    BY <2>19 DEF EnqueueDeadLetter, XAdd, Delivery, Ticket, local
  <2>20. ASSUME NEW o \in Operators, DeleteDeadLetter(o) PROVE AttemptInv'
    BY <2>20 DEF DeleteDeadLetter, local
  <2>21. ASSUME NEW o \in Operators, OperatorFails(o) PROVE AttemptInv'
    BY <2>21 DEF OperatorFails, redis, local
  <2>22. ASSUME UNCHANGED vars PROVE AttemptInv'
    BY <2>22 DEF vars, redis, local, ops
  <2> HIDE QueueAssumption DEF TypeOK, AttemptInv, RetriesBounded, Handling
  <2>23. QED
    BY <2>1, <2>2, <2>3, <2>4, <2>5, <2>6, <2>7, <2>8, <2>9, <2>10, <2>11, <2>12, <2>13,
       <2>14, <2>15, <2>16, <2>17, <2>18, <2>19, <2>20, <2>21, <2>22
       DEF Next, Consume, Handle, RetryDeadLetter
<1>3. QED
  BY <1>1, <1>2, TypeCorrect, PTL DEF Spec, AttemptInv

-----------------------------------------------------------------------------
(* No job is lost.  The delicate step is the deletion of a dead letter: the *)
(* job put back may have failed again, other operators may be deleting     *)
(* other dead letters of the same job, and the two must not leave nothing. *)
(* DeletableDeadLetter orders the traces of a job by identifier: whatever  *)
(* an operator is about to delete, a younger trace exists, and the youngest *)
(* trace is never the one deleted.                                         *)

LostInv == NoJobLost /\ DeletableDeadLetter

\* Everything that stands for a job in Redis.
Traces == stream \cup retry \cup dead

\* A step that replaces each trace by one of the same job that is not older
\* loses nothing.
LEMMA TracesMoveUp ==
    ASSUME CopyInv, CopyInv', LostInv,
           UNCHANGED <<dispatched, opStage, opHeld>>,
           succeeded \subseteq succeeded',
           \A t \in Traces : \/ t.job \in succeeded'
                             \/ \E u \in Traces' : u.job = t.job /\ u.id >= t.id
    PROVE  LostInv'
<1>1. NoJobLost'
  <2> SUFFICES ASSUME NEW j \in dispatched', j \notin succeeded' PROVE Tokens(j)' # {}
    BY DEF NoJobLost
  <2>1. PICK t \in Traces : t.job = j
    BY DEF LostInv, NoJobLost, Tokens, Traces
  <2>2. QED
    BY <2>1 DEF Tokens, Traces
<1>2. DeletableDeadLetter'
  <2> SUFFICES ASSUME NEW o \in Operators, opStage[o] = "enqueued", opHeld[o].job \notin succeeded'
               PROVE  \E u \in Traces' : u.job = opHeld[o].job /\ u.id > opHeld[o].id
    BY DEF DeletableDeadLetter, Tokens, Traces
  <2>1. PICK t \in Traces : t.job = opHeld[o].job /\ t.id > opHeld[o].id
    BY DEF LostInv, DeletableDeadLetter, Tokens, Traces
  <2>2. PICK u \in Traces' : u.job = t.job /\ u.id >= t.id
    BY <2>1
  <2>3. t.id \in Nat /\ u.id \in Nat /\ opHeld[o].id \in Nat
    BY DEF CopyInv, TypeOK, Traces, Delivery, Ticket
  <2>4. QED
    BY <2>1, <2>2, <2>3
<1>3. QED
  BY <1>1, <1>2 DEF LostInv

\* Neither does a step that leaves every trace where it is.
LEMMA TracesStay ==
    ASSUME CopyInv, CopyInv', LostInv,
           UNCHANGED <<stream, retry, dead, dispatched, opStage, opHeld>>,
           succeeded \subseteq succeeded'
    PROVE  LostInv'
<1>1. \A t \in Traces : t \in Traces' /\ t.id \in Nat
  BY DEF Traces, CopyInv, TypeOK, Delivery, Ticket
<1>2. \A t \in Traces : \E u \in Traces' : u.job = t.job /\ u.id >= t.id
  BY <1>1
<1>3. QED
  BY <1>2, TracesMoveUp

\* Both parts together are inductive, given the copies.
LEMMA LostInvariant == Spec => []LostInv
<1>1. Init => LostInv
  BY DEF Init, LostInv, NoJobLost, DeletableDeadLetter
<1>2. CopyInv /\ CopyInv' /\ LostInv /\ [Next]_vars => LostInv'
  <2> SUFFICES ASSUME CopyInv, CopyInv', LostInv, [Next]_vars PROVE LostInv'
    OBVIOUS
  <2>1. ASSUME NEW j \in Jobs, Dispatch(j) PROVE LostInv'
    <3> DEFINE new == [id |-> lastId + 1, job |-> j, attempt |-> 0]
    <3>0. /\ stream' = stream \cup {new} /\ new.job = j
          /\ UNCHANGED <<retry, dead, succeeded>> /\ dispatched' = dispatched \cup {j}
      BY <2>1 DEF Dispatch, XAdd
    <3>1. NoJobLost'
      BY <3>0 DEF LostInv, NoJobLost, Tokens
    <3>2. DeletableDeadLetter'
      BY <2>1 DEF Dispatch, XAdd, ops, LostInv, DeletableDeadLetter, Tokens
    <3>3. QED
      BY <3>1, <3>2 DEF LostInv
  <2>2. ASSUME NEW c \in Consumers, ClaimStale(c) PROVE LostInv'
    BY <2>2, TracesStay DEF ClaimStale, redis, ops, Traces
  <2>3. ASSUME NEW c \in Consumers, NextOfBatch(c) PROVE LostInv'
    BY <2>3, TracesStay DEF NextOfBatch, redis, ops, Traces
  <2>4. ASSUME NEW c \in Consumers, Read(c) PROVE LostInv'
    BY <2>4, TracesStay DEF Read, redis, ops, Traces
  <2>5. ASSUME NEW c \in Consumers, ReadNothing(c) PROVE LostInv'
    BY <2>5, TracesStay DEF ReadNothing, redis, ops, Traces
  <2>6. ASSUME NEW c \in Consumers, CheckDuplicate(c) PROVE LostInv'
    BY <2>6, TracesStay DEF CheckDuplicate, redis, ops, Traces
  <2>7. ASSUME NEW c \in Consumers, PersistResult(c) PROVE LostInv'
    BY <2>7, TracesStay DEF PersistResult, redis, ops, Traces
  <2>8. ASSUME NEW c \in Consumers, PersistRefused(c) PROVE LostInv'
    BY <2>8, TracesStay DEF PersistRefused, redis, ops, Traces
  <2>9. ASSUME NEW c \in Consumers, NEW r \in BOOLEAN, Fail(c, r) PROVE LostInv'
    <3> DEFINE ticket == [id |-> task[c].id, job |-> task[c].job,
                          attempt |-> task[c].attempt + 1, by |-> c]
    <3>1. ticket \in Traces' /\ ticket.id = task[c].id /\ ticket.job = task[c].job
      BY <2>9 DEF Fail, Traces
    <3>2. ASSUME NEW t \in Traces, t \notin Traces' PROVE t.id = task[c].id /\ t.job = task[c].job
      BY <2>9, <3>2 DEF Fail, XAckDel, Traces, Handling, CopyInv, CopiesAgree
    <3>3. \A t \in Traces : t.id \in Nat
      BY DEF Traces, CopyInv, TypeOK, Delivery, Ticket
    <3>4. \A t \in Traces : \E u \in Traces' : u.job = t.job /\ u.id >= t.id
      BY <3>1, <3>2, <3>3
    <3>5. QED
      BY <2>9, <3>4, TracesMoveUp DEF Fail, ops
  <2>10. ASSUME NEW c \in Consumers, Ack(c) PROVE LostInv'
    <3>1. ASSUME NEW t \in Traces, t \notin Traces' PROVE t.job \in succeeded'
      BY <2>10, <3>1 DEF Ack, XAckDel, Traces, Handling, CopyInv, CopiesAgree, AckReady
    <3>2. \A t \in Traces : t.id \in Nat
      BY DEF Traces, CopyInv, TypeOK, Delivery, Ticket
    <3>3. \A t \in Traces : \/ t.job \in succeeded'
                            \/ \E u \in Traces' : u.job = t.job /\ u.id >= t.id
      BY <3>1, <3>2
    <3>4. QED
      BY <2>10, <3>3, TracesMoveUp DEF Ack, ops
  <2>11. ASSUME NEW c \in Consumers, Abandon(c) PROVE LostInv'
    BY <2>11, TracesStay DEF Abandon, redis, ops, Traces
  <2>12. ASSUME NEW c \in Consumers, Touch(c) PROVE LostInv'
    BY <2>12, TracesStay DEF Touch, redis, ops, Traces
  <2>13. ASSUME NEW id \in pel, LeaseExpires(id) PROVE LostInv'
    BY <2>13, TracesStay DEF LeaseExpires, redis, ops, Traces
  <2>14. ASSUME NEW w \in Workers, PumpFetch(w) PROVE LostInv'
    BY <2>14, TracesStay DEF PumpFetch, redis, ops, Traces
  <2>15. ASSUME NEW w \in Workers, PumpMove(w) PROVE LostInv'
    <3>1. PICK r \in pump[w] : XAdd(r.job, r.attempt) /\ retry' = retry \ {r}
      BY <2>15 DEF PumpMove
    <3> DEFINE new == [id |-> lastId + 1, job |-> r.job, attempt |-> r.attempt]
    <3>2. new \in Traces' /\ new.id = lastId + 1 /\ new.job = r.job
      BY <3>1 DEF XAdd, Traces
    <3>3. ASSUME NEW t \in Traces, t \notin Traces' PROVE t = r
      BY <2>15, <3>1, <3>3 DEF PumpMove, XAdd, Traces
    <3>4. \A t \in Traces : t.id \in Nat /\ lastId \in Nat /\ t.id <= lastId
      BY DEF Traces, CopyInv, TypeOK, IdsBounded, Delivery, Ticket
    <3>5. \A t \in Traces : \E u \in Traces' : u.job = t.job /\ u.id >= t.id
      BY <3>2, <3>3, <3>4
    <3>6. QED
      BY <2>15, <3>5, TracesMoveUp DEF PumpMove, ops
  <2>16. ASSUME NEW w \in Workers, PumpError(w) PROVE LostInv'
    BY <2>16, TracesStay DEF PumpError, redis, ops, Traces
  <2>17. ASSUME NEW w \in Workers, Crash(w) PROVE LostInv'
    BY <2>17, TracesStay DEF Crash, redis, ops, Traces
  <2>18. ASSUME NEW o \in Operators, FetchDeadLetter(o) PROVE LostInv'
    BY <2>18 DEF FetchDeadLetter, redis, LostInv, NoJobLost, DeletableDeadLetter, Tokens,
                 CopyInv, TypeOK
  <2>19. ASSUME NEW o \in Operators, EnqueueDeadLetter(o) PROVE LostInv'
    <3> DEFINE new == [id |-> lastId + 1, job |-> opHeld[o].job, attempt |-> 0]
    <3>1. /\ stream' = stream \cup {new}
          /\ new.id = lastId + 1 /\ new.job = opHeld[o].job
          /\ UNCHANGED <<retry, dead, dispatched, succeeded, opHeld>>
          /\ opStage' = [opStage EXCEPT ![o] = "enqueued"]
      BY <2>19 DEF EnqueueDeadLetter, XAdd
    <3>2. new.id > opHeld[o].id
      BY <2>19, <3>1 DEF EnqueueDeadLetter, CopyInv, TypeOK, IdsBounded, Ticket
    <3>3. NoJobLost'
      BY <3>1 DEF LostInv, NoJobLost, Tokens
    <3>4. ASSUME NEW p \in Operators, opStage'[p] = "enqueued", opHeld[p].job \notin succeeded
          PROVE  \E t \in Traces' : t.job = opHeld[p].job /\ t.id > opHeld[p].id
      <4>1. CASE p = o
        BY <3>1, <3>2, <4>1 DEF Traces
      <4>2. CASE p # o
        BY <3>1, <3>4, <4>2 DEF LostInv, DeletableDeadLetter, Tokens, Traces, CopyInv, TypeOK
      <4>3. QED
        BY <4>1, <4>2
    <3>5. DeletableDeadLetter'
      BY <3>1, <3>4 DEF DeletableDeadLetter, Tokens, Traces
    <3>6. QED
      BY <3>3, <3>5 DEF LostInv
  <2>20. ASSUME NEW o \in Operators, DeleteDeadLetter(o) PROVE LostInv'
    <3> DEFINE d == opHeld[o]
    <3>1. /\ dead' = dead \ {d}
          /\ UNCHANGED <<stream, retry, dispatched, succeeded>>
          /\ opStage' = [opStage EXCEPT ![o] = "idle"]
          /\ opHeld' = [opHeld EXCEPT ![o] = NoDelivery]
      BY <2>20 DEF DeleteDeadLetter
    <3>2. \A t \in Traces : t.id \in Nat
      BY DEF Traces, CopyInv, TypeOK, Delivery, Ticket
    <3>3. d.id \in Nat /\ opStage[o] = "enqueued"
      BY <2>20 DEF DeleteDeadLetter, CopyInv, TypeOK, Ticket
    <3>4. d.job \in succeeded \/ \E u \in Traces' : u.job = d.job /\ u.id > d.id
      BY <3>1, <3>3 DEF LostInv, DeletableDeadLetter, Tokens, Traces
    <3>5. \A t \in Traces : t \in Traces' \/ t = d
      BY <3>1 DEF Traces
    <3>6. NoJobLost'
      BY <3>1, <3>4, <3>5 DEF LostInv, NoJobLost, Tokens, Traces
    <3>7. ASSUME NEW p \in Operators, opStage'[p] = "enqueued", opHeld'[p].job \notin succeeded
          PROVE  \E u \in Traces' : u.job = opHeld'[p].job /\ u.id > opHeld'[p].id
      <4>1. p # o /\ opStage[p] = "enqueued" /\ opHeld'[p] = opHeld[p]
        BY <3>1, <3>7 DEF CopyInv, TypeOK
      <4>2. PICK t \in Traces : t.job = opHeld[p].job /\ t.id > opHeld[p].id
        BY <3>7, <4>1 DEF LostInv, DeletableDeadLetter, Tokens, Traces
      <4>3. opHeld[p].id \in Nat /\ t.id \in Nat /\ \A u \in Traces' : u.id \in Nat
        BY <4>1 DEF CopyInv, TypeOK, Traces, Delivery, Ticket
      <4>4. QED
        BY <3>3, <3>4, <3>5, <3>7, <4>1, <4>2, <4>3
    <3>8. DeletableDeadLetter'
      BY <3>1, <3>7 DEF DeletableDeadLetter, Tokens, Traces
    <3>9. QED
      BY <3>6, <3>8 DEF LostInv
  <2>21. ASSUME NEW o \in Operators, OperatorFails(o) PROVE LostInv'
    BY <2>21 DEF OperatorFails, redis, LostInv, NoJobLost, DeletableDeadLetter, Tokens,
                 CopyInv, TypeOK
  <2>22. ASSUME UNCHANGED vars PROVE LostInv'
    BY <2>22, TracesStay DEF vars, redis, ops, Traces
  <2>23. QED
    BY <2>1, <2>2, <2>3, <2>4, <2>5, <2>6, <2>7, <2>8, <2>9, <2>10, <2>11, <2>12, <2>13,
       <2>14, <2>15, <2>16, <2>17, <2>18, <2>19, <2>20, <2>21, <2>22
       DEF Next, Consume, Handle, RetryDeadLetter
<1>3. QED
  BY <1>1, <1>2, CopiesCorrect, PTL DEF Spec

\* A dispatched job without a persisted success is always in the jobs stream,
\* in the retry set or in the dead-letter stream.
THEOREM NothingLost == Spec => []NoJobLost
<1>1. LostInv => NoJobLost
  BY DEF LostInv
<1>2. QED
  BY <1>1, LostInvariant, PTL

\* The dead letter RetryDeadLetter deletes after it enqueued the job again is
\* never the last trace of that job.
THEOREM DeletionSafe == Spec => []DeletableDeadLetter
<1>1. LostInv => DeletableDeadLetter
  BY DEF LostInv
<1>2. QED
  BY <1>1, LostInvariant, PTL

-----------------------------------------------------------------------------
(* The queue implements the ledger.                                        *)

\* Whatever is held somewhere, or persisted, was dispatched.
DispatchInv ==
    /\ succeeded \subseteq dispatched
    /\ \A t \in stream \cup retry \cup dead : t.job \in dispatched
    /\ \A c \in Consumers : pc[c] \in Handling => task[c].job \in dispatched
    /\ \A c \in Consumers : \A d \in backlog[c] : d.job \in dispatched
    /\ \A w \in Workers : \A t \in pump[w] : t.job \in dispatched
    /\ \A o \in Operators : opStage[o] # "idle" => opHeld[o].job \in dispatched

LEMMA DispatchInvariant == Spec => []DispatchInv
<1>1. Init => DispatchInv
  BY DEF Init, DispatchInv, Handling
<1>2. TypeOK /\ DispatchInv /\ [Next]_vars => DispatchInv'
  <2> SUFFICES ASSUME TypeOK, DispatchInv, [Next]_vars PROVE DispatchInv'
    OBVIOUS
  <2> USE DEF TypeOK, DispatchInv, Handling
  <2>1. ASSUME NEW j \in Jobs, Dispatch(j) PROVE DispatchInv'
    BY <2>1 DEF Dispatch, XAdd, local, ops
  <2>2. ASSUME NEW c \in Consumers, ClaimStale(c) PROVE DispatchInv'
    BY <2>2 DEF ClaimStale, FirstOf, Claimable, ops
  <2>3. ASSUME NEW c \in Consumers, NextOfBatch(c) PROVE DispatchInv'
    BY <2>3 DEF NextOfBatch, Oldest, redis, ops
  <2>4. ASSUME NEW c \in Consumers, Read(c) PROVE DispatchInv'
    BY <2>4 DEF Read, Oldest, Undelivered, ops
  <2>5. ASSUME NEW c \in Consumers, ReadNothing(c) PROVE DispatchInv'
    BY <2>5 DEF ReadNothing, redis, ops
  <2>6. ASSUME NEW c \in Consumers, CheckDuplicate(c) PROVE DispatchInv'
    BY <2>6 DEF CheckDuplicate, redis, ops
  <2>7. ASSUME NEW c \in Consumers, PersistResult(c) PROVE DispatchInv'
    BY <2>7 DEF PersistResult, redis, ops
  <2>8. ASSUME NEW c \in Consumers, PersistRefused(c) PROVE DispatchInv'
    BY <2>8 DEF PersistRefused, Return, redis, ops
  <2>9. ASSUME NEW c \in Consumers, NEW r \in BOOLEAN, Fail(c, r) PROVE DispatchInv'
    BY <2>9 DEF Fail, Return, XAckDel, ops
  <2>10. ASSUME NEW c \in Consumers, Ack(c) PROVE DispatchInv'
    BY <2>10 DEF Ack, Return, XAckDel, ops
  <2>11. ASSUME NEW c \in Consumers, Abandon(c) PROVE DispatchInv'
    BY <2>11 DEF Abandon, Return, redis, ops
  <2>12. ASSUME NEW c \in Consumers, Touch(c) PROVE DispatchInv'
    BY <2>12 DEF Touch, local, ops
  <2>13. ASSUME NEW id \in pel, LeaseExpires(id) PROVE DispatchInv'
    BY <2>13 DEF LeaseExpires, local, ops
  <2>14. ASSUME NEW w \in Workers, PumpFetch(w) PROVE DispatchInv'
    BY <2>14 DEF PumpFetch, redis, local, ops
  <2>15. ASSUME NEW w \in Workers, PumpMove(w) PROVE DispatchInv'
    BY <2>15 DEF PumpMove, XAdd, local, ops
  <2>16. ASSUME NEW w \in Workers, PumpError(w) PROVE DispatchInv'
    BY <2>16 DEF PumpError, redis, local, ops
  <2>17. ASSUME NEW w \in Workers, Crash(w) PROVE DispatchInv'
    BY <2>17 DEF Crash, redis, ops
  <2>18. ASSUME NEW o \in Operators, FetchDeadLetter(o) PROVE DispatchInv'
    BY <2>18 DEF FetchDeadLetter, redis, local
  <2>19. ASSUME NEW o \in Operators, EnqueueDeadLetter(o) PROVE DispatchInv'
    BY <2>19 DEF EnqueueDeadLetter, XAdd, local
  <2>20. ASSUME NEW o \in Operators, DeleteDeadLetter(o) PROVE DispatchInv'
    BY <2>20 DEF DeleteDeadLetter, local
  <2>21. ASSUME NEW o \in Operators, OperatorFails(o) PROVE DispatchInv'
    BY <2>21 DEF OperatorFails, redis, local
  <2>22. ASSUME UNCHANGED vars PROVE DispatchInv'
    BY <2>22 DEF vars, redis, local, ops
  <2> HIDE DEF TypeOK, DispatchInv, Handling
  <2>23. QED
    BY <2>1, <2>2, <2>3, <2>4, <2>5, <2>6, <2>7, <2>8, <2>9, <2>10, <2>11, <2>12, <2>13,
       <2>14, <2>15, <2>16, <2>17, <2>18, <2>19, <2>20, <2>21, <2>22
       DEF Next, Consume, Handle, RetryDeadLetter
<1>3. QED
  BY <1>1, <1>2, TypeCorrect, PTL DEF Spec

\* Something still to be delivered stands for the job.
Live(j) == \E t \in stream \cup retry : t.job = j

\* The standing of a job, when none is lost.
StandingByLive ==
    \A j \in Jobs : Standing(j) = IF j \notin dispatched THEN "absent"
                                  ELSE IF j \in succeeded THEN "done"
                                  ELSE IF Live(j) THEN "queued" ELSE "failed"

LEMMA StandingValue == NoJobLost => StandingByLive
<1> SUFFICES ASSUME NoJobLost, NEW j \in Jobs
             PROVE  Standing(j) = IF j \notin dispatched THEN "absent"
                                  ELSE IF j \in succeeded THEN "done"
                                  ELSE IF Live(j) THEN "queued" ELSE "failed"
  BY DEF StandingByLive
<1>1. j \in dispatched /\ j \notin succeeded /\ ~Live(j) => \E t \in dead : t.job = j
  BY DEF NoJobLost, Tokens, Live
<1> QED
  BY <1>1 DEF Standing, Live

\* A step that moves one job between standings, along the edges of the ledger.
LEMMA LedgerMove ==
    ASSUME NEW j \in Jobs, results' = results,
           \A k \in Jobs \ {j} : Standing(k)' = Standing(k),
           \/ Standing(j)' = Standing(j)
           \/ Standing(j) = "absent" /\ Standing(j)' = "queued"
           \/ Standing(j) \in {"queued", "failed"} /\ Standing(j)' \in {"queued", "failed", "done"}
    PROVE  [Ledger!Next]_(Ledger!ledger)
<1> DEFINE st == [k \in Jobs |-> Standing(k)]
<1>1. st' = [st EXCEPT ![j] = Standing(j)'] /\ st[j] = Standing(j)
  OBVIOUS
<1>2. CASE Standing(j)' = Standing(j)
  <2>1. st' = st
    BY <1>2
  <2> QED
    BY <2>1 DEF Ledger!ledger
<1>3. CASE Standing(j) = "absent" /\ Standing(j)' = "queued"
  BY <1>1, <1>3 DEF Ledger!Next, Ledger!Accept, Ledger!Move
<1>4. CASE Standing(j) \in {"queued", "failed"} /\ Standing(j)' = "done"
  BY <1>1, <1>4 DEF Ledger!Next, Ledger!Complete, Ledger!Move
<1>5. CASE Standing(j) = "queued" /\ Standing(j)' = "failed"
  BY <1>1, <1>5 DEF Ledger!Next, Ledger!GiveUp, Ledger!Move
<1>6. CASE Standing(j) = "failed" /\ Standing(j)' = "queued"
  BY <1>1, <1>6 DEF Ledger!Next, Ledger!Revive, Ledger!Move
<1> QED
  BY <1>2, <1>3, <1>4, <1>5, <1>6

\* A step of the queue changes what stands for one job at most.
LEMMA LedgerStep ==
    ASSUME CopyInv, CopyInv', DispatchInv, DispatchInv', NoJobLost, NoJobLost', [Next]_vars
    PROVE  [Ledger!Next]_(Ledger!ledger)
<1>0. StandingByLive /\ StandingByLive'
  BY StandingValue, PTL
<1>1. \A j \in Jobs : Standing(j) = IF j \notin dispatched THEN "absent"
                                    ELSE IF j \in succeeded THEN "done"
                                    ELSE IF Live(j) THEN "queued" ELSE "failed"
  BY <1>0 DEF StandingByLive
<1>2. \A j \in Jobs : Standing(j)' = IF j \notin dispatched' THEN "absent"
                                     ELSE IF j \in succeeded' THEN "done"
                                     ELSE IF Live(j)' THEN "queued" ELSE "failed"
  BY <1>0 DEF StandingByLive
<1>3. ASSUME UNCHANGED <<stream, retry, succeeded, dispatched, results>>
      PROVE  [Ledger!Next]_(Ledger!ledger)
  <2>1. \A j \in Jobs : Standing(j)' = Standing(j)
    BY <1>1, <1>2, <1>3 DEF Live
  <2>2. [j \in Jobs |-> Standing(j)]' = [j \in Jobs |-> Standing(j)]
    BY <2>1
  <2> QED
    BY <1>3, <2>2 DEF Ledger!ledger
<1>4. ASSUME NEW j \in Jobs, j \in dispatched, dispatched' = dispatched, results' = results,
             succeeded' \in {succeeded, succeeded \cup {j}},
             \A k \in Jobs \ {j} : Live(k)' <=> Live(k)
      PROVE  [Ledger!Next]_(Ledger!ledger)
  <2>1. \A k \in Jobs \ {j} : Standing(k)' = Standing(k)
    BY <1>1, <1>2, <1>4
  <2>2. \/ Standing(j)' = Standing(j)
        \/ Standing(j) \in {"queued", "failed"} /\ Standing(j)' \in {"queued", "failed", "done"}
    BY <1>1, <1>2, <1>4
  <2> QED
    BY <1>4, <2>1, <2>2, LedgerMove
<1>5. ASSUME NEW j \in Jobs, Dispatch(j)
      PROVE  [Ledger!Next]_(Ledger!ledger)
  <2> DEFINE new == [id |-> lastId + 1, job |-> j, attempt |-> 0]
  <2>1. /\ j \notin dispatched /\ stream' = stream \cup {new} /\ new.job = j
        /\ dispatched' = dispatched \cup {j} /\ UNCHANGED <<retry, results, succeeded>>
    BY <1>5 DEF Dispatch, XAdd
  <2> HIDE DEF new
  <2>2. Live(j)' /\ \A k \in Jobs \ {j} : Live(k)' <=> Live(k)
    BY <2>1 DEF Live
  <2>3. Standing(j) = "absent" /\ Standing(j)' = "queued"
    BY <1>1, <1>2, <2>1, <2>2 DEF DispatchInv
  <2>4. \A k \in Jobs \ {j} : Standing(k)' = Standing(k)
    BY <1>1, <1>2, <2>1, <2>2
  <2> QED
    BY <2>1, <2>3, <2>4, LedgerMove
<1>6. ASSUME NEW c \in Consumers, PersistResult(c)
      PROVE  [Ledger!Next]_(Ledger!ledger)
  <2>1. /\ task[c].job \in Jobs /\ task[c].job \in dispatched
        /\ succeeded' = succeeded \cup {task[c].job}
        /\ UNCHANGED <<stream, retry, results, dispatched>>
    BY <1>6 DEF PersistResult, redis, CopyInv, TypeOK, Handling, Delivery, DispatchInv
  <2> QED
    BY <1>4, <2>1 DEF Live
<1>7. ASSUME NEW c \in Consumers, NEW r \in BOOLEAN, Fail(c, r)
      PROVE  [Ledger!Next]_(Ledger!ledger)
  <2> DEFINE ticket == [id |-> task[c].id, job |-> task[c].job,
                        attempt |-> task[c].attempt + 1, by |-> c]
  <2>1. /\ task[c].job \in Jobs /\ task[c].job \in dispatched /\ ticket.job = task[c].job
        /\ retry' \in {retry, retry \cup {ticket}}
        /\ stream' = {e \in stream : e.id # task[c].id}
        /\ UNCHANGED <<results, dispatched, succeeded>>
    BY <1>7 DEF Fail, XAckDel, CopyInv, TypeOK, Handling, Delivery, DispatchInv
  <2>2. \A e \in stream : e.id = task[c].id => e.job = task[c].job
    BY <1>7 DEF Fail, CopyInv, CopiesAgree, Handling
  <2> HIDE DEF ticket
  <2>3. \A k \in Jobs \ {task[c].job} : Live(k)' <=> Live(k)
    BY <2>1, <2>2 DEF Live
  <2> QED
    BY <1>4, <2>1, <2>3
<1>8. ASSUME NEW c \in Consumers, Ack(c)
      PROVE  [Ledger!Next]_(Ledger!ledger)
  <2> DEFINE j == task[c].job
  <2>1. /\ j \in Jobs /\ j \in succeeded /\ j \in dispatched
        /\ stream' = {e \in stream : e.id # task[c].id} /\ results' = results \cup {j}
        /\ UNCHANGED <<retry, dispatched, succeeded>>
    BY <1>8 DEF Ack, XAckDel, CopyInv, TypeOK, AckReady, Handling, Delivery, DispatchInv
  <2>2. \A e \in stream : e.id = task[c].id => e.job = j
    BY <1>8 DEF Ack, CopyInv, CopiesAgree, Handling
  <2>3. \A k \in Jobs \ {j} : Live(k)' <=> Live(k)
    BY <2>1, <2>2 DEF Live
  <2>4. \A k \in Jobs : Standing(k)' = Standing(k)
    BY <1>1, <1>2, <2>1, <2>3
  <2>5. [k \in Jobs |-> Standing(k)]' = [k \in Jobs |-> Standing(k)] /\ Standing(j) = "done"
    BY <1>1, <2>1, <2>4
  <2>6. Ledger!Announce(j)
    BY <2>1, <2>5 DEF Ledger!Announce
  <2> QED
    BY <2>1, <2>6 DEF Ledger!Next
<1>9. ASSUME NEW w \in Workers, PumpMove(w)
      PROVE  [Ledger!Next]_(Ledger!ledger)
  <2>1. PICK r \in pump[w] : XAdd(r.job, r.attempt) /\ retry' = retry \ {r}
    BY <1>9 DEF PumpMove
  <2> DEFINE new == [id |-> lastId + 1, job |-> r.job, attempt |-> r.attempt]
  <2>2. /\ r.job \in Jobs /\ r.job \in dispatched
        /\ stream' = stream \cup {new} /\ new.job = r.job
        /\ UNCHANGED <<results, dispatched, succeeded>>
    BY <1>9, <2>1 DEF PumpMove, XAdd, CopyInv, TypeOK, Ticket, DispatchInv
  <2> HIDE DEF new
  <2>3. \A k \in Jobs \ {r.job} : Live(k)' <=> Live(k)
    BY <2>1, <2>2 DEF Live
  <2> QED
    BY <1>4, <2>2, <2>3
<1>10. ASSUME NEW o \in Operators, EnqueueDeadLetter(o)
       PROVE  [Ledger!Next]_(Ledger!ledger)
  <2> DEFINE new == [id |-> lastId + 1, job |-> opHeld[o].job, attempt |-> 0]
  <2>1. /\ opHeld[o].job \in Jobs /\ opHeld[o].job \in dispatched
        /\ stream' = stream \cup {new} /\ new.job = opHeld[o].job
        /\ UNCHANGED <<retry, results, dispatched, succeeded>>
    BY <1>10 DEF EnqueueDeadLetter, XAdd, CopyInv, TypeOK, Ticket, DispatchInv
  <2> HIDE DEF new
  <2>2. \A k \in Jobs \ {opHeld[o].job} : Live(k)' <=> Live(k)
    BY <2>1 DEF Live
  <2> QED
    BY <1>4, <2>1, <2>2
<1>11. ASSUME \/ \E c \in Consumers :
                     \/ ClaimStale(c) \/ NextOfBatch(c) \/ Read(c) \/ ReadNothing(c)
                     \/ CheckDuplicate(c) \/ PersistRefused(c) \/ Abandon(c) \/ Touch(c)
              \/ \E id \in pel : LeaseExpires(id)
              \/ \E w \in Workers : PumpFetch(w) \/ PumpError(w) \/ Crash(w)
              \/ \E o \in Operators : FetchDeadLetter(o) \/ DeleteDeadLetter(o) \/ OperatorFails(o)
              \/ UNCHANGED vars
       PROVE  [Ledger!Next]_(Ledger!ledger)
  <2>1. UNCHANGED <<stream, retry, succeeded, dispatched, results>>
    BY <1>11 DEF ClaimStale, NextOfBatch, Read, ReadNothing, CheckDuplicate, PersistRefused,
                 Abandon, Touch, LeaseExpires, PumpFetch, PumpError, Crash, FetchDeadLetter,
                 DeleteDeadLetter, OperatorFails, redis, vars
  <2> QED
    BY <1>3, <2>1
<1> QED
  BY <1>5, <1>6, <1>7, <1>8, <1>9, <1>10, <1>11 DEF Next, Consume, Handle, RetryDeadLetter

\* The queue takes only steps the ledger allows, for any number of jobs, workers
\* and operators: an accepted job never disappears, completion is final, and only
\* completed jobs are announced.
THEOREM LedgerImplemented == Spec => ImplementsLedger
<1>1. Init => Ledger!Init
  BY DEF Init, Ledger!Init, Standing
<1>2. /\ CopyInv /\ DispatchInv /\ NoJobLost /\ [Next]_vars
      /\ CopyInv' /\ DispatchInv' /\ NoJobLost'
      => [Ledger!Next]_(Ledger!ledger)
  BY LedgerStep
<1> QED
  BY <1>1, <1>2, CopiesCorrect, DispatchInvariant, NothingLost, PTL
  DEF Spec, ImplementsLedger, Ledger!Spec

=============================================================================
