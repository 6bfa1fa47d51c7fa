---------------------------- MODULE BudgetLimiter ----------------------------
(***************************************************************************)
(* The process-local execution budget (internal/budget): a job or workflow *)
(* step takes one slot of its program, one of its provider when it names   *)
(* one, and one of every host it targets, all at once or not at all.       *)
(*                                                                         *)
(* The three counting maps of the code are one function over the disjoint  *)
(* union of their keys; a request is the set of keys it counts against,    *)
(* already normalised (lower case, no duplicates).  A caller that finds no *)
(* room captures the limiter's `changed` channel while it still holds the  *)
(* mutex and waits on it; every release closes that channel and installs a *)
(* new one.                                                                *)
(***************************************************************************)
EXTENDS Integers, FiniteSets

CONSTANTS
    Callers,                                  \* goroutines that call Acquire
    Programs, Providers, Hosts,               \* keys of the three maps
    ProgramLimit, ProviderLimit, HostLimit,   \* configured Limits
    MaxCalls                                  \* bound: Acquire calls of a caller

Slots == Programs \cup Providers \cup Hosts

Requests == {r \in SUBSET Slots : /\ Cardinality(r \cap Programs) = 1
                                  /\ Cardinality(r \cap Providers) <= 1}

positive(value) == IF value < 1 THEN 1 ELSE value

Limit(s) == positive(IF s \in Programs THEN ProgramLimit
                     ELSE IF s \in Providers THEN ProviderLimit ELSE HostLimit)

ASSUME BudgetAssumption ==
    /\ IsFiniteSet(Callers)
    /\ ProgramLimit \in Int /\ ProviderLimit \in Int /\ HostLimit \in Int
    /\ MaxCalls \in Nat
    /\ Programs \cap Providers = {} /\ Programs \cap Hosts = {} /\ Providers \cap Hosts = {}

VARIABLES
    used,      \* slots taken, per key
    pc,        \* where each caller is in Acquire
    request,   \* what it asks for, or last held
    released,  \* the flag its release function captured
    blocked,   \* callers waiting on the current `changed` channel
    calls      \* Acquire calls each caller has made

vars == <<used, pc, request, released, blocked, calls>>

\* Types of the limiter and its callers; only callers inside the select of
\* Acquire wait on the current channel.
TypeOK ==
    /\ used \in [Slots -> Nat]
    /\ pc \in [Callers -> {"idle", "try", "select", "held"}]
    /\ request \in [Callers -> SUBSET Slots]
    /\ released \in [Callers -> BOOLEAN]
    /\ blocked \subseteq {c \in Callers : pc[c] = "select"}
    /\ calls \in [Callers -> 0..MaxCalls]

Init ==
    /\ used = [s \in Slots |-> 0]
    /\ pc = [c \in Callers |-> "idle"]
    /\ request = [c \in Callers |-> {}]
    /\ released = [c \in Callers |-> TRUE]
    /\ blocked = {}
    /\ calls = [c \in Callers |-> 0]

\* Fault: the comparison lets one more in.
availableOneMore(r) == \A s \in r : used[s] <= Limit(s)


available(r) == \A s \in r : used[s] < Limit(s)

decrement(n) == IF n <= 1 THEN 0 ELSE n - 1

-----------------------------------------------------------------------------
\* Acquire is called.
Call(c, r) ==
    /\ pc[c] = "idle" /\ calls[c] < MaxCalls
    /\ calls' = [calls EXCEPT ![c] = @ + 1]
    /\ request' = [request EXCEPT ![c] = r]
    /\ released' = [released EXCEPT ![c] = TRUE]
    /\ pc' = [pc EXCEPT ![c] = "try"]
    /\ UNCHANGED <<used, blocked>>

\* One pass of Acquire's loop under the mutex: take every slot, or capture the
\* channel to wait on.
TryAcquire(c) ==
    /\ pc[c] = "try"
    /\ \/ /\ available(request[c])
          /\ used' = [s \in Slots |-> IF s \in request[c] THEN used[s] + 1 ELSE used[s]]
          /\ released' = [released EXCEPT ![c] = FALSE]
          /\ pc' = [pc EXCEPT ![c] = "held"]
          /\ UNCHANGED blocked
       \/ /\ ~available(request[c])
          /\ pc' = [pc EXCEPT ![c] = "select"]
          /\ blocked' = blocked \cup {c}
          /\ UNCHANGED <<used, released>>
    /\ UNCHANGED <<request, calls>>

\* The captured channel was closed: go round the loop again.
Wake(c) ==
    /\ pc[c] = "select" /\ c \notin blocked
    /\ pc' = [pc EXCEPT ![c] = "try"]
    /\ UNCHANGED <<used, request, released, blocked, calls>>

\* Fault: a cancelled caller still counts as waiting.
CancelStillWaits(c) ==
    /\ pc[c] = "select"
    /\ pc' = [pc EXCEPT ![c] = "idle"]
    /\ UNCHANGED <<used, request, released, blocked, calls>>

\* The context ends while waiting: Acquire returns its error.
Cancel(c) ==
    /\ pc[c] = "select"
    /\ pc' = [pc EXCEPT ![c] = "idle"]
    /\ blocked' = blocked \ {c}
    /\ UNCHANGED <<used, request, released, calls>>

\* Fault: the channel is not closed.
ReleaseSilently(c) ==
    /\ pc[c] = "held"
    /\ ~released[c]
    /\ released' = [released EXCEPT ![c] = TRUE]
    /\ used' = [s \in Slots |-> IF s \in request[c] THEN decrement(used[s]) ELSE used[s]]
    /\ pc' = [pc EXCEPT ![c] = "idle"]
    /\ UNCHANGED <<request, blocked, calls>>

\* The release function returns the slots the first time it runs, and closes
\* and replaces the channel, which wakes every waiter.
Release(c) ==
    /\ pc[c] = "held"
    /\ ~released[c]
    /\ released' = [released EXCEPT ![c] = TRUE]
    /\ used' = [s \in Slots |-> IF s \in request[c] THEN decrement(used[s]) ELSE used[s]]
    /\ blocked' = {}
    /\ pc' = [pc EXCEPT ![c] = "idle"]
    /\ UNCHANGED <<request, calls>>

\* Fault: a release that does not remember it ran.
ReleaseTwice(c) ==
    /\ pc[c] = "idle" /\ calls[c] > 0
    /\ used' = [s \in Slots |-> IF s \in request[c] THEN decrement(used[s]) ELSE used[s]]
    /\ UNCHANGED <<pc, request, released, blocked, calls>>

\* The caller may run its release function again: nothing happens then.
ReleaseAgain(c) ==
    /\ pc[c] = "idle" /\ calls[c] > 0
    /\ released[c]
    /\ UNCHANGED vars

Next == \E c \in Callers :
    \/ \E r \in Requests : Call(c, r)
    \/ TryAcquire(c) \/ Wake(c) \/ Cancel(c) \/ Release(c) \/ ReleaseAgain(c)

Spec == Init /\ [][Next]_vars

\* Goroutines are scheduled, the mutex is granted, and executions end.
Fairness == \A c \in Callers : WF_vars(TryAcquire(c)) /\ WF_vars(Wake(c)) /\ WF_vars(Release(c))

FairSpec == Spec /\ Fairness

-----------------------------------------------------------------------------
Holders(s) == {c \in Callers : pc[c] = "held" /\ s \in request[c]}

\* The budget is authoritative: no program, provider or host ever has more
\* executions in flight than its limit.
LimitsRespected == \A s \in Slots : Cardinality(Holders(s)) <= Limit(s)

\* Counters neither leak nor go negative: each equals its executions in flight,
\* through waiting, cancellation and repeated release.
CountersExact == \A s \in Slots : used[s] = Cardinality(Holders(s))

\* No lost wakeup: whoever waits on a channel nobody has closed really has no
\* room, so it never sleeps through the release it was waiting for.
NoLostWakeup == \A c \in blocked : ~available(request[c])

\* Acquire returns, once callers stop asking again and again: it is not left
\* waiting for slots that are free.
AcquireReturns == \A c \in Callers : pc[c] \in {"try", "select"} ~> pc[c] \in {"held", "idle"}

=============================================================================
