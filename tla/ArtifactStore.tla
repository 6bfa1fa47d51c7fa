--------------------------- MODULE ArtifactStore ---------------------------
(***************************************************************************)
(* Artifacts: content in files of the local storage, metadata in rows of   *)
(* the artifacts table, and what refers to them, the stdout and stderr     *)
(* columns of a tool run and the evidence lists of observations and        *)
(* candidate findings.                                                     *)
(* A file lies under the identifier of its tool run, so an artifact is the *)
(* pair of a run and a name and no two runs share one.                     *)
(***************************************************************************)
EXTENDS Naturals, Sequences, FiniteSets

CONSTANTS
    Runs,       \* executions of a capability, one tool run each
    Steps,      \* step runs
    StepOf,     \* the step run of each execution
    MaxFaults   \* bound: failed calls and crashes

\* Raw output (stdout and stderr are stored one after the other in the same
\* way: one stands for both) and the normalised result.
Names == {"raw", "result"}

Artifacts == Runs \X Names

ASSUME StoreAssumption ==
    /\ StepOf \in [Runs -> Steps]
    /\ MaxFaults \in Nat

VARIABLES
    files,      \* artifacts whose content is on disk
    rows,       \* artifacts with a row
    expired,    \* artifacts whose expires_at has passed
    toolRefs,   \* stdout and stderr columns of each tool run
    evidence,   \* evidence lists that each step has written
    faults      \* failures so far

storeVars == <<files, rows, expired, toolRefs, evidence, faults>>

StoreTypeOK ==
    /\ files \in SUBSET Artifacts
    /\ rows \in SUBSET Artifacts
    /\ expired \in SUBSET Artifacts
    /\ toolRefs \in [Runs -> SUBSET Artifacts]
    /\ evidence \in [Steps -> SUBSET Artifacts]
    /\ faults \in 0..MaxFaults

StoreInit ==
    /\ files = {} /\ rows = {} /\ expired = {}
    /\ toolRefs = [r \in Runs |-> {}]
    /\ evidence = [s \in Steps |-> {}]
    /\ faults = 0

Fault == faults < MaxFaults /\ faults' = faults + 1

\* PersistResult inserts the rows and the columns of the tool run, and may
\* write evidence lists: over the ones of values seen before by this step, or
\* beside the ones of other values.
InsertRows(r, saved, columns) ==
    /\ rows' = rows \cup saved
    /\ toolRefs' = [toolRefs EXCEPT ![r] = columns]

Observe(s, saved) ==
    \E kept \in {{}, evidence[s]} : evidence' = [evidence EXCEPT ![s] = kept \cup saved]

\* Fault: the evidence lists keep the identifier.
DeleteArtifactOnly(a) ==
    /\ rows' = rows \ {a}
    /\ toolRefs' = [r \in Runs |-> toolRefs[r] \ {a}]
    /\ UNCHANGED evidence

\* DeleteArtifact removes the row and every reference to it.
DeleteArtifact(a) ==
    /\ rows' = rows \ {a}
    /\ toolRefs' = [r \in Runs |-> toolRefs[r] \ {a}]
    /\ evidence' = [s \in Steps |-> evidence[s] \ {a}]
=============================================================================
