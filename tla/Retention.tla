----------------------------- MODULE Retention -----------------------------
(***************************************************************************)
(* Retention of artifacts: every `workflow run`, every worker at its start *)
(* and then on a ticker, calls PurgeExpired, which lists expired rows and  *)
(* for each removes the content first and the metadata next.  Nothing      *)
(* keeps two processes from purging the same rows.                         *)
(***************************************************************************)
EXTENDS ArtifactStore

CONSTANTS
    Purgers,      \* processes that purge
    PurgeLimit    \* rows of a pass (1000 in the code)

VARIABLE purge    \* the pass of each purger

\* items: rows listed and not yet removed; item: the one being removed.
Pass == [pc : {"idle", "content", "row", "commit"},
         items : SUBSET Artifacts, item : Artifacts \cup {<<>>}]

NoPass == [pc |-> "idle", items |-> {}, item |-> <<>>]

RetentionTypeOK ==
    /\ purge \in [Purgers -> Pass]
    /\ \A p \in Purgers : purge[p].pc \in {"row", "commit"} => purge[p].item \in purge[p].items

RetentionInit == purge = [p \in Purgers |-> NoPass]

\* The pass goes on with the next row of its list, or ends with the last.
NextItem(p, items) ==
    [purge EXCEPT ![p] = IF items = {} THEN NoPass
                         ELSE [pc |-> "content", items |-> items, item |-> <<>>]]

\* ExpiredArtifacts: at most PurgeLimit rows past their time.
ListExpired(p) ==
    /\ purge[p].pc = "idle"
    /\ LET due == rows \cap expired
       IN  \E items \in SUBSET due :
             /\ items # {}
             /\ Cardinality(items) = PurgeLimit \/ (items = due /\ Cardinality(due) < PurgeLimit)
             /\ purge' = NextItem(p, items)
    /\ UNCHANGED storeVars

\* Fault: a file that is already gone is an error.
DeleteContentStrict(p) ==
    /\ purge[p].pc = "content"
    /\ \E a \in purge[p].items :
          /\ files' = files \ {a}
          /\ purge' = IF a \in files THEN [purge EXCEPT ![p].pc = "row", ![p].item = a]
                      ELSE [purge EXCEPT ![p] = NoPass]
    /\ UNCHANGED <<rows, expired, toolRefs, evidence, faults>>

\* Local.Delete: a file that is already gone is not an error.
DeleteContent(p) ==
    /\ purge[p].pc = "content"
    /\ \E a \in purge[p].items :
          /\ files' = files \ {a}
          /\ purge' = [purge EXCEPT ![p].pc = "row", ![p].item = a]
    /\ UNCHANGED <<rows, expired, toolRefs, evidence, faults>>

\* DeleteArtifact reads the row for its audit event, without a lock; when
\* another pass has removed it, the error ends this whole pass.
FindRow(p) ==
    /\ purge[p].pc = "row"
    /\ purge' = IF purge[p].item \in rows THEN [purge EXCEPT ![p].pc = "commit"]
                ELSE [purge EXCEPT ![p] = NoPass]
    /\ UNCHANGED storeVars

\* References cleared and the row deleted, possibly after another pass did.
DeleteRow(p) ==
    /\ purge[p].pc = "commit"
    /\ DeleteArtifact(purge[p].item)
    /\ purge' = NextItem(p, purge[p].items \ {purge[p].item})
    /\ UNCHANGED <<files, expired, faults>>

\* A call fails, or the process stops, anywhere in a pass.
PassStops(p) ==
    /\ purge[p].pc # "idle"
    /\ Fault
    /\ purge' = [purge EXCEPT ![p] = NoPass]
    /\ UNCHANGED <<files, rows, expired, toolRefs, evidence>>

RetentionNext ==
    \E p \in Purgers : ListExpired(p) \/ DeleteContent(p) \/ FindRow(p) \/ DeleteRow(p)
                       \/ PassStops(p)

\* A ticker calls PurgeExpired again and again, and calls return.
RetentionFairness ==
    \A p \in Purgers : WF_<<storeVars, purge>>(ListExpired(p) \/ DeleteContent(p)
                                               \/ FindRow(p) \/ DeleteRow(p))
=============================================================================
