------------------------- MODULE MC_WorkflowEngine -------------------------
(* Small workflow definitions for TLC. *)
EXTENDS WorkflowEngine

None == [s \in Steps |-> {}]

\* prepare, then an archive lookup beside a gated scan of a nonempty result,
\* then a report that binds the preparation and the scan.
DiamondDeps == <<{}, {1}, {1}, {2, 3}>>
DiamondBindings == <<{}, {}, {1}, {1, 3}>>
DiamondNonEmpty == <<{}, {}, {1}, {}>>
DiamondSuccess == <<{}, {}, {}, {2}>>

\* Two gated steps behind a first step.
FanDeps == <<{}, {1}, {1}>>
FanBindings == <<{}, {1}, {}>>

\* Two steps in sequence.
PairDeps == <<{}, {1}>>
=============================================================================
