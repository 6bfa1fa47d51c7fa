-------------------------- MODULE MC_ScopeHistory --------------------------
(* Plans for TLC.  Two that cannot be compared, one with a further include  *)
(* and one without the exclude, and one that has both changes: it is within *)
(* neither, though each of its rules is one of theirs.  And a base plan for *)
(* the run that reverts to it, a change that expands nothing.               *)
EXTENDS ScopeHistory, TLC

CONSTANTS p0, wide, open, both

RulesOf == p0   :> [include |-> {"web"},        exclude |-> {"admin"}]
        @@ wide :> [include |-> {"web", "api"}, exclude |-> {"admin"}]
        @@ open :> [include |-> {"web"},        exclude |-> {}]
        @@ both :> [include |-> {"web", "api"}, exclude |-> {}]

AllPlans == {wide, open, both}
AllIncludes == [p \in AllPlans |-> RulesOf[p].include]
AllExcludes == [p \in AllPlans |-> RulesOf[p].exclude]

TwoPlans == {p0, wide}
TwoIncludes == [p \in TwoPlans |-> RulesOf[p].include]
TwoExcludes == [p \in TwoPlans |-> RulesOf[p].exclude]

=============================================================================
