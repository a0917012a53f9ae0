------------------------------ MODULE MCMetrics ------------------------------
EXTENDS Metrics, TLC
(* Writers are interchangeable, and so are sessions.                        *)
Symmetry == Permutations(Writers) \cup Permutations(Sessions)

Unchanged == [reason |-> "unchanged", changed |-> FALSE, original |-> 4, optimized |-> 4,
              rules |-> <<>>]
ByRules   == [reason |-> "compressed", changed |-> TRUE, original |-> 7, optimized |-> 2,
              rules |-> ("health" :> [groups |-> 2, lines |-> 5])]
ByTwo     == [ByRules EXCEPT !.rules = @ @@ ("tick" :> [groups |-> 1, lines |-> 2])]
NoRules   == [ByRules EXCEPT !.rules = <<>>]

Every == {Unchanged, ByRules, ByTwo, NoRules}
One   == {Unchanged}
=============================================================================
