----------------------------- MODULE MCSumTree -----------------------------
EXTENDS SumTree

\* Two assets: neither, an explicit zero of one, one of one, one of both.
MCBalances == {[a \in {} |-> 0], [a \in {"USDA"} |-> 1], [a \in Assets |-> 1]}

\* Nothing said, less than any customer is owed, more, and all there can be.
MCFigures == {[a \in {} |-> 0], [a \in {"USDA"} |-> 0], [a \in Assets |-> 1],
              [a \in {"USDA"} |-> MaxAmount]}

\* Three wrong figures in small trees, fewer in larger ones, none in the largest.
MCMaxFaults ==
  [n \in 1..MaxLeaves |-> IF n <= 2 THEN 3 ELSE IF n = 3 THEN 2 ELSE IF n = 4 THEN 1 ELSE 0]

\* One asset, one or two of it; up to three wrong figures.
MCOwed   == [Assets -> {1, 2}]
MCSums   == UNION {[A -> 0..2] : A \in SUBSET Assets}
MCFaults == [n \in 1..MaxLeaves |-> 3]
============================================================================
