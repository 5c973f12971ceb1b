---------------------------- MODULE MCGroupChain ----------------------------
EXTENDS GroupChain

USDA(n) == [a \in {"USDA"} |-> n]

\* One customer who is owed nothing, one who is owed something, or that one
\* and a second who is owed more.
MCBooks == {<<[a \in {} |-> 0]>>, <<USDA(1)>>, <<USDA(1), USDA(2)>>}

\* Nothing said; what one of two is owed; more than both are.
MCFigures == {[a \in {} |-> 0], USDA(2), USDA(4)}
=============================================================================
