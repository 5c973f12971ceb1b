------------------------------ MODULE SumNodes ------------------------------
(***************************************************************************)
(* The nodes of a Merkle sum tree and what is computed from them           *)
(* (rust/solvency-merkle/src/lib.rs, rust/solvency-report/src/verify.rs,   *)
(* SPEC 3 to 5): sums, hashes, a whole tree, a whole proof, its fold.      *)
(*                                                                         *)
(* A hash is the term it was computed from, so it is injective and says    *)
(* nothing it does not cover: a node's hash covers its children's hashes   *)
(* and its own sums, and not its children's sums.                          *)
(***************************************************************************)
EXTENDS Integers, Sequences

CONSTANTS
  Assets,
  MaxAmount  \* u128::MAX

ASSUME MaxAmountAssumption == MaxAmount \in Nat

AmountMaps == UNION {[A -> 0..MaxAmount] : A \in SUBSET Assets}

\* Absent and zero are the same claim.
At(sums, a) == IF a \in DOMAIN sums THEN sums[a] ELSE 0

\* leaf_node.  A customer's identifier and salt are its place in the order.
Leaf(u, b) == [hash |-> [kind |-> "leaf", user |-> u, balances |-> b], sums |-> b]

\* entity_leaf_node
EntityLeaf(entity) ==
  [hash |-> [kind |-> "entity", id |-> entity.id, root |-> entity.root, sums |-> entity.sums],
   sums |-> entity.sums]

EntityLeaves(entities) == [j \in DOMAIN entities |-> EntityLeaf(entities[j])]

Node(l, r, s) ==
  [hash |-> [kind |-> "node", left |-> l.hash, right |-> r.hash, sums |-> s], sums |-> s]

Added(s, t) == [a \in DOMAIN s \cup DOMAIN t |-> At(s, a) + At(t, a)]

\* Mutant of Fits: no sum is too large.
Wraps(s) == TRUE

\* checked_add on every asset.
Fits(s) == \A a \in DOMAIN s : s[a] <= MaxAmount

\* combine, where the sums fit.
Combine(l, r) == Node(l, r, Added(l.sums, r.sums))

\* Mutant of Odd: the last node of an odd level is paired with itself.
OddDoubled(node) == Combine(node, node)

\* The last node of an odd level goes up unchanged.
Odd(node) == node

\* Mutant of Sibling: the node to the right, always.
RightNeighbour(i) == i + 1

\* idx ^ 1
Sibling(i) == IF i % 2 = 0 THEN i + 1 ELSE i - 1

\* The same claim about every asset.
SameSums(s, t) == \A a \in Assets : At(s, a) = At(t, a)

-----------------------------------------------------------------------------
(***************************************************************************)
(* The same, in one go: for whoever uses the tree as a library.            *)
(***************************************************************************)

\* The level above, all of it.
Up(level) ==
  [j \in 1..((Len(level) + 1) \div 2) |->
     IF 2 * j <= Len(level) THEN Combine(level[2 * j - 1], level[2 * j])
                            ELSE Odd(level[2 * j - 1])]

\* build: every level, from the leaves at 0; the last is the root alone.
Built(leaves) ==
  LET level[d \in 0..Len(leaves)] == IF d = 0 THEN leaves ELSE Up(level[d - 1])
  IN level

Root(leaves) == Built(leaves)[Len(leaves)][1]

\* build returns no error.
Builds(leaves) ==
  \A d \in 0..Len(leaves) : \A j \in DOMAIN Built(leaves)[d] : Fits(Built(leaves)[d][j].sums)

\* `idx /= 2`: the place, from 0, of the ancestor of leaf i at each of n levels.
Ancestor(i, n) ==
  LET idx[d \in 0..n] == IF d = 0 THEN i ELSE idx[d - 1] \div 2
  IN idx

\* The step that a level adds for its node at idx: none if it has no sibling.
StepAt(level, idx) ==
  LET sib == Sibling(idx)
  IN IF sib < Len(level) THEN <<[sibling |-> level[sib + 1], onLeft |-> sib < idx]>> ELSE << >>

\* prove, for the leaf at index i from 0: the steps below each level.
ProofTo(leaves, i) ==
  LET level == Built(leaves)
      idx   == Ancestor(i, Len(leaves))
      steps[d \in 0..Len(leaves)] ==
        IF d = 0 THEN << >> ELSE steps[d - 1] \o StepAt(level[d - 1], idx[d - 1])
  IN steps

Prove(leaves, i) == ProofTo(leaves, i)[Len(leaves)]

\* fold: the running node after each step, from the leaf at 0.
Folded(leaf, steps) ==
  LET node[k \in 0..Len(steps)] ==
        IF k = 0 THEN leaf
        ELSE IF steps[k].onLeft THEN Combine(steps[k].sibling, node[k - 1])
                                ELSE Combine(node[k - 1], steps[k].sibling)
  IN node

\* The comparisons of verify_against_report: the fold does not overflow, and
\* hash and totals are the published ones.
FoldsTo(leaf, steps, published) ==
  LET node == Folded(leaf, steps) IN
  /\ \A k \in 1..Len(steps) : Fits(node[k].sums)
  /\ node[Len(steps)].hash = published.hash
  /\ SameSums(node[Len(steps)].sums, published.sums)
=============================================================================
