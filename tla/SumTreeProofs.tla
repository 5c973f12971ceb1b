--------------------------- MODULE SumTreeProofs ---------------------------
(***************************************************************************)
(* What the tree, one customer's check and one auditor's rebuilding        *)
(* establish, for any number of customers, assets and wrong figures, and   *)
(* integers of any width.                                                  *)
(***************************************************************************)
EXTENDS SumTree, LibraryProofs

\* Nobody checks before there is a report.
OrderInv ==
  /\ owed \in Seq(BalanceMaps) /\ Len(owed) <= MaxLeaves
  /\ phase \in {"start", "building", "overflow", "published"}
  /\ phase # "published" => who = 0 /\ passed = {} /\ checked = 0 /\ ~recomputed
  /\ who \in 0..Len(owed) /\ checked \in 0..Len(owed) /\ passed \subseteq 1..Len(owed)
  /\ step \in Nat /\ (who = 0 => step = 0)
  /\ IF phase = "start" THEN levels = << >> /\ next = << >> ELSE levels # << >> /\ owed # << >>
  /\ idx \in Nat /\ lvl \in Nat \ {0}
  /\ recomputed \in BOOLEAN

\* The wrong figures are no more than are allowed.
FaultsInv == faults \in Nat /\ (owed # << >> => faults <= MaxFaults[Len(owed)])

\* The sums of every node that is built are amounts, whoever computed them.
IsTree(ls, nx) ==
  \E S : ls \in Seq(Seq(S)) /\ nx \in Seq(S) /\ \A node \in S : IsNode(node)

TreeInv == IsTree(levels, next)

RootsInv == IsNode(published) /\ IsNode(current)

\* The siblings of a proof are amounts, whoever made them up.
IsProof(st) ==
  \E S : st \in Seq(S) /\ \A e \in S : IsNode(e.sibling) /\ e.onLeft \in BOOLEAN

ProofInv == IsProof(steps)

\* The fold starts from the customer's own balances and only adds.
FoldInv ==
  step # 0 => Bounds(owed[who], current.sums)

IInv ==
  /\ OrderInv /\ FaultsInv /\ TreeInv /\ RootsInv /\ ProofInv /\ FoldInv
  /\ PassedBoundsOwnBalance

-----------------------------------------------------------------------------
\* No balances are balances, and a single figure is a node's.
LEMMA EmptyNode == IsNode(Nobody)
<1>1. [a \in {} |-> 0] \in [{} -> 0..MaxAmount] /\ {} \in SUBSET Assets
  OBVIOUS
<1>2. [a \in {} |-> 0] \in AmountMaps
  BY <1>1 DEF AmountMaps
<1> QED BY <1>2 DEF IsNode, Nobody, Leaf

\* A leaf of amounts is a node, and so is what a checked addition combines, or
\* any other figure.
LEMMA MadeNodes ==
  /\ \A k, b : b \in AmountMaps => IsNode(Leaf(k, b))
  /\ \A l, r, s : s \in AmountMaps => IsNode(Node(l, r, s))
  /\ \A l, r : IsNode(l) /\ IsNode(r) /\ Fits(Added(l.sums, r.sums)) => IsNode(Combine(l, r))
  /\ \A h, s : s \in AmountMaps => IsNode([hash |-> h, sums |-> s])
<1>1. \A l, r : IsNode(l) /\ IsNode(r) /\ Fits(Added(l.sums, r.sums)) => Added(l.sums, r.sums) \in AmountMaps
  BY AddedBounds DEF IsNode
<1> QED BY <1>1 DEF IsNode, Leaf, Node, Combine

\* A proof of no steps is one.
LEMMA EmptyIsProof == IsProof(<< >>)
<1> DEFINE S == {e \in {} : TRUE}
<1>1. << >> \in Seq(S) /\ \A e \in S : IsNode(e.sibling) /\ e.onLeft \in BOOLEAN
  OBVIOUS
<1> HIDE DEF S
<1> QED BY <1>1 DEF IsProof

\* A tree of no levels is one.
LEMMA EmptyIsTree == IsTree(<< >>, << >>)
<1> DEFINE S == {e \in {} : TRUE}
<1>1. /\ << >> \in Seq(Seq(S)) /\ << >> \in Seq(S)
      /\ \A node \in S : IsNode(node)
  OBVIOUS
<1> HIDE DEF S
<1> QED BY <1>1 DEF IsTree

\* A node may be appended to the level being built.
LEMMA AppendIsTree ==
  ASSUME NEW ls, NEW nx, IsTree(ls, nx), NEW node, IsNode(node)
  PROVE  IsTree(ls, Append(nx, node))
<1>1. PICK S : ls \in Seq(Seq(S)) /\ nx \in Seq(S) /\ \A e \in S : IsNode(e)
  BY DEF IsTree
<1> DEFINE T == S \cup {node}
<1>2. \A e \in T : IsNode(e)
  BY <1>1
<1>3. Seq(S) \subseteq Seq(T) /\ node \in T
  OBVIOUS
<1> HIDE DEF T
<1>4. nx \in Seq(T)
  BY <1>1, <1>3
<1>5. Append(nx, node) \in Seq(T)
  BY <1>3, <1>4
<1>6. ls \in Seq(Seq(T))
  BY <1>1, <1>3
<1> QED BY <1>2, <1>5, <1>6 DEF IsTree

\* The levels are sequences, and what is in them are nodes.
LEMMA LevelsAre ==
  ASSUME TreeInv
  PROVE  /\ Len(levels) \in Nat /\ DOMAIN levels = 1..Len(levels)
         /\ \A k \in 1..Len(levels) :
              /\ Len(levels[k]) \in Nat /\ DOMAIN levels[k] = 1..Len(levels[k])
              /\ \A j \in 1..Len(levels[k]) : IsNode(levels[k][j])
         /\ Len(next) \in Nat /\ DOMAIN next = 1..Len(next)
         /\ \A j \in 1..Len(next) : IsNode(next[j])
         /\ levels # << >> => Len(levels) \in 1..Len(levels)
<1>1. PICK S : levels \in Seq(Seq(S)) /\ next \in Seq(S) /\ \A e \in S : IsNode(e)
  BY DEF TreeInv, IsTree
<1>2. ASSUME NEW k \in 1..Len(levels)
      PROVE  /\ Len(levels[k]) \in Nat /\ DOMAIN levels[k] = 1..Len(levels[k])
             /\ \A j \in 1..Len(levels[k]) : IsNode(levels[k][j])
  <2>1. levels[k] \in Seq(S)
    BY <1>1
  <2> HIDE DEF IsNode
  <2>2. \A j \in 1..Len(levels[k]) : levels[k][j] \in S
    BY <2>1
  <2> QED BY <1>1, <2>1, <2>2
<1>3. \A j \in 1..Len(next) : next[j] \in S
  BY <1>1
<1>4. Len(levels) \in Nat /\ DOMAIN levels = 1..Len(levels) /\ Len(next) \in Nat /\ DOMAIN next = 1..Len(next)
  BY <1>1
<1>5. levels # << >> => Len(levels) \in 1..Len(levels)
  BY <1>1
<1> QED BY <1>1, <1>2, <1>3, <1>4, <1>5

\* The steps are a sequence of nodes and sides.
LEMMA StepsAre ==
  ASSUME ProofInv
  PROVE  /\ Len(steps) \in Nat /\ DOMAIN steps = 1..Len(steps)
         /\ \A k \in 1..Len(steps) : IsNode(steps[k].sibling) /\ steps[k].onLeft \in BOOLEAN
<1>1. PICK S : steps \in Seq(S) /\ \A e \in S : IsNode(e.sibling) /\ e.onLeft \in BOOLEAN
  BY DEF ProofInv, IsProof
<1>2. \A k \in 1..Len(steps) : steps[k] \in S
  BY <1>1
<1> QED BY <1>1, <1>2

\* A wrong figure is one of those allowed.
LEMMA GivenIsAllowed ==
  ASSUME OrderInv, FaultsInv, owed # << >>, owed' = owed, NEW s, NEW right,
         Given(s, right) \/ Wrong(s, right)
  PROVE  FaultsInv'
<1>1. Len(owed) \in 1..MaxLeaves /\ owed' # << >>
  BY ConstantsAssumption DEF OrderInv
<1>2. MaxFaults[Len(owed)] \in Nat
  BY <1>1, ConstantsAssumption
<1> QED BY <1>1, <1>2 DEF FaultsInv, Given, Wrong

\* An iteration of the fold keeps the bound, on whichever side the sibling is.
LEMMA FoldStepBounds ==
  ASSUME IInv, FoldStep
  PROVE  IsNode(current') /\ Bounds(owed[who], current'.sums)
<1> DEFINE sib == steps[step].sibling
<1>1. step \in 1..Len(steps) /\ step # 0 /\ IsNode(sib)
  BY StepsAre DEF IInv, FoldStep
<1>2. IsNode(current) /\ Bounds(owed[who], current.sums)
  BY <1>1 DEF IInv, FoldInv, RootsInv
<1>3. ASSUME NEW l, NEW r, Fits(Added(l.sums, r.sums)), IsNode(l), IsNode(r),
             l = current \/ r = current
      PROVE  /\ IsNode(Combine(l, r))
             /\ Bounds(current.sums, Combine(l, r).sums)
  <2>1. Combine(l, r).sums = Added(l.sums, r.sums)
    BY DEF Combine, Node
  <2>2. Bounds(current.sums, Combine(l, r).sums)
    BY <1>3, <2>1, AddedBounds DEF IsNode
  <2> QED BY <1>3, <2>2, MadeNodes
<1> HIDE DEF sib
<1>4. IsNode(current') /\ Bounds(current.sums, current'.sums)
  <2>1. CASE steps[step].onLeft
    <3>1. LeftOf(step) = sib /\ RightOf(step) = current
      BY <2>1 DEF LeftOf, RightOf, sib
    <3> QED BY <1>1, <1>2, <1>3, <3>1 DEF FoldStep
  <2>2. CASE ~steps[step].onLeft
    <3>1. LeftOf(step) = current /\ RightOf(step) = sib
      BY <2>2 DEF LeftOf, RightOf, sib
    <3> QED BY <1>1, <1>2, <1>3, <3>1 DEF FoldStep
  <2> QED BY <2>1, <2>2
<1>5. owed[who] \in AmountMaps
  <2>1. who # 0
    BY <1>1 DEF IInv, OrderInv
  <2> QED BY <2>1, ConstantsAssumption DEF IInv, OrderInv
<1> QED BY <1>2, <1>4, <1>5, BoundsTransitive DEF IsNode

-----------------------------------------------------------------------------
\* Nothing is published or checked yet.
LEMMA InitIInv == Init => IInv
<1> SUFFICES ASSUME Init PROVE IInv
  OBVIOUS
<1>1. OrderInv
  <2>1. owed = << >> /\ << >> \in Seq(BalanceMaps) /\ Len(<< >>) = 0 /\ MaxLeaves \in Nat
    BY ConstantsAssumption DEF Init
  <2>2. owed \in Seq(BalanceMaps) /\ Len(owed) = 0 /\ MaxLeaves \in Nat
    BY <2>1
  <2>3. recomputed \in BOOLEAN /\ ~recomputed
    BY DEF Init
  <2>4. /\ phase = "start" /\ levels = << >> /\ next = << >> /\ who = 0 /\ passed = {} /\ checked = 0 /\ step = 0
        /\ idx = 0 /\ lvl = 1
    BY DEF Init
  <2> QED BY <2>2, <2>3, <2>4 DEF OrderInv
<1>2. TreeInv
  BY EmptyIsTree DEF Init, TreeInv
<1>3. ProofInv
  BY EmptyIsProof DEF Init, ProofInv
<1>4. RootsInv
  BY EmptyNode DEF Init, RootsInv
<1> QED BY <1>1, <1>2, <1>3, <1>4 DEF Init, IInv, FoldInv, PassedBoundsOwnBalance, FaultsInv

\* A step that only builds the tree, before anyone checks.
LEMMA BuildingKeepsIInv ==
  ASSUME IInv, phase # "published", UNCHANGED check,
         owed' \in Seq(BalanceMaps), Len(owed') <= MaxLeaves, owed' # << >>,
         TreeInv', IsNode(published'), FaultsInv',
         phase' \in {"building", "overflow", "published"}, levels' # << >>
  PROVE  IInv'
<1> USE DEF check
<1>1. who = 0 /\ passed = {} /\ checked = 0 /\ step = 0 /\ ~recomputed
  BY DEF IInv, OrderInv
<1>2. OrderInv'
  <2>1. Len(owed') \in Nat
    OBVIOUS
  <2> QED BY <1>1, <2>1 DEF IInv, OrderInv
<1>3. ProofInv'
  BY DEF IInv, ProofInv, IsProof
<1>4. RootsInv'
  BY DEF IInv, RootsInv
<1> QED BY <1>1, <1>2, <1>3, <1>4 DEF IInv, FoldInv, PassedBoundsOwnBalance

\* The leaves are the customers' balances, or those entered in their place.
LEMMA BeginIsTree ==
  ASSUME NEW n \in 1..MaxLeaves, NEW balances \in [1..n -> BalanceMaps],
         NEW W \in SUBSET (1..n), NEW wrong \in [W -> BalanceMaps],
         Cardinality(W) <= MaxFaults[n], Begin(balances, wrong), next = << >>
  PROVE  TreeInv' /\ FaultsInv' /\ owed' \in Seq(BalanceMaps) /\ Len(owed') = n /\ owed' # << >>
<1> DEFINE S == {node \in {Leaf(k, b) : k \in 1..n, b \in BalanceMaps} : TRUE}
<1> DEFINE entered == [k \in 1..n |-> IF k \in W THEN wrong[k] ELSE balances[k]]
<1> DEFINE leaves == [k \in 1..n |-> Leaf(k, entered[k])]
<1>0. n \in Nat \ {0} /\ MaxFaults[n] \in Nat
  BY ConstantsAssumption
<1>1. levels' = <<leaves>> /\ next' = << >>
  BY DEF Begin
<1>2. \A k \in 1..n : entered[k] \in BalanceMaps
  OBVIOUS
<1>3. \A k \in 1..n : leaves[k] \in S
  BY <1>2
<1>4. \A node \in S : IsNode(node)
  BY ConstantsAssumption, MadeNodes
<1>5. DOMAIN leaves = 1..n /\ leaves = [k \in 1..n |-> leaves[k]]
  OBVIOUS
<1> HIDE DEF S, leaves
<1>6. leaves \in Seq(S)
  BY <1>0, <1>3, <1>5
<1>7. <<leaves>> \in Seq(Seq(S)) /\ << >> \in Seq(S)
  BY <1>6
<1>8. owed' \in Seq(BalanceMaps) /\ Len(owed') = n /\ owed' # << >>
  BY <1>0 DEF Begin
<1>9. FaultsInv'
  <2> DEFINE V == {k \in DOMAIN wrong : wrong[k] # balances[k]}
  <2>1. IsFiniteSet(1..n)
    BY <1>0, FS_Interval
  <2>2. IsFiniteSet(W)
    BY <2>1, FS_Subset
  <2>3. V \subseteq W
    OBVIOUS
  <2>4. IsFiniteSet(V) /\ Cardinality(V) <= Cardinality(W)
    <3> HIDE DEF V
    <3> QED BY <2>2, <2>3, FS_Subset
  <2>5. Cardinality(V) \in Nat /\ Cardinality(W) \in Nat
    BY <2>2, <2>4, FS_CardinalityType
  <2>6. faults' = Cardinality(V)
    BY DEF Begin
  <2> HIDE DEF V
  <2> QED BY <1>0, <1>8, <2>4, <2>5, <2>6 DEF FaultsInv
<1> QED BY <1>1, <1>4, <1>7, <1>8, <1>9 DEF TreeInv, IsTree

\* Whichever node build adds, its sums are amounts.
LEMMA BuildIsTree ==
  ASSUME IInv, Pair \/ PairMiscounted \/ Promote \/ PushLevel
  PROVE  TreeInv'
<1>0. levels # << >> /\ TreeInv
  BY DEF IInv, OrderInv, Pair, PairMiscounted, Promote, PushLevel
<1>1. PICK S : /\ levels \in Seq(Seq(S)) /\ next \in Seq(S)
               /\ \A node \in S : IsNode(node)
  BY <1>0 DEF TreeInv, IsTree
<1>2. IsTree(levels, next)
  BY <1>0 DEF TreeInv
<1>3. First \in Nat \ {0}
  BY <1>1 DEF First
<1>4. \A j \in 1..Len(Last) : IsNode(Last[j])
  BY <1>0, LevelsAre DEF Last
<1>4a. Len(Last) \in Nat
  BY <1>0, LevelsAre DEF Last
<1>5. CASE Pair
  <2> DEFINE l == Last[First]
             r == Last[First + 1]
  <2>1. IsNode(l) /\ IsNode(r)
    BY <1>3, <1>4, <1>4a, <1>5 DEF Pair
  <2>2. IsNode(Combine(l, r))
    BY <1>5, <2>1, MadeNodes DEF Pair
  <2>3. levels' = levels /\ next' = Append(next, Combine(l, r))
    BY <1>5 DEF Pair
  <2> HIDE DEF l, r
  <2> QED BY <1>2, <2>2, <2>3, AppendIsTree DEF TreeInv
<1>6. CASE PairMiscounted
  <2>1. PICK s \in Figures : next' = Append(next, Node(Last[First], Last[First + 1], s))
    BY <1>6 DEF PairMiscounted
  <2>2. IsNode(Node(Last[First], Last[First + 1], s))
    BY ConstantsAssumption, MadeNodes
  <2>3. levels' = levels
    BY <1>6 DEF PairMiscounted
  <2> QED BY <1>2, <2>1, <2>2, <2>3, AppendIsTree DEF TreeInv
<1>7. CASE Promote
  <2>1. IsNode(Last[First])
    BY <1>3, <1>4, <1>4a, <1>7 DEF Promote
  <2>2. levels' = levels /\ next' = Append(next, Last[First])
    BY <1>7 DEF Promote, Odd
  <2> QED BY <1>2, <2>1, <2>2, AppendIsTree DEF TreeInv
<1>8. CASE PushLevel
  <2>1. levels' = Append(levels, next) /\ next' = << >>
    BY <1>8 DEF PushLevel
  <2>2. levels' \in Seq(Seq(S)) /\ next' \in Seq(S)
    BY <1>1, <2>1
  <2> QED BY <1>1, <2>2 DEF TreeInv, IsTree
<1> QED BY <1>5, <1>6, <1>7, <1>8

\* A check that is answered leaves the proof behind.
LEMMA AnswerKeepsIInv ==
  ASSUME IInv, NEW ok \in BOOLEAN, Answer(ok), who # 0, phase = "published",
         ok => Bounds(owed[who], published.sums)
  PROVE  IInv'
<1> USE DEF Answer, tree
<1>1. OrderInv'
  BY DEF IInv, OrderInv
<1>2. TreeInv' /\ FaultsInv'
  BY DEF IInv, TreeInv, FaultsInv
<1>3. ProofInv'
  BY EmptyIsProof DEF ProofInv
<1>4. FoldInv'
  BY DEF FoldInv
<1>5. PassedBoundsOwnBalance'
  BY DEF IInv, PassedBoundsOwnBalance, Bounds
<1>6. RootsInv'
  BY EmptyNode DEF IInv, RootsInv
<1> QED BY <1>1, <1>2, <1>3, <1>4, <1>5, <1>6 DEF IInv

\* Every step keeps the invariant.
LEMMA NextIInv == IInv /\ [Next]_vars => IInv'
<1> SUFFICES ASSUME IInv, [Next]_vars PROVE IInv'
  OBVIOUS
<1>0. /\ owed \in Seq(BalanceMaps) /\ Len(owed) <= MaxLeaves /\ (who # 0 => phase = "published")
      /\ phase = "building" => owed # << >> /\ levels # << >>
      /\ phase = "published" => owed # << >> /\ levels # << >>
      /\ FaultsInv /\ TreeInv /\ IsNode(published) /\ IsNode(current) /\ ProofInv
  BY DEF IInv, OrderInv, RootsInv
<1>1. ASSUME NEW n \in 1..MaxLeaves, NEW balances \in [1..n -> BalanceMaps],
             NEW W \in SUBSET (1..n), NEW wrong \in [W -> BalanceMaps],
             Cardinality(W) <= MaxFaults[n], phase = "start", Begin(balances, wrong)
      PROVE  IInv'
  <2>1. TreeInv' /\ FaultsInv' /\ owed' \in Seq(BalanceMaps) /\ Len(owed') = n /\ owed' # << >>
    <3>1. next = << >>
      BY <1>1 DEF IInv, OrderInv
    <3> QED BY <1>1, <3>1, BeginIsTree
  <2>2. Len(owed') <= MaxLeaves
    BY <2>1, ConstantsAssumption
  <2>3. /\ phase # "published" /\ UNCHANGED check /\ IsNode(published')
        /\ phase' \in {"building", "overflow", "published"} /\ levels' # << >>
    BY <1>0, <1>1 DEF Begin
  <2> QED BY <2>1, <2>2, <2>3, BuildingKeepsIInv
<1>2. CASE Pair \/ PairMiscounted \/ Promote \/ PushLevel
  <2>1. TreeInv'
    BY <1>2, BuildIsTree
  <2>2. phase = "building" /\ phase' = phase /\ levels' # << >>
    <3>1. levels # << >>
      BY <1>2 DEF IInv, OrderInv, Pair, PairMiscounted, Promote, PushLevel
    <3>2. \A lev : Append(levels, lev) # << >>
      BY <3>1 DEF IInv, TreeInv, IsTree
    <3> QED BY <1>2, <3>1, <3>2 DEF Pair, PairMiscounted, Promote, PushLevel
  <2>3. UNCHANGED <<owed, published, check>>
    BY <1>2 DEF Pair, PairMiscounted, Promote, PushLevel
  <2>4. FaultsInv'
    <3>1. CASE PairMiscounted
      BY <1>0, <2>2, <3>1, GivenIsAllowed DEF PairMiscounted, IInv
    <3>2. CASE UNCHANGED faults
      BY <1>0, <2>3, <3>2 DEF FaultsInv
    <3> QED BY <1>2, <3>1, <3>2 DEF Pair, Promote, PushLevel
  <2> QED BY <1>0, <2>1, <2>2, <2>3, <2>4, BuildingKeepsIInv
<1>3. CASE PairOverflows \/ PublishRoot
  <2>1. /\ phase = "building" /\ UNCHANGED <<check, owed, levels, next>>
        /\ phase' \in {"overflow", "published"} /\ levels' # << >>
    BY <1>3 DEF PairOverflows, PublishRoot, IInv, OrderInv
  <2>2. TreeInv'
    BY <2>1 DEF IInv, TreeInv
  <2>3. IsNode(published') /\ FaultsInv'
    <3>1. CASE PairOverflows
      BY <1>0, <3>1 DEF PairOverflows, FaultsInv
    <3>2. CASE PublishRoot
      <4>1. PICK s \in Figures \cup {Last[1].sums} :
              Given(s, Last[1].sums) /\ published' = [hash |-> Last[1].hash, sums |-> s]
        BY <3>2 DEF PublishRoot
      <4>2. IsNode(Last[1])
        <5>1. 1 \in 1..Len(Last)
          BY <3>2 DEF PublishRoot
        <5> QED BY <1>0, <2>1, <5>1, LevelsAre DEF Last
      <4>3. s \in AmountMaps
        BY <4>1, <4>2, ConstantsAssumption DEF IsNode
      <4> QED BY <1>0, <2>1, <4>1, <4>3, MadeNodes, GivenIsAllowed DEF IInv
    <3> QED BY <1>3, <3>1, <3>2
  <2> QED BY <1>0, <2>1, <2>2, <2>3, BuildingKeepsIInv
<1>4. CASE AskForProof
  <2> USE <1>4 DEF AskForProof, tree
  <2>1. OrderInv'
    BY DEF IInv, OrderInv
  <2>2. ProofInv'
    BY EmptyIsProof DEF ProofInv
  <2> QED BY <2>1, <2>2 DEF IInv, TreeInv, FoldInv, FaultsInv, RootsInv, PassedBoundsOwnBalance
<1>5. CASE ProveStep
  <2> DEFINE node == levels[lvl][Sibling(idx) + 1]
             e(s) == [sibling |-> [hash |-> node.hash, sums |-> s], onLeft |-> Sibling(idx) < idx]
  <2>1. OrderInv'
    BY <1>5 DEF ProveStep, tree, IInv, OrderInv
  <2>2. PICK S : steps \in Seq(S) /\ \A x \in S : IsNode(x.sibling) /\ x.onLeft \in BOOLEAN
    BY <1>0 DEF ProofInv, IsProof
  <2>3. ProofInv' /\ FaultsInv'
    <3>1. CASE Sibling(idx) < Len(levels[lvl])
      <4>1. PICK s \in Figures \cup {node.sums} : Given(s, node.sums) /\ steps' = Append(steps, e(s))
        BY <1>5, <3>1 DEF ProveStep
      <4>2. s \in AmountMaps
        <5>1. lvl \in 1..Len(levels)
          BY <1>0, <1>5, LevelsAre DEF ProveStep, IInv, OrderInv
        <5>2. Sibling(idx) \in Nat
          BY DEF Sibling, IInv, OrderInv
        <5>3. Len(levels[lvl]) \in Nat
          BY <1>0, <5>1, LevelsAre
        <5>4. Sibling(idx) + 1 \in 1..Len(levels[lvl])
          BY <3>1, <5>2, <5>3
        <5>5. IsNode(node)
          BY <1>0, <5>1, <5>4, LevelsAre
        <5> QED BY <4>1, <5>5, ConstantsAssumption DEF IsNode
      <4> DEFINE T == S \cup {e(s)}
      <4>3. \A x \in T : IsNode(x.sibling) /\ x.onLeft \in BOOLEAN
        <5>1. IsNode(e(s).sibling) /\ e(s).onLeft \in BOOLEAN
          BY <4>2, MadeNodes
        <5> HIDE DEF e
        <5> QED BY <2>2, <5>1
      <4>4. Seq(S) \subseteq Seq(T) /\ e(s) \in T
        OBVIOUS
      <4> HIDE DEF T, e
      <4>5. steps' \in Seq(T)
        BY <2>2, <4>1, <4>4
      <4>6. FaultsInv'
        <5>1. owed' = owed /\ owed # << >>
          BY <1>0, <1>5 DEF ProveStep, tree
        <5> QED BY <4>1, <5>1, GivenIsAllowed DEF IInv
      <4> QED BY <4>3, <4>5, <4>6 DEF ProofInv, IsProof
    <3>2. CASE ~(Sibling(idx) < Len(levels[lvl]))
      <4>1. steps' = steps /\ UNCHANGED <<faults, owed>>
        BY <1>5, <3>2 DEF ProveStep, tree
      <4> QED BY <1>0, <2>2, <4>1 DEF ProofInv, IsProof, FaultsInv
    <3> QED BY <3>1, <3>2
  <2> QED BY <1>5, <2>1, <2>3 DEF ProveStep, tree, IInv, TreeInv, RootsInv, FoldInv, PassedBoundsOwnBalance
<1>6. CASE StartFold
  <2> USE <1>6 DEF StartFold, tree
  <2>1. OrderInv'
    BY DEF IInv, OrderInv
  <2>2. ProofInv'
    BY DEF IInv, ProofInv, IsProof
  <2>3. owed[who] \in AmountMaps
    BY ConstantsAssumption DEF IInv, OrderInv
  <2>4. current'.sums = owed[who]
    BY DEF Leaf
  <2>5. \A a \in Assets : At(owed[who], a) <= At(owed[who], a)
    <3> SUFFICES ASSUME NEW a \in Assets PROVE At(owed[who], a) <= At(owed[who], a)
      OBVIOUS
    <3>1. At(owed[who], a) \in Nat
      BY <2>3, AtNat
    <3> QED BY <3>1
  <2>6. FoldInv'
    BY <2>3, <2>4, <2>5 DEF FoldInv, Bounds
  <2>7. RootsInv'
    BY <1>0, <2>3, MadeNodes DEF RootsInv
  <2> QED BY <2>1, <2>2, <2>6, <2>7 DEF IInv, TreeInv, FaultsInv, PassedBoundsOwnBalance
<1>7. CASE FoldStep
  <2>1. who # 0 /\ step # 0
    BY <1>0, <1>7, StepsAre DEF IInv, OrderInv, FoldStep
  <2>2. OrderInv'
    BY <1>7, <2>1 DEF IInv, OrderInv, FoldStep, tree
  <2>3. ProofInv'
    BY <1>7 DEF IInv, ProofInv, FoldStep
  <2>4. FoldInv' /\ RootsInv'
    BY <1>0, <1>7, FoldStepBounds DEF FoldInv, RootsInv, FoldStep, tree, Bounds
  <2> QED BY <1>7, <2>2, <2>3, <2>4 DEF IInv, TreeInv, FaultsInv, PassedBoundsOwnBalance, FoldStep, tree
<1>8. CASE FoldOverflows
  <2>1. who # 0
    BY <1>0, <1>8, StepsAre DEF IInv, OrderInv, FoldOverflows
  <2> QED BY <1>0, <1>8, <2>1, AnswerKeepsIInv DEF FoldOverflows
<1>9. CASE Compare
  <2>1. who # 0 /\ Answer(CarriesTotals /\ Agrees(current))
    BY <1>9 DEF Compare
  <2>2. step # 0
    BY <1>0, <1>9, StepsAre DEF Compare
  <2>3. Agrees(current) => Bounds(owed[who], published.sums)
    BY <2>2 DEF IInv, FoldInv, Agrees, SameSums, Bounds
  <2>4. (CarriesTotals /\ Agrees(current)) \in BOOLEAN
    OBVIOUS
  <2> QED BY <1>0, <2>1, <2>3, <2>4, AnswerKeepsIInv
<1>10. CASE Recompute
  BY <1>10 DEF Recompute, tree, IInv, OrderInv, FaultsInv, RootsInv, TreeInv, ProofInv, FoldInv, PassedBoundsOwnBalance
<1>11. CASE UNCHANGED vars
  BY <1>11 DEF vars, tree, IInv, OrderInv, FaultsInv, RootsInv, TreeInv, ProofInv, FoldInv, PassedBoundsOwnBalance
<1> QED
  BY <1>1, <1>2, <1>3, <1>4, <1>5, <1>6, <1>7, <1>8, <1>9, <1>10, <1>11 DEF Next

(***************************************************************************)
(* Every node of the tree and of a proof carries amounts, and no more      *)
(* figures are wrong than are allowed.                                     *)
(***************************************************************************)
THEOREM TreeIsTyped == Spec => []TypeOK
<1>1. IInv => TypeOK
  <2> SUFFICES ASSUME IInv PROVE TypeOK
    OBVIOUS
  <2>1. /\ \A k \in DOMAIN levels : \A j \in DOMAIN levels[k] : IsNode(levels[k][j])
        /\ \A j \in DOMAIN next : IsNode(next[j])
        /\ \A k \in DOMAIN steps : IsNode(steps[k].sibling) /\ steps[k].onLeft \in BOOLEAN
    BY LevelsAre, StepsAre DEF IInv
  <2> QED BY <2>1 DEF IInv, OrderInv, FaultsInv, RootsInv, TypeOK
<1> QED BY <1>1, InitIInv, NextIInv, PTL DEF Spec

(***************************************************************************)
(* No customer's check passes against a report that publishes less of an   *)
(* asset than that customer is owed.                                       *)
(***************************************************************************)
THEOREM CheckBoundsTotals == Spec => []PassedBoundsOwnBalance
<1>1. IInv => PassedBoundsOwnBalance
  BY DEF IInv
<1> QED BY <1>1, InitIInv, NextIInv, PTL DEF Spec

-----------------------------------------------------------------------------
(***************************************************************************)
(* What is in the tree.                                                    *)
(***************************************************************************)

\* Each node of t stands over two nodes of s, whatever sums it states, or is
\* the odd one of s.
IsAbove(s, t) ==
  \A j \in 1..Len(t) :
    /\ 2 * j - 1 \in 1..Len(s)
    /\ 2 * j <= Len(s) => t[j] = Node(s[2 * j - 1], s[2 * j], t[j].sums)
    /\ 2 * j > Len(s) => t[j] = s[2 * j - 1]

\* The leaves are the customers', in order; each level stands over the one
\* below and is shorter; the level being built stands over the last.
LevelsInv ==
  phase # "start" =>
    /\ Len(levels[1]) = Len(owed)
    /\ \A k \in 1..Len(owed) : levels[1][k] = Leaf(k, levels[1][k].sums)
    /\ \A d \in 1..Len(levels) : 1 <= Len(levels[d]) /\ Len(levels[d]) + d <= Len(owed) + 1
    /\ \A d \in 2..Len(levels) :
         /\ IsAbove(levels[d - 1], levels[d])
         /\ Len(levels[d]) = (Len(levels[d - 1]) + 1) \div 2
    /\ IsAbove(Last, next)
    /\ next # << >> => Len(Last) > 1

\* What is published is the hash of the root, and an overflow is one.
PublishedInv ==
  /\ phase = "published" => Len(Last) = 1 /\ published.hash = Last[1].hash
  /\ phase = "overflow" =>
       First < Len(Last) /\ ~Fits(Added(Last[First].sums, Last[First + 1].sums))

HashesBuilt ==
  UNION {{levels[d][j].hash : j \in 1..Len(levels[d])} : d \in 1..Len(levels)}

\* If the fold is in the tree, so is the customer it started from.
CommitInv ==
  step # 0 => (current.hash \in HashesBuilt => Leaf(who, owed[who]).hash \in HashesBuilt)

ShapeInv == LevelsInv /\ PublishedInv /\ CommitInv /\ PassedIsCommitted

\* The level being built keeps standing over the last one.
LEMMA AppendIsAbove ==
  ASSUME TreeInv, NEW s, Len(s) \in Nat, IsAbove(s, next), NEW node,
         LET j == Len(next) + 1 IN
         /\ 2 * j - 1 \in 1..Len(s)
         /\ 2 * j <= Len(s) => node = Node(s[2 * j - 1], s[2 * j], node.sums)
         /\ 2 * j > Len(s) => node = s[2 * j - 1]
  PROVE  IsAbove(s, Append(next, node))
<1>1. PICK S : next \in Seq(S)
  BY DEF TreeInv, IsTree
<1> DEFINE T == S \cup {node}
           longer == Append(next, node)
<1>2. next \in Seq(T) /\ node \in T
  <2>1. Seq(S) \subseteq Seq(T)
    OBVIOUS
  <2> QED BY <1>1, <2>1
<1> HIDE DEF T
<1>3. /\ Len(longer) = Len(next) + 1 /\ Len(next) \in Nat
      /\ longer[Len(next) + 1] = node
      /\ \A j \in 1..Len(next) : longer[j] = next[j]
  BY <1>2
<1> HIDE DEF longer
<1> SUFFICES ASSUME NEW j \in 1..Len(longer)
             PROVE  /\ 2 * j - 1 \in 1..Len(s)
                    /\ 2 * j <= Len(s) => longer[j] = Node(s[2 * j - 1], s[2 * j], longer[j].sums)
                    /\ 2 * j > Len(s) => longer[j] = s[2 * j - 1]
  BY DEF IsAbove, longer
<1>4. CASE j = Len(next) + 1
  BY <1>3, <1>4
<1>5. CASE j # Len(next) + 1
  <2>1. j \in 1..Len(next)
    BY <1>3, <1>5
  <2> QED BY <1>3, <2>1 DEF IsAbove
<1> QED BY <1>4, <1>5

\* Customers are entered as leaves, in their order.
LEMMA BeginShape ==
  ASSUME NEW n \in 1..MaxLeaves, NEW balances \in [1..n -> BalanceMaps],
         NEW W \in SUBSET (1..n), NEW wrong \in [W -> BalanceMaps],
         Begin(balances, wrong), next = << >>, passed = {}, step = 0
  PROVE  ShapeInv'
<1> DEFINE entered == [k \in 1..n |-> IF k \in W THEN wrong[k] ELSE balances[k]]
           leaves == [k \in 1..n |-> Leaf(k, entered[k])]
<1>0. n \in Nat \ {0}
  BY ConstantsAssumption
<1>1. levels' = <<leaves>> /\ owed' = balances /\ next' = << >> /\ phase' = "building"
      /\ passed' = passed /\ step' = step
  BY DEF Begin, check
<1>2. Len(balances) = n
  BY <1>0
<1>3. \A k \in 1..n : leaves[k] = Leaf(k, entered[k])
  OBVIOUS
<1>4. Len(leaves) = n
  <2>1. leaves \in [1..n -> {leaves[k] : k \in 1..n}]
    OBVIOUS
  <2> HIDE DEF leaves
  <2> QED BY <1>0, <2>1
<1> HIDE DEF leaves, entered
<1>5. levels'[1] = leaves /\ Len(levels') = 1 /\ Last' = leaves
  BY <1>1 DEF Last
<1>6. \A k \in 1..n : leaves[k] = Leaf(k, leaves[k].sums)
  <2>1. \A k \in 1..n : Leaf(k, entered[k]).sums = entered[k]
    BY DEF Leaf
  <2> QED BY <1>3, <2>1
<1>7. LevelsInv'
  BY <1>0, <1>1, <1>2, <1>4, <1>5, <1>6 DEF LevelsInv, IsAbove
<1> QED BY <1>1, <1>7 DEF ShapeInv, PublishedInv, CommitInv, PassedIsCommitted

\* Every step of building keeps the shape.
LEMMA BuildShape ==
  ASSUME IInv, ShapeInv, Pair \/ PairMiscounted \/ Promote \/ PushLevel
  PROVE  LevelsInv'
<1>0. phase = "building" /\ levels # << >> /\ TreeInv /\ LevelsInv
  BY DEF IInv, OrderInv, ShapeInv, Pair, PairMiscounted, Promote, PushLevel
<1>1. /\ Len(levels) \in 1..Len(levels) /\ Len(levels) \in Nat
      /\ Len(Last) \in Nat \ {0} /\ Len(next) \in Nat /\ Len(owed) \in Nat
  BY <1>0, LevelsAre DEF LevelsInv, Last, IInv, OrderInv
<1>2. IsAbove(Last, next) /\ (next # << >> => Len(Last) > 1)
  BY <1>0 DEF LevelsInv
<1>3. First = 2 * (Len(next) + 1) - 1 /\ First + 1 = 2 * (Len(next) + 1)
  BY <1>1 DEF First
<1>4. ASSUME NEW node, levels' = levels, owed' = owed, phase' = phase, next' = Append(next, node),
             Len(Last) > 1, IsAbove(Last, Append(next, node))
      PROVE  LevelsInv'
  <2>1. Last' = Last
    BY <1>4 DEF Last
  <2> QED BY <1>0, <1>4, <2>1 DEF LevelsInv, IsAbove
<1>5. CASE Pair
  <2> DEFINE node == Combine(Last[First], Last[First + 1])
  <2>1. node = Node(Last[First], Last[First + 1], node.sums)
    BY DEF Combine, Node
  <2>2. levels' = levels /\ owed' = owed /\ phase' = phase /\ next' = Append(next, node) /\ First < Len(Last)
    BY <1>5 DEF Pair
  <2> HIDE DEF node
  <2>3. IsAbove(Last, Append(next, node)) /\ Len(Last) > 1
    BY <1>0, <1>1, <1>2, <1>3, <2>1, <2>2, AppendIsAbove
  <2> QED BY <1>4, <2>2, <2>3
<1>6. CASE PairMiscounted
  <2>1. PICK s \in Figures : next' = Append(next, Node(Last[First], Last[First + 1], s))
    BY <1>6 DEF PairMiscounted
  <2> DEFINE node == Node(Last[First], Last[First + 1], s)
  <2>2. node = Node(Last[First], Last[First + 1], node.sums)
    BY DEF Node
  <2>3. levels' = levels /\ owed' = owed /\ phase' = phase /\ next' = Append(next, node) /\ First < Len(Last)
    BY <1>6, <2>1 DEF PairMiscounted
  <2> HIDE DEF node
  <2>4. IsAbove(Last, Append(next, node)) /\ Len(Last) > 1
    BY <1>0, <1>1, <1>2, <1>3, <2>2, <2>3, AppendIsAbove
  <2> QED BY <1>4, <2>3, <2>4
<1>7. CASE Promote
  <2>1. levels' = levels /\ owed' = owed /\ phase' = phase /\ next' = Append(next, Last[First])
        /\ First = Len(Last) /\ Len(Last) > 1
    BY <1>7 DEF Promote, Odd
  <2>2. IsAbove(Last, Append(next, Last[First]))
    BY <1>0, <1>1, <1>2, <1>3, <2>1, AppendIsAbove
  <2> QED BY <1>4, <2>1, <2>2
<1>8. CASE PushLevel
  <2> DEFINE n == Len(levels)
             l == Len(Last)
             m == Len(next)
  <2>1. levels' = Append(levels, next) /\ next' = << >> /\ owed' = owed /\ phase' = phase /\ First > l
    BY <1>8 DEF PushLevel
  <2>2. /\ Len(levels') = n + 1 /\ levels'[n + 1] = next
        /\ \A d \in 1..n : levels'[d] = levels[d]
    BY <1>0, <2>1 DEF TreeInv, IsTree
  <2>3. Last' = next
    BY <2>1, <2>2 DEF Last
  <2>4. m = (l + 1) \div 2 /\ m # 0 /\ l > 1
    <3>1. m # 0
      BY <1>1, <1>3, <2>1
    <3>2. 2 * m - 1 \in 1..l
      BY <1>1, <1>2, <3>1 DEF IsAbove
    <3>3. 2 * m = l \/ 2 * m = l + 1
      BY <1>1, <1>3, <2>1, <3>2
    <3>4. \A x, y \in Nat : 2 * x = y \/ 2 * x = y + 1 => x = (y + 1) \div 2
      OBVIOUS
    <3>5. next # << >>
      BY <3>1
    <3> QED BY <1>1, <1>2, <3>1, <3>3, <3>4, <3>5
  <2>5. \A d \in 1..(n + 1) : 1 <= Len(levels'[d]) /\ Len(levels'[d]) + d <= Len(owed) + 1
    <3>1. l + n <= Len(owed) + 1
      BY <1>0, <1>1 DEF LevelsInv, Last
    <3>2. m + 1 <= l
      <4>1. \A y \in Nat : y > 1 => (y + 1) \div 2 + 1 <= y
        OBVIOUS
      <4> QED BY <1>1, <2>4, <4>1
    <3>3. m + (n + 1) <= Len(owed) + 1 /\ 1 <= m
      BY <1>1, <2>4, <3>1, <3>2
    <3>4. ASSUME NEW d \in 1..n PROVE 1 <= Len(levels'[d]) /\ Len(levels'[d]) + d <= Len(owed) + 1
      BY <1>0, <2>2 DEF LevelsInv
    <3>5. \A d \in 1..(n + 1) : d \in 1..n \/ d = n + 1
      BY <1>1
    <3> HIDE DEF n, m
    <3> QED BY <2>2, <3>3, <3>4, <3>5 DEF m
  <2>6. ASSUME NEW d \in 2..(n + 1)
        PROVE  /\ IsAbove(levels'[d - 1], levels'[d])
               /\ Len(levels'[d]) = (Len(levels'[d - 1]) + 1) \div 2
    <3>1. CASE d \in 2..n
      <4>1. d \in 1..n /\ d - 1 \in 1..n
        BY <3>1
      <4>2. levels'[d] = levels[d] /\ levels'[d - 1] = levels[d - 1]
        BY <2>2, <4>1
      <4> QED BY <1>0, <3>1, <4>2 DEF LevelsInv
    <3>2. CASE d = n + 1
      <4>1. d - 1 = n /\ n \in 1..n
        BY <1>1, <3>2
      <4>2. levels'[d] = next /\ levels'[d - 1] = Last
        BY <2>2, <3>2, <4>1 DEF Last
      <4> QED BY <1>2, <2>4, <4>2
    <3>3. d \in 2..n \/ d = n + 1
      BY <1>1
    <3> HIDE DEF n
    <3> QED BY <3>1, <3>2, <3>3
  <2>7. levels'[1] = levels[1]
    BY <1>1, <2>2
  <2>8. IsAbove(Last', next') /\ next' = << >>
    BY <2>1 DEF IsAbove
  <2> QED BY <1>0, <2>1, <2>2, <2>5, <2>6, <2>7, <2>8 DEF LevelsInv
<1> QED BY <1>5, <1>6, <1>7, <1>8

\* The tree of hashes: inner ones are made of two of them, the others are the
\* leaves'.
LEMMA BuiltIsClosed ==
  ASSUME IInv, ShapeInv, phase # "start"
  PROVE  /\ IsClosed(HashesBuilt)
         /\ \A h \in HashesBuilt : h.kind # "node" => \E k \in 1..Len(owed) : h = levels[1][k].hash
         /\ \A d \in 1..Len(levels) : \A j \in 1..Len(levels[d]) : levels[d][j].hash \in HashesBuilt
<1> DEFINE H == HashesBuilt
           n == Len(levels)
           Good(h) == /\ h.kind = "node" => h.left \in H /\ h.right \in H
                      /\ h.kind # "node" => \E k \in 1..Len(owed) : h = levels[1][k].hash
           P == {d \in 0..n : d # 0 => \A j \in 1..Len(levels[d]) : Good(levels[d][j].hash)}
<1>0. LevelsInv /\ n \in Nat /\ \A d \in 1..n : Len(levels[d]) \in Nat
  BY LevelsAre DEF IInv, ShapeInv
<1>1. \A d \in 1..n : \A j \in 1..Len(levels[d]) : levels[d][j].hash \in H
  BY DEF HashesBuilt
<1> HIDE DEF H
<1>2. 0 \in P
  BY <1>0
<1>3. ASSUME NEW d \in 1..n, d - 1 \in P PROVE d \in P
  <2> SUFFICES ASSUME NEW j \in 1..Len(levels[d]) PROVE Good(levels[d][j].hash)
    BY <1>0
  <2>1. CASE d = 1
    <3>1. levels[1][j] = Leaf(j, levels[1][j].sums) /\ j \in 1..Len(owed)
      BY <1>0, <2>1 DEF LevelsInv
    <3>2. levels[1][j].hash.kind = "leaf"
      BY <3>1 DEF Leaf
    <3> QED BY <2>1, <3>1, <3>2
  <2>2. CASE d # 1
    <3> DEFINE s == levels[d - 1]
    <3>0. d \in 2..n /\ d - 1 \in 1..n /\ d - 1 # 0
      BY <2>2
    <3>1. /\ 2 * j - 1 \in 1..Len(s)
          /\ 2 * j <= Len(s) => levels[d][j] = Node(s[2 * j - 1], s[2 * j], levels[d][j].sums)
          /\ 2 * j > Len(s) => levels[d][j] = s[2 * j - 1]
      BY <1>0, <3>0 DEF LevelsInv, IsAbove
    <3>2. \A k \in 1..Len(s) : s[k].hash \in H /\ Good(s[k].hash)
      BY <1>1, <1>3, <3>0
    <3>3. Len(s) \in Nat /\ j \in Nat
      BY <1>0, <3>0
    <3> HIDE DEF s
    <3>4. CASE 2 * j <= Len(s)
      <4>1. 2 * j \in 1..Len(s)
        BY <3>1, <3>3, <3>4
      <4>2. s[2 * j].hash \in H /\ s[2 * j - 1].hash \in H
        BY <3>1, <3>2, <4>1
      <4>3. /\ levels[d][j].hash.kind = "node"
            /\ levels[d][j].hash.left = s[2 * j - 1].hash
            /\ levels[d][j].hash.right = s[2 * j].hash
        BY <3>1, <3>4 DEF Node
      <4> QED BY <4>2, <4>3
    <3>5. CASE 2 * j > Len(s)
      <4> HIDE DEF Good
      <4> QED BY <3>1, <3>2, <3>5
    <3> QED BY <3>3, <3>4, <3>5
  <2> QED BY <2>1, <2>2
<1>4. \A d \in 0..n : d \in P
  <2> HIDE DEF P
  <2> QED BY <1>0, <1>2, <1>3, UpTo
<1>5. ASSUME NEW h \in H PROVE Good(h)
  <2>1. PICK d \in 1..n : \E j \in 1..Len(levels[d]) : h = levels[d][j].hash
    BY DEF H, HashesBuilt
  <2>2. d \in 0..n /\ d # 0
    BY <1>0
  <2> HIDE DEF Good
  <2> QED BY <1>4, <2>1, <2>2
<1> QED BY <1>1, <1>5 DEF IsClosed, H

\* An iteration of the fold has hashed the node it had.
LEMMA FoldStepHashes ==
  ASSUME FoldStep
  PROVE  /\ current'.hash.kind = "node"
         /\ current.hash \in {current'.hash.left, current'.hash.right}
<1>1. current' = Combine(LeftOf(step), RightOf(step))
  BY DEF FoldStep
<1>2. LeftOf(step) = current \/ RightOf(step) = current
  BY DEF LeftOf, RightOf
<1> QED BY <1>1, <1>2 DEF Combine, Node

\* A leaf's hash covers the customer and the balances.
LEMMA LeafHash == \A u, v, b, c : Leaf(u, b).hash = Leaf(v, c).hash => u = v /\ b = c
<1> SUFFICES ASSUME NEW u, NEW v, NEW b, NEW c, Leaf(u, b).hash = Leaf(v, c).hash
             PROVE  u = v /\ b = c
  OBVIOUS
<1>1. Leaf(u, b).hash.user = u /\ Leaf(u, b).hash.balances = b
  BY DEF Leaf
<1>2. Leaf(v, c).hash.user = v /\ Leaf(v, c).hash.balances = c
  BY DEF Leaf
<1> QED BY <1>1, <1>2

\* A customer whose leaf is in the tree is entered with what it is owed.
LEMMA LeafIsEntered ==
  ASSUME IInv, ShapeInv, phase # "start", NEW k \in 1..Len(owed),
         Leaf(k, owed[k]).hash \in HashesBuilt
  PROVE  levels[1][k] = Leaf(k, owed[k])
<1>1. Leaf(k, owed[k]).hash.kind # "node"
  BY DEF Leaf
<1>2. PICK j \in 1..Len(owed) : Leaf(k, owed[k]).hash = levels[1][j].hash
  BY <1>1, BuiltIsClosed
<1>3. levels[1][j] = Leaf(j, levels[1][j].sums)
  BY DEF ShapeInv, LevelsInv
<1>4. Leaf(k, owed[k]).hash = Leaf(j, levels[1][j].sums).hash
  BY <1>2, <1>3
<1>6. k = j /\ owed[k] = levels[1][j].sums
  BY <1>4, LeafHash
<1> QED BY <1>3, <1>6

\* A step that leaves the tree, and what was checked before there is one.
LEMMA KeptShape ==
  ASSUME LevelsInv, UNCHANGED <<owed, levels, next>>, phase # "start", phase' # "start"
  PROVE  LevelsInv'
BY DEF LevelsInv, IsAbove, Last

LEMMA NextShape == IInv /\ ShapeInv /\ [Next]_vars => ShapeInv'
<1> SUFFICES ASSUME IInv, ShapeInv, [Next]_vars PROVE ShapeInv'
  OBVIOUS
<1>0. /\ phase # "published" => who = 0 /\ passed = {} /\ step = 0
      /\ phase = "start" => next = << >>
      /\ LevelsInv /\ PublishedInv /\ CommitInv /\ PassedIsCommitted /\ TreeInv
      /\ Len(levels) \in Nat
  BY LevelsAre DEF IInv, OrderInv, ShapeInv
<1>1. ASSUME NEW n \in 1..MaxLeaves, NEW balances \in [1..n -> BalanceMaps],
             NEW W \in SUBSET (1..n), NEW wrong \in [W -> BalanceMaps],
             phase = "start", Begin(balances, wrong)
      PROVE  ShapeInv'
  <2>1. next = << >> /\ passed = {} /\ step = 0
    BY <1>0, <1>1
  <2> QED BY <1>1, <2>1, BeginShape
<1>2. CASE Pair \/ PairMiscounted \/ Promote \/ PushLevel
  <2>1. phase = "building" /\ phase' = phase /\ UNCHANGED check
    BY <1>2 DEF Pair, PairMiscounted, Promote, PushLevel
  <2>2. LevelsInv'
    BY <1>2, BuildShape
  <2> QED BY <1>0, <2>1, <2>2 DEF ShapeInv, PublishedInv, CommitInv, PassedIsCommitted, check
<1>3. CASE PairOverflows
  <2>1. phase = "building" /\ phase' = "overflow" /\ UNCHANGED <<check, owed, levels, next>>
        /\ First < Len(Last) /\ ~Fits(Added(Last[First].sums, Last[First + 1].sums))
    BY <1>3 DEF PairOverflows
  <2>2. PublishedInv'
    BY <2>1 DEF PublishedInv, First, Last, Fits, Added, At
  <2>3. LevelsInv'
    BY <1>0, <2>1, KeptShape
  <2> QED BY <1>0, <2>1, <2>2, <2>3 DEF ShapeInv, CommitInv, PassedIsCommitted, check
<1>4. CASE PublishRoot
  <2>1. phase = "building" /\ phase' = "published" /\ UNCHANGED <<check, owed, levels, next>>
        /\ Len(Last) = 1 /\ published'.hash = Last[1].hash
    BY <1>4 DEF PublishRoot
  <2>2. PublishedInv'
    BY <2>1 DEF PublishedInv, Last
  <2>3. LevelsInv'
    BY <1>0, <2>1, KeptShape
  <2> QED BY <1>0, <2>1, <2>2, <2>3 DEF ShapeInv, CommitInv, PassedIsCommitted, check
<1>5. ASSUME UNCHANGED tree PROVE LevelsInv' /\ PublishedInv' /\ HashesBuilt' = HashesBuilt
  <2>1. LevelsInv'
    <3>1. phase' = phase /\ UNCHANGED <<owed, levels, next>>
      BY <1>5 DEF tree
    <3>2. CASE phase = "start"
      BY <3>1, <3>2 DEF LevelsInv
    <3>3. CASE phase # "start"
      BY <1>0, <3>1, <3>3, KeptShape
    <3> QED BY <3>2, <3>3
  <2>2. PublishedInv'
    BY <1>0, <1>5 DEF tree, PublishedInv, First, Last, Fits, Added, At
  <2>3. HashesBuilt' = HashesBuilt
    BY <1>5 DEF tree, HashesBuilt
  <2> QED BY <2>1, <2>2, <2>3
<1>6. ASSUME UNCHANGED <<tree, passed>>, CommitInv' PROVE ShapeInv'
  <2>1. PassedIsCommitted'
    BY <1>0, <1>6 DEF PassedIsCommitted, tree
  <2> QED BY <1>5, <1>6, <2>1 DEF ShapeInv
<1>7. CASE AskForProof \/ ProveStep
  <2>1. UNCHANGED <<tree, passed>> /\ step' = 0
    BY <1>7 DEF AskForProof, ProveStep
  <2> QED BY <1>6, <2>1 DEF CommitInv
<1>8. CASE StartFold
  <2>1. UNCHANGED <<tree, passed, who>> /\ current' = Leaf(who, owed[who])
    BY <1>8 DEF StartFold
  <2>2. CommitInv'
    BY <1>5, <2>1 DEF CommitInv, tree
  <2> QED BY <1>6, <2>1, <2>2
<1>9. CASE FoldStep
  <2>1. UNCHANGED <<tree, passed, who>> /\ step # 0 /\ phase # "start"
    <3>1. step # 0
      BY <1>9, StepsAre DEF FoldStep, IInv
    <3> QED BY <1>0, <1>9, <3>1 DEF FoldStep
  <2>2. CommitInv'
    <3> SUFFICES ASSUME current'.hash \in HashesBuilt PROVE Leaf(who, owed[who]).hash \in HashesBuilt
      BY <1>5, <2>1 DEF CommitInv, tree
    <3>1. current.hash \in HashesBuilt
      BY <1>9, <2>1, FoldStepHashes, BuiltIsClosed DEF IsClosed
    <3> QED BY <1>0, <2>1, <3>1 DEF CommitInv
  <2> QED BY <1>6, <2>1, <2>2
<1>10. CASE FoldOverflows
  <2>1. UNCHANGED <<tree, passed>> /\ step' = 0
    BY <1>10 DEF FoldOverflows, Answer
  <2> QED BY <1>6, <2>1 DEF CommitInv
<1>11. CASE Compare
  <2>1. /\ UNCHANGED tree /\ step' = 0 /\ who # 0 /\ step # 0
        /\ passed' = IF CarriesTotals /\ Agrees(current) THEN passed \cup {who} ELSE passed
    <3>1. step # 0
      BY <1>11, StepsAre DEF Compare, IInv
    <3> QED BY <1>11, <3>1 DEF Compare, Answer
  <2>2. Agrees(current) => levels[1][who] = Leaf(who, owed[who])
    <3> SUFFICES ASSUME Agrees(current) PROVE levels[1][who] = Leaf(who, owed[who])
      OBVIOUS
    <3>1. phase = "published" /\ who \in 1..Len(owed) /\ levels # << >>
      BY <1>0, <2>1 DEF IInv, OrderInv
    <3>2. current.hash = Last[1].hash /\ 1 \in 1..Len(Last)
      <4>1. Len(Last) = 1 /\ published.hash = Last[1].hash
        BY <1>0, <3>1 DEF PublishedInv
      <4>2. current.hash = published.hash
        BY DEF Agrees
      <4> QED BY <4>1, <4>2
    <3>3. Last[1].hash \in HashesBuilt
      <4>1. Len(levels) \in 1..Len(levels)
        BY <1>0, <3>1, LevelsAre
      <4> QED BY <3>1, <3>2, <4>1, BuiltIsClosed DEF Last
    <3>4. Leaf(who, owed[who]).hash \in HashesBuilt
      BY <1>0, <2>1, <3>2, <3>3 DEF CommitInv
    <3> QED BY <3>1, <3>4, LeafIsEntered
  <2>3. PassedIsCommitted'
    BY <1>0, <2>1, <2>2 DEF PassedIsCommitted, tree
  <2> QED BY <1>5, <2>1, <2>3 DEF ShapeInv, CommitInv
<1>12. CASE Recompute \/ UNCHANGED vars
  <2>1. UNCHANGED <<tree, passed, step, current, who>>
    BY <1>12 DEF Recompute, vars, tree
  <2>2. CommitInv'
    BY <1>0, <1>5, <2>1 DEF CommitInv, tree
  <2> QED BY <1>6, <2>1, <2>2
<1> QED
  BY <1>1, <1>2, <1>3, <1>4, <1>7, <1>8, <1>9, <1>10, <1>11, <1>12 DEF Next

LEMMA InitShape == Init => ShapeInv
BY DEF Init, ShapeInv, LevelsInv, PublishedInv, CommitInv, PassedIsCommitted

(***************************************************************************)
(* A customer whose check passes is in the tree with exactly what it is    *)
(* owed, whatever figures are wrong in the tree and in the proof.          *)
(***************************************************************************)
THEOREM CheckCommits == Spec => []PassedIsCommitted
<1>1. Spec => [](IInv /\ ShapeInv)
  <2>1. IInv /\ ShapeInv /\ [Next]_vars => (IInv /\ ShapeInv)'
    BY NextIInv, NextShape
  <2>2. Init => IInv /\ ShapeInv
    BY InitIInv, InitShape
  <2> QED BY <2>1, <2>2, PTL DEF Spec
<1>2. IInv /\ ShapeInv => PassedIsCommitted
  BY DEF ShapeInv
<1> QED BY <1>1, <1>2, PTL

-----------------------------------------------------------------------------
(***************************************************************************)
(* If every figure is right.                                               *)
(***************************************************************************)

\* The leaves are what the customers are owed, every level is made from the
\* one below, and so far the level being built is.
RightInv ==
  faults = 0 /\ phase # "start" =>
    /\ \A k \in 1..Len(owed) : levels[1][k] = Leaf(k, owed[k])
    /\ \A d \in 2..Len(levels) : levels[d] = Up(levels[d - 1])
    /\ \A j \in 1..Len(next) : next[j] = Up(Last)[j]
    /\ phase = "published" => published = Last[1]

\* The proof so far is what prove makes below that level, and the fold so far
\* is what its steps so far fold to.
ProvingInv ==
  faults = 0 /\ who # 0 =>
    IF step = 0
    THEN /\ lvl <= Len(levels)
         /\ idx = Ancestor(who - 1, Len(levels[1]))[lvl - 1]
         /\ steps = ProofTo(levels[1], who - 1)[lvl - 1]
    ELSE /\ steps = Prove(levels[1], who - 1)
         /\ step <= Len(steps) + 1
         /\ current = Folded(levels[1][who], steps)[step - 1]

OneByOneInv == who # 0 => who = checked + 1

HonestInv == RightInv /\ ProvingInv /\ OneByOneInv /\ EveryCustomerPasses

\* The levels that are built are those of the library's tree.
LEMMA LevelsAreBuilt ==
  ASSUME IInv, ShapeInv, RightInv, faults = 0, phase # "start"
  PROVE  /\ IsLevel(levels[1]) /\ Len(levels[1]) = Len(owed)
         /\ Len(levels) \in 1..Len(levels) /\ Len(levels) <= Len(owed)
         /\ \A d \in 1..Len(levels) : levels[d] = Built(levels[1])[d - 1] /\ IsLevel(levels[d])
<1> DEFINE n == Len(levels)
           leaves == levels[1]
           P == {d \in 0..n : d # 0 => levels[d] = Built(leaves)[d - 1]}
<1>1. /\ LevelsInv /\ n \in 1..n /\ n \in Nat /\ Len(owed) \in Nat
      /\ \A d \in 1..n : Len(levels[d]) \in Nat /\ DOMAIN levels[d] = 1..Len(levels[d])
  BY LevelsAre DEF IInv, OrderInv, ShapeInv
<1>2. Len(leaves) = Len(owed) /\ n <= Len(owed)
  BY <1>1 DEF LevelsInv
<1>3. \A d \in 1..n : IsLevel(levels[d])
  BY <1>1 DEF LevelsInv, IsLevel
<1>4. Built(leaves)[0] = leaves /\ \A d \in 1..Len(leaves) : Built(leaves)[d] = Up(Built(leaves)[d - 1])
  BY <1>1, <1>2, BuiltIs
<1> HIDE DEF leaves
<1>5. 0 \in P
  BY <1>1
<1>6. ASSUME NEW d \in 1..n, d - 1 \in P PROVE d \in P
  <2>1. CASE d = 1
    BY <1>1, <1>4, <2>1 DEF leaves
  <2>2. CASE d # 1
    <3>1. d \in 2..n /\ d - 1 \in 1..Len(leaves) /\ d - 1 # 0
      BY <1>1, <1>2, <2>2
    <3>2. levels[d] = Up(levels[d - 1])
      BY <3>1 DEF RightInv
    <3>3. levels[d - 1] = Built(leaves)[(d - 1) - 1]
      BY <1>6, <3>1
    <3> QED BY <1>4, <3>1, <3>2, <3>3
  <2> QED BY <2>1, <2>2
<1>7. \A d \in 0..n : d \in P
  <2> HIDE DEF P
  <2> QED BY <1>1, <1>5, <1>6, UpTo
<1>8. ASSUME NEW d \in 1..n PROVE levels[d] = Built(leaves)[d - 1]
  <2>1. d \in P
    BY <1>1, <1>7
  <2> QED BY <2>1
<1>9. IsLevel(leaves)
  BY <1>1, <1>3 DEF leaves
<1> QED BY <1>1, <1>2, <1>3, <1>8, <1>9 DEF leaves

\* What is published is the tree's root, and none of its sums overflow.
LEMMA PublishedIsBuilt ==
  ASSUME IInv, ShapeInv, RightInv, faults = 0, phase = "published"
  PROVE  /\ published = Root(levels[1]) /\ Builds(levels[1])
         /\ \A i \in Nat : i < Len(owed) =>
              Prove(levels[1], i) = ProofTo(levels[1], i)[Len(levels) - 1]
<1> DEFINE leaves == levels[1]
           m == Len(levels) - 1
<1>1. /\ IsLevel(leaves) /\ Len(leaves) = Len(owed) /\ m \in 0..Len(leaves)
      /\ Len(levels) \in 1..Len(levels) /\ Len(levels) <= Len(owed) /\ Len(levels) \in Nat
      /\ \A d \in 1..Len(levels) : levels[d] = Built(leaves)[d - 1]
  <2>1. Len(levels) \in Nat /\ Len(owed) \in Nat
    BY LevelsAre DEF IInv, OrderInv
  <2> QED BY <2>1, LevelsAreBuilt
<1>2. Last = Built(leaves)[m] /\ Len(Last) = 1 /\ published = Last[1]
  BY <1>1 DEF Last, ShapeInv, PublishedInv, RightInv
<1> HIDE DEF leaves, m
<1>3. Len(leaves) \in Nat \ {0}
  BY <1>1 DEF IsLevel
<1>4. \A i \in Nat : i < Len(leaves) =>
        /\ \A d \in m..Len(leaves) : Len(Built(leaves)[d]) = 1 /\ Built(leaves)[d][1] = Last[1]
        /\ Root(leaves) = Last[1]
        /\ Prove(leaves, i) = ProofTo(leaves, i)[m]
  BY <1>1, <1>2, AboveTheRoot
<1>5. /\ \A d \in m..Len(leaves) : Len(Built(leaves)[d]) = 1 /\ Built(leaves)[d][1] = Last[1]
      /\ Root(leaves) = Last[1]
  <2>1. 0 \in Nat /\ 0 < Len(leaves)
    BY <1>3
  <2> QED BY <1>4, <2>1
<1>6. ASSUME NEW d \in 0..Len(leaves), NEW j \in DOMAIN Built(leaves)[d]
      PROVE  Fits(Built(leaves)[d][j].sums)
  <2>0. DOMAIN Built(leaves)[d] = 1..Len(Built(leaves)[d])
    BY <1>1, BuiltLevels DEF IsLevel
  <2>1. ASSUME NEW node, IsNode(node) PROVE Fits(node.sums)
    BY <2>1, MaxAmountAssumption DEF IsNode, AmountMaps, Fits
  <2>2. CASE d < m
    <3>1. d + 1 \in 1..Len(levels) /\ (d + 1) - 1 = d
      BY <1>1, <2>2 DEF m
    <3>2. Built(leaves)[d] = levels[d + 1]
      BY <1>1, <3>1
    <3>3. IsNode(Built(leaves)[d][j])
      BY <2>0, <3>1, <3>2, LevelsAre DEF IInv
    <3> QED BY <2>1, <3>3
  <2>3. CASE ~(d < m)
    <3>1. d \in m..Len(leaves)
      BY <1>1, <2>3
    <3>2. Built(leaves)[d][j] = Last[1]
      <4>1. Len(Built(leaves)[d]) = 1 /\ Built(leaves)[d][1] = Last[1]
        BY <1>5, <3>1
      <4>2. j = 1
        BY <2>0, <4>1
      <4> QED BY <4>1, <4>2
    <3>3. IsNode(Last[1])
      <4>1. 1 \in 1..Len(Last)
        BY <1>2
      <4> QED BY <1>1, <4>1, LevelsAre DEF IInv, Last
    <3> QED BY <2>1, <3>2, <3>3
  <2> QED BY <2>2, <2>3
<1>7. Builds(leaves)
  BY <1>6 DEF Builds
<1> QED BY <1>1, <1>2, <1>4, <1>5, <1>7 DEF leaves, m

\* A level that agrees with the level above, as far as that goes, is it.
LEMMA NextIsUp ==
  ASSUME TreeInv, IsLevel(Last), Len(next) = (Len(Last) + 1) \div 2,
         \A j \in 1..Len(next) : next[j] = Up(Last)[j]
  PROVE  next = Up(Last)
<1> DEFINE m == (Len(Last) + 1) \div 2
           e(j) == IF 2 * j <= Len(Last) THEN Combine(Last[2 * j - 1], Last[2 * j])
                                         ELSE Odd(Last[2 * j - 1])
<1>1. Up(Last) = [j \in 1..m |-> e(j)]
  BY DEF Up
<1>2. PICK S : next \in Seq(S)
  BY DEF TreeInv, IsTree
<1>3. next = [j \in 1..Len(next) |-> next[j]]
  BY <1>2
<1> HIDE DEF e, m
<1>4. Up(Last) = [j \in 1..m |-> Up(Last)[j]]
  BY <1>1
<1> QED BY <1>3, <1>4 DEF m

\* Customers are entered with what they are owed.
LEMMA BeginRight ==
  ASSUME NEW n \in 1..MaxLeaves, NEW balances \in [1..n -> BalanceMaps],
         NEW W \in SUBSET (1..n), NEW wrong \in [W -> BalanceMaps],
         Begin(balances, wrong), next = << >>
  PROVE  RightInv'
<1> DEFINE entered == [k \in 1..n |-> IF k \in W THEN wrong[k] ELSE balances[k]]
           leaves == [k \in 1..n |-> Leaf(k, entered[k])]
           V == {k \in DOMAIN wrong : wrong[k] # balances[k]}
<1> SUFFICES ASSUME faults' = 0 PROVE RightInv'
  BY DEF RightInv
<1>0. n \in Nat \ {0}
  BY ConstantsAssumption
<1>1. levels' = <<leaves>> /\ owed' = balances /\ next' = << >> /\ phase' = "building"
  BY DEF Begin
<1>2. V = {}
  <2>1. IsFiniteSet(1..n)
    BY <1>0, FS_Interval
  <2>2. IsFiniteSet(W)
    BY <2>1, FS_Subset
  <2>3. V \subseteq W
    OBVIOUS
  <2>4. Cardinality(V) = 0
    BY DEF Begin
  <2> HIDE DEF V
  <2>5. IsFiniteSet(V)
    BY <2>2, <2>3, FS_Subset
  <2> QED BY <2>4, <2>5, FS_EmptySet
<1>3. \A k \in 1..n : entered[k] = balances[k]
  BY <1>2
<1>4. Len(balances) = n
  BY <1>0
<1>5. \A k \in 1..n : leaves[k] = Leaf(k, entered[k])
  OBVIOUS
<1> HIDE DEF leaves, entered
<1>6. levels'[1] = leaves /\ Len(levels') = 1
  BY <1>1
<1> QED BY <1>1, <1>3, <1>4, <1>5, <1>6 DEF RightInv

\* Every step of building keeps it right.
LEMMA BuildRight ==
  ASSUME IInv, ShapeInv, RightInv, Pair \/ PairMiscounted \/ Promote \/ PushLevel
  PROVE  RightInv'
<1> SUFFICES ASSUME faults' = 0 PROVE RightInv'
  BY DEF RightInv
<1>0. /\ phase = "building" /\ levels # << >> /\ TreeInv /\ LevelsInv /\ faults = 0
      /\ ~PairMiscounted /\ phase' = phase /\ owed' = owed
  <2>1. ~PairMiscounted
    BY DEF PairMiscounted, Wrong, IInv, FaultsInv
  <2> QED BY <2>1 DEF IInv, OrderInv, ShapeInv, Pair, PairMiscounted, Promote, PushLevel
<1>1. /\ IsLevel(Last) /\ Len(levels) \in 1..Len(levels) /\ Len(levels) \in Nat
      /\ Len(next) \in Nat /\ Len(Last) \in Nat
  BY <1>0, LevelsAre, LevelsAreBuilt DEF Last
<1>2. First = 2 * (Len(next) + 1) - 1 /\ First + 1 = 2 * (Len(next) + 1)
  BY <1>1 DEF First
<1>3. ASSUME NEW node, levels' = levels, next' = Append(next, node),
             node = Up(Last)[Len(next) + 1]
      PROVE  RightInv'
  <2>1. Last' = Last
    BY <1>3 DEF Last
  <2>2. PICK S : next \in Seq(S)
    BY <1>0 DEF TreeInv, IsTree
  <2> DEFINE T == S \cup {node}
  <2>3. next \in Seq(T) /\ node \in T
    <3>1. Seq(S) \subseteq Seq(T)
      OBVIOUS
    <3> QED BY <2>2, <3>1
  <2> HIDE DEF T
  <2>4. /\ Len(next') = Len(next) + 1 /\ next'[Len(next) + 1] = node
        /\ \A j \in 1..Len(next) : next'[j] = next[j]
    BY <1>3, <2>3
  <2>5. ASSUME NEW j \in 1..Len(next') PROVE next'[j] = Up(Last)[j]
    <3>1. j \in 1..Len(next) \/ j = Len(next) + 1
      BY <1>1, <2>4
    <3> QED BY <1>0, <1>3, <2>4, <3>1 DEF RightInv
  <2> QED BY <1>0, <1>3, <2>1, <2>5 DEF RightInv
<1>4. CASE Pair
  <2>1. levels' = levels /\ next' = Append(next, Combine(Last[First], Last[First + 1])) /\ First < Len(Last)
    BY <1>4 DEF Pair
  <2>2. Combine(Last[First], Last[First + 1]) = Up(Last)[Len(next) + 1]
    <3> DEFINE j == Len(next) + 1
    <3>1. 2 * j <= Len(Last) /\ j \in 1..((Len(Last) + 1) \div 2)
      BY <1>1, <1>2, <2>1
    <3>2. j \in 1..Len(Up(Last))
      BY <1>1, <3>1, UpIsLevel
    <3>3. Up(Last)[j] = Combine(Last[2 * j - 1], Last[2 * j])
      <4> HIDE DEF j
      <4> QED BY <1>1, <3>1, <3>2, UpIsLevel
    <3> QED BY <1>2, <3>3
  <2> QED BY <1>3, <2>1, <2>2
<1>5. CASE Promote
  <2>1. levels' = levels /\ next' = Append(next, Last[First]) /\ First = Len(Last)
    BY <1>5 DEF Promote, Odd
  <2>2. Last[First] = Up(Last)[Len(next) + 1]
    <3> DEFINE j == Len(next) + 1
    <3>1. 2 * j > Len(Last) /\ j \in 1..((Len(Last) + 1) \div 2)
      BY <1>1, <1>2, <2>1
    <3>2. j \in 1..Len(Up(Last))
      BY <1>1, <3>1, UpIsLevel
    <3>3. Up(Last)[j] = Last[2 * j - 1]
      <4> HIDE DEF j
      <4> QED BY <1>1, <3>1, <3>2, UpIsLevel
    <3> QED BY <1>2, <3>3
  <2> QED BY <1>3, <2>1, <2>2
<1>6. CASE PushLevel
  <2> DEFINE n == Len(levels)
  <2>1. levels' = Append(levels, next) /\ next' = << >>
    BY <1>6 DEF PushLevel
  <2>2. /\ Len(levels') = n + 1 /\ levels'[n + 1] = next
        /\ \A d \in 1..n : levels'[d] = levels[d]
    BY <1>0, <2>1 DEF TreeInv, IsTree
  <2>3. LevelsInv'
    BY <1>6, BuildShape
  <2>4. Len(next) = (Len(Last) + 1) \div 2
    <3>1. n + 1 \in 2..Len(levels') /\ (n + 1) - 1 = n /\ n \in 1..n /\ phase' # "start"
      BY <1>0, <1>1, <2>2
    <3>2. Len(levels'[n + 1]) = (Len(levels'[(n + 1) - 1]) + 1) \div 2
      BY <2>3, <3>1 DEF LevelsInv
    <3> QED BY <2>2, <3>1, <3>2 DEF Last
  <2>5. next = Up(Last)
    BY <1>0, <1>1, <2>4, NextIsUp DEF RightInv
  <2>6. ASSUME NEW d \in 2..Len(levels') PROVE levels'[d] = Up(levels'[d - 1])
    <3>1. CASE d \in 2..n
      <4>1. d \in 1..n /\ d - 1 \in 1..n
        BY <3>1
      <4>2. levels[d] = Up(levels[d - 1])
        BY <1>0, <3>1 DEF RightInv
      <4> QED BY <2>2, <4>1, <4>2
    <3>2. CASE d = n + 1
      <4>1. d - 1 = n /\ n \in 1..n
        BY <1>1, <3>2
      <4> QED BY <2>2, <2>5, <3>2, <4>1 DEF Last
    <3>3. d \in 2..n \/ d = n + 1
      BY <1>1, <2>2
    <3> HIDE DEF n
    <3> QED BY <3>1, <3>2, <3>3
  <2>7. levels'[1] = levels[1]
    BY <1>1, <2>2
  <2> QED BY <1>0, <2>1, <2>6, <2>7 DEF RightInv
<1> QED BY <1>0, <1>4, <1>5, <1>6

\* A step of proving for a customer is prove's step at that level.
LEMMA ProveStepRight ==
  ASSUME IInv, ShapeInv, HonestInv, ProveStep, faults' = 0
  PROVE  ProvingInv'
<1> DEFINE leaves == levels[1]
           level == levels[lvl]
           sib == Sibling(idx)
           e(s) == [sibling |-> [hash |-> level[sib + 1].hash, sums |-> s], onLeft |-> sib < idx]
           n == Len(leaves)
           i == who - 1
<1>1. /\ who # 0 /\ step = 0 /\ lvl < Len(levels) /\ lvl' = lvl + 1 /\ idx' = idx \div 2
      /\ step' = 0 /\ who' = who /\ levels' = levels
  BY DEF ProveStep, tree
<1>2. faults = 0
  <2>1. faults \in Nat
    BY DEF IInv, FaultsInv
  <2>2. CASE UNCHANGED faults
    BY <2>2
  <2>3. CASE faults' = faults + 1
    BY <2>1, <2>3
  <2> QED BY <2>2, <2>3 DEF ProveStep, Given, Wrong
<1>3. phase = "published" /\ who \in 1..Len(owed) /\ lvl \in Nat \ {0} /\ idx \in Nat /\ Len(owed) \in Nat
  BY <1>1 DEF IInv, OrderInv
<1>4. /\ IsLevel(leaves) /\ n = Len(owed) /\ Len(levels) <= n /\ Len(levels) \in Nat
      /\ \A d \in 1..Len(levels) : levels[d] = Built(leaves)[d - 1]
  BY <1>2, <1>3, LevelsAreBuilt, LevelsAre DEF HonestInv, IInv
<1>5. /\ lvl - 1 \in 0..n /\ lvl \in 1..n /\ lvl \in 1..Len(levels)
      /\ i \in Nat /\ i < n
  BY <1>1, <1>3, <1>4
<1>6. /\ idx = Ancestor(i, n)[lvl - 1] /\ steps = ProofTo(leaves, i)[lvl - 1]
      /\ level = Built(leaves)[lvl - 1]
  BY <1>1, <1>2, <1>4, <1>5 DEF HonestInv, ProvingInv
<1>7. steps \in Seq(StepsOf(leaves))
  <2>1. ProofTo(leaves, i)[lvl - 1] \in Seq(StepsOf(leaves))
    <3> HIDE DEF i, leaves
    <3> QED BY <1>4, <1>5, ProofFolds
  <2> QED BY <1>6, <2>1
<1> HIDE DEF leaves
<1>8. idx' = Ancestor(i, n)[(lvl + 1) - 1]
  <2>1. \A d \in 1..n : Ancestor(i, n)[d] = Ancestor(i, n)[d - 1] \div 2
    <3> HIDE DEF n, i
    <3> QED BY <1>3, <1>4, AncestorIs
  <2>2. (lvl + 1) - 1 = lvl
    BY <1>5
  <2> HIDE DEF n, i
  <2> QED BY <1>1, <1>5, <1>6, <2>1, <2>2
<1>9. steps' = ProofTo(leaves, i)[(lvl + 1) - 1]
  <2>1. ProofTo(leaves, i)[lvl] = steps \o StepAt(level, idx)
    <3> HIDE DEF i, level
    <3> QED BY <1>3, <1>4, <1>5, <1>6, ProofToIs DEF n
  <2>2. steps' = steps \o StepAt(level, idx)
    <3>1. CASE sib < Len(level)
      <4>1. PICK s \in Figures \cup {level[sib + 1].sums} :
              Given(s, level[sib + 1].sums) /\ steps' = Append(steps, e(s))
        BY <3>1 DEF ProveStep
      <4>2. s = level[sib + 1].sums
        <5>1. ~Wrong(s, level[sib + 1].sums)
          BY <1>2 DEF Wrong
        <5> QED BY <4>1, <5>1 DEF Given
      <4>3. IsNode(level[sib + 1])
        <5>1. sib \in Nat
          BY <1>3 DEF Sibling
        <5>2. sib + 1 \in 1..Len(level)
          <6>1. Len(level) \in Nat
            BY <1>5, LevelsAre DEF IInv
          <6> QED BY <3>1, <5>1, <6>1
        <5> QED BY <1>5, <5>2, LevelsAre DEF IInv
      <4>4. e(s) = [sibling |-> level[sib + 1], onLeft |-> sib < idx]
        BY <4>2, <4>3 DEF IsNode
      <4>5. StepAt(level, idx) = <<e(s)>>
        BY <3>1, <4>4 DEF StepAt
      <4>6. Append(steps, e(s)) = steps \o <<e(s)>>
        <5> DEFINE T == StepsOf(leaves) \cup {e(s)}
        <5>1. steps \in Seq(T) /\ e(s) \in T
          <6>1. Seq(StepsOf(leaves)) \subseteq Seq(T)
            OBVIOUS
          <6> QED BY <1>7, <6>1
        <5> HIDE DEF T, e
        <5> QED BY <5>1
      <4> QED BY <4>1, <4>5, <4>6
    <3>2. CASE ~(sib < Len(level))
      <4>1. steps' = steps /\ StepAt(level, idx) = << >>
        BY <3>2 DEF ProveStep, StepAt
      <4> QED BY <1>7, <4>1, ConcatEmptySeq
    <3> QED BY <3>1, <3>2
  <2>3. (lvl + 1) - 1 = lvl
    BY <1>5
  <2> QED BY <2>1, <2>2, <2>3
<1>10. lvl' <= Len(levels')
  BY <1>1, <1>4, <1>5
<1> QED BY <1>1, <1>8, <1>9, <1>10 DEF ProvingInv, leaves

\* A customer asked for: nothing is proved yet.
LEMMA AskRight ==
  ASSUME IInv, ShapeInv, HonestInv, AskForProof
  PROVE  ProvingInv' /\ OneByOneInv'
<1>1. /\ who' = checked + 1 /\ idx' = checked /\ lvl' = 1 /\ steps' = << >> /\ step' = 0
      /\ phase = "published" /\ UNCHANGED <<levels, checked, faults>> /\ checked \in Nat
      /\ levels # << >> /\ TreeInv
  BY DEF AskForProof, tree, IInv, OrderInv
<1>2. ASSUME faults' = 0
      PROVE  /\ 1 <= Len(levels) /\ (checked + 1) - 1 = checked /\ 1 - 1 = 0
             /\ Ancestor(checked, Len(levels[1]))[0] = checked
             /\ ProofTo(levels[1], checked)[0] = << >>
  <2>1. IsLevel(levels[1]) /\ Len(levels) \in 1..Len(levels) /\ Len(levels) \in Nat
    BY <1>1, <1>2, LevelsAreBuilt, LevelsAre DEF HonestInv
  <2>2. Len(levels[1]) \in Nat
    BY <2>1 DEF IsLevel
  <2>3. Ancestor(checked, Len(levels[1]))[0] = checked
    BY <2>2, AncestorIs
  <2>4. ProofTo(levels[1], checked)[0] = << >>
    BY <2>2, ProofToIs
  <2> QED BY <1>1, <2>1, <2>3, <2>4
<1> QED BY <1>1, <1>2 DEF ProvingInv, OneByOneInv

\* The proof is complete at the root's level, and is folded from the leaf.
LEMMA StartFoldRight ==
  ASSUME IInv, ShapeInv, HonestInv, StartFold
  PROVE  ProvingInv'
<1>1. /\ who # 0 /\ step = 0 /\ lvl = Len(levels) /\ current' = Leaf(who, owed[who]) /\ step' = 1
      /\ UNCHANGED <<levels, who, steps, faults>>
  BY DEF StartFold, tree
<1> SUFFICES ASSUME faults = 0 PROVE ProvingInv'
  BY <1>1 DEF ProvingInv
<1>2. phase = "published" /\ who \in 1..Len(owed)
  BY <1>1 DEF IInv, OrderInv
<1>3. steps = Prove(levels[1], who - 1)
  <2>1. who - 1 \in Nat /\ who - 1 < Len(owed)
    BY <1>2
  <2>2. Prove(levels[1], who - 1) = ProofTo(levels[1], who - 1)[Len(levels) - 1]
    BY <1>2, <2>1, PublishedIsBuilt DEF HonestInv
  <2> QED BY <1>1, <2>2 DEF HonestInv, ProvingInv
<1>4. Len(steps) \in Nat
  BY StepsAre DEF IInv
<1>5. current' = Folded(levels[1][who], steps)[1 - 1]
  <2>1. levels[1][who] = Leaf(who, owed[who])
    BY <1>2 DEF HonestInv, RightInv
  <2>2. Folded(levels[1][who], steps)[0] = levels[1][who]
    BY <1>4, FoldedIs
  <2> QED BY <1>1, <2>1, <2>2
<1>6. 1 <= Len(steps) + 1
  BY <1>4
<1> QED BY <1>1, <1>3, <1>5, <1>6 DEF ProvingInv

\* The fold of a right proof meets no overflow and goes on.
LEMMA FoldRight ==
  ASSUME IInv, ShapeInv, HonestInv, faults = 0, step \in DOMAIN steps
  PROVE  /\ Combine(LeftOf(step), RightOf(step)) = Folded(levels[1][who], steps)[step]
         /\ Fits(Added(LeftOf(step).sums, RightOf(step).sums))
         /\ step \in 1..Len(steps) /\ Len(steps) \in Nat
<1> DEFINE leaves == levels[1]
           leaf == levels[1][who]
           node(k) == Folded(leaf, steps)[k]
<1>1. step \in 1..Len(steps) /\ Len(steps) \in Nat
  BY StepsAre DEF IInv
<1>2. who \in 1..Len(owed) /\ phase = "published" /\ Len(owed) \in Nat
  BY <1>1 DEF IInv, OrderInv
<1>3. steps = Prove(leaves, who - 1) /\ current = node(step - 1)
  BY <1>1, <1>2 DEF HonestInv, ProvingInv
<1>4. Combine(LeftOf(step), RightOf(step)) = node(step)
  <2>1. node(step) = IF steps[step].onLeft THEN Combine(steps[step].sibling, node(step - 1))
                                           ELSE Combine(node(step - 1), steps[step].sibling)
    BY <1>1, FoldedIs
  <2> QED BY <1>3, <2>1 DEF LeftOf, RightOf
<1>5. node(step) \in NodesOf(leaves) /\ Builds(leaves)
  <2>1. IsLevel(leaves) /\ Len(leaves) = Len(owed) /\ Builds(leaves)
    BY <1>2, LevelsAreBuilt, PublishedIsBuilt DEF HonestInv
  <2>2. who - 1 \in Nat /\ who - 1 < Len(leaves) /\ Len(leaves) \in 0..Len(leaves) /\ (who - 1) + 1 = who
    BY <1>2, <2>1
  <2> HIDE DEF leaves
  <2>3. LET st == ProofTo(leaves, who - 1)[Len(leaves)] IN
        \A k \in 0..Len(st) : Folded(leaves[(who - 1) + 1], st)[k] \in NodesOf(leaves)
    BY <2>1, <2>2, ProofFolds
  <2>4. steps = ProofTo(leaves, who - 1)[Len(leaves)] /\ step \in 0..Len(steps)
    BY <1>1, <1>3 DEF Prove
  <2>5. Folded(leaves[who], steps)[step] \in NodesOf(leaves)
    BY <2>2, <2>3, <2>4
  <2> QED BY <2>1, <2>5 DEF leaves
<1>6. Fits(node(step).sums)
  BY <1>5 DEF Builds, NodesOf
<1>7. Combine(LeftOf(step), RightOf(step)).sums = Added(LeftOf(step).sums, RightOf(step).sums)
  BY DEF Combine, Node
<1> QED BY <1>1, <1>4, <1>6, <1>7

\* At the end it is what was published.
LEMMA CompareRight ==
  ASSUME IInv, ShapeInv, HonestInv, faults = 0, who # 0, step = Len(steps) + 1
  PROVE  Agrees(current) /\ (SomebodyIsOwed => CarriesTotals)
<1>1. Len(steps) \in Nat /\ (Len(steps) + 1) - 1 = Len(steps)
  BY StepsAre DEF IInv
<1>2. who \in 1..Len(owed) /\ phase = "published" /\ Len(owed) \in Nat
  BY DEF IInv, OrderInv
<1>3. steps = Prove(levels[1], who - 1) /\ current = Folded(levels[1][who], steps)[Len(steps)]
  BY <1>1, <1>2 DEF HonestInv, ProvingInv
<1>4. /\ IsLevel(levels[1]) /\ Len(levels[1]) = Len(owed)
      /\ published = Root(levels[1]) /\ Builds(levels[1])
  BY <1>2, LevelsAreBuilt, PublishedIsBuilt DEF HonestInv
<1>5. who - 1 \in Nat /\ who - 1 < Len(levels[1]) /\ (who - 1) + 1 = who
  BY <1>2, <1>4
<1>6. FoldsTo(levels[1][who], steps, published)
  BY <1>3, <1>4, <1>5, ProveFoldsToRoot
<1>7. ASSUME SomebodyIsOwed
      PROVE  CarriesTotals
  <2>1. PICK k \in DOMAIN owed : DOMAIN owed[k] # {}
    BY <1>7 DEF SomebodyIsOwed
  <2>2. k \in 1..Len(owed) /\ k \in DOMAIN levels[1] /\ phase # "start"
    BY <1>2, <1>4 DEF IsLevel, IInv, OrderInv
  <2>3. levels[1][k].sums = owed[k]
    <3>1. levels[1][k] = Leaf(k, owed[k])
      BY <2>2 DEF HonestInv, RightInv
    <3> QED BY <3>1 DEF Leaf
  <2> QED BY <1>4, <2>1, <2>2, <2>3, RootHasAssets DEF CarriesTotals
<1> QED BY <1>3, <1>6, <1>7 DEF FoldsTo, Agrees

\* The next customer has been answered.
LEMMA AnswerRight ==
  ASSUME IInv, HonestInv, NEW ok \in BOOLEAN, Answer(ok), who # 0,
         faults = 0 /\ SomebodyIsOwed => ok
  PROVE  ProvingInv' /\ OneByOneInv' /\ EveryCustomerPasses'
<1>1. /\ who = checked + 1 /\ who' = 0 /\ checked' = who /\ faults' = faults /\ checked \in Nat
      /\ passed' = IF ok THEN passed \cup {who} ELSE passed
  BY DEF HonestInv, OneByOneInv, Answer, IInv, OrderInv
<1>2. faults = 0 /\ SomebodyIsOwed => passed' = 1..checked'
  <2> SUFFICES ASSUME faults = 0, SomebodyIsOwed PROVE passed' = 1..checked'
    OBVIOUS
  <2>1. passed = 1..checked /\ passed' = passed \cup {checked + 1} /\ checked' = checked + 1
    BY <1>1 DEF HonestInv, EveryCustomerPasses
  <2>2. (1..checked) \cup {checked + 1} = 1..(checked + 1)
    BY <1>1
  <2> QED BY <2>1, <2>2
<1>3. SomebodyIsOwed' = SomebodyIsOwed
  BY DEF Answer, tree, SomebodyIsOwed
<1> QED BY <1>1, <1>2, <1>3 DEF ProvingInv, OneByOneInv, EveryCustomerPasses

LEMMA NextHonest == IInv /\ ShapeInv /\ HonestInv /\ [Next]_vars => HonestInv'
<1> SUFFICES ASSUME IInv, ShapeInv, HonestInv, [Next]_vars PROVE HonestInv'
  OBVIOUS
<1>0. /\ phase # "published" => who = 0 /\ passed = {} /\ checked = 0
      /\ phase = "start" => next = << >>
      /\ RightInv /\ ProvingInv /\ OneByOneInv /\ EveryCustomerPasses /\ TreeInv
      /\ faults \in Nat
  BY DEF IInv, OrderInv, HonestInv, FaultsInv
<1>1. ASSUME phase # "published", UNCHANGED check, RightInv' PROVE HonestInv'
  <2>1. who' = 0 /\ passed' = {} /\ checked' = 0
    BY <1>0, <1>1 DEF check
  <2>2. passed' = 1..checked'
    BY <2>1
  <2> QED BY <1>1, <2>1, <2>2 DEF HonestInv, ProvingInv, OneByOneInv, EveryCustomerPasses
<1>2. ASSUME NEW n \in 1..MaxLeaves, NEW balances \in [1..n -> BalanceMaps],
             NEW W \in SUBSET (1..n), NEW wrong \in [W -> BalanceMaps],
             phase = "start", Begin(balances, wrong)
      PROVE  HonestInv'
  <2>1. RightInv'
    BY <1>0, <1>2, BeginRight
  <2> QED BY <1>1, <1>2, <2>1 DEF Begin
<1>3. CASE Pair \/ PairMiscounted \/ Promote \/ PushLevel
  <2>1. RightInv'
    BY <1>0, <1>3, BuildRight
  <2> QED BY <1>1, <1>3, <2>1 DEF Pair, PairMiscounted, Promote, PushLevel
<1>4. CASE PairOverflows
  <2>1. phase = "building" /\ phase' = "overflow" /\ UNCHANGED <<owed, levels, next, faults, check>>
    BY <1>4 DEF PairOverflows
  <2>2. RightInv'
    BY <1>0, <2>1 DEF RightInv, Last
  <2> QED BY <1>1, <2>1, <2>2
<1>5. CASE PublishRoot
  <2>1. phase = "building" /\ phase' = "published" /\ UNCHANGED <<owed, levels, next, check>> /\ Len(Last) = 1
    BY <1>5 DEF PublishRoot
  <2>2. PICK s \in Figures \cup {Last[1].sums} :
          Given(s, Last[1].sums) /\ published' = [hash |-> Last[1].hash, sums |-> s]
    BY <1>5 DEF PublishRoot
  <2>3. faults' = 0 => faults = 0 /\ published' = Last[1]
    <3> SUFFICES ASSUME faults' = 0 PROVE faults = 0 /\ published' = Last[1]
      OBVIOUS
    <3>1. ~Wrong(s, Last[1].sums)
      BY <1>0 DEF Wrong
    <3>2. s = Last[1].sums /\ faults = 0
      BY <2>2, <3>1 DEF Given
    <3>3. IsNode(Last[1])
      <4>1. levels # << >> /\ 1 \in 1..Len(Last)
        BY <2>1 DEF IInv, OrderInv
      <4> QED BY <1>0, <4>1, LevelsAre DEF Last
    <3> QED BY <2>2, <3>2, <3>3 DEF IsNode
  <2>4. RightInv'
    BY <1>0, <2>1, <2>3 DEF RightInv, Last
  <2> QED BY <1>1, <2>1, <2>4
<1>6. ASSUME UNCHANGED tree, faults' = 0 => faults = 0 PROVE RightInv'
  BY <1>0, <1>6 DEF RightInv, tree, Last
<1>7. ASSUME UNCHANGED <<tree, checked, passed>>, faults' = 0 => faults = 0
      PROVE  EveryCustomerPasses'
  BY <1>0, <1>7 DEF EveryCustomerPasses, SomebodyIsOwed, tree
<1>8. CASE AskForProof
  <2>1. UNCHANGED <<tree, faults, passed, checked>>
    BY <1>8 DEF AskForProof
  <2> QED BY <1>6, <1>8, <1>7, <2>1, AskRight DEF HonestInv
<1>9. CASE ProveStep
  <2>1. UNCHANGED <<tree, who, passed, checked>>
    BY <1>9 DEF ProveStep
  <2>2. faults' = 0 => faults = 0
    <3>1. UNCHANGED faults \/ faults' = faults + 1
      BY <1>9 DEF ProveStep, Given, Wrong
    <3> QED BY <1>0, <3>1
  <2>3. ProvingInv'
    <3>1. CASE faults' = 0
      BY <1>9, <3>1, ProveStepRight
    <3>2. CASE faults' # 0
      BY <3>2 DEF ProvingInv
    <3> QED BY <3>1, <3>2
  <2> QED BY <1>6, <1>7, <2>1, <2>2, <2>3 DEF HonestInv, OneByOneInv
<1>10. CASE StartFold
  <2>1. UNCHANGED <<tree, who, faults, passed, checked>>
    BY <1>10 DEF StartFold
  <2> QED BY <1>6, <1>10, <1>7, <2>1, StartFoldRight DEF HonestInv, OneByOneInv
<1>11. CASE FoldStep
  <2>1. /\ UNCHANGED <<tree, who, steps, faults, passed, checked>> /\ step' = step + 1
        /\ step \in DOMAIN steps /\ current' = Combine(LeftOf(step), RightOf(step))
    BY <1>11 DEF FoldStep
  <2>2. ProvingInv'
    <3> SUFFICES ASSUME faults = 0, who # 0 PROVE ProvingInv'
      BY <2>1 DEF ProvingInv
    <3>1. /\ current' = Folded(levels[1][who], steps)[step]
          /\ step \in 1..Len(steps) /\ Len(steps) \in Nat
      BY <2>1, FoldRight
    <3>2. (step + 1) - 1 = step /\ step + 1 # 0 /\ step # 0 /\ step + 1 <= Len(steps) + 1
      BY <3>1
    <3>3. steps = Prove(levels[1], who - 1)
      BY <1>0, <3>2 DEF ProvingInv
    <3> QED BY <2>1, <3>1, <3>2, <3>3 DEF ProvingInv, tree
  <2> QED BY <1>6, <1>7, <2>1, <2>2 DEF HonestInv, OneByOneInv
<1>12. CASE FoldOverflows
  <2>1. UNCHANGED <<tree, faults>> /\ Answer(FALSE) /\ step \in DOMAIN steps
        /\ ~Fits(Added(LeftOf(step).sums, RightOf(step).sums))
    BY <1>12 DEF FoldOverflows, Answer
  <2>2. faults # 0
    BY <2>1, FoldRight
  <2>3. who # 0
    BY <2>1, StepsAre DEF IInv, OrderInv
  <2> QED BY <1>6, <2>1, <2>2, <2>3, AnswerRight DEF HonestInv
<1>13. CASE Compare
  <2>1. /\ who # 0 /\ step = Len(steps) + 1 /\ UNCHANGED <<tree, faults>>
        /\ Answer(CarriesTotals /\ Agrees(current))
    BY <1>13 DEF Compare, Answer
  <2>2. faults = 0 /\ SomebodyIsOwed => CarriesTotals /\ Agrees(current)
    BY <2>1, CompareRight
  <2>3. (CarriesTotals /\ Agrees(current)) \in BOOLEAN
    OBVIOUS
  <2> QED BY <1>6, <2>1, <2>2, <2>3, AnswerRight DEF HonestInv
<1>14. CASE Recompute \/ UNCHANGED vars
  <2>1. UNCHANGED <<tree, who, lvl, idx, steps, step, current, checked, passed, faults>>
    BY <1>14 DEF Recompute, vars, tree
  <2> QED BY <1>6, <1>7, <2>1 DEF HonestInv, ProvingInv, OneByOneInv, tree
<1> QED
  BY <1>2, <1>3, <1>4, <1>5, <1>8, <1>9, <1>10, <1>11, <1>12, <1>13, <1>14 DEF Next

LEMMA InitHonest == Init => HonestInv
<1> SUFFICES ASSUME Init PROVE HonestInv
  OBVIOUS
<1>1. phase = "start" /\ who = 0 /\ passed = {} /\ checked = 0
  BY DEF Init
<1>2. passed = 1..checked
  BY <1>1
<1> QED BY <1>1, <1>2 DEF HonestInv, RightInv, ProvingInv, OneByOneInv, EveryCustomerPasses

\* All of it holds always.
LEMMA AlwaysTree == Spec => [](IInv /\ ShapeInv /\ HonestInv)
<1>1. IInv /\ ShapeInv /\ HonestInv /\ [Next]_vars => (IInv /\ ShapeInv /\ HonestInv)'
  BY NextIInv, NextShape, NextHonest
<1>2. Init => IInv /\ ShapeInv /\ HonestInv
  BY InitIInv, InitShape, InitHonest
<1> QED BY <1>1, <1>2, PTL DEF Spec

(***************************************************************************)
(* If every figure is right every customer's proof checks, wherever it is  *)
(* in a tree of any shape: no sum that a proof folds to overflows unless   *)
(* build has already refused the books.                                    *)
(***************************************************************************)
THEOREM RightProofsCheck == Spec => []EveryCustomerPasses
<1>1. HonestInv => EveryCustomerPasses
  BY DEF HonestInv
<1> QED BY <1>1, AlwaysTree, PTL

(***************************************************************************)
(* The loops of build and of prove compute what the library promises in    *)
(* one go: each level pushed, and each proof collected.                    *)
(***************************************************************************)
THEOREM LoopsCompute == Spec => []LoopsBuildTheTree
<1>1. IInv /\ ShapeInv /\ HonestInv => LoopsBuildTheTree
  <2> SUFFICES ASSUME IInv, ShapeInv, HonestInv, phase = "published", faults = 0
               PROVE  /\ \A d \in DOMAIN levels : levels[d] = Built(levels[1])[d - 1]
                      /\ who # 0 /\ step = 0 /\ lvl = Len(levels) =>
                           steps = Prove(levels[1], who - 1)
    BY DEF LoopsBuildTheTree
  <2>1. DOMAIN levels = 1..Len(levels)
    BY LevelsAre DEF IInv
  <2>2. \A d \in DOMAIN levels : levels[d] = Built(levels[1])[d - 1]
    BY <2>1, LevelsAreBuilt DEF HonestInv
  <2>3. ASSUME who # 0, step = 0, lvl = Len(levels) PROVE steps = Prove(levels[1], who - 1)
    <3>1. who - 1 \in Nat /\ who - 1 < Len(owed)
      BY <2>3 DEF IInv, OrderInv
    <3>2. Prove(levels[1], who - 1) = ProofTo(levels[1], who - 1)[Len(levels) - 1]
      BY <3>1, PublishedIsBuilt DEF HonestInv
    <3> QED BY <2>3, <3>2 DEF HonestInv, ProvingInv
  <2> QED BY <2>2, <2>3
<1> QED BY <1>1, AlwaysTree, PTL

-----------------------------------------------------------------------------
(***************************************************************************)
(* Totals.                                                                 *)
(***************************************************************************)
\* Leaves of the customers' balances total what is owed.
LEMMA LeavesTotal ==
  ASSUME OrderInv, NEW leaves, DOMAIN leaves = 1..Len(owed),
         \A k \in 1..Len(owed) : leaves[k].sums = owed[k], NEW a
  PROVE  Total(leaves, a) = TotalOwed(a)
<1>1. DOMAIN owed = 1..Len(owed)
  BY DEF OrderInv
<1>2. [j \in DOMAIN leaves |-> At(leaves[j].sums, a)] = [k \in DOMAIN owed |-> At(owed[k], a)]
  BY <1>1
<1> QED BY <1>2 DEF Total, TotalOwed

\* Every level of a right tree totals what is owed.
LEMMA LevelsTotal ==
  ASSUME IInv, ShapeInv, RightInv, faults = 0, phase # "start", NEW a, NEW d \in 1..Len(levels)
  PROVE  Total(levels[d], a) = TotalOwed(a)
<1> DEFINE n == Len(levels)
           P == {c \in 0..n : c # 0 => Total(levels[c], a) = TotalOwed(a)}
<1>0. \A node : IsNode(node) => HasAmounts(node)
  BY DEF IsNode, HasAmounts
<1>1. /\ n \in Nat
      /\ \A c \in 1..n : IsLevel(levels[c]) /\ \A j \in 1..Len(levels[c]) : HasAmounts(levels[c][j])
  <2>1. n \in Nat /\ \A c \in 1..n : \A j \in 1..Len(levels[c]) : IsNode(levels[c][j])
    BY LevelsAre DEF IInv
  <2>2. \A c \in 1..n : IsLevel(levels[c])
    BY LevelsAreBuilt
  <2> QED BY <1>0, <2>1, <2>2
<1>2. 0 \in P
  BY <1>1
<1>3. ASSUME NEW c \in 1..n, c - 1 \in P PROVE c \in P
  <2>1. CASE c = 1
    <3>1. DOMAIN levels[1] = 1..Len(owed)
      BY <1>1, <2>1, LevelsAreBuilt DEF IsLevel
    <3>2. ASSUME NEW k \in 1..Len(owed) PROVE levels[1][k].sums = owed[k]
      <4>1. levels[1][k] = Leaf(k, owed[k])
        BY DEF RightInv
      <4> QED BY <4>1 DEF Leaf
    <3>3. Total(levels[1], a) = TotalOwed(a)
      BY <3>1, <3>2, LeavesTotal DEF IInv
    <3> QED BY <1>1, <2>1, <3>3
  <2>2. CASE c # 1
    <3>1. c \in 2..n /\ c - 1 \in 1..n /\ c - 1 # 0 /\ c \in 0..n
      BY <1>1, <2>2
    <3>2. levels[c] = Up(levels[c - 1])
      BY <3>1 DEF RightInv
    <3>3. Total(levels[c], a) = Total(levels[c - 1], a)
      <4> DEFINE s == levels[c - 1]
      <4>1. IsLevel(s) /\ (\A j \in 1..Len(s) : HasAmounts(s[j])) /\ levels[c] = Up(s)
        BY <1>1, <3>1, <3>2
      <4>2. \A j \in 1..Len(Up(s)) : HasAmounts(Up(s)[j])
        BY <1>1, <3>1, <3>2
      <4> HIDE DEF s
      <4>3. Total(Up(s), a) = Total(s, a)
        BY <4>1, <4>2, TotalUp DEF Total, LevelTotal
      <4> QED BY <4>1, <4>3 DEF s
    <3> QED BY <1>3, <3>1, <3>3
  <2> QED BY <2>1, <2>2
<1>4. \A c \in 0..n : c \in P
  <2> HIDE DEF P
  <2> QED BY <1>1, <1>2, <1>3, UpTo
<1>5. d \in P /\ d # 0
  BY <1>1, <1>4
<1> QED BY <1>5

\* Two balances of a level overflow only if the level's total does.
LEMMA OverflowIsReal ==
  ASSUME IInv, ShapeInv, RightInv, faults = 0, phase = "overflow"
  PROVE  \E a \in Assets : TotalOwed(a) > MaxAmount
<1> DEFINE l == Last[First]
           r == Last[First + 1]
           n == Len(Last)
           d == Len(levels)
<1>1. /\ First < n /\ ~Fits(Added(l.sums, r.sums)) /\ n \in Nat /\ First \in Nat \ {0}
      /\ d \in 1..d /\ IsLevel(Last) /\ \A j \in 1..n : HasAmounts(Last[j])
  <2>1. Len(next) \in Nat
    BY LevelsAre DEF IInv
  <2>2. d \in 1..d /\ IsLevel(Last)
    BY LevelsAreBuilt DEF Last
  <2>3. \A j \in 1..n : HasAmounts(Last[j])
    <3>1. \A node : IsNode(node) => HasAmounts(node)
      BY DEF IsNode, HasAmounts
    <3>2. \A j \in 1..n : IsNode(Last[j])
      BY <2>2, LevelsAre DEF IInv, Last
    <3> QED BY <3>1, <3>2
  <2> QED BY <2>1, <2>2, <2>3 DEF First, ShapeInv, PublishedInv, IsLevel
<1>2. First \in 1..n /\ First + 1 \in 1..n
  BY <1>1
<1>3. l.sums \in AmountMaps /\ r.sums \in AmountMaps
  BY <1>1, <1>2 DEF HasAmounts
<1> HIDE DEF l, r, n, d
<1>4. PICK a \in DOMAIN Added(l.sums, r.sums) : ~(Added(l.sums, r.sums)[a] <= MaxAmount)
  BY <1>1 DEF Fits
<1>5. a \in Assets
  <2>1. DOMAIN Added(l.sums, r.sums) = DOMAIN l.sums \cup DOMAIN r.sums
    BY DEF Added
  <2> QED BY <1>3, <2>1 DEF AmountMaps
<1>6. At(l.sums, a) + At(r.sums, a) > MaxAmount
  <2>1. Added(l.sums, r.sums)[a] = At(l.sums, a) + At(r.sums, a)
    BY DEF Added
  <2>2. At(l.sums, a) \in Nat /\ At(r.sums, a) \in Nat
    BY <1>3, AtNat
  <2> QED BY <1>4, <2>1, <2>2, MaxAmountAssumption
<1>7. PICK f : /\ Total(Last, a) = SumFunctionOnSet(f, 1..n)
               /\ \A j \in 1..n : f[j] = At(Last[j].sums, a) /\ f[j] \in Nat
  BY <1>1, TotalIs DEF n, Total, LevelTotal
<1>8. f[First] + f[First + 1] <= Total(Last, a)
  <2>1. IsFiniteSet(1..n)
    <3>1. 1 \in Int /\ n \in Int
      BY <1>1
    <3> QED BY <3>1, FS_Interval
  <2>2. First # First + 1
    BY <1>1
  <2> DEFINE S == 1..n
  <2>3. IsFiniteSet(S) /\ First \in S /\ First + 1 \in S /\ \A x \in S : f[x] \in Nat
    BY <1>2, <1>7, <2>1
  <2> HIDE DEF S
  <2>4. f[First] + f[First + 1] <= SumFunctionOnSet(f, S)
    BY <2>2, <2>3, SumOfTwo
  <2> QED BY <1>7, <2>4 DEF S
<1>9. Total(Last, a) = TotalOwed(a)
  BY <1>1, LevelsTotal DEF Last, d
<1>10. TotalOwed(a) \in Nat
  <2>1. IsFiniteSet(1..n) /\ \A x \in 1..n : f[x] \in Nat
    <3>1. 1 \in Int /\ n \in Int
      BY <1>1
    <3> QED BY <1>7, <3>1, FS_Interval
  <2> DEFINE S == 1..n
  <2> HIDE DEF S
  <2>2. SumFunctionOnSet(f, S) \in Nat
    BY <2>1, SumPick DEF S
  <2> QED BY <1>7, <1>9, <2>2 DEF S
<1>11. TotalOwed(a) > MaxAmount
  <2>1. f[First] = At(l.sums, a) /\ f[First + 1] = At(r.sums, a) /\ f[First] \in Nat /\ f[First + 1] \in Nat
    BY <1>2, <1>7 DEF l, r
  <2> QED BY <1>6, <1>8, <1>9, <1>10, <2>1, MaxAmountAssumption
<1> QED BY <1>5, <1>11

(***************************************************************************)
(* build counts every balance once at every level, for any number of       *)
(* customers, and refuses the books only if their total does not fit.      *)
(***************************************************************************)
THEOREM LevelsTotalTheLeaves == Spec => []EveryLevelTotalsTheLeaves
<1>1. IInv /\ ShapeInv /\ HonestInv => EveryLevelTotalsTheLeaves
  <2> SUFFICES ASSUME IInv, ShapeInv, HonestInv, faults = 0
               PROVE  /\ \A k \in DOMAIN levels : \A a \in Assets : Total(levels[k], a) = TotalOwed(a)
                      /\ phase = "overflow" => \E a \in Assets : TotalOwed(a) > MaxAmount
    BY DEF EveryLevelTotalsTheLeaves
  <2>1. DOMAIN levels = 1..Len(levels) /\ (phase = "start" => levels = << >>)
    BY LevelsAre DEF IInv, OrderInv
  <2>2. ASSUME NEW k \in DOMAIN levels, NEW a \in Assets PROVE Total(levels[k], a) = TotalOwed(a)
    <3>1. phase # "start"
      BY <2>1
    <3> QED BY <2>1, <3>1, LevelsTotal DEF HonestInv
  <2>3. phase = "overflow" => \E a \in Assets : TotalOwed(a) > MaxAmount
    BY OverflowIsReal DEF HonestInv
  <2> QED BY <2>2, <2>3
<1> QED BY <1>1, AlwaysTree, PTL

-----------------------------------------------------------------------------
(***************************************************************************)
(* What one auditor and all the customers establish together.              *)
(***************************************************************************)
DumpOf(n, user, given) == [j \in 1..n |-> Leaf(user[j], given[j])]

\* A dump that was rebuilt to what is published.
IsRebuilt(n, user, given) ==
  /\ \A j \in 2..n : user[j - 1] < user[j]
  /\ Builds(DumpOf(n, user, given)) /\ Matches(Root(DumpOf(n, user, given)))

RebuiltInv ==
  recomputed =>
    /\ phase = "published"
    /\ \E n \in DOMAIN owed : \E user \in [1..n -> DOMAIN owed], given \in [1..n -> BalanceMaps] :
         IsRebuilt(n, user, given)

LEMMA NextRebuilt == IInv /\ RebuiltInv /\ [Next]_vars => RebuiltInv'
<1> SUFFICES ASSUME IInv, RebuiltInv, [Next]_vars, recomputed' PROVE RebuiltInv'
  BY DEF RebuiltInv
<1>1. ASSUME recomputed, UNCHANGED <<phase, owed, published>> PROVE RebuiltInv'
  <2>1. PICK n \in DOMAIN owed : \E user \in [1..n -> DOMAIN owed], given \in [1..n -> BalanceMaps] :
          IsRebuilt(n, user, given)
    BY <1>1 DEF RebuiltInv
  <2>2. PICK user \in [1..n -> DOMAIN owed], given \in [1..n -> BalanceMaps] : IsRebuilt(n, user, given)
    BY <2>1
  <2>3. IsRebuilt(n, user, given)'
    BY <1>1, <2>2 DEF IsRebuilt, Matches
  <2>4. phase' = "published"
    BY <1>1 DEF RebuiltInv
  <2> QED BY <1>1, <2>3, <2>4 DEF RebuiltInv
<1>2. CASE ~Recompute
  <2>1. CASE recomputed
    <3>1. phase = "published"
      BY <2>1 DEF RebuiltInv
    <3>2. UNCHANGED <<phase, owed, published>>
      BY <1>2, <3>1 DEF Next, Pair, PairOverflows, PairMiscounted, Promote, PushLevel, PublishRoot,
        AskForProof, ProveStep, StartFold, FoldStep, FoldOverflows, Compare, Answer, vars, tree
    <3> QED BY <1>1, <2>1, <3>2
  <2>2. CASE ~recomputed
    <3>1. recomputed' = recomputed
      BY <1>2 DEF Next, Begin, Pair, PairOverflows, PairMiscounted, Promote, PushLevel, PublishRoot,
        AskForProof, ProveStep, StartFold, FoldStep, FoldOverflows, Compare, Answer, vars, check
    <3> QED BY <2>2, <3>1
  <2> QED BY <2>1, <2>2
<1>3. CASE Recompute
  <2>1. UNCHANGED <<phase, owed, published>> /\ phase = "published"
    BY <1>3 DEF Recompute, tree
  <2>2. PICK n \in DOMAIN owed : \E user \in [1..n -> DOMAIN owed], given \in [1..n -> BalanceMaps] :
          /\ \A j \in 2..n : user[j - 1] < user[j]
          /\ Builds([j \in 1..n |-> Leaf(user[j], given[j])])
          /\ Matches(Root([j \in 1..n |-> Leaf(user[j], given[j])]))
    BY <1>3 DEF Recompute
  <2>3. PICK user \in [1..n -> DOMAIN owed], given \in [1..n -> BalanceMaps] :
          /\ \A j \in 2..n : user[j - 1] < user[j]
          /\ Builds([j \in 1..n |-> Leaf(user[j], given[j])])
          /\ Matches(Root([j \in 1..n |-> Leaf(user[j], given[j])]))
    BY <2>2
  <2>4. IsRebuilt(n, user, given)
    BY <2>3 DEF IsRebuilt, DumpOf
  <2>5. IsRebuilt(n, user, given)'
    BY <2>1, <2>4 DEF IsRebuilt, Matches
  <2> QED BY <2>1, <2>5 DEF RebuiltInv
<1> QED BY <1>2, <1>3

\* A list that goes up and leaves none of the first m numbers out is those
\* numbers in order.
GoesUpOnto(user, n, m) ==
  /\ n \in Nat /\ m \in Nat /\ user \in [1..n -> 1..m]
  /\ \A j \in 2..n : user[j - 1] < user[j]
  /\ \A k \in 1..m : \E j \in 1..n : user[j] = k

LEMMA UpAndOnto ==
  ASSUME NEW user, NEW n, NEW m, GoesUpOnto(user, n, m)
  PROVE  \A k \in 1..m : k <= n /\ user[k] = k
<1> USE DEF GoesUpOnto
<1> DEFINE P == {j \in 0..n : j # 0 => \A i \in 1..(j - 1) : user[i] < user[j]}
           Q == {k \in 0..m : k # 0 => k <= n /\ user[k] = k}
<1>0. \A j \in 1..n : user[j] \in 1..m /\ user[j] \in Nat
  OBVIOUS
<1>1. \A j \in 0..n : j \in P
  <2>1. 0 \in P
    OBVIOUS
  <2>2. ASSUME NEW j \in 1..n, j - 1 \in P PROVE j \in P
    <3> SUFFICES ASSUME NEW i \in 1..(j - 1) PROVE user[i] < user[j]
      OBVIOUS
    <3>1. j \in 2..n /\ j - 1 \in 1..n /\ i \in 1..n
      OBVIOUS
    <3>2. user[j - 1] < user[j]
      BY <3>1
    <3>3. i = j - 1 \/ user[i] < user[j - 1]
      BY <2>2, <3>1
    <3>4. user[i] \in Nat /\ user[j - 1] \in Nat /\ user[j] \in Nat
      BY <1>0, <3>1
    <3>5. CASE i = j - 1
      BY <3>2, <3>5
    <3>6. CASE user[i] < user[j - 1]
      BY <3>2, <3>4, <3>6
    <3> QED BY <3>3, <3>5, <3>6
  <2> HIDE DEF P
  <2> QED BY <2>1, <2>2, UpTo
<1>2. \A i, j \in 1..n : i < j => user[i] < user[j]
  <2> SUFFICES ASSUME NEW i \in 1..n, NEW j \in 1..n, i < j PROVE user[i] < user[j]
    OBVIOUS
  <2>1. j \in 0..n /\ j # 0 /\ i \in 1..(j - 1)
    OBVIOUS
  <2>2. j \in P
    BY <1>1, <2>1
  <2> QED BY <2>1, <2>2
<1> HIDE DEF P
<1>3. ASSUME NEW k \in 1..m, k - 1 \in Q PROVE k \in Q
  <2>1. PICK j \in 1..n : user[j] = k
    OBVIOUS
  <2>2. CASE k = 1
    <3>1. 1 \in 1..n
      OBVIOUS
    <3>2. ~(1 < j)
      BY <1>0, <1>2, <2>1, <2>2, <3>1
    <3>3. j = 1
      BY <3>2
    <3> QED BY <2>1, <2>2, <3>1, <3>3
  <2>3. CASE k # 1
    <3>1. k - 1 \in 1..n /\ user[k - 1] = k - 1
      BY <1>3, <2>3
    <3>2. ~(j < k - 1) /\ j # k - 1
      BY <1>2, <2>1, <3>1
    <3>3. k <= n
      BY <3>1, <3>2
    <3>4. k \in 1..n /\ user[k - 1] < user[k]
      BY <1>2, <3>1, <3>3
    <3>5. ~(k < j)
      <4> SUFFICES ASSUME k < j PROVE FALSE
        OBVIOUS
      <4>1. user[k] < k
        BY <1>2, <2>1, <3>4
      <4> QED BY <1>0, <3>1, <3>4, <4>1
    <3>6. j = k
      BY <3>1, <3>2, <3>5
    <3> QED BY <2>1, <3>3, <3>6
  <2> QED BY <2>2, <2>3
<1>4. 0 \in Q
  OBVIOUS
<1>5. \A k \in 0..m : k \in Q
  <2> HIDE DEF Q
  <2> QED BY <1>3, <1>4, UpTo
<1> SUFFICES ASSUME NEW k \in 1..m PROVE k <= n /\ user[k] = k
  OBVIOUS
<1>6. k \in Q /\ k # 0
  BY <1>5
<1> QED BY <1>6

\* Whatever has hashed the root has hashed every leaf.
LEMMA RootHashesLeaves ==
  ASSUME IInv, ShapeInv, phase = "published", NEW H, IsClosed(H), published.hash \in H
  PROVE  \A k \in 1..Len(owed) : levels[1][k].hash \in H
<1> DEFINE n == Len(levels)
           P == {c \in 0..(n - 1) : \A j \in 1..Len(levels[n - c]) : levels[n - c][j].hash \in H}
<1>1. /\ LevelsInv /\ PublishedInv /\ n \in 1..n /\ n \in Nat
      /\ \A d \in 1..n : Len(levels[d]) \in Nat
  BY LevelsAre DEF IInv, OrderInv, ShapeInv
<1>2. 0 \in P
  <2>1. Len(levels[n]) = 1 /\ levels[n][1].hash \in H
    BY <1>1 DEF PublishedInv, Last
  <2>2. n - 0 = n /\ 0 \in 0..(n - 1)
    BY <1>1
  <2>3. \A j \in 1..Len(levels[n]) : levels[n][j].hash \in H
    BY <2>1
  <2> HIDE DEF n
  <2> QED BY <2>2, <2>3
<1>3. ASSUME NEW c \in 1..(n - 1), c - 1 \in P PROVE c \in P
  <2> DEFINE s == levels[n - c]
             t == levels[n - (c - 1)]
  <2>1. /\ n - (c - 1) \in 2..n /\ (n - (c - 1)) - 1 = n - c
        /\ n - c \in 1..n /\ c \in 0..(n - 1)
    BY <1>1
  <2>2. IsAbove(s, t) /\ Len(t) = (Len(s) + 1) \div 2 /\ Len(s) \in Nat
    <3>1. LevelsInv /\ phase # "start"
      BY <1>1
    <3>2. \A d \in 2..n : IsAbove(levels[d - 1], levels[d])
                          /\ Len(levels[d]) = (Len(levels[d - 1]) + 1) \div 2
      BY <3>1 DEF LevelsInv
    <3> HIDE DEF n
    <3> QED BY <1>1, <2>1, <3>2
  <2>3. \A j \in 1..Len(t) : t[j].hash \in H
    BY <1>3
  <2> HIDE DEF s, t
  <2>4. ASSUME NEW i \in 1..Len(s) PROVE s[i].hash \in H
    <3> DEFINE j == (i + 1) \div 2
    <3>1. j \in 1..Len(t) /\ (i = 2 * j \/ i = 2 * j - 1) /\ j \in Nat
      BY <2>2
    <3> HIDE DEF j
    <3>2. t[j].hash \in H
      BY <2>3, <3>1
    <3>3. CASE 2 * j <= Len(s)
      <4>1. t[j] = Node(s[2 * j - 1], s[2 * j], t[j].sums)
        BY <2>2, <3>1, <3>3 DEF IsAbove
      <4>2. /\ t[j].hash.kind = "node" /\ t[j].hash.left = s[2 * j - 1].hash
            /\ t[j].hash.right = s[2 * j].hash
        BY <4>1 DEF Node
      <4> QED BY <3>1, <3>2, <4>2 DEF IsClosed
    <3>4. CASE 2 * j > Len(s)
      <4>1. t[j] = s[2 * j - 1] /\ i = 2 * j - 1
        BY <2>2, <3>1, <3>4 DEF IsAbove
      <4> QED BY <3>2, <4>1
    <3> QED BY <2>2, <3>1, <3>3, <3>4
  <2> QED BY <2>1, <2>4 DEF s
<1>4. n - 1 \in P
  <2>1. n - 1 \in 0..(n - 1) /\ n - 1 \in Nat
    BY <1>1
  <2> HIDE DEF P
  <2> QED BY <1>2, <1>3, <2>1, UpTo
<1>5. \A j \in 1..Len(levels[1]) : levels[1][j].hash \in H
  <2>1. n - (n - 1) = 1
    BY <1>1
  <2> HIDE DEF n
  <2> QED BY <1>4, <2>1
<1> QED BY <1>1, <1>5 DEF LevelsInv

\* A dump that rebuilds to the root, when all the customers' leaves are under
\* it, is the customers with what they are owed.
LEMMA RebuiltIsOwed ==
  ASSUME IInv, ShapeInv, phase = "published", passed = 1..Len(owed),
         NEW n \in DOMAIN owed, NEW user \in [1..n -> DOMAIN owed],
         NEW given \in [1..n -> BalanceMaps], IsRebuilt(n, user, given)
  PROVE  LET dump == DumpOf(n, user, given) IN
         /\ IsLevel(dump) /\ Len(dump) = Len(owed)
         /\ \A k \in 1..Len(owed) : dump[k].sums = owed[k] /\ HasAmounts(dump[k])
<1> DEFINE dump == DumpOf(n, user, given)
           m == Len(owed)
           H == HashesOf(dump)
<1>1. m \in Nat /\ DOMAIN owed = 1..m /\ n \in Nat \ {0} /\ n <= m /\ user \in [1..n -> 1..m]
      /\ owed \in Seq(BalanceMaps)
  <2>1. owed \in Seq(BalanceMaps)
    BY DEF IInv, OrderInv
  <2> QED BY <2>1
<1>2. IsLevel(dump) /\ Len(dump) = n /\ DOMAIN dump = 1..n /\ \A j \in 1..n : dump[j] = Leaf(user[j], given[j])
  <2>1. dump \in [1..n -> {dump[j] : j \in 1..n}] /\ \A j \in 1..n : dump[j] = Leaf(user[j], given[j])
    BY DEF DumpOf
  <2> HIDE DEF dump
  <2> QED BY <1>1, <2>1 DEF IsLevel
<1> HIDE DEF dump, m
<1>3. AreLeaves(dump)
  <2>1. ASSUME NEW j \in 1..n PROVE dump[j].hash.kind # "node"
    BY <1>2 DEF Leaf
  <2> QED BY <1>2, <2>1 DEF AreLeaves
<1>4. /\ IsClosed(H) /\ published.hash \in H
      /\ \A h \in H : h.kind # "node" => \E j \in 1..n : dump[j].hash = h
  <2>1. Root(dump).hash = published.hash
    BY DEF IsRebuilt, Matches, dump
  <2> QED BY <1>2, <1>3, <2>1, TreeIsClosed
<1> HIDE DEF H
<1>5. ASSUME NEW k \in 1..m PROVE \E j \in 1..n : user[j] = k /\ given[j] = owed[k]
  <2>1. levels[1][k] = Leaf(k, owed[k]) /\ levels[1][k].hash \in H
    BY <1>4, RootHashesLeaves DEF ShapeInv, PassedIsCommitted, m
  <2>2. Leaf(k, owed[k]).hash.kind # "node"
    BY DEF Leaf
  <2>3. PICK j \in 1..n : dump[j].hash = Leaf(k, owed[k]).hash
    BY <1>4, <2>1, <2>2
  <2>4. Leaf(user[j], given[j]).hash = Leaf(k, owed[k]).hash
    BY <1>2, <2>3
  <2> QED BY <2>4, LeafHash
<1>6. \A k \in 1..m : k <= n /\ user[k] = k
  <2>1. \A j \in 2..n : user[j - 1] < user[j]
    BY DEF IsRebuilt
  <2>2. \A k \in 1..m : \E j \in 1..n : user[j] = k
    BY <1>5
  <2>3. n \in Nat /\ m \in Nat /\ user \in [1..n -> 1..m]
    BY <1>1
  <2>4. GoesUpOnto(user, n, m)
    BY <2>1, <2>2, <2>3 DEF GoesUpOnto
  <2> QED BY <2>4, UpAndOnto
<1>7. n = m
  <2>1. m \in 1..m
    BY <1>1
  <2> QED BY <1>1, <1>6, <2>1
<1>8. ASSUME NEW k \in 1..m PROVE dump[k].sums = owed[k] /\ HasAmounts(dump[k])
  <2>1. PICK j \in 1..n : user[j] = k /\ given[j] = owed[k]
    BY <1>5
  <2>2. j = k
    BY <1>6, <1>7, <2>1
  <2>3. dump[k] = Leaf(k, owed[k])
    BY <1>2, <1>7, <2>1, <2>2
  <2>4. owed[k] \in AmountMaps
    BY <1>1, ConstantsAssumption
  <2> QED BY <2>3, <2>4 DEF Leaf, HasAmounts
<1> QED BY <1>2, <1>7, <1>8 DEF dump, m

(***************************************************************************)
(* One customer's check shows only that customer's balance; all of them    *)
(* and one auditor show the totals: if every customer passes and the root  *)
(* was rebuilt from some dump, what is published is what is owed, asset by *)
(* asset.                                                                  *)
(***************************************************************************)
THEOREM RecomputedIsOwed == Spec => []RecomputedTotalsAreOwed
<1>1. Spec => []RebuiltInv
  <2>1. Init => RebuiltInv
    BY DEF Init, RebuiltInv
  <2>2. IInv /\ RebuiltInv /\ [Next]_vars => RebuiltInv'
    BY NextRebuilt
  <2> QED BY <2>1, <2>2, InitIInv, NextIInv, PTL DEF Spec
<1>2. IInv /\ ShapeInv /\ HonestInv /\ RebuiltInv => RecomputedTotalsAreOwed
  <2> SUFFICES ASSUME IInv, ShapeInv, RebuiltInv, recomputed, passed = 1..Len(owed), NEW a \in Assets
               PROVE  At(published.sums, a) = TotalOwed(a)
    BY DEF RecomputedTotalsAreOwed
  <2>1. /\ phase = "published"
        /\ \E n \in DOMAIN owed : \E user \in [1..n -> DOMAIN owed], given \in [1..n -> BalanceMaps] :
             IsRebuilt(n, user, given)
    BY DEF RebuiltInv
  <2>2. PICK n \in DOMAIN owed : \E user \in [1..n -> DOMAIN owed], given \in [1..n -> BalanceMaps] :
             IsRebuilt(n, user, given)
    BY <2>1
  <2>3. PICK user \in [1..n -> DOMAIN owed], given \in [1..n -> BalanceMaps] : IsRebuilt(n, user, given)
    BY <2>2
  <2> DEFINE dump == DumpOf(n, user, given)
  <2>4. /\ IsLevel(dump) /\ Len(dump) = Len(owed)
        /\ \A k \in 1..Len(owed) : dump[k].sums = owed[k] /\ HasAmounts(dump[k])
    BY <2>1, <2>3, RebuiltIsOwed
  <2>5. Builds(dump) /\ SameSums(Root(dump).sums, published.sums)
    BY <2>3 DEF IsRebuilt, Matches
  <2> HIDE DEF dump
  <2>6. DOMAIN dump = 1..Len(owed)
    BY <2>4 DEF IsLevel
  <2>7. At(Root(dump).sums, a) = Total(dump, a)
    BY <2>4, <2>5, <2>6, RootIsTotal DEF Total, LevelTotal
  <2>8. Total(dump, a) = TotalOwed(a)
    BY <2>4, <2>6, LeavesTotal DEF IInv
  <2> QED BY <2>5, <2>7, <2>8 DEF SameSums
<1> QED BY <1>1, <1>2, AlwaysTree, PTL
=============================================================================
