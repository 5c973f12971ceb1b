------------------------------ MODULE SumTree ------------------------------
(***************************************************************************)
(* The Merkle sum tree (rust/solvency-merkle/src/lib.rs), the report that  *)
(* publishes its root, and the customers who check their inclusion proofs  *)
(* against it (rust/solvency-report/src/verify.rs, SPEC 4, 5 and 9.1), and *)
(* the auditor who rebuilds it (rust/solvency-cli/src/recompute.rs).       *)
(*                                                                         *)
(* build, prove and fold are the loops of the code, one iteration a step.  *)
(*                                                                         *)
(* A verifier trusts no publisher: up to a bound, a figure is not what the *)
(* library would have computed - a balance in the books, the sums of an    *)
(* inner node, a published total, a sibling's sums in a proof.             *)
(***************************************************************************)
EXTENDS SumNodes, FiniteSets, Functions

CONSTANTS
  BalanceMaps,  \* what a customer may be owed: maps from assets to amounts
  Figures,      \* the figures a publisher may give in place of the right one
  MaxLeaves,    \* bound on the customers
  MaxFaults,    \* bound on the wrong figures, for each number of customers
  MaxDump       \* bound on the customers of a tree that an auditor rebuilds

ASSUME ConstantsAssumption ==
  /\ MaxLeaves \in Nat /\ MaxDump \in Nat
  /\ MaxFaults \in [1..MaxLeaves -> Nat]
  /\ BalanceMaps \subseteq AmountMaps /\ Figures \subseteq AmountMaps

VARIABLES
  owed,       \* the balances of customer k, as the customer knows them
  levels,     \* SumTree::levels, leaves first
  next,       \* the level being built
  phase,      \* where build and publish are
  published,  \* the report: root_hash and root_sums
  who,        \* the customer checking, 0 if none: they check one by one
  idx,        \* prove's `idx`, from 0
  lvl,        \* the level prove's loop is at, from 1
  steps,      \* the proof so far
  current,    \* fold's running node
  step,       \* the step fold's loop is at, from 1; 0 while proving
  checked,    \* how many customers have checked
  passed,     \* those whose check passed
  faults,     \* how many figures are wrong
  recomputed  \* whether an auditor's rebuilt root matched the published one

tree == <<owed, levels, next, phase, published>>
check == <<who, idx, lvl, steps, current, step, checked, passed, recomputed>>
vars == <<owed, levels, next, phase, published, who, idx, lvl, steps, current,
          step, checked, passed, faults, recomputed>>

Nobody == Leaf(0, [a \in {} |-> 0])

-----------------------------------------------------------------------------
(***************************************************************************)
(* SumTree::build.                                                         *)
(***************************************************************************)
Last == levels[Len(levels)]

\* The figure given is the right one, or a wrong one that is not one too many.
Wrong(s, right) ==
  /\ s # right
  /\ faults < MaxFaults[Len(owed)]
  /\ faults' = faults + 1

Given(s, right) == (s = right /\ UNCHANGED faults) \/ Wrong(s, right)

\* The customers in `wrong` are entered with other balances than they are owed.
Begin(balances, wrong) ==
  /\ faults' = Cardinality({k \in DOMAIN wrong : wrong[k] # balances[k]})
  /\ owed' = balances
  /\ levels' = <<[k \in DOMAIN balances |->
                    Leaf(k, IF k \in DOMAIN wrong THEN wrong[k] ELSE balances[k])]>>
  /\ phase' = "building"
  /\ UNCHANGED <<next, published, check>>

\* The first node of the pair that is combined next.
First == 2 * Len(next) + 1

\* Mutant of Pair: the two nodes are combined in the other order.
PairSwapped ==
  /\ phase = "building" /\ First < Len(Last)
  /\ Fits(Added(Last[First].sums, Last[First + 1].sums))
  /\ next' = Append(next, Combine(Last[First + 1], Last[First]))
  /\ UNCHANGED <<owed, levels, phase, published, check, faults>>

Pair ==
  /\ phase = "building" /\ First < Len(Last)
  /\ Fits(Added(Last[First].sums, Last[First + 1].sums))
  /\ next' = Append(next, Combine(Last[First], Last[First + 1]))
  /\ UNCHANGED <<owed, levels, phase, published, check, faults>>

\* `sum overflow`: build returns the error and nothing is published.
PairOverflows ==
  /\ phase = "building" /\ First < Len(Last)
  /\ ~Fits(Added(Last[First].sums, Last[First + 1].sums))
  /\ phase' = "overflow"
  /\ UNCHANGED <<owed, levels, next, published, check, faults>>

\* A publisher's own software gives the node other sums.
PairMiscounted ==
  /\ phase = "building" /\ First < Len(Last)
  /\ \E s \in Figures :
       /\ Wrong(s, Added(Last[First].sums, Last[First + 1].sums))
       /\ next' = Append(next, Node(Last[First], Last[First + 1], s))
  /\ UNCHANGED <<owed, levels, phase, published, check>>

\* The last node of an odd level goes up unchanged.
Promote ==
  /\ phase = "building" /\ First = Len(Last) /\ Len(Last) > 1
  /\ next' = Append(next, Odd(Last[First]))
  /\ UNCHANGED <<owed, levels, phase, published, check, faults>>

PushLevel ==
  /\ phase = "building" /\ First > Len(Last)
  /\ levels' = Append(levels, next)
  /\ next' = << >>
  /\ UNCHANGED <<owed, phase, published, check, faults>>

\* publish: the root goes into the report.
PublishRoot ==
  /\ phase = "building" /\ Len(Last) = 1
  /\ \E s \in Figures \cup {Last[1].sums} :
       /\ Given(s, Last[1].sums)
       /\ published' = [hash |-> Last[1].hash, sums |-> s]
  /\ phase' = "published"
  /\ UNCHANGED <<owed, levels, next, check>>

-----------------------------------------------------------------------------
(***************************************************************************)
(* SumTree::prove for one customer, and the check of that proof.           *)
(***************************************************************************)
AskForProof ==
  /\ phase = "published" /\ who = 0 /\ checked < Len(owed)
  /\ who' = checked + 1
  /\ idx' = checked /\ lvl' = 1 /\ steps' = << >> /\ step' = 0
  /\ UNCHANGED <<tree, current, checked, passed, faults, recomputed>>

\* One level.  A promoted node has no sibling there and adds no step.
ProveStep ==
  /\ who # 0 /\ step = 0 /\ lvl < Len(levels)
  /\ LET level == levels[lvl]
         sib   == Sibling(idx)
     IN IF sib < Len(level)
        THEN \E s \in Figures \cup {level[sib + 1].sums} :
               /\ Given(s, level[sib + 1].sums)
               /\ steps' = Append(steps, [sibling |-> [hash |-> level[sib + 1].hash, sums |-> s],
                                          onLeft |-> sib < idx])
        ELSE UNCHANGED <<steps, faults>>
  /\ idx' = idx \div 2
  /\ lvl' = lvl + 1
  /\ UNCHANGED <<tree, who, current, step, checked, passed, recomputed>>

\* The customer recomputes its own leaf, from its own balances.
StartFold ==
  /\ who # 0 /\ step = 0 /\ lvl = Len(levels)
  /\ current' = Leaf(who, owed[who])
  /\ step' = 1
  /\ UNCHANGED <<tree, who, idx, lvl, steps, checked, passed, faults, recomputed>>

LeftOf(k)  == IF steps[k].onLeft THEN steps[k].sibling ELSE current
RightOf(k) == IF steps[k].onLeft THEN current ELSE steps[k].sibling

FoldStep ==
  /\ step \in DOMAIN steps
  /\ Fits(Added(LeftOf(step).sums, RightOf(step).sums))
  /\ current' = Combine(LeftOf(step), RightOf(step))
  /\ step' = step + 1
  /\ UNCHANGED <<tree, who, idx, lvl, steps, checked, passed, faults, recomputed>>

Answer(ok) ==
  /\ passed' = IF ok THEN passed \cup {who} ELSE passed
  /\ checked' = who
  /\ who' = 0 /\ idx' = 0 /\ lvl' = 1 /\ steps' = << >> /\ step' = 0 /\ current' = Nobody
  /\ UNCHANGED <<tree, faults, recomputed>>

FoldOverflows ==
  /\ step \in DOMAIN steps
  /\ ~Fits(Added(LeftOf(step).sums, RightOf(step).sums))
  /\ Answer(FALSE)

\* Mutants of Agrees: one of the two comparisons is missing.
HashAgrees(node) == node.hash = published.hash
SumsAgree(node)  == SameSums(node.sums, published.sums)

\* verify_against_report: hash and totals, compared independently.
Agrees(node) ==
  /\ node.hash = published.hash
  /\ SameSums(node.sums, published.sums)

\* What the profile solvency.liabilities requires of a report, whoever checks.
CarriesTotals == DOMAIN published.sums # {}

\* verify makes its other checks first; of those the model has this one.
Compare ==
  /\ who # 0 /\ step = Len(steps) + 1
  /\ Answer(CarriesTotals /\ Agrees(current))

-----------------------------------------------------------------------------
(***************************************************************************)
(* run_recompute: an auditor is given all the leaves and builds the tree.  *)
(***************************************************************************)

\* Mutant of Matches: the root is not compared.
MatchesTotals(root) == SameSums(root.sums, published.sums)

Matches(root) ==
  /\ root.hash = published.hash
  /\ SameSums(root.sums, published.sums)

\* The publisher dumps whom it likes of its customers, in the order of the
\* tree, with what balances it likes.  An empty dump, or one that overflows,
\* gets no answer.
Recompute ==
  /\ phase = "published" /\ who = 0 /\ checked = Len(owed) /\ Len(owed) <= MaxDump
  /\ ~recomputed
  /\ \E n \in DOMAIN owed : \E user \in [1..n -> DOMAIN owed], given \in [1..n -> BalanceMaps] :
       /\ \A j \in 2..n : user[j - 1] < user[j]
       /\ LET dump == [j \in 1..n |-> Leaf(user[j], given[j])]
          IN Builds(dump) /\ Matches(Root(dump))
  /\ recomputed' = TRUE
  /\ UNCHANGED <<tree, who, idx, lvl, steps, current, step, checked, passed, faults>>

-----------------------------------------------------------------------------
Init ==
  /\ owed = << >> /\ levels = << >> /\ next = << >>
  /\ phase = "start"
  /\ published = Nobody
  /\ who = 0 /\ idx = 0 /\ lvl = 1 /\ steps = << >> /\ current = Nobody /\ step = 0
  /\ checked = 0 /\ passed = {} /\ faults = 0
  /\ recomputed = FALSE

Next ==
  \/ /\ phase = "start"
     /\ \E n \in 1..MaxLeaves : \E balances \in [1..n -> BalanceMaps] :
          \E W \in SUBSET (1..n) : \E wrong \in [W -> BalanceMaps] :
            Cardinality(W) <= MaxFaults[n] /\ Begin(balances, wrong)
  \/ Pair \/ PairOverflows \/ PairMiscounted \/ Promote \/ PushLevel \/ PublishRoot
  \/ AskForProof \/ ProveStep \/ StartFold \/ FoldStep \/ FoldOverflows \/ Compare
  \/ Recompute

Spec == Init /\ [][Next]_vars

-----------------------------------------------------------------------------
IsNode(node) == node = [hash |-> node.hash, sums |-> node.sums] /\ node.sums \in AmountMaps

TypeOK ==
  /\ owed \in Seq(BalanceMaps)
  /\ \A k \in DOMAIN levels : \A j \in DOMAIN levels[k] : IsNode(levels[k][j])
  /\ \A j \in DOMAIN next : IsNode(next[j])
  /\ phase \in {"start", "building", "overflow", "published"}
  /\ IsNode(published) /\ IsNode(current)
  /\ who \in 0..Len(owed) /\ checked \in 0..Len(owed) /\ passed \subseteq 1..Len(owed)
  /\ idx \in Nat /\ lvl \in Nat /\ step \in Nat
  /\ \A k \in DOMAIN steps : IsNode(steps[k].sibling) /\ steps[k].onLeft \in BOOLEAN
  /\ recomputed \in BOOLEAN
  /\ faults \in Nat /\ (owed # << >> => faults <= MaxFaults[Len(owed)])

Total(level, a) == SumFunction([j \in DOMAIN level |-> At(level[j].sums, a)])

TotalOwed(a) == SumFunction([k \in DOMAIN owed |-> At(owed[k], a)])

(***************************************************************************)
(* build counts every balance once, at every level, whatever the number of *)
(* customers: no level it has pushed totals more or less than the leaves.  *)
(* It fails only on books whose total really does not fit the integer: the *)
(* order in which the pairs are added never matters.                       *)
(***************************************************************************)
EveryLevelTotalsTheLeaves ==
  faults = 0 =>
    /\ \A k \in DOMAIN levels : \A a \in Assets : Total(levels[k], a) = TotalOwed(a)
    /\ phase = "overflow" => \E a \in Assets : TotalOwed(a) > MaxAmount

(***************************************************************************)
(* The loops of build and prove, step by step, arrive at the tree and the  *)
(* proofs that SumNodes gives to those who use the tree as a library.      *)
(***************************************************************************)
LoopsBuildTheTree ==
  phase = "published" /\ faults = 0 =>
    /\ \A d \in DOMAIN levels : levels[d] = Built(levels[1])[d - 1]
    /\ who # 0 /\ step = 0 /\ lvl = Len(levels) => steps = Prove(levels[1], who - 1)

(***************************************************************************)
(* If every figure is right, every customer's proof checks, at every place *)
(* of a tree of every shape, and the checks of those who are owed nothing  *)
(* at all with the others'.  Only of books in which nobody is owed any     *)
(* asset does verify refuse every proof: their report says nothing         *)
(* (profile.rs 208-230).                                                   *)
(***************************************************************************)
SomebodyIsOwed == \E k \in DOMAIN owed : DOMAIN owed[k] # {}

EveryCustomerPasses == faults = 0 /\ SomebodyIsOwed => passed = 1..checked

(***************************************************************************)
(* A customer's check bounds what is published: whatever figures are wrong *)
(* and wherever, no published total is below what the customer is owed.    *)
(***************************************************************************)
PassedBoundsOwnBalance ==
  \A k \in passed : \A a \in Assets : At(owed[k], a) <= At(published.sums, a)

(***************************************************************************)
(* A customer whose check passes is in the tree with exactly what it is    *)
(* owed: wrong books cannot be talked round by a proof.                    *)
(***************************************************************************)
PassedIsCommitted ==
  \A k \in passed : levels[1][k] = Leaf(k, owed[k])

(***************************************************************************)
(* What one customer's check cannot show, all of theirs and one auditor's  *)
(* do: if every customer passes and the root was rebuilt from some dump,   *)
(* the published totals are what the customers are owed together.          *)
(***************************************************************************)
RecomputedTotalsAreOwed ==
  recomputed /\ passed = 1..Len(owed) =>
    \A a \in Assets : At(published.sums, a) = TotalOwed(a)

(***************************************************************************)
(* What the documentation says of a tree all of whose customers check:     *)
(* "a customer checking their own proof also checks that the published     *)
(* liabilities are not understated" (solvency-merkle/src/lib.rs).          *)
(***************************************************************************)
NotUnderstated ==
  (owed # << >> /\ passed = 1..Len(owed)) =>
    \A a \in Assets : TotalOwed(a) <= At(published.sums, a)
=============================================================================
