----------------------------- MODULE GroupChain -----------------------------
(***************************************************************************)
(* A group of entities over their customers' trees, and the customer who   *)
(* checks the whole chain (rust/solvency-report/src/group.rs, SPEC 13).    *)
(*                                                                         *)
(* Entities publish, and publish again; a group takes any of what they     *)
(* published, old or new, once or twice; a customer is handed any of the   *)
(* documents there are.  Up to a bound, a figure in any of them is not the *)
(* one the library would have written.  publish, publish_group and         *)
(* verify_chain are pure functions: each is one step.                      *)
(***************************************************************************)
EXTENDS SumNodes, FiniteSets

CONSTANTS
  Entities,
  Books,        \* an entity's customers and what they are owed: sequences
  Figures,      \* the figures given in place of the right one
  MaxReports,   \* bound on the reports of entities
  MaxMembers,   \* bound on the entities in a group
  MaxFaults,    \* bound on the wrong figures
  Nothing

ASSUME ConstantsAssumption ==
  /\ Books \subseteq Seq(AmountMaps) \ {<< >>}
  /\ Figures \subseteq AmountMaps
  /\ MaxReports \in Nat /\ MaxMembers \in Nat /\ MaxFaults \in Nat

VARIABLES
  reports,  \* every report an entity has signed, with the books behind it
  group,    \* the group's report, with the entities behind it
  faults,   \* how many figures are wrong
  asked,    \* the documents verify_chain was called with
  verdict   \* "idle", or what it returned

vars == <<reports, group, faults, asked, verdict>>

Affordable(n) == faults + n <= MaxFaults

\* A root whose sums are not what its children add up to.
Miscounted(root, s) ==
  [hash |-> IF root.hash.kind = "node" THEN [root.hash EXCEPT !.sums = s] ELSE root.hash,
   sums |-> s]

\* The roots a publisher may come to, and how many wrong figures each takes.
RootsOf(leaves) ==
  {[root |-> Root(leaves), wrong |-> 0]}
    \cup {[root |-> Miscounted(Root(leaves), s), wrong |-> 1] : s \in Figures \ {Root(leaves).sums}}

-----------------------------------------------------------------------------
(***************************************************************************)
(* publish, for one entity, and publish_group.                             *)
(***************************************************************************)
Leaves(e, book) == [k \in DOMAIN book |-> Leaf(<<e, k>>, book[k])]

PublishEntity(e, book) ==
  /\ Cardinality(reports) < MaxReports
  /\ Builds(Leaves(e, book))
  /\ \E made \in RootsOf(Leaves(e, book)) :
       /\ Affordable(made.wrong)
       /\ reports' = reports \cup {[of |-> e, book |-> book, root |-> made.root]}
       /\ faults' = faults + made.wrong
  /\ UNCHANGED <<group, asked, verdict>>

\* An EntityInput: an entity's position as it enters the group.
Position(r) == [id |-> r.of, root |-> r.root.hash, sums |-> r.root.sums]

\* A position as it is, and with the wrong sums.
Stated(position) ==
  {[position |-> position, wrong |-> 0]}
    \cup {[position |-> [position EXCEPT !.sums = s], wrong |-> 1] : s \in Figures \ {position.sums}}

\* Members are taken from what entities published; nothing says which, or that
\* none is taken twice.
PublishGroup(entities, wrong) ==
  /\ group = Nothing
  /\ Builds(EntityLeaves(entities))
  /\ \E made \in RootsOf(EntityLeaves(entities)) :
       /\ Affordable(made.wrong + wrong)
       /\ group' = [entities |-> entities, root |-> made.root]
       /\ faults' = faults + made.wrong + wrong
  /\ UNCHANGED <<reports, asked, verdict>>

-----------------------------------------------------------------------------
(***************************************************************************)
(* verify_chain.                                                           *)
(***************************************************************************)

\* What the profiles of both reports require of them, before anything else.
CarriesTotals(root) == DOMAIN root.sums # {}

\* The proof is of this report, and the customer's own leaf folds to it.
VerifyProof(c) ==
  /\ CarriesTotals(c.report.root)
  /\ c.proofOf = c.report
  /\ FoldsTo(Leaf(c.customer, c.owed), c.steps, c.report.root)

\* verify_membership: the entity's leaf against the group's report.
VerifyMember(c) ==
  /\ CarriesTotals(group.root)
  /\ FoldsTo(EntityLeaf(c.member), c.path, group.root)

\* Mutants of SameBook: one of its two comparisons is missing.
SameBookRoot(c) == c.member.root = c.report.root.hash
SameBookSums(c) == SameSums(c.member.sums, c.report.root.sums)

\* The group speaks of the book that the customer is in.
SameBook(c) ==
  /\ c.member.root = c.report.root.hash
  /\ SameSums(c.member.sums, c.report.root.sums)

VerifyChain(c) ==
  IF ~VerifyProof(c)           THEN "proof"
  ELSE IF ~VerifyMember(c)     THEN "membership"
  ELSE IF ~SameBook(c)         THEN "mismatch"
  ELSE "ok"

\* A proof's steps as they are, and with one sibling's sums wrong.
Handed(steps) ==
  {[steps |-> steps, wrong |-> 0]}
    \cup {[steps |-> [steps EXCEPT ![i].sibling.sums = s], wrong |-> 1] :
             i \in DOMAIN steps, s \in Figures}

\* A customer of the entity that signed `r` is shown a report of that entity,
\* its own proof of one, and the membership of one of the group's entities.
Ask(r, shown, k, j) ==
  /\ verdict = "idle" /\ group # Nothing
  /\ \E proof \in Handed(Prove(Leaves(r.of, r.book), k - 1)),
        path \in Handed(Prove(EntityLeaves(group.entities), j - 1)),
        member \in Stated(group.entities[j]) :
       LET wrong == proof.wrong + path.wrong + member.wrong IN
       /\ Affordable(wrong)
       /\ asked' = [report |-> shown, proofOf |-> r, customer |-> <<r.of, k>>, owed |-> r.book[k],
                    steps |-> proof.steps, member |-> member.position, path |-> path.steps,
                    wrong |-> wrong]
  /\ verdict' = VerifyChain(asked')
  /\ UNCHANGED <<reports, group, faults>>

Return ==
  /\ verdict # "idle"
  /\ asked' = Nothing /\ verdict' = "idle"
  /\ UNCHANGED <<reports, group, faults>>

-----------------------------------------------------------------------------
Init ==
  /\ reports = {} /\ group = Nothing /\ faults = 0
  /\ asked = Nothing /\ verdict = "idle"

Next ==
  \/ \E e \in Entities, book \in Books : PublishEntity(e, book)
  \/ \E n \in 1..MaxMembers : \E taken \in [1..n -> reports] :
       LET positions == [j \in 1..n |-> Position(taken[j])] IN
       \E k \in 1..n : \E stated \in Stated(positions[k]) :
         PublishGroup([positions EXCEPT ![k] = stated.position], stated.wrong)
  \/ \E r, shown \in reports : \E k \in DOMAIN r.book :
       group # Nothing /\ shown.of = r.of /\ \E j \in DOMAIN group.entities : Ask(r, shown, k, j)
  \/ Return

Spec == Init /\ [][Next]_vars

-----------------------------------------------------------------------------
Within(s, t) == \A a \in Assets : At(s, a) <= At(t, a)

(***************************************************************************)
(* A chain that holds bounds what the group publishes: whatever figures    *)
(* are wrong and in whose documents, the customer's balance is within the  *)
(* entity's total, and that entity's whole total within the group's.       *)
(***************************************************************************)
PassedChainBounds ==
  verdict = "ok" =>
    Within(asked.owed, asked.report.root.sums) /\ Within(asked.report.root.sums, group.root.sums)

(***************************************************************************)
(* The group that a chain leads to was built over the customer's own book: *)
(* neither another entity's nor another day's, however the documents are   *)
(* combined.                                                               *)
(***************************************************************************)
PassedChainIsCommitted ==
  verdict = "ok" =>
    \E j \in DOMAIN group.entities :
      /\ group.entities[j].id = asked.customer[1]
      /\ group.entities[j].root = asked.report.root.hash
      /\ SameSums(group.entities[j].sums, asked.report.root.sums)

(***************************************************************************)
(* Documents that belong together and are as the library wrote them always *)
(* pass, whatever place the customer and the entity have, in the books of  *)
(* any entity that owes something: a report of no asset is refused by its  *)
(* profile (profile.rs 208-230).                                           *)
(***************************************************************************)
HonestChainPasses ==
  /\ verdict # "idle" /\ faults = 0 /\ asked.wrong = 0
  /\ \E k \in DOMAIN asked.report.book : DOMAIN asked.report.book[k] # {}
  /\ asked.proofOf = asked.report
  /\ asked.member = Position(asked.report)
  => verdict = "ok"
=============================================================================
