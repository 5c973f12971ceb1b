--------------------------- MODULE GroupChainProofs ---------------------------
(***************************************************************************)
(* What a chain from a customer to a group establishes, for any number of  *)
(* entities, members, customers and wrong figures, whatever the documents  *)
(* are combined; and that documents that belong together pass.             *)
(***************************************************************************)
EXTENDS GroupChain, LibraryProofs

\* A signed report commits to its entity's books, whatever totals it states.
IsReport(r) ==
  /\ r.book \in Books
  /\ Builds(Leaves(r.of, r.book))
  /\ SameTree(r.root.hash, Root(Leaves(r.of, r.book)).hash)
  /\ r.root.sums \in AmountMaps

\* A position names an entity and the root of a report that it signed.
IsPosition(p) ==
  /\ HasAmounts(p)
  /\ \E r \in reports : p.id = r.of /\ p.root = r.root.hash

IsGroup(g) ==
  /\ IsLevel(g.entities)
  /\ \A j \in DOMAIN g.entities : IsPosition(g.entities[j])
  /\ Builds(EntityLeaves(g.entities))
  /\ SameTree(g.root.hash, Root(EntityLeaves(g.entities)).hash)

\* The siblings of a proof are amounts, whoever made them up.
IsProof(steps) ==
  Len(steps) \in Nat /\ \A k \in 1..Len(steps) : steps[k].sibling.sums \in AmountMaps

\* The documents are of a customer and what it is owed; without a wrong figure
\* they are as prove made them.
IsAsked(c) ==
  /\ c.report \in reports /\ c.proofOf \in reports
  /\ IsProof(c.steps) /\ IsProof(c.path)
  /\ c.member.sums \in AmountMaps
  /\ \E k \in DOMAIN c.proofOf.book :
       /\ c.customer = <<c.proofOf.of, k>> /\ c.owed = c.proofOf.book[k]
       /\ c.wrong = 0 => c.steps = Prove(Leaves(c.proofOf.of, c.proofOf.book), k - 1)
  /\ c.wrong = 0 => \E j \in DOMAIN group.entities :
       c.member = group.entities[j] /\ c.path = Prove(EntityLeaves(group.entities), j - 1)

ReportsInv == \A r \in reports : IsReport(r)
GroupInv   == group # Nothing => IsGroup(group)
AskedInv   == verdict # "idle" => group # Nothing /\ IsAsked(asked) /\ verdict = VerifyChain(asked)

\* Without a wrong figure every root is the library's.
HonestInv ==
  /\ faults \in Nat
  /\ faults = 0 => \A r \in reports : r.root = Root(Leaves(r.of, r.book))
  /\ faults = 0 /\ group # Nothing => group.root = Root(EntityLeaves(group.entities))

IInv == ReportsInv /\ GroupInv /\ AskedInv /\ HonestInv

-----------------------------------------------------------------------------
\* An entity's leaves are its customers', each with what it is owed.
LEMMA LeavesOfBook ==
  ASSUME NEW e, NEW book \in Books
  PROVE  /\ IsLevel(book) /\ IsLevel(Leaves(e, book)) /\ Len(Leaves(e, book)) = Len(book)
         /\ AreLeaves(Leaves(e, book))
         /\ \A k \in DOMAIN book : /\ Leaves(e, book)[k] = Leaf(<<e, k>>, book[k])
                                   /\ book[k] \in AmountMaps
         /\ \A k \in DOMAIN Leaves(e, book) : HasAmounts(Leaves(e, book)[k])
<1>1. book \in Seq(AmountMaps) /\ book # << >>
  BY ConstantsAssumption
<1>2. /\ Len(book) \in Nat \ {0} /\ DOMAIN book = 1..Len(book)
      /\ \A k \in DOMAIN book : book[k] \in AmountMaps
  BY <1>1
<1> DEFINE leaves == Leaves(e, book)
           n == Len(book)
<1>3. leaves = [k \in 1..n |-> Leaf(<<e, k>>, book[k])]
  BY <1>2 DEF Leaves
<1>4. \A k \in 1..n : leaves[k] = Leaf(<<e, k>>, book[k])
  BY <1>3
<1>5. leaves \in [1..n -> {leaves[k] : k \in 1..n}]
  BY <1>3
<1> HIDE DEF leaves
<1>6. Len(leaves) = n /\ DOMAIN leaves = 1..n
  BY <1>2, <1>5
<1>7. \A k \in 1..n : leaves[k].hash.kind = "leaf" /\ "sums" \in DOMAIN leaves[k] /\ leaves[k].sums = book[k]
  <2>1. \A u, b : Leaf(u, b).hash.kind = "leaf" /\ "sums" \in DOMAIN Leaf(u, b) /\ Leaf(u, b).sums = b
    BY DEF Leaf
  <2> SUFFICES ASSUME NEW k \in 1..n
               PROVE  leaves[k].hash.kind = "leaf" /\ "sums" \in DOMAIN leaves[k] /\ leaves[k].sums = book[k]
    OBVIOUS
  <2>2. leaves[k] = Leaf(<<e, k>>, book[k])
    BY <1>4
  <2> QED BY <2>1, <2>2
<1>8. AreLeaves(leaves)
  BY <1>6, <1>7 DEF AreLeaves
<1> QED BY <1>2, <1>4, <1>6, <1>7, <1>8 DEF IsLevel, HasAmounts, leaves

\* A group's leaves are its entities', in their order.
LEMMA LeavesOfGroup ==
  ASSUME NEW entities, IsLevel(entities)
  PROVE  /\ IsLevel(EntityLeaves(entities)) /\ Len(EntityLeaves(entities)) = Len(entities)
         /\ AreLeaves(EntityLeaves(entities))
         /\ \A j \in DOMAIN entities :
              /\ EntityLeaves(entities)[j] = EntityLeaf(entities[j])
              /\ entities[j].sums \in AmountMaps => HasAmounts(EntityLeaves(entities)[j])
<1> DEFINE leaves == EntityLeaves(entities)
           n == Len(entities)
<1>1. n \in Nat \ {0} /\ DOMAIN entities = 1..n
  BY DEF IsLevel
<1>2. leaves = [j \in 1..n |-> EntityLeaf(entities[j])]
  BY <1>1 DEF EntityLeaves
<1>3. \A j \in 1..n : leaves[j] = EntityLeaf(entities[j])
  BY <1>2
<1>4. leaves \in [1..n -> {leaves[j] : j \in 1..n}]
  BY <1>2
<1> HIDE DEF leaves
<1>5. Len(leaves) = n /\ DOMAIN leaves = 1..n
  BY <1>1, <1>4
<1>6. AreLeaves(leaves)
  BY <1>3, <1>5 DEF AreLeaves, EntityLeaf
<1>7. \A p : p.sums \in AmountMaps => HasAmounts(EntityLeaf(p))
  BY DEF EntityLeaf, HasAmounts
<1> QED BY <1>1, <1>3, <1>5, <1>6, <1>7 DEF IsLevel, leaves

\* Wrong totals do not change the tree under a root.
LEMMA MiscountedIsSameTree ==
  ASSUME NEW leaves, IsLevel(leaves), AreLeaves(leaves), NEW made \in RootsOf(leaves)
  PROVE  /\ SameTree(made.root.hash, Root(leaves).hash)
         /\ made.root.sums \in Figures \cup {Root(leaves).sums}
         /\ made.wrong \in Nat /\ (made.wrong = 0 => made.root = Root(leaves))
<1> DEFINE root == Root(leaves)
<1>1. root.hash \in HashesOf(leaves)
  BY RootIsANode DEF HashesOf
<1>2. root.hash.kind = "node" => {"kind", "left", "right"} \subseteq DOMAIN root.hash
  BY <1>1, TreeIsClosed
<1> HIDE DEF root
<1>3. CASE made = [root |-> root, wrong |-> 0]
  BY <1>3 DEF SameTree, root
<1>4. CASE \E s \in Figures : made = [root |-> Miscounted(root, s), wrong |-> 1]
  <2>1. PICK s \in Figures : made = [root |-> Miscounted(root, s), wrong |-> 1]
    BY <1>4
  <2>2. made.root.sums = s /\ made.wrong = 1 /\ made.root.hash = Miscounted(root, s).hash
    BY <2>1 DEF Miscounted
  <2>3. SameTree(Miscounted(root, s).hash, root.hash)
    <3>1. CASE root.hash.kind = "node"
      <4>1. Miscounted(root, s).hash = [root.hash EXCEPT !.sums = s]
        BY <3>1 DEF Miscounted
      <4>2. /\ [root.hash EXCEPT !.sums = s].kind = root.hash.kind
            /\ [root.hash EXCEPT !.sums = s].left = root.hash.left
            /\ [root.hash EXCEPT !.sums = s].right = root.hash.right
        BY <1>2, <3>1
      <4> QED BY <3>1, <4>1, <4>2 DEF SameTree
    <3>2. CASE root.hash.kind # "node"
      BY <3>2 DEF Miscounted, SameTree
    <3> QED BY <3>1, <3>2
  <2> QED BY <2>2, <2>3 DEF root
<1> QED BY <1>3, <1>4 DEF RootsOf, root

\* Documents stay what they are when another report is signed.
LEMMA MoreReports ==
  ASSUME reports \subseteq reports'
  PROVE  /\ \A p : IsPosition(p) => IsPosition(p)'
         /\ \A c : UNCHANGED group /\ IsAsked(c) => IsAsked(c)'
<1>1. ASSUME NEW p, IsPosition(p) PROVE IsPosition(p)'
  BY <1>1 DEF IsPosition
<1>2. ASSUME NEW c, UNCHANGED group, IsAsked(c) PROVE IsAsked(c)'
  BY <1>2 DEF IsAsked
<1> QED BY <1>1, <1>2

\* A proof as prove made it, or with a sibling's sums wrong, is one.
LEMMA HandedIsProof ==
  ASSUME NEW leaves, IsLevel(leaves), Builds(leaves),
         \A j \in DOMAIN leaves : HasAmounts(leaves[j]),
         NEW i \in Nat, i < Len(leaves), NEW h \in Handed(Prove(leaves, i))
  PROVE  /\ IsProof(h.steps)
         /\ h.wrong \in Nat /\ (h.wrong = 0 => h.steps = Prove(leaves, i))
<1> DEFINE steps == Prove(leaves, i)
           n == Len(steps)
<1>1. steps \in Seq(StepsOf(leaves))
  BY ProveFoldsToRoot
<1>2. \A e \in StepsOf(leaves) : e.sibling.sums \in AmountMaps
  BY NodesAreAmounts DEF StepsOf, HasAmounts
<1>3. \A e \in StepsOf(leaves) : e = [sibling |-> e.sibling, onLeft |-> e.onLeft]
  BY DEF StepsOf
<1>4. \A e \in StepsOf(leaves) :
        "sums" \in DOMAIN e.sibling /\ "sibling" \in DOMAIN e
  BY NodesAreAmounts DEF StepsOf, HasAmounts
<1> HIDE DEF steps
<1>5. /\ n \in Nat /\ DOMAIN steps = 1..n
      /\ \A k \in 1..n : steps[k] \in StepsOf(leaves)
  BY <1>1
<1>6. CASE h = [steps |-> steps, wrong |-> 0]
  <2>1. IsProof(steps)
    BY <1>2, <1>5 DEF IsProof
  <2> QED BY <1>6, <2>1 DEF steps
<1>7. CASE \E c \in DOMAIN steps, s \in Figures :
             h = [steps |-> [steps EXCEPT ![c].sibling.sums = s], wrong |-> 1]
  <2>1. PICK c \in DOMAIN steps, s \in Figures :
               h = [steps |-> [steps EXCEPT ![c].sibling.sums = s], wrong |-> 1]
    BY <1>7
  <2> DEFINE e == [steps[c] EXCEPT !.sibling.sums = s]
             given == [steps EXCEPT ![c] = e]
  <2>2. h.steps = given /\ h.wrong = 1
    BY <2>1
  <2>3. e.sibling.sums = s
    BY <1>4, <1>5
  <2>4. s \in AmountMaps
    BY ConstantsAssumption
  <2> HIDE DEF e
  <2>5. given \in [1..n -> StepsOf(leaves) \cup {e}]
    BY <1>5
  <2>6. Len(given) = n
    <3> HIDE DEF given
    <3> QED BY <1>5, <2>5
  <2>7. \A k \in 1..n : given[k] = IF k = c THEN e ELSE steps[k]
    BY <1>5
  <2>8. \A k \in 1..n : given[k].sibling.sums \in AmountMaps
    BY <1>2, <1>5, <2>3, <2>4, <2>7
  <2>9. IsProof(given)
    BY <1>5, <2>6, <2>8 DEF IsProof
  <2> QED BY <2>2, <2>9
<1> QED BY <1>6, <1>7 DEF Handed, steps

\* The sums of a root that a publisher comes to are amounts.
LEMMA RootSums ==
  ASSUME NEW leaves, IsLevel(leaves), AreLeaves(leaves), Builds(leaves),
         \A j \in DOMAIN leaves : HasAmounts(leaves[j]), NEW made \in RootsOf(leaves)
  PROVE  made.root.sums \in AmountMaps
<1>1. Root(leaves).sums \in AmountMaps
  BY RootIsANode, NodesAreAmounts DEF HasAmounts
<1> QED BY <1>1, MiscountedIsSameTree, ConstantsAssumption

\* The answer depends on the documents and the group's report alone.
LEMMA AnswerKept == UNCHANGED <<group, asked>> => VerifyChain(asked)' = VerifyChain(asked)
BY DEF VerifyChain, VerifyProof, VerifyMember, SameBook, CarriesTotals

\* Nothing is published or asked yet.
LEMMA InitIInv == Init => IInv
BY DEF Init, IInv, ReportsInv, GroupInv, AskedInv, HonestInv

\* A report that an entity signs is one, and changes no other document.
LEMMA PublishIInv ==
  ASSUME IInv, NEW e \in Entities, NEW book \in Books, PublishEntity(e, book)
  PROVE  IInv'
<1> DEFINE leaves == Leaves(e, book)
<1>1. PICK made \in RootsOf(leaves) :
        /\ reports' = reports \cup {[of |-> e, book |-> book, root |-> made.root]}
        /\ faults' = faults + made.wrong
  BY DEF PublishEntity
<1> DEFINE r == [of |-> e, book |-> book, root |-> made.root]
<1>2. /\ IsLevel(leaves) /\ AreLeaves(leaves) /\ Builds(leaves)
      /\ \A j \in DOMAIN leaves : HasAmounts(leaves[j])
  BY LeavesOfBook DEF PublishEntity
<1>3. r.of = e /\ r.book = book /\ r.root = made.root
  OBVIOUS
<1> HIDE DEF leaves, r
<1>4. /\ SameTree(made.root.hash, Root(leaves).hash) /\ made.root.sums \in AmountMaps
      /\ made.wrong \in Nat /\ (made.wrong = 0 => made.root = Root(leaves))
  BY <1>2, MiscountedIsSameTree, RootSums
<1>5. IsReport(r)
  BY <1>2, <1>3, <1>4 DEF IsReport, leaves
<1>6. reports' = reports \cup {r} /\ UNCHANGED <<group, asked, verdict>>
  BY <1>1 DEF PublishEntity, r
<1>7. ReportsInv'
  BY <1>5, <1>6 DEF IInv, ReportsInv, IsReport
<1>8. GroupInv'
  BY <1>6 DEF IInv, GroupInv, IsGroup, IsPosition
<1>9. AskedInv'
  <2>1. IsAsked(asked) => IsAsked(asked)'
    BY <1>6 DEF IsAsked
  <2> QED BY <1>6, <2>1, AnswerKept DEF IInv, AskedInv
<1>10. HonestInv'
  <2>1. faults \in Nat /\ faults' \in Nat /\ (faults' = 0 => faults = 0 /\ made.wrong = 0)
    BY <1>1, <1>4 DEF IInv, HonestInv
  <2>2. made.wrong = 0 => r.root = Root(Leaves(r.of, r.book))
    BY <1>3, <1>4 DEF leaves
  <2> QED BY <1>6, <2>1, <2>2 DEF IInv, HonestInv
<1> QED BY <1>7, <1>8, <1>9, <1>10 DEF IInv

\* A group's report is over positions that entities signed, whatever sums it
\* gives one of them.
LEMMA PublishGroupIInv ==
  ASSUME IInv, NEW n \in 1..MaxMembers, NEW taken \in [1..n -> reports], NEW k \in 1..n,
         NEW stated \in Stated(Position(taken[k])),
         NEW entities,
         entities = [[j \in 1..n |-> Position(taken[j])] EXCEPT ![k] = stated.position],
         PublishGroup(entities, stated.wrong)
  PROVE  IInv'
<1>0. n \in Nat \ {0}
  BY ConstantsAssumption
<1>1. \A j \in 1..n :
        /\ IsPosition(Position(taken[j]))
        /\ Position(taken[j]) =
             [id |-> taken[j].of, root |-> taken[j].root.hash, sums |-> taken[j].root.sums]
  BY DEF IInv, ReportsInv, IsReport, IsPosition, Position, HasAmounts
<1>2. /\ IsPosition(stated.position)
      /\ stated.wrong \in Nat
  <2> DEFINE p == Position(taken[k])
  <2>1. IsPosition(p) /\ p = [id |-> p.id, root |-> p.root, sums |-> p.sums]
    BY <1>1
  <2> HIDE DEF p
  <2>2. CASE stated = [position |-> p, wrong |-> 0]
    BY <2>1, <2>2
  <2>3. CASE \E s \in Figures : stated = [position |-> [p EXCEPT !.sums = s], wrong |-> 1]
    <3>1. PICK s \in Figures : stated = [position |-> [p EXCEPT !.sums = s], wrong |-> 1]
      BY <2>3
    <3>2. [p EXCEPT !.sums = s] = [id |-> p.id, root |-> p.root, sums |-> s]
      BY <2>1
    <3>3. s \in AmountMaps
      BY ConstantsAssumption
    <3>4. IsPosition([id |-> p.id, root |-> p.root, sums |-> s])
      BY <2>1, <3>3 DEF IsPosition, HasAmounts
    <3> QED BY <3>1, <3>2, <3>4
  <2> QED BY <2>2, <2>3 DEF Stated, p
<1>3. \A j \in 1..n : entities[j] = IF j = k THEN stated.position ELSE Position(taken[j])
  OBVIOUS
<1>4. IsLevel(entities) /\ DOMAIN entities = 1..n
  <2>1. entities \in [1..n -> {entities[j] : j \in 1..n}]
    <3>1. DOMAIN entities = 1..n /\ entities = [j \in 1..n |-> entities[j]]
      OBVIOUS
    <3> QED BY ONLY <3>1
  <2> QED BY ONLY <1>0, <2>1 DEF IsLevel
<1>5. \A j \in DOMAIN entities : IsPosition(entities[j])
  BY <1>1, <1>2, <1>3, <1>4
<1> DEFINE leaves == EntityLeaves(entities)
<1>6. PICK made \in RootsOf(leaves) :
        /\ group' = [entities |-> entities, root |-> made.root]
        /\ faults' = faults + made.wrong + stated.wrong
  BY DEF PublishGroup
<1>7. group'.entities = entities /\ group'.root = made.root
  BY <1>6
<1>8. Builds(leaves) /\ IsLevel(leaves) /\ AreLeaves(leaves)
  BY <1>4, LeavesOfGroup DEF PublishGroup
<1>9. /\ SameTree(made.root.hash, Root(leaves).hash)
      /\ made.wrong \in Nat /\ (made.wrong = 0 => made.root = Root(leaves))
  BY <1>8, MiscountedIsSameTree
<1>10. UNCHANGED <<reports, asked, verdict>> /\ group = Nothing
  BY DEF PublishGroup
<1>11. ReportsInv'
  BY <1>10 DEF IInv, ReportsInv, IsReport
<1>12. GroupInv'
  <2>1. IsGroup(group')
    <3>1. SameTree(group'.root.hash, Root(EntityLeaves(group'.entities)).hash)
      BY <1>7, <1>9
    <3> QED BY <1>4, <1>5, <1>7, <1>8, <3>1 DEF IsGroup
  <2> QED BY <1>10, <2>1 DEF GroupInv, IsGroup, IsPosition
<1>13. AskedInv'
  BY <1>10 DEF IInv, AskedInv
<1>14. HonestInv'
  <2>1. faults \in Nat /\ faults' \in Nat /\ (faults' = 0 => faults = 0 /\ made.wrong = 0)
    BY <1>2, <1>6, <1>9 DEF IInv, HonestInv
  <2> QED BY <1>7, <1>9, <1>10, <2>1 DEF IInv, HonestInv
<1> QED BY <1>11, <1>12, <1>13, <1>14 DEF IInv

\* A customer is handed documents, and is answered.
LEMMA AskIInv ==
  ASSUME IInv, NEW r \in reports, NEW shown \in reports, NEW k \in DOMAIN r.book,
         NEW j \in DOMAIN group.entities, group # Nothing, Ask(r, shown, k, j)
  PROVE  IInv'
<1> DEFINE leaves == Leaves(r.of, r.book)
           members == EntityLeaves(group.entities)
<1>1. PICK proof \in Handed(Prove(leaves, k - 1)), path \in Handed(Prove(members, j - 1)),
           member \in Stated(group.entities[j]) :
        asked' = [report |-> shown, proofOf |-> r, customer |-> <<r.of, k>>, owed |-> r.book[k],
                  steps |-> proof.steps, member |-> member.position, path |-> path.steps,
                  wrong |-> proof.wrong + path.wrong + member.wrong]
  BY DEF Ask
<1>2. IsReport(r) /\ IsGroup(group)
  BY DEF IInv, ReportsInv, GroupInv
<1>3. /\ IsLevel(leaves) /\ Builds(leaves) /\ \A i \in DOMAIN leaves : HasAmounts(leaves[i])
      /\ k - 1 \in Nat /\ k - 1 < Len(leaves)
  BY <1>2, LeavesOfBook DEF IsReport, IsLevel
<1>4. /\ IsLevel(members) /\ Builds(members) /\ \A i \in DOMAIN members : HasAmounts(members[i])
      /\ j - 1 \in Nat /\ j - 1 < Len(members)
  <2>1. /\ IsLevel(group.entities) /\ Builds(members)
        /\ \A i \in DOMAIN group.entities : group.entities[i].sums \in AmountMaps
    BY <1>2 DEF IsGroup, IsPosition, HasAmounts
  <2>2. /\ IsLevel(members) /\ Len(members) = Len(group.entities)
        /\ \A i \in DOMAIN group.entities : HasAmounts(members[i])
    BY <2>1, LeavesOfGroup
  <2> QED BY <2>1, <2>2 DEF IsLevel
<1> HIDE DEF leaves, members
<1>5. /\ IsProof(proof.steps) /\ proof.wrong \in Nat
      /\ proof.wrong = 0 => proof.steps = Prove(leaves, k - 1)
  BY <1>3, HandedIsProof
<1>6. /\ IsProof(path.steps) /\ path.wrong \in Nat
      /\ path.wrong = 0 => path.steps = Prove(members, j - 1)
  BY <1>4, HandedIsProof
<1>7. /\ member.position.sums \in AmountMaps /\ member.wrong \in Nat
      /\ member.wrong = 0 => member.position = group.entities[j]
  <2> DEFINE p == group.entities[j]
  <2>1. "sums" \in DOMAIN p /\ p.sums \in AmountMaps
    BY <1>2 DEF IsGroup, IsPosition, HasAmounts
  <2> HIDE DEF p
  <2>2. CASE member = [position |-> p, wrong |-> 0]
    BY <2>1, <2>2 DEF p
  <2>3. CASE \E s \in Figures : member = [position |-> [p EXCEPT !.sums = s], wrong |-> 1]
    BY <2>1, <2>3, ConstantsAssumption
  <2> QED BY <2>2, <2>3 DEF Stated, p
<1>8. /\ asked'.report = shown /\ asked'.proofOf = r /\ asked'.customer = <<r.of, k>>
      /\ asked'.owed = r.book[k] /\ asked'.steps = proof.steps /\ asked'.path = path.steps
      /\ asked'.member = member.position
      /\ asked'.wrong = proof.wrong + path.wrong + member.wrong
  BY <1>1
<1>9. asked'.wrong = 0 => proof.wrong = 0 /\ path.wrong = 0 /\ member.wrong = 0
  BY <1>5, <1>6, <1>7, <1>8
<1>10. UNCHANGED <<reports, group, faults>> /\ verdict' = VerifyChain(asked')
  BY DEF Ask
<1>11. IsAsked(asked)'
  BY <1>5, <1>6, <1>7, <1>8, <1>9, <1>10 DEF IsAsked, IsProof, leaves, members
<1>12. verdict' = VerifyChain(asked)'
  BY <1>10 DEF VerifyChain, VerifyProof, VerifyMember, SameBook, CarriesTotals
<1>13. AskedInv'
  BY <1>10, <1>11, <1>12 DEF AskedInv
<1>14. ReportsInv' /\ GroupInv' /\ HonestInv'
  BY <1>10 DEF IInv, ReportsInv, IsReport, GroupInv, IsGroup, IsPosition, HonestInv
<1> QED BY <1>13, <1>14 DEF IInv

\* Every step keeps the invariant.
LEMMA NextIInv == IInv /\ [Next]_vars => IInv'
<1> SUFFICES ASSUME IInv, [Next]_vars PROVE IInv'
  OBVIOUS
<1>1. CASE \E e \in Entities, book \in Books : PublishEntity(e, book)
  BY <1>1, PublishIInv
<1>2. ASSUME NEW n \in 1..MaxMembers, NEW taken \in [1..n -> reports], NEW k \in 1..n,
             NEW stated \in Stated([j \in 1..n |-> Position(taken[j])][k]),
             PublishGroup([[j \in 1..n |-> Position(taken[j])] EXCEPT ![k] = stated.position],
                          stated.wrong)
      PROVE  IInv'
  <2>1. stated \in Stated(Position(taken[k]))
    BY <1>2
  <2> QED BY <1>2, <2>1, PublishGroupIInv
<1>3. ASSUME NEW r \in reports, NEW shown \in reports, NEW k \in DOMAIN r.book,
             NEW j \in DOMAIN group.entities, group # Nothing, Ask(r, shown, k, j)
      PROVE  IInv'
  BY <1>3, AskIInv
<1>4. CASE Return
  BY <1>4 DEF Return, IInv, ReportsInv, IsReport, GroupInv, IsGroup, IsPosition, AskedInv, HonestInv
<1>5. CASE UNCHANGED vars
  <2>1. IsAsked(asked) => IsAsked(asked)'
    BY <1>5 DEF vars, IsAsked
  <2>2. AskedInv'
    BY <1>5, <2>1, AnswerKept DEF vars, IInv, AskedInv
  <2> QED BY <1>5, <2>2 DEF vars, IInv, ReportsInv, IsReport, GroupInv, IsGroup, IsPosition, HonestInv
<1> QED BY <1>1, <1>2, <1>3, <1>4, <1>5 DEF Next

-----------------------------------------------------------------------------
\* What the answer "ok" says of the documents.
LEMMA OkIsVerified ==
  ASSUME IInv, verdict = "ok"
  PROVE  /\ group # Nothing /\ IsAsked(asked) /\ IsGroup(group)
         /\ asked.report \in reports /\ IsReport(asked.report)
         /\ asked.proofOf = asked.report
         /\ FoldsTo(Leaf(asked.customer, asked.owed), asked.steps, asked.report.root)
         /\ FoldsTo(EntityLeaf(asked.member), asked.path, group.root)
         /\ SameBook(asked)
<1>1. group # Nothing /\ IsAsked(asked) /\ VerifyChain(asked) = "ok"
  BY DEF IInv, AskedInv
<1>2. VerifyProof(asked) /\ VerifyMember(asked) /\ SameBook(asked)
  BY <1>1 DEF VerifyChain
<1> QED BY <1>1, <1>2 DEF IInv, ReportsInv, GroupInv, IsAsked, VerifyProof, VerifyMember

(***************************************************************************)
(* A chain that holds bounds what the group publishes, whatever figures    *)
(* are wrong and in whose documents (group.rs:143-218).                    *)
(***************************************************************************)
THEOREM ChainBounds == Spec => []PassedChainBounds
<1>1. IInv => PassedChainBounds
  <2> SUFFICES ASSUME IInv, verdict = "ok"
               PROVE  /\ Within(asked.owed, asked.report.root.sums)
                      /\ Within(asked.report.root.sums, group.root.sums)
    BY DEF PassedChainBounds
  <2>1. asked.owed \in AmountMaps
    BY OkIsVerified, LeavesOfBook DEF IsAsked, IsReport
  <2>2. Bounds(asked.owed, asked.report.root.sums)
    <3>1. Leaf(asked.customer, asked.owed).sums = asked.owed
      BY DEF Leaf
    <3>2. IsProof(asked.steps)
      BY OkIsVerified DEF IsAsked
    <3> QED BY <2>1, <3>1, <3>2, OkIsVerified, FoldsToBounds DEF IsProof
  <2>3. Bounds(asked.member.sums, group.root.sums)
    <3>1. EntityLeaf(asked.member).sums = asked.member.sums
      BY DEF EntityLeaf
    <3>2. asked.member.sums \in AmountMaps /\ IsProof(asked.path)
      BY OkIsVerified DEF IsAsked
    <3> QED BY <3>1, <3>2, OkIsVerified, FoldsToBounds DEF IsProof
  <2>4. SameSums(asked.member.sums, asked.report.root.sums)
    BY OkIsVerified DEF SameBook
  <2> QED BY <2>2, <2>3, <2>4 DEF Bounds, Within, SameSums
<1> QED BY <1>1, InitIInv, NextIInv, PTL DEF Spec

(***************************************************************************)
(* The group that a chain leads to was built over the customer's own book, *)
(* however the documents are combined (group.rs:143-218).                  *)
(***************************************************************************)
THEOREM ChainIsCommitted == Spec => []PassedChainIsCommitted
<1>1. IInv => PassedChainIsCommitted
  <2> SUFFICES ASSUME IInv, verdict = "ok"
               PROVE  \E j \in DOMAIN group.entities :
                        /\ group.entities[j].id = asked.customer[1]
                        /\ group.entities[j].root = asked.report.root.hash
                        /\ SameSums(group.entities[j].sums, asked.report.root.sums)
    BY DEF PassedChainIsCommitted
  <2> DEFINE members == EntityLeaves(group.entities)
             leaf == EntityLeaf(asked.member)
  <2>1. /\ IsLevel(members) /\ AreLeaves(members)
        /\ \A j \in DOMAIN members : j \in DOMAIN group.entities
                                     /\ members[j] = EntityLeaf(group.entities[j])
    BY OkIsVerified, LeavesOfGroup DEF IsGroup, IsLevel
  <2>2. \E j \in DOMAIN members : members[j].hash = leaf.hash
    <3>1. leaf.hash.kind # "node" /\ IsProof(asked.path)
      BY OkIsVerified DEF EntityLeaf, IsAsked
    <3>2. SameTree(group.root.hash, Root(members).hash) /\ FoldsTo(leaf, asked.path, group.root)
      BY OkIsVerified DEF IsGroup
    <3> HIDE DEF members, leaf
    <3> QED BY <2>1, <3>1, <3>2, FoldsToALeaf DEF IsProof
  <2>3. PICK j \in DOMAIN group.entities : EntityLeaf(group.entities[j]).hash = leaf.hash
    BY <2>1, <2>2
  <2>4. /\ group.entities[j].id = asked.member.id
        /\ group.entities[j].root = asked.member.root
        /\ group.entities[j].sums = asked.member.sums
    BY <2>3 DEF EntityLeaf
  <2>5. asked.member.root = asked.report.root.hash
        /\ SameSums(asked.member.sums, asked.report.root.sums)
    BY OkIsVerified DEF SameBook
  <2>6. PICK r \in reports : group.entities[j].id = r.of /\ group.entities[j].root = r.root.hash
    BY OkIsVerified DEF IsGroup, IsPosition
  <2>7. r.of = asked.customer[1]
    <3> DEFINE leaves == Leaves(r.of, r.book)
               own == Leaf(asked.customer, asked.owed)
    <3>1. /\ IsLevel(leaves) /\ AreLeaves(leaves)
          /\ \A k \in DOMAIN leaves : leaves[k] = Leaf(<<r.of, k>>, r.book[k])
      BY LeavesOfBook DEF IInv, ReportsInv, IsReport, IsLevel
    <3>2. SameTree(asked.report.root.hash, Root(leaves).hash)
      BY <2>4, <2>5, <2>6 DEF IInv, ReportsInv, IsReport
    <3>3. own.hash.kind # "node" /\ IsProof(asked.steps)
      BY OkIsVerified DEF Leaf, IsAsked
    <3>4. FoldsTo(own, asked.steps, asked.report.root)
      BY OkIsVerified
    <3> HIDE DEF leaves, own
    <3>5. PICK k \in DOMAIN leaves : leaves[k].hash = own.hash
      BY <3>1, <3>2, <3>3, <3>4, FoldsToALeaf DEF IsProof
    <3>6. Leaf(<<r.of, k>>, r.book[k]).hash.user = Leaf(asked.customer, asked.owed).hash.user
      BY <3>1, <3>5 DEF own
    <3>7. <<r.of, k>> = asked.customer
      BY <3>6 DEF Leaf
    <3> QED BY <3>7
  <2> QED BY <2>4, <2>5, <2>6, <2>7
<1> QED BY <1>1, InitIInv, NextIInv, PTL DEF Spec

(***************************************************************************)
(* Documents that belong together and are as the library wrote them pass,  *)
(* for every number of customers and members and at every place of both    *)
(* trees (group.rs:54-218), if somebody in the entity's book is owed some  *)
(* asset: otherwise its report is refused by its profile.                  *)
(***************************************************************************)
THEOREM HonestChains == Spec => []HonestChainPasses
<1>1. IInv => HonestChainPasses
  <2> SUFFICES ASSUME IInv, verdict # "idle", faults = 0, asked.wrong = 0,
                      \E k \in DOMAIN asked.report.book : DOMAIN asked.report.book[k] # {},
                      asked.proofOf = asked.report,
                      asked.member = Position(asked.report)
               PROVE  verdict = "ok"
    BY DEF HonestChainPasses
  <2> DEFINE r == asked.report
             leaves == Leaves(r.of, r.book)
             members == EntityLeaves(group.entities)
  <2>1. /\ group # Nothing /\ IsAsked(asked) /\ verdict = VerifyChain(asked)
        /\ r \in reports /\ IsReport(r) /\ IsGroup(group)
        /\ r.root = Root(leaves) /\ group.root = Root(members)
    BY DEF IInv, ReportsInv, GroupInv, AskedInv, HonestInv, IsAsked
  <2>2. CarriesTotals(r.root)
    <3>1. PICK k \in DOMAIN r.book : DOMAIN r.book[k] # {}
      OBVIOUS
    <3>2. /\ IsLevel(leaves) /\ k \in DOMAIN leaves
          /\ leaves[k] = Leaf(<<r.of, k>>, r.book[k])
      BY <2>1, LeavesOfBook DEF IsReport, IsLevel
    <3>3. leaves[k].sums = r.book[k]
      BY <3>2 DEF Leaf
    <3> HIDE DEF leaves, r
    <3>4. DOMAIN leaves[k].sums \subseteq DOMAIN Root(leaves).sums
      BY <3>2, RootHasAssets
    <3> QED BY <2>1, <3>1, <3>3, <3>4 DEF CarriesTotals
  <2>3. VerifyProof(asked)
    <3>1. PICK k \in DOMAIN r.book :
            /\ asked.customer = <<r.of, k>> /\ asked.owed = r.book[k]
            /\ asked.steps = Prove(leaves, k - 1)
      BY <2>1 DEF IsAsked
    <3>2. /\ IsLevel(leaves) /\ Builds(leaves) /\ k - 1 \in Nat /\ k - 1 < Len(leaves)
          /\ leaves[k] = Leaf(<<r.of, k>>, r.book[k]) /\ (k - 1) + 1 = k
      BY <2>1, LeavesOfBook DEF IsReport, IsLevel
    <3> HIDE DEF leaves, r
    <3>3. FoldsTo(leaves[k], Prove(leaves, k - 1), Root(leaves))
      BY <3>2, ProveFoldsToRoot
    <3> QED BY <2>1, <2>2, <3>1, <3>2, <3>3 DEF VerifyProof, r
  <2>4. VerifyMember(asked)
    <3>1. PICK j \in DOMAIN group.entities :
            asked.member = group.entities[j] /\ asked.path = Prove(members, j - 1)
      BY <2>1 DEF IsAsked
    <3>2. /\ IsLevel(members) /\ Builds(members) /\ j - 1 \in Nat /\ j - 1 < Len(members)
          /\ members[j] = EntityLeaf(asked.member) /\ (j - 1) + 1 = j
      BY <2>1, <3>1, LeavesOfGroup DEF IsGroup, IsLevel
    <3> HIDE DEF members
    <3>3. FoldsTo(members[j], Prove(members, j - 1), Root(members))
      BY <3>2, ProveFoldsToRoot
    <3>4. members[j].sums = r.root.sums
      BY <3>1, <3>2 DEF EntityLeaf, Position, r
    <3>5. DOMAIN members[j].sums \subseteq DOMAIN Root(members).sums
      BY <3>2, RootHasAssets DEF IsLevel
    <3>6. CarriesTotals(group.root)
      BY <2>1, <2>2, <3>4, <3>5 DEF CarriesTotals
    <3> QED BY <2>1, <3>1, <3>2, <3>3, <3>6 DEF VerifyMember
  <2>5. SameBook(asked)
    BY DEF SameBook, Position, SameSums
  <2> QED BY <2>1, <2>3, <2>4, <2>5 DEF VerifyChain
<1> QED BY <1>1, InitIInv, NextIInv, PTL DEF Spec
=============================================================================
