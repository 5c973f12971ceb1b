------------------------ MODULE AnchorHistoryProofs ------------------------
(***************************************************************************)
(* Proofs about AnchorHistory, for every set of documents, every order of  *)
(* texts and every bound.                                                  *)
(*                                                                         *)
(* HistoryInv says what the documents' digests commit to; WalkInv says     *)
(* what the loop of verify_chain knows of the part of the list it has      *)
(* walked.  Together they are inductive.  RefusalIsJust says that what was *)
(* refused deserved it.                                                    *)
(***************************************************************************)
EXTENDS AnchorHistory, FiniteSetTheorems, SequenceTheorems, WellFoundedInduction, TLAPS

Prevs == DOMAIN docs \cup {NoPrev, EmptyPrev}

HistoryType ==
  /\ docs \in Seq(Anchor)
  /\ genuine \subseteq DOMAIN docs
  /\ lineage \in Seq(Seq(Nat))
  /\ Len(lineage) = Len(docs)

\* A document can only name one written before it.
PrevBefore ==
  \A i \in DOMAIN docs : docs[i].prev \in 1..(i - 1) \cup {NoPrev, EmptyPrev}

NoTwins == \A i, j \in DOMAIN docs : docs[i] = docs[j] => i = j

LineageOfPrev ==
  \A i \in DOMAIN docs : lineage[i] = Append(Past(docs[i].prev), i)

\* m's own lineage is the first k documents of s.
IsPrefixUpTo(m, s, k) ==
  /\ m \in DOMAIN docs
  /\ Len(lineage[m]) = k
  /\ \A j \in 1..k : lineage[m][j] = s[j]

\* Whatever a lineage contains, it contains the whole past of.
LineageClosed ==
  \A i \in DOMAIN docs : \A k \in 1..Len(lineage[i]) :
    lineage[i][k] # 0 => IsPrefixUpTo(lineage[i][k], lineage[i], k)

HistoryInv ==
  /\ HistoryType
  /\ PrevBefore
  /\ NoTwins
  /\ LineageOfPrev
  /\ LineageClosed

-----------------------------------------------------------------------------
\* What a predecessor commits to is a sequence of numbers.
LEMMA PastType ==
  ASSUME HistoryType, NEW prev \in Prevs
  PROVE  Past(prev) \in Seq(Nat)
BY ConstantsAssumption, ElementOfSeq DEF HistoryType, Prevs, Past

(***************************************************************************)
(* Writing a document leaves the others and their lineages alone.          *)
(***************************************************************************)
LEMMA WriteStep ==
  ASSUME HistoryType, NEW a \in Anchor, a.prev \in Prevs, Write(a)
  PROVE  /\ docs' \in Seq(Anchor)
         /\ lineage' \in Seq(Seq(Nat))
         /\ Len(docs) \in Nat
         /\ Len(docs') = Len(docs) + 1 /\ Len(lineage') = Len(docs) + 1
         /\ DOMAIN docs = 1..Len(docs) /\ DOMAIN docs' = 1..(Len(docs) + 1)
         /\ \A i \in DOMAIN docs : docs'[i] = docs[i] /\ lineage'[i] = lineage[i]
         /\ docs'[Len(docs) + 1] = a
         /\ lineage'[Len(docs) + 1] = Append(Past(a.prev), Len(docs) + 1)
         /\ \A prev \in Prevs : Past(prev)' = Past(prev)
<1> DEFINE n == Len(docs) + 1
           l == Append(Past(a.prev), n)
<1>1. Past(a.prev) \in Seq(Nat) BY PastType
<1>2. Len(docs) \in Nat /\ DOMAIN docs = 1..Len(docs) BY LenProperties DEF HistoryType
<1>3. l \in Seq(Nat) BY <1>1, <1>2, AppendProperties
<1>4. docs' = Append(docs, a) /\ lineage' = Append(lineage, l) BY DEF Write
<1>5. /\ docs' \in Seq(Anchor) /\ Len(docs') = n
      /\ \A i \in 1..Len(docs) : docs'[i] = docs[i]
      /\ docs'[n] = a
  BY <1>4, AppendProperties DEF HistoryType
<1>6. /\ lineage' \in Seq(Seq(Nat)) /\ Len(lineage') = n
      /\ \A i \in 1..Len(docs) : lineage'[i] = lineage[i]
      /\ lineage'[n] = l
  <2> HIDE DEF l
  <2> QED BY <1>3, <1>4, AppendProperties DEF HistoryType
<1>7. DOMAIN docs' = 1..n BY <1>5, LenProperties
<1>8. \A prev \in Prevs : Past(prev)' = Past(prev)
  BY <1>2, <1>6, ConstantsAssumption DEF Prevs, Past
<1> QED BY <1>2, <1>5, <1>6, <1>7, <1>8

(***************************************************************************)
(* The lineage of a new document: its predecessor's, then itself.          *)
(***************************************************************************)
LEMMA NewLineage ==
  ASSUME HistoryInv, NEW prev \in Prevs
  PROVE  LET p == Past(prev)
             l == Append(p, Len(docs) + 1)
         IN  /\ p \in Seq(Nat) /\ Len(l) = Len(p) + 1
             /\ Len(p) \in Nat
             /\ \A k \in 1..Len(p) : l[k] = p[k]
             /\ l[Len(p) + 1] = Len(docs) + 1
             /\ \A k \in 1..Len(p) : p[k] # 0 => IsPrefixUpTo(p[k], p, k)
<1> DEFINE p == Past(prev)
           n == Len(docs) + 1
           l == Append(p, n)
<1>1. p \in Seq(Nat) BY PastType DEF HistoryInv
<1>2. n \in Nat BY LenProperties DEF HistoryInv, HistoryType
<1>3. /\ Len(p) \in Nat /\ Len(l) = Len(p) + 1
      /\ \A k \in 1..Len(p) : l[k] = p[k]
      /\ l[Len(p) + 1] = n
  <2> HIDE DEF p, n
  <2> QED BY <1>1, <1>2, LenProperties, AppendProperties
<1>4. ASSUME NEW k \in 1..Len(p), p[k] # 0
      PROVE  IsPrefixUpTo(p[k], p, k)
  <2>1. CASE prev = NoPrev
    <3>1. p = << >> BY <2>1 DEF Past
    <3> QED BY <3>1
  <2>2. CASE prev = EmptyPrev
    <3>1. p = <<0>> BY <2>2, ConstantsAssumption DEF Past
    <3> QED BY <3>1, <1>4
  <2>3. CASE prev \in DOMAIN docs
    <3>1. prev \in Nat BY <2>3, LenProperties DEF HistoryInv, HistoryType
    <3>2. p = lineage[prev] BY <3>1, ConstantsAssumption DEF Past
    <3> QED BY <2>3, <3>2, <1>4 DEF HistoryInv, LineageClosed
  <2> QED BY <2>1, <2>2, <2>3 DEF Prevs
<1> QED BY <1>1, <1>3, <1>4

\* Appending one document and its lineage keeps each clause about lineages.
LEMMA WritePreserves ==
  ASSUME HistoryInv, NEW a \in Anchor, a.prev \in Prevs, Write(a)
  PROVE  PrevBefore' /\ NoTwins' /\ LineageOfPrev' /\ LineageClosed'
<1> DEFINE n == Len(docs) + 1
           p == Past(a.prev)
<1>1. HistoryType BY DEF HistoryInv
<1>2. /\ n - 1 = Len(docs) /\ n \in Nat \ {0}
      /\ DOMAIN docs = 1..(n - 1) /\ DOMAIN docs' = 1..n
      /\ \A i \in 1..(n - 1) : docs'[i] = docs[i] /\ lineage'[i] = lineage[i]
      /\ docs'[n] = a
      /\ lineage'[n] = Append(p, n)
      /\ \A prev \in Prevs : Past(prev)' = Past(prev)
  BY <1>1, WriteStep
<1>3. \A i \in 1..(n - 1) : docs[i].prev \in Prevs /\ docs[i].prev \in 1..(i - 1) \cup {NoPrev, EmptyPrev}
  BY <1>2 DEF HistoryInv, PrevBefore, Prevs
<1>4. PrevBefore'
  BY <1>2, <1>3 DEF PrevBefore, Prevs
<1>5. NoTwins'
  <2>1. \A i \in 1..(n - 1) : docs[i] # a BY <1>2 DEF Write, Written
  <2> QED BY <2>1, <1>2 DEF HistoryInv, NoTwins
<1>6. LineageOfPrev'
  <2>1. ASSUME NEW i \in 1..(n - 1)
        PROVE  lineage'[i] = Append(Past(docs[i].prev)', i)
    <3>1. lineage[i] = Append(Past(docs[i].prev), i)
      BY <1>2 DEF HistoryInv, LineageOfPrev
    <3>2. docs'[i] = docs[i] /\ lineage'[i] = lineage[i] BY <1>2
    <3>3. Past(docs[i].prev)' = Past(docs[i].prev)
      BY <1>2, <1>3, <3>2 DEF Past
    <3> QED BY <3>1, <3>2, <3>3
  <2>2. ASSUME NEW i, i = n
        PROVE  lineage'[i] = Append(Past(docs[i].prev)', i)
    <3>1. Past(a.prev)' = Past(a.prev) BY <1>2
    <3>2. docs'[i] = a BY <1>2, <2>2
    <3>3. Past(docs[i].prev)' = Past(a.prev)' BY <3>2 DEF Past
    <3> QED BY <1>2, <2>2, <3>1, <3>3
  <2> QED BY <1>2, <2>1, <2>2 DEF LineageOfPrev
<1>7. LineageClosed'
  <2> DEFINE l == lineage'[n]
  <2>0. /\ p \in Seq(Nat) /\ Len(l) = Len(p) + 1 /\ Len(p) \in Nat
        /\ \A k \in 1..Len(p) : l[k] = p[k]
        /\ l[Len(p) + 1] = n
        /\ \A k \in 1..Len(p) : p[k] # 0 => IsPrefixUpTo(p[k], p, k)
    BY <1>2, NewLineage
  <2> SUFFICES ASSUME NEW i \in 1..n, NEW k \in 1..Len(lineage'[i]), lineage'[i][k] # 0
               PROVE  IsPrefixUpTo(lineage[i][k], lineage[i], k)'
    BY <1>2 DEF LineageClosed, IsPrefixUpTo
  <2>1. CASE i \in 1..(n - 1)
    <3>1. IsPrefixUpTo(lineage[i][k], lineage[i], k)
      BY <2>1, <1>2 DEF HistoryInv, LineageClosed
    <3> QED BY <3>1, <2>1, <1>2 DEF IsPrefixUpTo
  <2>2. CASE i = n /\ k \in 1..Len(p)
    <3>1. IsPrefixUpTo(p[k], p, k) BY <2>0, <2>2
    <3> QED BY <3>1, <2>2, <2>0, <1>2 DEF IsPrefixUpTo
  <2>3. CASE i = n /\ k = Len(p) + 1
    BY <2>3, <2>0, <1>2 DEF IsPrefixUpTo
  <2> QED BY <2>0, <2>1, <2>2, <2>3, <1>2
<1> QED BY <1>4, <1>5, <1>6, <1>7

-----------------------------------------------------------------------------
\* The publishing tool keeps HistoryInv, whichever anchor it is given.
LEMMA AnchorReportStep ==
  ASSUME HistoryInv,
         NEW r \in Reports, NEW p \in Operators, NEW t \in Times, NEW o \in Offsets,
         NEW prev \in DOMAIN docs \cup {NoPrev}, AnchorReport(r, p, t, o, prev)
  PROVE  HistoryInv'
<1> DEFINE a == [version |-> AnchorVersion, report |-> r, time |-> t, offset |-> o,
                 publisher |-> p, prev |-> prev]
<1>0. DOMAIN docs = 1..Len(docs) /\ Len(docs) \in Nat
  BY LenProperties DEF HistoryInv, HistoryType
<1>1. a \in Anchor /\ a.prev = prev /\ prev \in Prevs
  BY <1>0, ConstantsAssumption DEF Anchor, Prevs, HistoryInv, HistoryType
<1> HIDE DEF a
<1>2. CASE Write(a) /\ genuine' = genuine \cup {Len(docs) + 1}
  <2>1. HistoryType'
    BY <1>0, <1>1, <1>2, WriteStep DEF HistoryInv, HistoryType
  <2> QED BY <1>1, <1>2, <2>1, WritePreserves DEF HistoryInv
<1>3. CASE \E i \in DOMAIN docs :
             /\ docs[i] = a
             /\ genuine' = genuine \cup {i}
             /\ UNCHANGED <<docs, lineage>>
  <2> PICK i \in DOMAIN docs : /\ docs[i] = a
                               /\ genuine' = genuine \cup {i}
                               /\ UNCHANGED <<docs, lineage>>
    BY <1>3
  <2>1. HistoryType' /\ PrevBefore' /\ NoTwins'
    BY DEF HistoryInv, HistoryType, PrevBefore, NoTwins
  <2>2. LineageOfPrev' /\ LineageClosed'
    BY DEF HistoryInv, LineageOfPrev, LineageClosed, Past, IsPrefixUpTo
  <2> QED BY <2>1, <2>2 DEF HistoryInv
<1> QED BY <1>2, <1>3 DEF AnchorReport, Publish, a

\* A document edited outside the tool names one that is there, or none.
LEMMA EditAnchorStep ==
  ASSUME HistoryInv, NEW i \in DOMAIN docs, EditAnchor(i)
  PROVE  HistoryInv'
<1>1. PICK a \in EditOf(i) : Write(a) BY DEF EditAnchor
<1>2. docs[i] \in Anchor /\ docs[i].prev \in Prevs /\ DOMAIN docs \subseteq Nat
  BY LenProperties, ElementOfSeq DEF HistoryInv, HistoryType, PrevBefore, Prevs
<1>3. a \in Anchor /\ a.prev \in Prevs
  BY <1>1, <1>2, ConstantsAssumption DEF EditOf, Anchor, Prevs
<1>4. HistoryType' BY <1>1, <1>3, WriteStep DEF HistoryInv, HistoryType, EditAnchor
<1> QED BY <1>1, <1>3, <1>4, WritePreserves DEF HistoryInv

-----------------------------------------------------------------------------
(***************************************************************************)
(* The loop.  InOrder is what one pass of it compares, between texts; it   *)
(* is transitive, so it holds of every pair walked, not only neighbours.   *)
(***************************************************************************)
InOrder(a, b) ==
  /\ TimeRank[a.time] < TimeRank[b.time]
  /\ OffsetRank[a.offset] <= OffsetRank[b.offset]
  /\ a.publisher = b.publisher

\* The first n documents of c are the lineage of the n-th, and in order.
Walked(c, n) ==
  /\ n > 0 => IsPrefixUpTo(c[n], c, n)
  /\ \A j \in 1..n : \A i \in 1..(j - 1) : InOrder(docs[c[i]], docs[c[j]])

WalkType ==
  /\ chain \in Seq(DOMAIN docs)
  /\ at \in Nat \ {0}
  /\ verdict \in {"idle", "walking", "intact"} \cup Failures
  /\ accepted \subseteq Seq(DOMAIN docs)

WalkInv ==
  /\ WalkType
  /\ verdict = "walking" => at \in 1..Len(chain) /\ Walked(chain, at - 1)
  /\ \A c \in accepted : Len(c) > 0 /\ Walked(c, Len(c))

IInv == HistoryInv /\ WalkInv

\* The fields of a document of a loaded list.
LEMMA DocFields ==
  ASSUME HistoryInv, NEW i \in DOMAIN docs
  PROVE  /\ docs[i] \in Anchor
         /\ TimeRank[docs[i].time] \in Nat
         /\ OffsetRank[docs[i].offset] \in Nat
         /\ docs[i].prev \in 1..(i - 1) \cup {NoPrev, EmptyPrev}
         /\ i \in Nat /\ i \in 1..Len(docs)
         /\ DOMAIN lineage = DOMAIN docs
<1>1. DOMAIN docs = 1..Len(docs) /\ DOMAIN lineage = 1..Len(docs) /\ Len(docs) \in Nat
  BY LenProperties DEF HistoryInv, HistoryType
<1>2. docs[i] \in Anchor BY <1>1, ElementOfSeq DEF HistoryInv, HistoryType
<1> QED BY <1>1, <1>2, ConstantsAssumption DEF HistoryInv, PrevBefore, Anchor

\* A digest names one document.
LEMMA DigestNamesOne ==
  ASSUME HistoryInv, NEW i \in DOMAIN docs, NEW j \in DOMAIN docs, SameDigest(i, j)
  PROVE  i = j
<1>1. docs[i] \in Anchor /\ docs[j] \in Anchor BY DocFields
<1>2. docs[i] = docs[j] BY <1>1 DEF SameDigest, Preimage, Anchor
<1> QED BY <1>2 DEF HistoryInv, NoTwins

\* One pass of the loop that finds nothing wrong walks one document further.
LEMMA PassedCheck ==
  ASSUME IInv, verdict = "walking", Check(at) = "ok"
  PROVE  Walked(chain, at)
<1> DEFINE m == chain[at]
<1>0. /\ at \in 1..Len(chain) /\ Len(chain) \in Nat /\ at \in Nat \ {0}
      /\ DOMAIN chain = 1..Len(chain)
      /\ \A j \in 1..Len(chain) : chain[j] \in DOMAIN docs
      /\ Walked(chain, at - 1)
  BY LenProperties, ElementOfSeq DEF IInv, WalkInv, WalkType
<1>1. /\ m \in DOMAIN docs
      /\ lineage[m] = Append(Past(docs[m].prev), m)
      /\ docs[m].prev \in Prevs
      /\ m \in Nat
      /\ docs[m].prev \in 1..(m - 1) \cup {NoPrev, EmptyPrev}
  BY <1>0, DocFields DEF IInv, HistoryInv, LineageOfPrev, Prevs
<1>2. CASE at = 1
  <2>1. docs[m].prev = NoPrev BY <1>2 DEF Check
  <2>2. lineage[m] = <<m>> BY <1>1, <2>1 DEF Past
  <2>3. Len(lineage[m]) = 1 /\ lineage[m][1] = m BY <2>2
  <2>4. IsPrefixUpTo(m, chain, 1) BY <1>1, <1>2, <2>3 DEF IsPrefixUpTo
  <2> QED BY <1>2, <2>4 DEF Walked
<1>3. CASE at # 1
  <2> DEFINE q == chain[at - 1]
  <2>0. at - 1 \in 1..Len(chain) /\ at - 1 > 0 /\ q \in DOMAIN docs BY <1>0, <1>3
  <2>1. Links(at) /\ SamePublisher(at) /\ LaterTime(at) /\ NoRewind(at)
    BY <1>3 DEF Check
  <2>2. docs[m].prev \in Nat /\ docs[m].prev \in DOMAIN docs
    BY <1>1, <2>1, LenProperties, ConstantsAssumption DEF Links, IInv, HistoryInv, HistoryType
  <2>3. docs[m].prev = q BY <2>0, <2>1, <2>2, DigestNamesOne DEF Links, IInv
  <2>4. Past(docs[m].prev) = lineage[q]
    BY <2>2, <2>3, ConstantsAssumption DEF Past
  <2>5. IsPrefixUpTo(q, chain, at - 1) BY <1>0, <2>0 DEF Walked
  <2>6. lineage[q] \in Seq(Nat)
    BY <2>0, DocFields, ElementOfSeq DEF IInv, HistoryInv, HistoryType
  <2>7. IsPrefixUpTo(m, chain, at)
    <3> DEFINE l == lineage[q]
    <3>1. l \in Seq(Nat) /\ lineage[m] = Append(l, m) BY <1>1, <2>4, <2>6
    <3>2. Len(l) = at - 1 /\ \A j \in 1..(at - 1) : l[j] = chain[j]
      BY <2>5 DEF IsPrefixUpTo
    <3> HIDE DEF l
    <3>3. /\ Len(Append(l, m)) = Len(l) + 1
          /\ \A j \in 1..Len(l) : Append(l, m)[j] = l[j]
          /\ Append(l, m)[Len(l) + 1] = m
      BY <1>1, <3>1, AppendProperties
    <3> QED BY <1>0, <1>1, <3>1, <3>2, <3>3 DEF IsPrefixUpTo
  <2>8. \A j \in 1..at : \A i \in 1..(j - 1) : InOrder(docs[chain[i]], docs[chain[j]])
    <3>1. InOrder(docs[q], docs[m])
      BY <2>1 DEF InOrder, SamePublisher, LaterTime, NoRewind
    <3>2. ASSUME NEW i \in 1..(at - 1)
          PROVE  InOrder(docs[chain[i]], docs[m])
      <4>1. i = at - 1 \/ InOrder(docs[chain[i]], docs[q])
        BY <1>0, <2>0 DEF Walked
      <4>2. chain[i] \in DOMAIN docs BY <1>0
      <4>3. \A d \in {docs[chain[i]], docs[q], docs[m]} :
              TimeRank[d.time] \in Nat /\ OffsetRank[d.offset] \in Nat
        BY <4>2, <1>1, <2>0, DocFields DEF IInv
      <4> QED BY <3>1, <4>1, <4>3 DEF InOrder
    <3> QED BY <1>0, <3>2 DEF Walked
  <2> QED BY <2>7, <2>8 DEF Walked
<1> QED BY <1>2, <1>3

\* What has been walked stays walked when documents are only added.
LEMMA WalkedStable ==
  ASSUME HistoryInv, HistoryInv', NEW c \in Seq(DOMAIN docs), NEW n \in 0..Len(c),
         DOMAIN docs \subseteq DOMAIN docs',
         \A i \in DOMAIN docs : docs'[i] = docs[i] /\ lineage'[i] = lineage[i],
         Walked(c, n)
  PROVE  Walked(c, n)'
<1>1. \A j \in 1..n : c[j] \in DOMAIN docs /\ docs'[c[j]] = docs[c[j]]
  BY LenProperties, ElementOfSeq
<1>2. n > 0 => IsPrefixUpTo(c[n], c, n)'
  <2> SUFFICES ASSUME n > 0 PROVE IsPrefixUpTo(c[n], c, n)' OBVIOUS
  <2>1. c[n] \in DOMAIN docs /\ lineage'[c[n]] = lineage[c[n]] BY <1>1
  <2> QED BY <2>1 DEF Walked, IsPrefixUpTo
<1>3. ASSUME NEW j \in 1..n, NEW i \in 1..(j - 1)
      PROVE  InOrder(docs[c[i]], docs[c[j]])'
  <2>1. docs'[c[i]] = docs[c[i]] /\ docs'[c[j]] = docs[c[j]] BY <1>1
  <2> QED BY <2>1 DEF Walked, InOrder
<1> QED BY <1>2, <1>3 DEF Walked

\* Writing documents disturbs no list that is loaded or accepted.
LEMMA WritingKeepsWalkInv ==
  ASSUME IInv, HistoryInv', UNCHANGED reader,
         DOMAIN docs \subseteq DOMAIN docs',
         \A i \in DOMAIN docs : docs'[i] = docs[i] /\ lineage'[i] = lineage[i]
  PROVE  WalkInv'
<1>1. chain' = chain /\ at' = at /\ verdict' = verdict /\ accepted' = accepted
  BY DEF reader
<1>2. \A c \in Seq(DOMAIN docs) : c \in Seq(DOMAIN docs')
  BY SeqMonotonic
<1>3. WalkType' BY <1>1, <1>2 DEF IInv, WalkInv, WalkType
<1>4. ASSUME verdict = "walking"
      PROVE  at \in 1..Len(chain) /\ Walked(chain, at - 1)'
  <2>1. at \in 1..Len(chain) /\ Walked(chain, at - 1) /\ chain \in Seq(DOMAIN docs)
    BY <1>4 DEF IInv, WalkInv, WalkType
  <2>2. at - 1 \in 0..Len(chain) BY <2>1, LenProperties
  <2>3. \A c : c = chain => Walked(c, at - 1)'
    <3> SUFFICES ASSUME NEW c, c = chain PROVE Walked(c, at - 1)' OBVIOUS
    <3>1. \A n : n = at - 1 => Walked(c, n)'
      BY <2>1, <2>2, WalkedStable DEF IInv
    <3> QED BY <3>1, <1>1 DEF Walked
  <2> QED BY <1>1, <2>1, <2>3 DEF Walked, IsPrefixUpTo
<1>5. ASSUME NEW c \in accepted
      PROVE  Len(c) > 0 /\ Walked(c, Len(c))'
  BY WalkedStable, LenProperties DEF IInv, WalkInv, WalkType
<1> QED BY <1>1, <1>3, <1>4, <1>5 DEF WalkInv

-----------------------------------------------------------------------------
\* Nothing is written, loaded or accepted at first.
LEMMA InitIInv == Init => IInv
<1> SUFFICES ASSUME Init PROVE IInv OBVIOUS
<1>1. DOMAIN docs = {} /\ Len(docs) = 0 BY EmptySeq DEF Init
<1>2. HistoryType BY EmptySeq DEF Init, HistoryType
<1>3. PrevBefore /\ NoTwins /\ LineageOfPrev /\ LineageClosed
  BY <1>1 DEF Init, PrevBefore, NoTwins, LineageOfPrev, LineageClosed
<1>4. WalkInv BY EmptySeq DEF Init, WalkInv, WalkType
<1> QED BY <1>2, <1>3, <1>4 DEF IInv, HistoryInv

\* A document, once written, never changes and never moves.
LEMMA OldDocsStay ==
  ASSUME HistoryInv,
         \/ UNCHANGED <<docs, lineage>>
         \/ \E a \in Anchor : a.prev \in Prevs /\ Write(a)
  PROVE  /\ DOMAIN docs \subseteq DOMAIN docs'
         /\ \A i \in DOMAIN docs : docs'[i] = docs[i] /\ lineage'[i] = lineage[i]
BY WriteStep DEF HistoryInv

\* A step that writes nothing leaves every fact about documents as it was.
LEMMA NothingWritten ==
  ASSUME HistoryInv, UNCHANGED history
  PROVE  /\ HistoryInv'
         /\ DOMAIN docs' = DOMAIN docs
         /\ \A c, n : Walked(c, n) => Walked(c, n)'
<1> USE DEF history
<1>1. HistoryType' /\ PrevBefore' /\ NoTwins' /\ LineageOfPrev'
  BY DEF HistoryInv, HistoryType, PrevBefore, NoTwins, LineageOfPrev, Past
<1>2. LineageClosed'
  BY DEF HistoryInv, LineageClosed, IsPrefixUpTo
<1>3. \A c, n : Walked(c, n) => Walked(c, n)'
  BY DEF Walked, IsPrefixUpTo, InOrder
<1> QED BY <1>1, <1>2, <1>3 DEF HistoryInv

\* Every step keeps the invariant.
LEMMA NextIInv == IInv /\ [Next]_vars => IInv'
<1> SUFFICES ASSUME IInv, [Next]_vars PROVE IInv' OBVIOUS
<1>0. HistoryInv /\ WalkInv BY DEF IInv
<1>1. ASSUME NEW r \in Reports, NEW p \in Operators, NEW t \in Times, NEW o \in Offsets,
             NEW prev \in DOMAIN docs \cup {NoPrev}, AnchorReport(r, p, t, o, prev)
      PROVE  IInv'
  <2> DEFINE a == [version |-> AnchorVersion, report |-> r, time |-> t, offset |-> o,
                   publisher |-> p, prev |-> prev]
  <2>1. HistoryInv' BY <1>0, <1>1, AnchorReportStep
  <2>2. a \in Anchor /\ a.prev \in Prevs
    BY <1>0, LenProperties, ConstantsAssumption DEF Anchor, Prevs, HistoryInv, HistoryType
  <2>3. UNCHANGED <<docs, lineage>> \/ Write(a) BY <1>1 DEF AnchorReport, Publish
  <2>4. /\ DOMAIN docs \subseteq DOMAIN docs'
        /\ \A i \in DOMAIN docs : docs'[i] = docs[i] /\ lineage'[i] = lineage[i]
    <3> HIDE DEF a
    <3> QED BY <1>0, <2>2, <2>3, OldDocsStay
  <2>5. UNCHANGED reader BY <1>1 DEF AnchorReport
  <2> QED BY <2>1, <2>4, <2>5, WritingKeepsWalkInv DEF IInv
<1>2. ASSUME NEW i \in DOMAIN docs, EditAnchor(i)
      PROVE  IInv'
  <2>1. HistoryInv' BY <1>0, <1>2, EditAnchorStep
  <2>2. PICK a \in EditOf(i) : Write(a) BY <1>2 DEF EditAnchor
  <2>3. docs[i] \in Anchor /\ docs[i].prev \in Prevs /\ DOMAIN docs \subseteq Nat
    BY <1>0, LenProperties, ElementOfSeq DEF HistoryInv, HistoryType, PrevBefore, Prevs
  <2>4. a \in Anchor /\ a.prev \in Prevs
    BY <2>2, <2>3, ConstantsAssumption DEF EditOf, Anchor, Prevs
  <2>5. /\ DOMAIN docs \subseteq DOMAIN docs'
        /\ \A j \in DOMAIN docs : docs'[j] = docs[j] /\ lineage'[j] = lineage[j]
    BY <1>0, <2>2, <2>4, OldDocsStay
  <2> QED BY <1>2, <2>1, <2>5, WritingKeepsWalkInv DEF IInv, EditAnchor
<1>3. ASSUME NEW n \in 1..MaxChain, NEW c \in [1..n -> DOMAIN docs], Load(c)
      PROVE  IInv'
  <2>1. c \in Seq(DOMAIN docs) /\ Len(c) = n /\ n > 0 BY ConstantsAssumption
  <2>2. UNCHANGED history /\ chain' = c /\ at' = 1 /\ accepted' = accepted /\ verdict' = "walking"
    BY <1>3 DEF Load
  <2>3. Walked(chain, at - 1)' BY <2>2 DEF Walked
  <2>4. at' \in 1..Len(chain') BY <2>1, <2>2
  <2> QED BY <1>0, <2>1, <2>2, <2>3, <2>4, NothingWritten DEF IInv, WalkInv, WalkType
<1>4. CASE Advance
  <2>1. /\ UNCHANGED history /\ at' = at + 1 /\ at < Len(chain) /\ verdict = "walking"
        /\ chain' = chain /\ verdict' = verdict /\ accepted' = accepted
    BY <1>4 DEF Advance
  <2>2. Walked(chain, at) BY <1>4, PassedCheck DEF Advance
  <2>3. /\ at' \in 1..Len(chain) /\ at' - 1 = at /\ at' \in Nat \ {0}
    BY <1>0, <2>1, LenProperties DEF WalkInv, WalkType
  <2>4. \A c, n : c = chain /\ n = at => Walked(c, n)'
    BY <1>0, <2>1, <2>2, NothingWritten
  <2>5. \A c, n : c = chain' /\ n = at' - 1 => Walked(c, n)'
    BY <2>1, <2>3, <2>4
  <2>6. Walked(chain, at - 1)'
    BY <2>5 DEF Walked
  <2> QED BY <1>0, <2>1, <2>3, <2>6, NothingWritten DEF IInv, WalkInv, WalkType
<1>5. CASE Accept
  <2>1. /\ UNCHANGED history /\ at = Len(chain) /\ verdict = "walking"
        /\ chain' = chain /\ at' = at /\ verdict' = "intact"
        /\ accepted' = accepted \cup {chain}
    BY <1>5 DEF Accept
  <2>2. Walked(chain, Len(chain)) /\ Len(chain) > 0
    BY <1>0, <1>5, <2>1, PassedCheck DEF Accept, WalkInv, WalkType
  <2> QED BY <1>0, <2>1, <2>2, NothingWritten DEF IInv, WalkInv, WalkType
<1>6. CASE Reject
  <2>1. /\ UNCHANGED history /\ chain' = chain /\ at' = at /\ accepted' = accepted
        /\ verdict' = Check(at) /\ Check(at) # "ok"
    BY <1>6 DEF Reject
  <2>2. Check(at) \in Failures BY <2>1 DEF Check, Failures
  <2>3. verdict' \in Failures /\ verdict' # "walking" BY <2>1, <2>2 DEF Failures
  <2> QED BY <1>0, <2>1, <2>3, NothingWritten DEF IInv, WalkInv, WalkType
<1>7. CASE Report
  <2>1. /\ UNCHANGED history /\ chain' = << >> /\ at' = 1 /\ accepted' = accepted
        /\ verdict' = "idle"
    BY <1>7 DEF Report
  <2>2. << >> \in Seq(DOMAIN docs) BY EmptySeq
  <2> QED BY <1>0, <2>1, <2>2, NothingWritten DEF IInv, WalkInv, WalkType
<1>8. CASE UNCHANGED vars
  <2>1. UNCHANGED history /\ UNCHANGED reader BY <1>8 DEF vars, history, reader
  <2> QED BY <1>0, <2>1, NothingWritten, WritingKeepsWalkInv DEF IInv, history
<1> QED BY <1>1, <1>2, <1>3, <1>4, <1>5, <1>6, <1>7, <1>8 DEF Next, Walk

\* The invariant of every behaviour, from the lemmas above.
LEMMA Inductive == Spec => []IInv
<1> QED BY InitIInv, NextIInv, PTL DEF Spec

-----------------------------------------------------------------------------
(***************************************************************************)
(* Every variable keeps its type: in particular what is accepted is a      *)
(* list of documents that exist.                                           *)
(***************************************************************************)
THEOREM TypeCorrect == Spec => []TypeOK
<1>1. IInv => TypeOK
  BY DEF IInv, HistoryInv, HistoryType, WalkInv, WalkType, TypeOK
<1> QED BY Inductive, <1>1, PTL

\* An accepted list is the lineage of its newest document.
LEMMA WholeHistory ==
  ASSUME IInv, NEW c \in accepted
  PROVE  c = lineage[Newest(c)]
<1>1. c \in Seq(DOMAIN docs) /\ Len(c) > 0 /\ Walked(c, Len(c)) /\ Len(c) \in Nat
  BY LenProperties DEF IInv, WalkInv, WalkType
<1>2. IsPrefixUpTo(Newest(c), c, Len(c)) BY <1>1 DEF Walked, Newest
<1>3. lineage[Newest(c)] \in Seq(Nat)
  BY <1>1, <1>2, DocFields, ElementOfSeq DEF IsPrefixUpTo, IInv, HistoryInv, HistoryType
<1>4. c \in Seq(Nat)
  <2>1. DOMAIN docs \subseteq Nat BY <1>1, LenProperties DEF IInv, HistoryInv, HistoryType
  <2> QED BY <1>1, <2>1, SeqMonotonic
<1> QED BY <1>2, <1>3, <1>4, SeqEqual DEF IsPrefixUpTo

(***************************************************************************)
(* verify_chain accepts nothing but the complete past of the newest        *)
(* document of the list.                                                   *)
(***************************************************************************)
THEOREM AcceptedWhole == Spec => []AcceptedIsWholeHistory
<1>1. IInv => AcceptedIsWholeHistory BY WholeHistory DEF AcceptedIsWholeHistory
<1> QED BY Inductive, <1>1, PTL

(***************************************************************************)
(* Two accepted lists that share an anchor share its whole past.           *)
(***************************************************************************)
THEOREM SharedPast == Spec => []SharedAnchorSharedPast
<1>1. ASSUME IInv, NEW c \in accepted, NEW i \in DOMAIN c
      PROVE  /\ c[i] \in DOMAIN docs /\ lineage[c[i]] \in Seq(Nat)
             /\ i \in Nat
             /\ SubSeq(c, 1, i) = lineage[c[i]]
             /\ Len(lineage[c[i]]) = i
  <2>1. c \in Seq(DOMAIN docs) /\ Len(c) > 0 /\ Walked(c, Len(c)) /\ i \in 1..Len(c)
        /\ Len(c) \in Nat /\ i \in Nat
    BY <1>1, LenProperties DEF IInv, WalkInv, WalkType
  <2>2. IsPrefixUpTo(c[Len(c)], c, Len(c)) BY <2>1 DEF Walked
  <2>3. /\ c[Len(c)] \in DOMAIN docs
        /\ lineage[c[Len(c)]][i] = c[i] /\ i \in 1..Len(lineage[c[Len(c)]])
        /\ \A j \in 1..i : lineage[c[Len(c)]][j] = c[j]
    BY <2>1, <2>2 DEF IsPrefixUpTo
  <2>4. c[i] \in DOMAIN docs /\ c[i] # 0
    BY <1>1, <2>1, ElementOfSeq, LenProperties DEF IInv, HistoryInv, HistoryType
  <2>5. IsPrefixUpTo(c[i], lineage[c[Len(c)]], i)
    BY <1>1, <2>3, <2>4 DEF IInv, HistoryInv, LineageClosed
  <2>6. lineage[c[i]] \in Seq(Nat)
    BY <1>1, <2>4, DocFields, ElementOfSeq DEF IInv, HistoryInv, HistoryType
  <2>7. /\ Len(lineage[c[i]]) = i
        /\ \A j \in 1..i : lineage[c[i]][j] = c[j]
    BY <2>3, <2>5 DEF IsPrefixUpTo
  <2>8. /\ SubSeq(c, 1, i) \in Seq(Nat) /\ Len(SubSeq(c, 1, i)) = i
        /\ \A j \in 1..i : SubSeq(c, 1, i)[j] = c[j]
    <3>1. \A j \in 1..i : c[j] \in Nat
      BY <1>1, <2>1, ElementOfSeq, LenProperties DEF IInv, HistoryInv, HistoryType
    <3> QED BY <2>1, <3>1, SubSeqProperties
  <2> QED BY <2>1, <2>4, <2>6, <2>7, <2>8, SeqEqual
<1>2. ASSUME IInv, NEW c \in accepted, NEW d \in accepted,
             NEW i \in DOMAIN c, NEW j \in DOMAIN d, c[i] = d[j]
      PROVE  SubSeq(c, 1, i) = SubSeq(d, 1, j)
  <2>1. SubSeq(c, 1, i) = lineage[c[i]] BY <1>1, <1>2
  <2>2. SubSeq(d, 1, j) = lineage[d[j]] BY <1>1, <1>2
  <2> QED BY <1>2, <2>1, <2>2
<1>3. IInv => SharedAnchorSharedPast
  BY <1>2 DEF SharedAnchorSharedPast
<1> QED BY Inductive, <1>3, PTL

\* The order of the texts is the order of the instants and positions they
\* denote, as it is for whole seconds and for offsets of one width.
TextOrderFaithful ==
  /\ \A s, t \in Times : TimeRank[s] < TimeRank[t] => Instant[s] < Instant[t]
  /\ \A o, q \in Offsets : OffsetRank[o] <= OffsetRank[q] => Position[o] <= Position[q]

(***************************************************************************)
(* Where the order of the texts is the order of the instants and positions *)
(* they denote, an accepted list is ordered throughout and one publisher's.*)
(***************************************************************************)
THEOREM AcceptedOrdered ==
  ASSUME TextOrderFaithful
  PROVE  Spec => []AcceptedIsOrdered
<1>1. ASSUME IInv, NEW c \in accepted, NEW j \in DOMAIN c, NEW i \in 1..(j - 1)
      PROVE  OrderedPair(docs[c[i]], docs[c[j]])
  <2>1. c \in Seq(DOMAIN docs) /\ Walked(c, Len(c)) /\ j \in 1..Len(c) /\ i \in 1..Len(c)
    BY <1>1, LenProperties DEF IInv, WalkInv, WalkType
  <2>2. docs[c[i]] \in Anchor /\ docs[c[j]] \in Anchor
    BY <1>1, <2>1, ElementOfSeq, DocFields DEF IInv
  <2>3. InOrder(docs[c[i]], docs[c[j]]) BY <2>1 DEF Walked
  <2> QED BY <2>2, <2>3 DEF InOrder, OrderedPair, TextOrderFaithful, Anchor
<1>2. IInv => AcceptedIsOrdered BY <1>1 DEF AcceptedIsOrdered
<1> QED BY Inductive, <1>2, PTL

-----------------------------------------------------------------------------
\* A lineage ends with the document itself, after what its predecessor
\* commits to.
LEMMA LineageEnds ==
  ASSUME HistoryInv, NEW d \in DOMAIN docs
  PROVE  LET p == Past(docs[d].prev)
             l == lineage[d]
         IN  /\ p \in Seq(Nat) /\ Len(p) \in Nat /\ Len(l) = Len(p) + 1
             /\ \A j \in 1..Len(p) : l[j] = p[j]
             /\ l[Len(l)] = d
<1> DEFINE p == Past(docs[d].prev)
           l == lineage[d]
<1>1. docs[d].prev \in Prevs /\ d \in Nat
  BY DocFields, LenProperties DEF HistoryInv, HistoryType, Prevs
<1>2. p \in Seq(Nat) /\ l = Append(p, d)
  BY <1>1, PastType DEF HistoryInv, LineageOfPrev
<1> HIDE DEF p, l
<1>3. /\ Len(p) \in Nat /\ Len(l) = Len(p) + 1
      /\ \A j \in 1..Len(p) : l[j] = p[j]
      /\ l[Len(p) + 1] = d
  BY <1>1, <1>2, LenProperties, AppendProperties
<1> QED BY <1>2, <1>3 DEF p, l

\* In a list that is the lineage of its last document, each document names
\* the one before it, and the first names none.
LEMMA LineageLinks ==
  ASSUME HistoryInv, NEW c \in Seq(DOMAIN docs), Len(c) > 0,
         c = lineage[Newest(c)], NEW k \in 1..Len(c)
  PROVE  docs[c[k]].prev = (IF k = 1 THEN NoPrev ELSE c[k - 1])
<1> DEFINE d == c[k]
           prev == docs[d].prev
           p == Past(prev)
<1>1. /\ Len(c) \in Nat /\ Len(c) \in 1..Len(c) /\ k \in Nat
      /\ \A j \in 1..Len(c) : c[j] \in DOMAIN docs
  BY LenProperties, ElementOfSeq
<1>2. Newest(c) \in DOMAIN docs BY <1>1 DEF Newest
<1>3. \A i \in DOMAIN docs : i \in Nat /\ i # 0
  BY LenProperties DEF HistoryInv, HistoryType
<1>4. d \in DOMAIN docs BY <1>1
<1>5. IsPrefixUpTo(d, c, k)
  <2>1. \A i \in DOMAIN docs : \A j \in 1..Len(lineage[i]) :
          lineage[i][j] # 0 => IsPrefixUpTo(lineage[i][j], lineage[i], j)
    BY DEF HistoryInv, LineageClosed
  <2> DEFINE m == Newest(c)
  <2>2. c = lineage[m] /\ m \in DOMAIN docs BY <1>2
  <2> HIDE DEF m
  <2>3. lineage[m][k] # 0 BY <1>1, <1>3, <2>2
  <2>4. IsPrefixUpTo(lineage[m][k], lineage[m], k) BY <2>1, <2>2, <2>3
  <2> QED BY <2>2, <2>4
<1>6. Len(lineage[d]) = k /\ \A j \in 1..k : lineage[d][j] = c[j]
  BY <1>5 DEF IsPrefixUpTo
<1>7. /\ p \in Seq(Nat) /\ Len(p) = k - 1
      /\ \A j \in 1..(k - 1) : c[j] = p[j]
  <2>1. /\ p \in Seq(Nat) /\ Len(p) \in Nat /\ Len(lineage[d]) = Len(p) + 1
        /\ \A j \in 1..Len(p) : lineage[d][j] = p[j]
    BY <1>4, LineageEnds
  <2> HIDE DEF d, p
  <2>2. Len(p) = k - 1 BY <1>1, <1>6, <2>1
  <2>3. ASSUME NEW j \in 1..(k - 1)
        PROVE  c[j] = p[j]
    <3>1. j \in 1..Len(p) /\ j \in 1..k BY <1>1, <2>2
    <3> QED BY <1>6, <2>1, <3>1
  <2> QED BY <2>1, <2>2, <2>3
<1>8. prev \in DOMAIN docs \cup {NoPrev, EmptyPrev}
  <2>1. prev \in 1..(d - 1) \cup {NoPrev, EmptyPrev} /\ d \in 1..Len(docs)
    BY <1>4, DocFields
  <2>2. DOMAIN docs = 1..Len(docs) /\ Len(docs) \in Nat
    BY LenProperties DEF HistoryInv, HistoryType
  <2> QED BY <2>1, <2>2
<1>9. CASE prev = NoPrev
  <2>1. p = << >> BY <1>9 DEF Past
  <2>2. Len(p) = 0 BY <2>1
  <2> QED BY <1>1, <1>7, <1>9, <2>2
<1>10. CASE prev = EmptyPrev
  <2>1. p = <<0>> BY <1>10, ConstantsAssumption DEF Past
  <2>2. Len(p) = 1 /\ p[1] = 0 BY <2>1
  <2>3. c[1] = 0 BY <1>1, <1>7, <2>2
  <2> QED BY <1>1, <1>3, <2>3
<1>11. CASE prev \in DOMAIN docs
  <2>1. prev \in Nat BY <1>3, <1>11
  <2>2. p = lineage[prev] BY <2>1, ConstantsAssumption DEF Past
  <2>3. Len(lineage[prev]) \in Nat \ {0} /\ lineage[prev][Len(lineage[prev])] = prev
    BY <1>11, LineageEnds
  <2>4. k # 1 /\ p[k - 1] = prev BY <1>1, <1>7, <2>2, <2>3
  <2> QED BY <1>1, <1>7, <2>4
<1> QED BY <1>8, <1>9, <1>10, <1>11

\* Of some places below n, there is a last one.
LEMMA LastPlace ==
  ASSUME NEW n \in Nat, NEW S, S \subseteq 1..n, S # {}
  PROVE  \E j \in S : j + 1 \notin S
<1> DEFINE T == {j..n : j \in S}
<1>1. T \subseteq FiniteSubsetsOf(Nat) /\ T # {}
  <2>1. ASSUME NEW j \in S PROVE j..n \in FiniteSubsetsOf(Nat)
    <3>1. j \in Int /\ n \in Int /\ j..n \subseteq Nat OBVIOUS
    <3>2. IsFiniteSet(j..n) BY <3>1, FS_Interval
    <3> QED BY <3>1, <3>2 DEF FiniteSubsetsOf
  <2> QED BY <2>1
<1>2. PICK t \in T : \A u \in T : ~ (<<u, t>> \in StrictSubsetOrdering(Nat))
  <2> HIDE DEF T
  <2> QED BY <1>1, FS_StrictSubsetOrderingWellFounded, WFMin
<1>3. PICK j \in S : t = j..n BY <1>2
<1>4. ASSUME j + 1 \in S PROVE FALSE
  <2>1. (j + 1)..n \in T /\ (j + 1)..n \subseteq Nat /\ j..n \subseteq Nat
    BY <1>4
  <2>2. (j + 1)..n \subseteq j..n /\ j \in j..n /\ j \notin (j + 1)..n
    BY <1>3
  <2> QED BY <1>2, <1>3, <2>1, <2>2 DEF StrictSubsetOrdering
<1> QED BY <1>3, <1>4

(***************************************************************************)
(* Under a newest anchor of the publishing tool's own, a document that the *)
(* tool did not write lies at or below one that the tool was handed.       *)
(***************************************************************************)
THEOREM EditedPastNamed == Spec => []EditedPastWasNamed
<1>1. ASSUME IInv, NEW c \in accepted, Newest(c) \in genuine,
             NEW i \in DOMAIN c, c[i] \notin genuine
      PROVE  \E j \in i..(Len(c) - 1) :
               /\ c[j] \notin genuine /\ c[j + 1] \in genuine
               /\ docs[c[j + 1]].prev = c[j]
  <2> DEFINE S == {j \in i..(Len(c) - 1) : c[j] \notin genuine}
  <2>1. c \in Seq(DOMAIN docs) /\ Len(c) > 0 /\ Len(c) \in Nat /\ i \in 1..Len(c)
    BY <1>1, LenProperties DEF IInv, WalkInv, WalkType
  <2>2. i # Len(c) BY <1>1 DEF Newest
  <2>3. S \subseteq 1..Len(c) /\ i \in S BY <1>1, <2>1, <2>2
  <2>4. PICK j \in S : j + 1 \notin S
    <3> HIDE DEF S
    <3> QED BY <2>1, <2>3, LastPlace
  <2>5. j \in i..(Len(c) - 1) /\ c[j] \notin genuine OBVIOUS
  <2>6. c[j + 1] \in genuine
    <3>1. CASE j + 1 = Len(c) BY <1>1, <3>1 DEF Newest
    <3>2. CASE j + 1 # Len(c) BY <2>1, <2>4, <2>5, <3>2
    <3> QED BY <3>1, <3>2
  <2>7. docs[c[j + 1]].prev = c[j]
    <3>1. j + 1 \in 1..Len(c) /\ j + 1 # 1 /\ (j + 1) - 1 = j BY <2>1, <2>5
    <3>2. c = lineage[Newest(c)] BY <1>1, WholeHistory
    <3> QED BY <1>1, <2>1, <3>1, <3>2, LineageLinks DEF IInv
  <2> QED BY <2>5, <2>6, <2>7
<1>2. IInv => EditedPastWasNamed BY <1>1 DEF EditedPastWasNamed
<1> QED BY Inductive, <1>2, PTL

-----------------------------------------------------------------------------
(***************************************************************************)
(* What verify_chain refuses.                                              *)
(***************************************************************************)

\* Whatever is earlier reads as earlier: the converse of TextOrderFaithful.
TextOrderComplete ==
  /\ \A s, t \in Times : Instant[s] < Instant[t] => TimeRank[s] < TimeRank[t]
  /\ \A o, q \in Offsets : Position[o] <= Position[q] => OffsetRank[o] <= OffsetRank[q]

\* verify_chain finds nothing wrong with any document of an honest history.
LEMMA HonestPasses ==
  ASSUME TextOrderComplete, HistoryInv, chain \in Seq(DOMAIN docs), Len(chain) > 0,
         HonestHistory(chain), NEW k \in 1..Len(chain)
  PROVE  Check(k) = "ok"
<1>1. /\ DOMAIN chain = 1..Len(chain) /\ Len(chain) \in Nat /\ k \in Nat
      /\ \A j \in 1..Len(chain) : chain[j] \in DOMAIN docs
  BY LenProperties, ElementOfSeq
<1>2. docs[chain[k]].prev = (IF k = 1 THEN NoPrev ELSE chain[k - 1])
  BY LineageLinks DEF HonestHistory
<1>3. docs[chain[k]].version = AnchorVersion BY <1>1 DEF HonestHistory
<1>4. CASE k = 1
  BY <1>2, <1>3, <1>4 DEF Check
<1>5. CASE k # 1
  <2>1. k - 1 \in 1..Len(chain) /\ k - 1 \in 1..(k - 1) BY <1>1, <1>5
  <2>2. OrderedPair(docs[chain[k - 1]], docs[chain[k]])
    BY <1>1, <2>1 DEF HonestHistory
  <2>3. docs[chain[k - 1]] \in Anchor /\ docs[chain[k]] \in Anchor
    BY <1>1, <2>1, DocFields
  <2>4. SamePublisher(k) BY <2>2 DEF OrderedPair, SamePublisher
  <2>5. LaterTime(k)
    BY <2>2, <2>3 DEF OrderedPair, LaterTime, TextOrderComplete, Anchor
  <2>6. NoRewind(k)
    BY <2>2, <2>3 DEF OrderedPair, NoRewind, TextOrderComplete, Anchor
  <2>7. Links(k)
    <3>1. chain[k - 1] \in Nat
      BY <1>1, <2>1, LenProperties DEF HistoryInv, HistoryType
    <3> QED BY <1>2, <1>5, <3>1 DEF Links, SameDigest
  <2> QED BY <1>3, <1>5, <2>4, <2>5, <2>6, <2>7 DEF Check
<1> QED BY <1>4, <1>5

\* What a reader was told was refused is not an honest history.
RefusalIsJust ==
  verdict \in Failures => Len(chain) > 0 /\ ~HonestHistory(chain)

\* A list that is no honest history does not become one when documents are
\* written.
LEMMA HonestBefore ==
  ASSUME chain \in Seq(DOMAIN docs), Len(chain) > 0, chain' = chain,
         \A i \in DOMAIN docs : docs'[i] = docs[i] /\ lineage'[i] = lineage[i],
         HonestHistory(chain)'
  PROVE  HonestHistory(chain)
<1>1. /\ DOMAIN chain = 1..Len(chain) /\ Len(chain) \in Nat
      /\ \A j \in 1..Len(chain) : chain[j] \in DOMAIN docs
  BY LenProperties, ElementOfSeq
<1>2. Newest(chain) \in DOMAIN docs BY <1>1 DEF Newest
<1>3. \A j \in DOMAIN chain : docs'[chain[j]] = docs[chain[j]] BY <1>1
<1>4. chain = lineage[Newest(chain)] BY <1>2 DEF HonestHistory, Newest
<1>5. \A j \in DOMAIN chain : docs[chain[j]].version = AnchorVersion
  BY <1>3 DEF HonestHistory
<1>6. ASSUME NEW j \in DOMAIN chain, NEW i \in 1..(j - 1)
      PROVE  OrderedPair(docs[chain[i]], docs[chain[j]])
  <2>1. i \in DOMAIN chain BY <1>1
  <2>2. OrderedPair(docs'[chain[i]], docs'[chain[j]]) BY DEF HonestHistory, OrderedPair
  <2> QED BY <1>3, <2>1, <2>2
<1> QED BY <1>4, <1>5, <1>6 DEF HonestHistory

\* A step that writes documents, or none, and leaves the reader alone.
LEMMA WritingKeepsRefusals ==
  ASSUME IInv, RefusalIsJust, UNCHANGED reader,
         \A i \in DOMAIN docs : docs'[i] = docs[i] /\ lineage'[i] = lineage[i]
  PROVE  RefusalIsJust'
<1>1. chain \in Seq(DOMAIN docs) BY DEF IInv, WalkInv, WalkType
<1>2. chain' = chain /\ verdict' = verdict BY DEF reader
<1>3. ASSUME verdict \in Failures
      PROVE  Len(chain) > 0 /\ ~HonestHistory(chain)'
  BY <1>1, <1>2, <1>3, HonestBefore DEF RefusalIsJust
<1> QED BY <1>2, <1>3 DEF RefusalIsJust

\* Only Reject answers with a failure, and what it answers is deserved.
LEMMA RefusalStep ==
  ASSUME TextOrderComplete, IInv, RefusalIsJust, [Next]_vars
  PROVE  RefusalIsJust'
<1>0. HistoryInv /\ WalkInv BY DEF IInv
<1>1. ASSUME NEW r \in Reports, NEW p \in Operators, NEW t \in Times, NEW o \in Offsets,
             NEW prev \in DOMAIN docs \cup {NoPrev}, AnchorReport(r, p, t, o, prev)
      PROVE  RefusalIsJust'
  <2> DEFINE a == [version |-> AnchorVersion, report |-> r, time |-> t, offset |-> o,
                   publisher |-> p, prev |-> prev]
  <2>1. a \in Anchor /\ a.prev \in Prevs
    BY <1>0, LenProperties, ConstantsAssumption DEF Anchor, Prevs, HistoryInv, HistoryType
  <2>2. UNCHANGED <<docs, lineage>> \/ Write(a) BY <1>1 DEF AnchorReport, Publish
  <2>3. \A i \in DOMAIN docs : docs'[i] = docs[i] /\ lineage'[i] = lineage[i]
    <3> HIDE DEF a
    <3> QED BY <1>0, <2>1, <2>2, OldDocsStay
  <2>4. UNCHANGED reader BY <1>1 DEF AnchorReport
  <2> QED BY <2>3, <2>4, WritingKeepsRefusals
<1>2. ASSUME NEW i \in DOMAIN docs, EditAnchor(i)
      PROVE  RefusalIsJust'
  <2>1. PICK a \in EditOf(i) : Write(a) BY <1>2 DEF EditAnchor
  <2>2. docs[i] \in Anchor /\ docs[i].prev \in Prevs /\ DOMAIN docs \subseteq Nat
    BY <1>0, LenProperties, ElementOfSeq DEF HistoryInv, HistoryType, PrevBefore, Prevs
  <2>3. a \in Anchor /\ a.prev \in Prevs
    BY <2>1, <2>2, ConstantsAssumption DEF EditOf, Anchor, Prevs
  <2>4. \A j \in DOMAIN docs : docs'[j] = docs[j] /\ lineage'[j] = lineage[j]
    BY <1>0, <2>1, <2>3, OldDocsStay
  <2> QED BY <1>2, <2>4, WritingKeepsRefusals DEF EditAnchor
<1>3. ASSUME verdict' \in {"idle", "walking", "intact"}
      PROVE  RefusalIsJust'
  BY <1>3 DEF RefusalIsJust, Failures
<1>4. ASSUME NEW n \in 1..MaxChain, NEW c \in [1..n -> DOMAIN docs], Load(c)
      PROVE  RefusalIsJust'
  BY <1>3, <1>4 DEF Load
<1>5. CASE Advance BY <1>3, <1>5 DEF Advance
<1>6. CASE Accept BY <1>3, <1>6 DEF Accept
<1>7. CASE Reject
  <2>1. /\ UNCHANGED history /\ chain' = chain /\ verdict = "walking" /\ Check(at) # "ok"
    BY <1>7 DEF Reject
  <2>2. at \in 1..Len(chain) /\ chain \in Seq(DOMAIN docs) /\ Len(chain) > 0
    BY <1>0, <2>1, LenProperties DEF WalkInv, WalkType
  <2>3. ~HonestHistory(chain) BY <1>0, <2>1, <2>2, HonestPasses
  <2>4. ~HonestHistory(chain)'
    BY <2>1, <2>2, <2>3, HonestBefore DEF history
  <2> QED BY <2>1, <2>2, <2>4 DEF RefusalIsJust
<1>8. CASE Report BY <1>3, <1>8 DEF Report
<1>9. CASE UNCHANGED vars
  <2>1. UNCHANGED reader /\ UNCHANGED history BY <1>9 DEF vars, reader, history
  <2> QED BY <2>1, WritingKeepsRefusals DEF history
<1> QED BY <1>1, <1>2, <1>4, <1>5, <1>6, <1>7, <1>8, <1>9 DEF Next, Walk

(***************************************************************************)
(* Where the texts are in the order of what they denote, verify_chain      *)
(* never reports the complete past of an anchor, one publisher's and in    *)
(* order, as tampered with.                                                *)
(***************************************************************************)
THEOREM HonestAccepted ==
  ASSUME TextOrderComplete
  PROVE  Spec => []HonestHistoryNotRejected
<1>1. Init => RefusalIsJust BY DEF Init, RefusalIsJust, Failures
<1>2. IInv /\ RefusalIsJust /\ [Next]_vars => RefusalIsJust' BY RefusalStep
<1>3. RefusalIsJust => HonestHistoryNotRejected
  BY DEF RefusalIsJust, HonestHistoryNotRejected
<1> QED BY Inductive, <1>1, <1>2, <1>3, PTL DEF Spec
=============================================================================
