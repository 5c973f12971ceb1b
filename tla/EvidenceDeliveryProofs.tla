------------------------ MODULE EvidenceDeliveryProofs ------------------------
(***************************************************************************)
(* Whatever dies, overlaps, is left over, or is changed while it is read:  *)
(* what verify-pack accepts is one run's output, and a run that is left    *)
(* alone delivers.  For every set of processes, customers and inputs, and  *)
(* every number of events.                                                 *)
(***************************************************************************)
EXTENDS EvidenceDelivery, FiniteSetTheorems, TLAPS

-----------------------------------------------------------------------------
(***************************************************************************)
(* The inductive invariant.                                                *)
(***************************************************************************)
File  == UNION {Output(i) : i \in Inputs}
IndexOf(i) == <<"pack.json", PackDoc(Book[i], Output(i))>>

Runs == [input : Inputs \cup {None}, members : Seq(File),
         open : {None} \cup File \cup {IndexOf(i) : i \in Inputs}, alone : BOOLEAN]

RunType == run \in [Procs -> Runs]

\* What may be written after these members.
IsNext(file, m, i) ==
  \/ /\ file \in Output(i) /\ file[1] # "pack.json"
     /\ Len(m) = 0 => file = <<"report.json", ReportDoc(Book[i])>>
     /\ Len(m) = 1 => file = <<"anchor.json", AnchorDoc(i)>>
  \/ /\ file = IndexOf(i)
     /\ Output(i) = {m[k] : k \in DOMAIN m}
     /\ \A j, k \in DOMAIN m : m[j][1] = m[k][1] => j = k

\* What a run has written is of its own output, the report and the anchor first,
\* and an index that it has open is of all of it.
IsRun(r, signed) ==
  /\ r.input # None =>
       /\ \A k \in DOMAIN r.members : r.members[k] \in Output(r.input)
       /\ Len(r.members) >= 1 => r.members[1] = <<"report.json", ReportDoc(Book[r.input])>>
       /\ Len(r.members) >= 2 => r.members[2] = <<"anchor.json", AnchorDoc(r.input)>>
  /\ r.open # None =>
       /\ r.input # None
       /\ IsNext(r.open, r.members, r.input)
       /\ r.open = IndexOf(r.input) => r.input \in signed

RunInv == \A p \in Procs : IsRun(run[p], finished)

\* The sets of files somebody with the key has signed.
Pinned == {Output(i) : i \in finished} \cup byHand

IsOver(c, sets) ==
  c.kind = "pack" /\ c.key = "publisher" /\ c.signedBy = "publisher" => c.entries \in sets

PairsInv == \A S \in Pinned : \A e \in S : e = <<e[1], e[2]>>

\* No index on disk, or read from it, is signed over anything else.
IndexInv ==
  /\ \A n \in DOMAIN dir : IsOver(dir[n], Pinned)
  /\ index # None => index.kind = "pack" /\ IsOver(index, Pinned)
  /\ phase = "idle" => index = None

IInv == RunType /\ RunInv /\ finished \subseteq Inputs /\ PairsInv /\ IndexInv
          /\ AcceptedDeliveryIsOneRuns

-----------------------------------------------------------------------------
(***************************************************************************)
(* Lemmas.                                                                 *)
(***************************************************************************)
\* A run's output is files with names, none of them an index.
LEMMA OutputFiles ==
  ASSUME NEW i \in Inputs, NEW e \in Output(i)
  PROVE  e = <<e[1], e[2]>> /\ e[1] # "pack.json" /\ e[2].kind # "pack"
<1>1. \A u \in Customers[Book[i]] : ProofName[u] # "pack.json"
  BY ConstantsAssumption
<1> QED BY <1>1 DEF Output, Proofs, ReportDoc, AnchorDoc, ProofDoc, Doc

\* What is pinned stays pinned.
LEMMA StillOver ==
  ASSUME NEW c, NEW P, NEW Q, P \subseteq Q, IsOver(c, P)
  PROVE  IsOver(c, Q)
BY DEF IsOver

\* One more file under a name.
LEMMA PutPinned ==
  ASSUME NEW n, NEW c, NEW P, \A m \in DOMAIN dir : IsOver(dir[m], P), IsOver(c, P)
  PROVE  \A m \in DOMAIN Put(n, c) : IsOver(Put(n, c)[m], P)
BY DEF Put

LEMMA TornIsNoIndex ==
  ASSUME NEW P
  PROVE  IsOver(Torn, P)
BY DEF IsOver, Torn

LEMMA Appended ==
  ASSUME NEW S, NEW s \in Seq(S), NEW x \in S
  PROVE  /\ Append(s, x) \in Seq(S) /\ Len(Append(s, x)) = Len(s) + 1 /\ Len(s) \in Nat
         /\ DOMAIN Append(s, x) = 1..Len(Append(s, x)) /\ DOMAIN s = 1..Len(s)
         /\ Append(s, x)[Len(Append(s, x))] = x
         /\ \A k \in DOMAIN s : Append(s, x)[k] = s[k]
OBVIOUS

LEMMA TwoAtLeast ==
  ASSUME NEW S, NEW s \in Seq(S), Len(s) # 0, Len(s) # 1
  PROVE  Len(s) >= 1 /\ Len(s) >= 2 /\ 1 \in DOMAIN s /\ 2 \in DOMAIN s
<1>1. Len(s) \in Nat /\ DOMAIN s = 1..Len(s)
  OBVIOUS
<1> QED BY <1>1

\* Without two members of one name the index is of everything written.
LEMMA EntriesAreWritten ==
  ASSUME NEW p, NEW S, run[p].members \in Seq(S), DistinctNames(p)
  PROVE  Entries(p) = Written(p)
<1>1. \A j, k \in DOMAIN run[p].members : j \in Int /\ k \in Int
  OBVIOUS
<1>2. \A j, k \in DOMAIN run[p].members :
        j > k => run[p].members[j][1] # run[p].members[k][1]
  BY <1>1 DEF DistinctNames
<1> QED BY <1>2 DEF Entries, Written

\* The run's next file.
LEMMA NextFile ==
  ASSUME NEW p \in Procs, RunType, RunInv, run[p].input # None, run[p].open = None,
         NEW file \in Pending(p)
  PROVE  IsNext(file, run[p].members, run[p].input)
<1> DEFINE i == run[p].input
           m == run[p].members
           left == Proofs(i) \ Written(p)
<1>0. i \in Inputs /\ m \in Seq(File)
  BY DEF RunType, Runs
<1>1. CASE Len(m) = 0
  BY <1>1, <1>0, OutputFiles DEF Pending, Output, IsNext
<1>2. CASE Len(m) = 1
  BY <1>2, <1>0, OutputFiles DEF Pending, Output, IsNext
<1>3. CASE Len(m) # 0 /\ Len(m) # 1 /\ left # {}
  <2>1. file \in Proofs(i)
    BY <1>3 DEF Pending
  <2> QED BY <2>1, <1>3, <1>0, OutputFiles DEF Output, IsNext
<1>4. CASE Len(m) # 0 /\ Len(m) # 1 /\ left = {}
  <2>1. DistinctNames(p) /\ file = <<"pack.json", PackDoc(Book[i], Entries(p))>>
    BY <1>4 DEF Pending
  <2>2. Entries(p) = Written(p)
    BY <2>1, <1>0, EntriesAreWritten
  <2>3. Written(p) \subseteq Output(i)
    BY DEF RunInv, IsRun, Written
  <2>4. Len(m) >= 1 /\ Len(m) >= 2 /\ 1 \in DOMAIN m /\ 2 \in DOMAIN m
    BY <1>0, <1>4, TwoAtLeast
  <2>5. m[1] = <<"report.json", ReportDoc(Book[i])>> /\ m[2] = <<"anchor.json", AnchorDoc(i)>>
    BY <2>4 DEF RunInv, IsRun
  <2>6. Output(i) \subseteq Written(p)
    BY <1>4, <2>4, <2>5 DEF Written, Output
  <2> QED BY <2>1, <2>2, <2>3, <2>6 DEF IndexOf, IsNext, Written, DistinctNames
<1> QED BY <1>1, <1>2, <1>3, <1>4

\* An index that holds is over the files that were read.
LEMMA HoldsOverRead ==
  ASSUME NEW pack, NEW members, IndexFailures(pack, members) = {},
         \A e \in pack.entries : e = <<e[1], e[2]>>
  PROVE  /\ pack.key = "publisher" /\ pack.signedBy = "publisher"
         /\ pack.entries = Graph(members)
<1> DEFINE named   == {e[1] : e \in pack.entries}
           absent  == named \ DOMAIN members
           altered == {e \in pack.entries : e[1] \in DOMAIN members /\ members[e[1]] # e[2]}
<1>1. pack.key = "publisher" /\ pack.signedBy = "publisher"
  BY DEF IndexFailures
<1>2. absent \cup altered = {}
  <2> SUFFICES ASSUME absent \cup altered # {} PROVE FALSE
    OBVIOUS
  <2>1. absent # {} \/ altered # {}
    OBVIOUS
  <2>2. IndexFailures(pack, members) =
          (IF absent # {} THEN {"Missing"} ELSE {}) \cup (IF altered # {} THEN {"Altered"} ELSE {})
    BY <1>1 DEF IndexFailures
  <2> QED BY <2>1, <2>2
<1>3. DOMAIN members \subseteq named
  BY <1>1, <1>2 DEF IndexFailures
<1>4. pack.entries \subseteq Graph(members)
  BY <1>2 DEF Graph
<1>5. Graph(members) \subseteq pack.entries
  <2> SUFFICES ASSUME NEW n \in DOMAIN members PROVE <<n, members[n]>> \in pack.entries
    BY DEF Graph
  <2>1. PICK e \in pack.entries : e[1] = n
    BY <1>3
  <2>2. members[n] = e[2]
    BY <1>2, <2>1
  <2> QED BY <2>1, <2>2
<1> QED BY <1>1, <1>4, <1>5

\* A step of the publishers' that changes none of the auditor's state keeps what
\* was established, if nothing is unsigned.
LEMMA AuditorKeeps ==
  ASSUME IndexInv, AcceptedDeliveryIsOneRuns, Pinned \subseteq Pinned',
         UNCHANGED audit, \A n \in DOMAIN dir' : IsOver(dir'[n], Pinned')
  PROVE  IndexInv' /\ AcceptedDeliveryIsOneRuns'
<1>1. index # None => index.kind = "pack" /\ IsOver(index, Pinned')
  BY StillOver DEF IndexInv
<1>2. IndexInv'
  BY <1>1 DEF IndexInv, audit
<1>3. AcceptedDeliveryIsOneRuns'
  BY DEF AcceptedDeliveryIsOneRuns, IndexGood, Pinned, audit
<1> QED BY <1>2, <1>3

\* A step of the auditor's that reads nothing new of the index.
LEMMA PublishersKeep ==
  ASSUME RunType, RunInv, finished \subseteq Inputs, PairsInv, UNCHANGED <<run, finished, byHand>>
  PROVE  RunType' /\ RunInv' /\ (finished \subseteq Inputs)' /\ PairsInv' /\ Pinned' = Pinned
BY DEF RunType, RunInv, PairsInv, Pinned

-----------------------------------------------------------------------------
LEMMA Initially == ASSUME Init PROVE IInv
<1>1. RunType
  BY DEF Init, RunType, Runs, NotRunning
<1>2. RunInv
  BY DEF Init, RunInv, IsRun, NotRunning
<1>3. PairsInv /\ IndexInv /\ AcceptedDeliveryIsOneRuns
  BY DEF Init, PairsInv, Pinned, IndexInv, AcceptedDeliveryIsOneRuns, IndexGood
<1> QED BY <1>1, <1>2, <1>3 DEF Init, IInv

\* A run that starts, or ends.
LEMMA FreshRun ==
  ASSUME NEW r \in Runs, NEW signed, r.members = << >>, r.open = None
  PROVE  IsRun(r, signed)
BY DEF IsRun

\* One process moves.
LEMMA OneRunMoves ==
  ASSUME RunType, RunInv, finished \subseteq finished', NEW p \in Procs,
         NEW r \in Runs, IsRun(r, finished'), run' = [run EXCEPT ![p] = r]
  PROVE  RunType' /\ RunInv'
<1>1. RunType'
  BY DEF RunType
<1>2. ASSUME NEW q \in Procs, q # p PROVE IsRun(run'[q], finished')
  BY <1>2 DEF RunType, RunInv, IsRun
<1>3. IsRun(run'[p], finished')
  BY DEF RunType
<1> QED BY <1>1, <1>2, <1>3 DEF RunInv

\* The publishing runs.
LEMMA PublisherStep ==
  ASSUME IInv, NEW p \in Procs,
         (\E i \in Inputs : Start(p, i)) \/ OpenFile(p) \/ FillFile(p) \/ RefusePack(p) \/ Die(p)
  PROVE  IInv'
<1> USE DEF IInv
<1> DEFINE r == run[p]
<1>0. r \in Runs /\ NotRunning \in Runs /\ IsRun(r, finished)
  BY DEF RunType, RunInv, Runs, NotRunning
\* What is on disk and signed did not change.
<1>1. ASSUME UNCHANGED <<dir, finished, byHand, audit>>, RunType' /\ RunInv' PROVE IInv'
  <2>1. Pinned' = Pinned /\ PairsInv'
    BY <1>1 DEF Pinned, PairsInv
  <2>2. IndexInv' /\ AcceptedDeliveryIsOneRuns'
    BY <1>1, <2>1, AuditorKeeps DEF IndexInv
  <2> QED BY <1>1, <2>1, <2>2
<1>2. ASSUME NEW i \in Inputs, Start(p, i) PROVE IInv'
  <2>1. ASSUME NEW q \in Procs
        PROVE  /\ run'[q] \in Runs
               /\ \/ /\ run'[q].input = run[q].input /\ run'[q].members = run[q].members
                     /\ run'[q].open = run[q].open
                  \/ run'[q].members = << >> /\ run'[q].open = None
    <3>1. run[q] \in Runs
      BY DEF RunType
    <3> QED BY <1>2, <3>1 DEF Start, NotRunning, Runs
  <2>2. \A q \in Procs : IsRun(run'[q], finished')
    <3>1. finished' = finished
      BY <1>2 DEF Start
    <3> SUFFICES ASSUME NEW q \in Procs PROVE IsRun(run'[q], finished)
      BY <3>1
    <3>2. IsRun(run[q], finished)
      BY DEF RunInv
    <3> QED BY <2>1, <3>2, FreshRun DEF IsRun
  <2>3. RunType'
    BY <1>2, <2>1 DEF RunType, Start
  <2> QED BY <1>1, <1>2, <2>2, <2>3 DEF Start, RunInv
<1>3. CASE RefusePack(p) \/ Die(p)
  <2>1. IsRun(NotRunning, finished')
    BY <1>0, FreshRun DEF NotRunning
  <2>2. run' = [run EXCEPT ![p] = NotRunning] /\ UNCHANGED <<dir, finished, byHand, audit>>
    BY <1>3 DEF RefusePack, Die
  <2>3. RunType' /\ RunInv'
    BY <1>0, <2>1, <2>2, OneRunMoves
  <2> QED BY <1>1, <2>2, <2>3
<1>4. CASE OpenFile(p)
  <2>1. PICK file \in Pending(p) :
          /\ dir' = Put(file[1], Torn)
          /\ run' = [run EXCEPT ![p].open = file]
          /\ finished' = IF file[1] = "pack.json" THEN finished \cup {r.input} ELSE finished
    BY <1>4 DEF OpenFile
  <2>2. r.input # None /\ r.open = None /\ r.input \in Inputs /\ UNCHANGED <<byHand, audit>>
    BY <1>0, <1>4 DEF OpenFile, Runs
  <2>3. IsNext(file, r.members, r.input)
    BY <2>2, NextFile
  <2>4. finished \subseteq finished' /\ finished' \subseteq Inputs
    BY <2>1, <2>2
  <2>5. RunType' /\ RunInv'
    <3>1. file \in File \cup {IndexOf(j) : j \in Inputs}
      BY <2>2, <2>3 DEF File, IsNext
    <3>2. [r EXCEPT !.open = file] \in Runs
      BY <1>0, <3>1 DEF Runs
    <3>3. file = IndexOf(r.input) => r.input \in finished'
      BY <2>1 DEF IndexOf
    <3>4. IsRun([r EXCEPT !.open = file], finished')
      BY <1>0, <2>2, <2>3, <3>3 DEF IsRun, Runs
    <3>5. run' = [run EXCEPT ![p] = [r EXCEPT !.open = file]]
      BY <2>1 DEF RunType
    <3> QED BY <2>4, <3>2, <3>4, <3>5, OneRunMoves
  <2>6. Pinned \subseteq Pinned'
    BY <2>2, <2>4 DEF Pinned
  <2>7. \A n \in DOMAIN dir' : IsOver(dir'[n], Pinned')
    BY <2>1, <2>6, TornIsNoIndex, StillOver, PutPinned DEF IndexInv
  <2>8. PairsInv'
    BY <2>2, <2>4, OutputFiles DEF PairsInv, Pinned
  <2> QED BY <2>2, <2>4, <2>5, <2>6, <2>7, <2>8, AuditorKeeps
<1>5. CASE FillFile(p)
  <2> DEFINE name == r.open[1]
             content == r.open[2]
  <2>0. /\ r.open # None /\ UNCHANGED <<finished, byHand, audit>>
        /\ dir' = dir \/ dir' = Put(name, content) \/ dir' = Put(name, Torn)
    BY <1>5 DEF FillFile
  <2> DEFINE m == Append(r.members, <<name, content>>)
             s == [r EXCEPT !.members = m, !.open = None]
             t == IF name = "pack.json" THEN NotRunning ELSE s
  <2>1. run' = [run EXCEPT ![p] = t]
    BY <1>5 DEF FillFile
  <2>2. r.input \in Inputs /\ r.input # None /\ IsNext(r.open, r.members, r.input)
    BY <1>0, <2>0 DEF IsRun, Runs
  <2>3. Pinned' = Pinned /\ PairsInv' /\ (finished \subseteq Inputs)'
    BY <2>0 DEF Pinned, PairsInv
  <2>4. IsOver(content, Pinned)
    <3>1. CASE r.open \in Output(r.input)
      BY <2>2, <3>1, OutputFiles DEF IsOver
    <3>2. CASE r.open = IndexOf(r.input)
      <4>1. r.input \in finished
        BY <1>0, <2>0, <3>2 DEF IsRun
      <4> QED BY <3>2, <4>1 DEF IsOver, IndexOf, PackDoc, Pinned
    <3> QED BY <2>2, <3>1, <3>2 DEF IsNext
  <2>5. \A n \in DOMAIN dir' : IsOver(dir'[n], Pinned')
    BY <2>0, <2>3, <2>4, TornIsNoIndex, PutPinned DEF IndexInv
  <2>6. RunType' /\ RunInv'
    <3>1. CASE name = "pack.json"
      <4>1. t = NotRunning
        BY <3>1
      <4>2. t \in Runs /\ IsRun(t, finished')
        BY <1>0, <4>1, FreshRun DEF NotRunning
      <4> QED BY <2>0, <2>1, <4>2, OneRunMoves
    <3>2. CASE name # "pack.json"
      <4>1. r.open \in Output(r.input) /\ r.open = <<name, content>>
        BY <2>2, <3>2, OutputFiles DEF IsNext, IndexOf
      <4>2. r.members \in Seq(File) /\ <<name, content>> \in File
        BY <1>0, <2>2, <4>1 DEF Runs, File
      <4>3. /\ m \in Seq(File) /\ Len(m) = Len(r.members) + 1 /\ Len(r.members) \in Nat
            /\ DOMAIN m = 1..Len(m) /\ DOMAIN r.members = 1..Len(r.members)
            /\ m[Len(m)] = r.open /\ \A k \in DOMAIN r.members : m[k] = r.members[k]
        BY <4>1, <4>2, Appended
      <4>4. s \in Runs
        BY <1>0, <4>3 DEF Runs
      <4>5. s.input = r.input /\ s.members = m /\ s.open = None
        BY <1>0 DEF Runs
      <4>6. \A k \in DOMAIN m : m[k] \in Output(r.input)
        BY <1>0, <2>2, <4>1, <4>3 DEF IsRun
      <4>7. m[1] = <<"report.json", ReportDoc(Book[r.input])>>
        BY <1>0, <2>2, <3>2, <4>3 DEF IsRun, IsNext, IndexOf
      <4>8. Len(m) >= 2 => m[2] = <<"anchor.json", AnchorDoc(r.input)>>
        <5>1. CASE Len(r.members) = 1
          BY <2>2, <3>2, <4>3, <5>1 DEF IsNext, IndexOf
        <5>2. CASE Len(r.members) >= 2
          BY <1>0, <2>2, <4>3, <5>2 DEF IsRun
        <5> DEFINE n == Len(r.members)
                   l == Len(m)
        <5>3. l >= 2 => n = 1 \/ n >= 2
          <6>1. n \in Nat /\ l = n + 1
            BY <4>3
          <6> HIDE DEF n, l
          <6> QED BY <6>1
        <5> QED BY <5>1, <5>2, <5>3
      <4>9. IsRun(s, finished')
        BY <4>5, <4>6, <4>7, <4>8 DEF IsRun
      <4>10. t = s
        BY <3>2
      <4> QED BY <2>0, <2>1, <4>4, <4>9, <4>10, OneRunMoves
    <3> QED BY <3>1, <3>2
  <2> QED BY <2>0, <2>3, <2>5, <2>6, AuditorKeeps
<1> QED BY <1>2, <1>3, <1>4, <1>5

\* Everybody else who touches the directory: they have no key, or sign a set.
LEMMA OthersStep ==
  ASSUME IInv,
         \/ \E n \in DOMAIN dir : Drop(n)
         \/ \E n, c : Swap(n, c) /\ c.kind # "pack"
         \/ \E key, signedBy : Reindex(key, signedBy)
         \/ \E b \in Books, names \in SUBSET (DOMAIN dir \ {"pack.json"}) : PackByHand(b, names)
  PROVE  IInv'
<1> USE DEF IInv
<1>1. ASSUME UNCHANGED <<run, finished, audit>>, Pinned \subseteq Pinned', PairsInv',
             \A n \in DOMAIN dir' : IsOver(dir'[n], Pinned')
      PROVE  IInv'
  <2>1. RunType' /\ RunInv' /\ (finished \subseteq Inputs)'
    BY <1>1 DEF RunType, RunInv
  <2> QED BY <1>1, <2>1, AuditorKeeps
<1>2. ASSUME NEW c, NEW n, dir' = Put(n, c), IsOver(c, Pinned),
             UNCHANGED <<publisher, audit>>
      PROVE  IInv'
  <2>1. UNCHANGED <<run, finished, byHand, audit>> /\ Pinned' = Pinned /\ PairsInv'
    BY <1>2 DEF publisher, Pinned, PairsInv
  <2>2. \A m \in DOMAIN dir' : IsOver(dir'[m], Pinned')
    BY <1>2, <2>1, PutPinned DEF IndexInv
  <2> QED BY <1>1, <2>1, <2>2
<1>3. ASSUME NEW n \in DOMAIN dir, Drop(n) PROVE IInv'
  <2>1. UNCHANGED <<run, finished, byHand, audit>> /\ Pinned' = Pinned /\ PairsInv'
    BY <1>3 DEF Drop, publisher, Pinned, PairsInv
  <2>2. \A m \in DOMAIN dir' : m \in DOMAIN dir /\ dir'[m] = dir[m]
    BY <1>3 DEF Drop
  <2> QED BY <1>1, <2>1, <2>2 DEF IndexInv
<1>4. ASSUME NEW n, NEW c, Swap(n, c), c.kind # "pack" PROVE IInv'
  <2>1. IsOver(c, Pinned)
    BY <1>4 DEF IsOver
  <2> QED BY <1>2, <1>4, <2>1 DEF Swap
<1>5. ASSUME NEW key, NEW signedBy, Reindex(key, signedBy) PROVE IInv'
  <2> DEFINE c == [PackDoc(CHOOSE b \in Books : TRUE, {e \in Graph(dir) : e[1] # "pack.json"})
                     EXCEPT !.key = key, !.signedBy = signedBy]
  <2>1. dir' = Put("pack.json", c) /\ signedBy # "publisher" /\ UNCHANGED <<publisher, audit>>
    BY <1>5 DEF Reindex
  <2>2. IsOver(c, Pinned)
    BY <2>1 DEF IsOver, PackDoc
  <2> QED BY <1>2, <2>1, <2>2
<1>6. ASSUME NEW b \in Books, NEW names, PackByHand(b, names) PROVE IInv'
  <2> DEFINE members == {<<n, dir[n]>> : n \in names}
  <2>1. /\ dir' = Put("pack.json", PackDoc(b, members)) /\ byHand' = byHand \cup {members}
        /\ UNCHANGED <<run, finished, audit>>
    BY <1>6 DEF PackByHand
  <2>2. Pinned' = Pinned \cup {members}
    BY <2>1 DEF Pinned
  <2>3. PairsInv'
    BY <2>2 DEF PairsInv
  <2>4. IsOver(PackDoc(b, members), Pinned')
    BY <2>2 DEF IsOver, PackDoc
  <2>5. \A n \in DOMAIN dir' : IsOver(dir'[n], Pinned')
    BY <2>1, <2>2, <2>4, StillOver, PutPinned DEF IndexInv
  <2> QED BY <1>1, <2>1, <2>2, <2>3, <2>5
<1> QED BY <1>3, <1>4, <1>5, <1>6

\* The auditor.
LEMMA AuditorStep ==
  ASSUME IInv, ReadIndex \/ StartVerify \/ AuditStep \/ Exit
  PROVE  IInv'
<1> USE DEF IInv
<1>0. UNCHANGED <<dir, run, finished, byHand>>
  BY DEF publisher, ReadIndex, StartVerify, AuditStep, Exit, Answer, MemberVanished, IndexFails,
         IndexHolds, LoadReport, Conclude, ReadMember, SweepProof, SkipSibling, SweepFails
<1>1. RunType' /\ RunInv' /\ (finished \subseteq Inputs)' /\ PairsInv' /\ Pinned' = Pinned
  BY <1>0, PublishersKeep
<1>2. ASSUME IndexInv!2', IndexInv!3', AcceptedDeliveryIsOneRuns' PROVE IInv'
  BY <1>0, <1>1, <1>2 DEF IndexInv
\* Nothing is established yet, or no longer.
<1>3. CASE index' = index /\ phase' \notin {"idle", "loading", "sweeping", "passed", "failed"}
  BY <1>1, <1>2, <1>3 DEF IndexInv, AcceptedDeliveryIsOneRuns, IndexGood
\* What was established stays.
<1>4. CASE index' = index /\ got' = got /\ phase' # "idle" /\ IndexGood
  BY <1>0, <1>1, <1>2, <1>4 DEF IndexInv, AcceptedDeliveryIsOneRuns, IndexGood
<1>5. CASE index' = None
  BY <1>2, <1>5 DEF AcceptedDeliveryIsOneRuns, IndexGood
<1>6. CASE ReadIndex
  BY <1>0, <1>1, <1>2, <1>3, <1>6 DEF ReadIndex, IndexInv, AcceptedDeliveryIsOneRuns, IndexGood
<1>7. CASE StartVerify
  BY <1>5, <1>7 DEF StartVerify, IndexInv
<1>8. CASE Exit
  BY <1>5, <1>8 DEF Exit
<1>9. CASE IndexHolds
  <2>1. UNCHANGED <<index, got>> /\ phase' # "idle" /\ IndexFailures(index, got) = {}
    BY <1>9 DEF IndexHolds, Answer
  <2>2. CASE index = None
    BY <1>5, <2>1, <2>2
  <2>3. CASE index # None
    <3>1. index.key = "publisher" => index.signedBy = "publisher"
      BY <2>1 DEF IndexFailures
    <3>2. index.key = "publisher"
      BY <2>1 DEF IndexFailures
    <3>3. index.entries \in Pinned
      BY <2>3, <3>1, <3>2 DEF IndexInv, IsOver
    <3>4. Graph(got) \in Pinned
      BY <2>1, <3>3, HoldsOverRead DEF PairsInv
    <3>5. Graph(got)' \in Pinned
      BY <2>1, <3>4 DEF Graph
    <3> QED BY <1>0, <1>1, <1>2, <2>1, <3>5 DEF IndexInv, AcceptedDeliveryIsOneRuns, Pinned
  <2> QED BY <2>2, <2>3
<1>10. CASE LoadReport \/ Conclude \/ \E n \in todo : SweepProof(n) \/ SkipSibling(n)
  <2>1. UNCHANGED <<index, got>> /\ phase' # "idle" /\ phase \in {"loading", "sweeping"}
    BY <1>10 DEF LoadReport, Conclude, Answer, SweepProof, SkipSibling
  <2> QED BY <1>4, <1>5, <2>1 DEF IndexGood
<1>11. CASE MemberVanished \/ IndexFails \/ (\E n \in DOMAIN dir : ReadMember(n))
              \/ \E n \in todo : SweepFails(n)
  BY <1>3, <1>11 DEF MemberVanished, IndexFails, IndexFailures, ReadMember, SweepFails, Answer
<1> QED BY <1>6, <1>7, <1>8, <1>9, <1>10, <1>11 DEF AuditStep

-----------------------------------------------------------------------------
LEMMA IInvKept == IInv /\ [Next]_vars => IInv'
<1> SUFFICES ASSUME IInv, [Next]_vars PROVE IInv'
  OBVIOUS
<1>1. CASE UNCHANGED vars
  <2>1. UNCHANGED <<dir, run, finished, byHand, audit>>
    BY <1>1 DEF vars, audit
  <2>2. RunType' /\ RunInv' /\ (finished \subseteq Inputs)' /\ PairsInv' /\ Pinned' = Pinned
    BY <2>1, PublishersKeep DEF IInv
  <2>3. IndexInv' /\ AcceptedDeliveryIsOneRuns'
    BY <2>1, <2>2, AuditorKeeps DEF IInv, IndexInv
  <2> QED BY <2>2, <2>3 DEF IInv
<1>2. ASSUME NEW n, NEW d \in Documents \cup {Torn, Other}, Swap(n, d) PROVE IInv'
  <2>1. d.kind # "pack"
    BY DEF Documents, ReportDoc, AnchorDoc, ProofDoc, Doc, Torn, Other
  <2> QED BY <1>2, <2>1, OthersStep
<1>3. ASSUME NEW n \in DOMAIN dir, dir[n] \in Documents, Swap(n, [dir[n] EXCEPT !.intact = FALSE])
      PROVE  IInv'
  <2>1. [dir[n] EXCEPT !.intact = FALSE].kind # "pack"
    BY <1>3 DEF Documents, ReportDoc, AnchorDoc, ProofDoc, Doc
  <2> QED BY <1>3, <2>1, OthersStep
<1> QED BY <1>1, <1>2, <1>3, PublisherStep, OthersStep, AuditorStep DEF Next

\* What verify-pack finds good is one run's whole output, or one set that the
\* holder of the key signed (publish.rs:146-178, pack.rs:96-180).
THEOREM DeliveryIsOneRuns == Spec => []AcceptedDeliveryIsOneRuns
<1>1. IInv => AcceptedDeliveryIsOneRuns
  BY DEF IInv
<1> QED BY <1>1, Initially, IInvKept, PTL DEF Spec

-----------------------------------------------------------------------------
(***************************************************************************)
(* A run that nobody interferes with.                                      *)
(***************************************************************************)
\* What it wrote last under each name is on disk, and the file it has open is
\* there too, still empty.
OnDisk(files, m, o) ==
  /\ o # None => o[1] \in DOMAIN files /\ files[o[1]] = Torn
  /\ \A k \in DOMAIN m :
       \/ \E j \in DOMAIN m : j > k /\ m[j][1] = m[k][1]
       \/ o # None /\ o[1] = m[k][1]
       \/ m[k][1] \in DOMAIN files /\ files[m[k][1]] = m[k][2]

AloneInv ==
  /\ tampers \in Nat
  /\ \A p \in Procs :
       /\ run[p].alone => \A q \in Procs \ {p} : run[q] = NotRunning
       /\ Undisturbed(p) => OnDisk(dir, run[p].members, run[p].open)

\* While one process moves, no other is alone.
LEMMA OnlyMover ==
  ASSUME AloneInv, NEW p \in Procs, run[p].input # None, RunType,
         NEW r \in Runs, run' = [run EXCEPT ![p] = r],
         UNCHANGED <<tampers, byHand>>,
         r.alone => run[p].alone,
         r.alone /\ Undisturbed(p) => OnDisk(dir', r.members, r.open)
  PROVE  AloneInv'
<1>1. \A q \in Procs \ {p} : run'[q] = run[q]
  BY DEF RunType
<1>2. run'[p] = r
  BY DEF RunType
<1>3. run[p] # NotRunning
  BY DEF NotRunning
<1>4. \A q \in Procs \ {p} : ~run[q].alone
  BY <1>3 DEF AloneInv
<1>5. (tampers \in Nat)'
  BY DEF AloneInv
<1>6. ASSUME NEW q \in Procs
      PROVE  /\ run'[q].alone => \A o \in Procs \ {q} : run'[o] = NotRunning
             /\ Undisturbed(q)' => OnDisk(dir', run'[q].members, run'[q].open)
  <2>1. CASE q # p
    BY <1>1, <1>4, <2>1 DEF Undisturbed
  <2>2. CASE q = p
    <3>1. r.alone => \A o \in Procs \ {p} : run'[o] = NotRunning
      BY <1>1 DEF AloneInv
    <3>2. Undisturbed(p)' => r.alone /\ Undisturbed(p)
      BY <1>2 DEF Undisturbed
    <3> QED BY <1>2, <2>2, <3>1, <3>2
  <2> QED BY <2>1, <2>2
<1> QED BY <1>5, <1>6 DEF AloneInv

\* An opened file is on disk, empty, and hides what was there under its name.
LEMMA OpenedOnDisk ==
  ASSUME NEW m, NEW file, OnDisk(dir, m, None), file # None, dir' = Put(file[1], Torn)
  PROVE  OnDisk(dir', m, file)
<1>1. file[1] \in DOMAIN dir' /\ dir'[file[1]] = Torn
  BY DEF Put
<1>2. \A n \in DOMAIN dir : n # file[1] => n \in DOMAIN dir' /\ dir'[n] = dir[n]
  BY DEF Put
<1> QED BY <1>1, <1>2 DEF OnDisk

\* A filled one is what the process wrote last under its name.
LEMMA FilledOnDisk ==
  ASSUME NEW m, m \in Seq(File), NEW file \in File, file = <<file[1], file[2]>>,
         file # None, OnDisk(dir, m, file), dir' = Put(file[1], file[2])
  PROVE  OnDisk(dir', Append(m, file), None)
<1> DEFINE w == Append(m, file)
<1>1. /\ Len(m) \in Nat /\ DOMAIN w = 1..(Len(m) + 1) /\ DOMAIN m = 1..Len(m)
      /\ w[Len(m) + 1] = file /\ \A k \in DOMAIN m : w[k] = m[k]
  BY Appended
<1>2. file[1] \in DOMAIN dir' /\ dir'[file[1]] = file[2]
  BY DEF Put
<1>3. \A n \in DOMAIN dir : n # file[1] => n \in DOMAIN dir' /\ dir'[n] = dir[n]
  BY DEF Put
<1>4. ASSUME NEW k \in DOMAIN w
      PROVE  \/ \E j \in DOMAIN w : j > k /\ w[j][1] = w[k][1]
             \/ w[k][1] \in DOMAIN dir' /\ dir'[w[k][1]] = w[k][2]
  <2>1. CASE k = Len(m) + 1
    BY <1>1, <1>2, <2>1
  <2>2. CASE k \in DOMAIN m /\ m[k][1] = file[1]
    <3>1. Len(m) + 1 \in DOMAIN w /\ Len(m) + 1 > k
      BY <1>1, <2>2
    <3> QED BY <1>1, <2>2, <3>1
  <2>3. CASE k \in DOMAIN m /\ m[k][1] # file[1]
    <3>1. \/ \E j \in DOMAIN m : j > k /\ m[j][1] = m[k][1]
          \/ m[k][1] \in DOMAIN dir /\ dir[m[k][1]] = m[k][2]
      BY <2>3 DEF OnDisk
    <3>2. \A j \in DOMAIN m : j \in DOMAIN w
      BY <1>1
    <3> QED BY <1>1, <1>3, <2>3, <3>1, <3>2
  <2>4. k = Len(m) + 1 \/ k \in DOMAIN m
    BY <1>1
  <2> QED BY <2>1, <2>2, <2>3, <2>4
<1> HIDE DEF w
<1>5. OnDisk(dir', w, None)
  BY <1>4 DEF OnDisk
<1> QED BY <1>5 DEF w

\* Alone and undisturbed, the file comes out whole.
LEMMA FilledWhole ==
  ASSUME AloneInv, NEW p \in Procs, Undisturbed(p), FillFile(p)
  PROVE  dir' = Put(run[p].open[1], run[p].open[2])
BY DEF AloneInv, OnDisk, FillFile

LEMMA AlonePublisher ==
  ASSUME IInv, AloneInv, NEW p \in Procs,
         (\E i \in Inputs : Start(p, i)) \/ OpenFile(p) \/ FillFile(p) \/ RefusePack(p) \/ Die(p)
  PROVE  AloneInv'
<1> DEFINE r == run[p]
<1>0. RunType /\ r \in Runs /\ NotRunning \in Runs /\ IsRun(r, finished)
  BY DEF IInv, RunType, RunInv, Runs, NotRunning
<1>1. ASSUME NEW i \in Inputs, Start(p, i) PROVE AloneInv'
  <2>0. UNCHANGED <<tampers, byHand, dir>>
    BY <1>1 DEF Start
  <2>1. ASSUME NEW q \in Procs, q # p PROVE ~run'[q].alone
    <3>1. run[q] \in Runs
      BY <1>0 DEF RunType
    <3> QED BY <1>1, <2>1, <3>1 DEF Start, Runs
  <2>2. run'[p].members = << >> /\ run'[p].open = None
    BY <1>1 DEF Start, NotRunning
  <2>3. run'[p].alone => \A q \in Procs \ {p} : run[q] = NotRunning
    BY <1>1 DEF Start, NotRunning
  <2>4. \A q \in Procs \ {p} : run[q] = NotRunning => run'[q] = NotRunning
    <3> SUFFICES ASSUME NEW q \in Procs, q # p, run[q] = NotRunning PROVE run'[q] = NotRunning
      OBVIOUS
    <3>1. run'[q] = [NotRunning EXCEPT !.alone = FALSE]
      BY <1>1 DEF Start
    <3> QED BY <3>1 DEF NotRunning
  <2>5. OnDisk(dir', << >>, None)
    BY DEF OnDisk
  <2>6. OnDisk(dir', run'[p].members, run'[p].open)
    BY <2>2, <2>5
  <2> QED BY <2>0, <2>1, <2>3, <2>4, <2>6 DEF AloneInv, Undisturbed
<1>2. CASE RefusePack(p) \/ Die(p)
  BY <1>0, <1>2, OnlyMover DEF RefusePack, Die, NotRunning
<1>3. CASE OpenFile(p)
  <2>1. PICK file \in Pending(p) :
          dir' = Put(file[1], Torn) /\ run' = [run EXCEPT ![p].open = file]
    BY <1>3 DEF OpenFile
  <2>2. r.input # None /\ r.open = None /\ r.input \in Inputs /\ UNCHANGED <<tampers, byHand>>
    BY <1>0, <1>3 DEF OpenFile, Runs
  <2>3. IsNext(file, r.members, r.input)
    BY <1>0, <2>2, NextFile DEF IInv
  <2>4. file \in File \cup {IndexOf(j) : j \in Inputs}
    BY <2>2, <2>3 DEF File, IsNext
  <2>5. [r EXCEPT !.open = file] \in Runs
    BY <1>0, <2>4 DEF Runs
  <2>6. run' = [run EXCEPT ![p] = [r EXCEPT !.open = file]]
    BY <1>0, <2>1 DEF RunType
  <2>7. Undisturbed(p) => OnDisk(dir', r.members, file)
    <3>1. Undisturbed(p) => OnDisk(dir, r.members, None)
      BY <2>2 DEF AloneInv
    <3>2. file # None
      BY <2>2, <2>3, NoFileAssumption DEF IsNext, IndexOf
    <3> QED BY <2>1, <3>1, <3>2, OpenedOnDisk
  <2>8. /\ [r EXCEPT !.open = file].alone = r.alone
        /\ [r EXCEPT !.open = file].members = r.members
        /\ [r EXCEPT !.open = file].open = file
    BY <1>0 DEF Runs
  <2>9. Undisturbed(p) => OnDisk(dir', [r EXCEPT !.open = file].members, [r EXCEPT !.open = file].open)
    BY <2>7, <2>8
  <2> QED BY <1>0, <2>2, <2>5, <2>6, <2>8, <2>9, OnlyMover
<1>4. CASE FillFile(p)
  <2> DEFINE name == r.open[1]
             content == r.open[2]
             s == [r EXCEPT !.members = Append(r.members, <<name, content>>), !.open = None]
  <2>1. r.open # None /\ UNCHANGED <<tampers, byHand>>
    BY <1>4 DEF FillFile
  <2>2. r.input \in Inputs /\ r.input # None /\ IsNext(r.open, r.members, r.input)
    BY <1>0, <2>1 DEF IsRun, Runs
  <2>3. CASE name = "pack.json"
    <3>1. run' = [run EXCEPT ![p] = NotRunning] /\ ~NotRunning.alone
      BY <1>4, <2>3 DEF FillFile, NotRunning
    <3> QED BY <1>0, <2>1, <2>2, <3>1, OnlyMover
  <2>4. CASE name # "pack.json"
    <3>1. run' = [run EXCEPT ![p] = s]
      BY <1>4, <2>4 DEF FillFile
    <3>2. r.open \in Output(r.input) /\ r.open = <<name, content>>
      BY <2>2, <2>4, OutputFiles DEF IsNext, IndexOf
    <3>3. r.members \in Seq(File) /\ r.open \in File
      BY <1>0, <2>2, <3>2 DEF Runs, File
    <3>4. Append(r.members, <<name, content>>) \in Seq(File)
      BY <3>2, <3>3, Appended
    <3>5. s \in Runs
      BY <1>0, <3>4 DEF Runs
    <3>6. s.alone = r.alone /\ s.members = Append(r.members, r.open) /\ s.open = None
      BY <1>0, <3>2 DEF Runs
    <3>7. Undisturbed(p) => OnDisk(dir', Append(r.members, r.open), None)
      <4>1. Undisturbed(p) => OnDisk(dir, r.members, r.open) /\ dir' = Put(name, content)
        BY <1>4, FilledWhole DEF AloneInv
      <4> QED BY <2>1, <3>2, <3>3, <4>1, FilledOnDisk
    <3>8. Undisturbed(p) => OnDisk(dir', s.members, s.open)
      BY <3>6, <3>7
    <3> QED BY <1>0, <2>1, <2>2, <3>1, <3>5, <3>6, <3>8, OnlyMover
  <2> QED BY <2>3, <2>4
<1> QED BY <1>1, <1>2, <1>3, <1>4

LEMMA AloneOthers ==
  ASSUME AloneInv,
         \/ \E n \in DOMAIN dir : Drop(n)
         \/ \E n, c : Swap(n, c)
         \/ \E key, signedBy : Reindex(key, signedBy)
         \/ \E b, names : PackByHand(b, names)
  PROVE  AloneInv'
<1>1. run' = run
  BY DEF Drop, Swap, Reindex, PackByHand, publisher
<1>2. (tampers' = tampers + 1) \/ (tampers' = tampers /\ byHand' # {})
  BY DEF Drop, Swap, Reindex, PackByHand
<1>3. tampers' \in Nat /\ \A p \in Procs : ~Undisturbed(p)'
  BY <1>2 DEF AloneInv, Undisturbed
<1> QED BY <1>1, <1>3 DEF AloneInv

LEMMA AloneKept ==
  ASSUME AloneInv, UNCHANGED <<dir, run, tampers, byHand>>
  PROVE  AloneInv'
BY DEF AloneInv, Undisturbed, OnDisk

\* A run that is filling its index, undisturbed, has everything on disk by then.
LEMMA IndexIsLast ==
  ASSUME IInv, AloneInv, NEW p \in Procs, Undisturbed(p), FillFile(p),
         run[p].open[1] = "pack.json"
  PROVE  LET i == run[p].input
         IN  Output(i) \cup {<<"pack.json", PackDoc(Book[i], Output(i))>>} \subseteq Graph(dir')
<1> DEFINE r == run[p]
           i == r.input
<1>1. r \in Runs /\ IsRun(r, finished) /\ r.open # None
  BY DEF IInv, RunType, RunInv, FillFile
<1>2. i \in Inputs /\ IsNext(r.open, r.members, i)
  BY <1>1 DEF IsRun, Runs
<1>3. r.open = IndexOf(i) /\ Output(i) = {r.members[k] : k \in DOMAIN r.members}
      /\ \A j, k \in DOMAIN r.members : r.members[j][1] = r.members[k][1] => j = k
  BY <1>2 DEF IsNext
<1>4. dir' = Put("pack.json", PackDoc(Book[i], Output(i)))
  BY <1>3, FilledWhole DEF IndexOf
<1>5. ASSUME NEW e \in Output(i) PROVE e \in Graph(dir')
  <2>1. PICK k \in DOMAIN r.members : e = r.members[k]
    BY <1>3
  <2>2. e = <<e[1], e[2]>> /\ e[1] # "pack.json"
    BY <1>2, OutputFiles
  <2>3. r.open[1] # e[1]
    BY <2>2
  <2>4. k \in Int
    BY <1>1 DEF Runs
  <2>5. ~ \E j \in DOMAIN r.members : j > k /\ r.members[j][1] = r.members[k][1]
    BY <1>3, <2>4
  <2>6. e[1] \in DOMAIN dir /\ dir[e[1]] = e[2]
    BY <2>1, <2>3, <2>5 DEF AloneInv, OnDisk
  <2>7. e[1] \in DOMAIN dir' /\ dir'[e[1]] = e[2]
    BY <1>4, <2>2, <2>6 DEF Put
  <2> QED BY <2>2, <2>7 DEF Graph
<1>6. <<"pack.json", PackDoc(Book[i], Output(i))>> \in Graph(dir')
  BY <1>4 DEF Graph, Put
<1> QED BY <1>5, <1>6

\* No step but the last of a run leaves the process idle and the directory changed.
LEMMA EndsWithIndex ==
  ASSUME IInv, Next, NEW p \in Procs, run[p].open # None, run'[p] = NotRunning, dir' # dir
  PROVE  FillFile(p) /\ run[p].open[1] = "pack.json"
<1>0. RunType /\ run[p] \in Runs /\ run[p] # NotRunning
  BY DEF IInv, RunType, NotRunning
<1>1. PICK q \in Procs : OpenFile(q) \/ FillFile(q)
  BY <1>0 DEF Next, Start, RefusePack, Die, Drop, Swap, Reindex, PackByHand, publisher,
         ReadIndex, StartVerify, AuditStep, Exit, Answer, MemberVanished, IndexFails,
         IndexHolds, LoadReport, Conclude, ReadMember, SweepProof, SkipSibling, SweepFails
<1>2. q = p
  BY <1>0, <1>1 DEF RunType, OpenFile, FillFile
<1>3. FillFile(p)
  BY <1>1, <1>2 DEF OpenFile
<1>4. CASE run[p].open[1] # "pack.json"
  <2>1. run'[p].input = run[p].input
    BY <1>0, <1>3, <1>4 DEF FillFile, RunType, Runs
  <2>2. run[p].input # None
    BY DEF IInv, RunInv, IsRun
  <2> QED BY <2>1, <2>2 DEF NotRunning
<1> QED BY <1>3, <1>4

LEMMA AloneInvKept == IInv /\ AloneInv /\ [Next]_vars => AloneInv'
<1> SUFFICES ASSUME IInv, AloneInv, [Next]_vars PROVE AloneInv'
  OBVIOUS
<1>1. CASE UNCHANGED vars
  BY <1>1, AloneKept DEF vars
<1>2. CASE ReadIndex \/ StartVerify \/ AuditStep \/ Exit
  <2>1. UNCHANGED <<dir, run, tampers, byHand>>
    BY <1>2 DEF publisher, ReadIndex, StartVerify, AuditStep, Exit, Answer, MemberVanished,
           IndexFails, IndexHolds, LoadReport, Conclude, ReadMember, SweepProof, SkipSibling,
           SweepFails
  <2> QED BY <2>1, AloneKept
<1> QED BY <1>1, <1>2, AlonePublisher, AloneOthers DEF Next

\* A run that nobody interferes with and that gets to fill in its index leaves
\* its whole output on disk, whatever dead runs left behind: a retry repairs a
\* directory (publish.rs:207-252).
THEOREM RetryDelivers == Spec => CompletedRunDelivers
<1>1. Init => AloneInv
  BY DEF Init, AloneInv, NotRunning, Undisturbed
<1>2. IInv /\ AloneInv /\ [Next]_vars =>
        [\A p \in Procs :
           Undisturbed(p) /\ run[p].open # None /\ run'[p] = NotRunning /\ dir' # dir =>
             LET i == run[p].input IN
             Output(i) \cup {<<"pack.json", PackDoc(Book[i], Output(i))>>} \subseteq Graph(dir')
        ]_vars
  <2> SUFFICES ASSUME IInv, AloneInv, Next, NEW p \in Procs,
                      Undisturbed(p), run[p].open # None, run'[p] = NotRunning, dir' # dir
               PROVE  LET i == run[p].input IN
                      Output(i) \cup {<<"pack.json", PackDoc(Book[i], Output(i))>>} \subseteq Graph(dir')
    OBVIOUS
  <2>1. FillFile(p) /\ run[p].open[1] = "pack.json"
    BY EndsWithIndex
  <2> QED BY <2>1, IndexIsLast
<1> QED BY <1>1, <1>2, Initially, IInvKept, AloneInvKept, PTL DEF Spec, CompletedRunDelivers


-----------------------------------------------------------------------------
(***************************************************************************)
(* What everything in the directory, and everything read from it, is.      *)
(***************************************************************************)
FileNames == Names \ {"pack.json"}
Contents  == AnyDocument \cup {Torn, Other}

IsFileOf(n, c) ==
  IF n = "pack.json" THEN c = Torn \/ c \in Index ELSE n \in Names /\ c \in Contents

DirType == \A n \in DOMAIN dir : IsFileOf(n, dir[n])

CountType ==
  /\ runs \in 0..MaxEvents /\ tampers \in 0..MaxEvents
  /\ IsFiniteSet(byHand) /\ byHand \subseteq SUBSET Members
  /\ \A p \in Procs : run[p].input = None => run[p].members = << >>

AuditType ==
  /\ phase \in {"idle", "reading", "loading", "sweeping"} \cup Answers
  /\ index \in Index \cup {None}
  /\ listed \subseteq Names
  /\ \A n \in DOMAIN got : n \in FileNames /\ got[n] \in Contents
  /\ report \in AnyDocument \cup {None}
  /\ todo \subseteq Names
  /\ outcomes \subseteq Names \X AnyDocument \X BOOLEAN
  /\ still \in BOOLEAN

TypeInv == DirType /\ CountType /\ AuditType

LEMMA NamesDiffer ==
  /\ "report.json" \in FileNames /\ "anchor.json" \in FileNames /\ Spare \in FileNames
  /\ "pack.json" \in Names /\ \A u \in Users : ProofName[u] \in FileNames
BY ConstantsAssumption DEF FileNames, Names

\* A document says what it is, and whether it is as it was published.
LEMMA DocumentsSay ==
  ASSUME NEW d \in AnyDocument
  PROVE  d.kind \in {"report", "anchor", "proof"} /\ d.intact \in BOOLEAN
<1>1. ASSUME NEW e \in Documents
      PROVE  \E kind, of, who :
               kind \in {"report", "anchor", "proof"} /\ e = [kind |-> kind, of |-> of, who |-> who, intact |-> TRUE]
  BY DEF Documents, ReportDoc, AnchorDoc, ProofDoc, Doc
<1>2. CASE d \in Documents
  <2>1. PICK kind, of, who :
          kind \in {"report", "anchor", "proof"} /\ d = [kind |-> kind, of |-> of, who |-> who, intact |-> TRUE]
    BY <1>1, <1>2
  <2> QED BY <2>1
<1>3. ASSUME NEW e \in Documents, d = [e EXCEPT !.intact = FALSE]
      PROVE  d.kind \in {"report", "anchor", "proof"} /\ d.intact \in BOOLEAN
  <2>1. PICK kind, of, who :
          kind \in {"report", "anchor", "proof"} /\ e = [kind |-> kind, of |-> of, who |-> who, intact |-> TRUE]
    BY <1>1
  <2> QED BY <1>3, <2>1
<1> QED BY <1>2, <1>3 DEF AnyDocument

LEMMA KindsDiffer ==
  /\ Torn.kind = "torn" /\ Other.kind = "other"
  /\ \A c \in Index : c.kind = "pack"
BY DEF Torn, Other, Index

\* What a run writes is files of this kind.
LEMMA OutputTyped ==
  ASSUME NEW i \in Inputs
  PROVE  Output(i) \subseteq Members /\ PackDoc(Book[i], Output(i)) \in Index
<1>1. Book[i] \in Books /\ Customers[Book[i]] \subseteq Users
  BY ConstantsAssumption
<1>2. Documents \subseteq AnyDocument
  BY DEF AnyDocument
<1>3. ReportDoc(Book[i]) \in Documents /\ AnchorDoc(i) \in Documents
      /\ \A u \in Customers[Book[i]] : ProofDoc(Book[i], u) \in Documents
  BY <1>1 DEF Documents
<1>4. ASSUME NEW e \in Output(i) PROVE e \in FileNames \X Contents
  BY <1>1, <1>2, <1>3, NamesDiffer DEF Output, Proofs, Contents
<1>5. Output(i) \subseteq Members
  BY <1>4 DEF Members, FileNames, Contents
<1> QED BY <1>1, <1>5 DEF PackDoc, Index

LEMMA PutTyped ==
  ASSUME NEW n, NEW c, DirType, IsFileOf(n, c), dir' = Put(n, c)
  PROVE  DirType'
BY DEF DirType, Put

LEMMA MembersOfDir ==
  ASSUME DirType, NEW names, names \subseteq DOMAIN dir, "pack.json" \notin names
  PROVE  {<<n, dir[n]>> : n \in names} \subseteq Members
<1>1. \A n \in names : n \in FileNames /\ dir[n] \in Contents
  BY DEF DirType, IsFileOf, FileNames
<1> QED BY <1>1 DEF Members, FileNames, Contents

\* What a process has open is a file, or an index.
LEMMA OpenTyped ==
  ASSUME NEW file \in File \cup {IndexOf(i) : i \in Inputs}
  PROVE  IsFileOf(file[1], file[2]) /\ IsFileOf(file[1], Torn) /\ file[1] \in Names
<1>1. CASE file \in File
  <2>1. file \in Members
    BY <1>1, OutputTyped DEF File
  <2> QED BY <2>1 DEF Members, IsFileOf, Contents
<1>2. ASSUME NEW i \in Inputs, file = IndexOf(i) PROVE file[1] = "pack.json" /\ file[2] \in Index
  BY <1>2, OutputTyped DEF IndexOf
<1>3. CASE file \in {IndexOf(i) : i \in Inputs}
  BY <1>2, <1>3, NamesDiffer DEF IsFileOf
<1> QED BY <1>1, <1>3

\* No count of events passes its bound.
LEMMA CountsStay ==
  ASSUME CountType
  PROVE  /\ Events \in Nat /\ Others \in Nat
         /\ Events < MaxEvents => runs + 1 \in 0..MaxEvents /\ tampers + 1 \in 0..MaxEvents
<1>1. Cardinality(byHand) \in Nat
  BY FS_CardinalityType DEF CountType
<1> QED BY <1>1, ConstantsAssumption DEF CountType, Events, Others

LEMMA TypedPublisher ==
  ASSUME IInv, TypeInv, NEW p \in Procs,
         (\E i \in Inputs : Start(p, i)) \/ OpenFile(p) \/ FillFile(p) \/ RefusePack(p) \/ Die(p)
  PROVE  TypeInv'
<1>0. run \in [Procs -> Runs] /\ run[p] \in Runs /\ still \in BOOLEAN
  BY DEF IInv, RunType, TypeInv, AuditType
<1>1. UNCHANGED <<tampers, byHand, audit>> /\ still' \in BOOLEAN
  BY <1>0 DEF Start, OpenFile, FillFile, RefusePack, Die
<1>2. AuditType'
  BY <1>1 DEF TypeInv, AuditType, audit
<1>3. runs' \in 0..MaxEvents
  BY CountsStay DEF TypeInv, CountType, Start, OpenFile, FillFile, RefusePack, Die
<1>4. ASSUME NEW q \in Procs, run'[q].input = None PROVE run'[q].members = << >>
  <2>1. run[q] \in Runs /\ (run[q].input = None => run[q].members = << >>)
    BY <1>0 DEF TypeInv, CountType
  <2>2. CASE \E i \in Inputs : Start(p, i)
    <3>1. PICK i \in Inputs : Start(p, i)
      BY <2>2
    <3>2. CASE q = p
      <4>1. run'[q].input = i
        BY <3>1, <3>2 DEF Start, NotRunning
      <4> QED BY <1>4, <4>1, ConstantsAssumption
    <3>3. CASE q # p
      <4>1. run'[q] = [run[q] EXCEPT !.alone = FALSE]
        BY <3>1, <3>3 DEF Start
      <4>2. run'[q].input = run[q].input /\ run'[q].members = run[q].members
        BY <2>1, <4>1 DEF Runs
      <4> QED BY <1>4, <2>1, <4>2
    <3> QED BY <3>2, <3>3
  <2>3. CASE OpenFile(p)
    BY <1>0, <1>4, <2>1, <2>3 DEF OpenFile, Runs
  <2>4. CASE FillFile(p)
    <3>1. run[p].input # None
      BY <2>4 DEF FillFile, IInv, RunInv, IsRun
    <3> QED BY <1>0, <1>4, <2>1, <2>4, <3>1 DEF FillFile, Runs, NotRunning
  <2>5. CASE RefusePack(p) \/ Die(p)
    BY <1>0, <1>4, <2>1, <2>5 DEF RefusePack, Die, NotRunning
  <2> QED BY <2>2, <2>3, <2>4, <2>5
<1>5. CountType'
  BY <1>1, <1>3, <1>4 DEF TypeInv, CountType
<1>6. DirType'
  <2>0. DirType
    BY DEF TypeInv
  <2>1. CASE OpenFile(p)
    <3>1. PICK file \in Pending(p) : dir' = Put(file[1], Torn)
      BY <2>1 DEF OpenFile
    <3>2. run[p].input # None /\ run[p].open = None /\ run[p].input \in Inputs
      BY <1>0, <2>1 DEF OpenFile, Runs
    <3>3. IsNext(file, run[p].members, run[p].input)
      BY <3>2, NextFile DEF IInv
    <3>4. file \in File \cup {IndexOf(j) : j \in Inputs}
      BY <3>2, <3>3 DEF File, IsNext
    <3> QED BY <2>0, <3>1, <3>4, OpenTyped, PutTyped
  <2>2. CASE FillFile(p)
    <3>1. run[p].open \in File \cup {IndexOf(j) : j \in Inputs}
      BY <1>0, <2>2 DEF FillFile, Runs
    <3>2. dir' = dir \/ dir' = Put(run[p].open[1], run[p].open[2]) \/ dir' = Put(run[p].open[1], Torn)
      BY <2>2 DEF FillFile
    <3>3. CASE dir' = dir
      BY <2>0, <3>3 DEF DirType
    <3> QED BY <2>0, <3>1, <3>2, <3>3, OpenTyped, PutTyped
  <2>3. CASE (\E i \in Inputs : Start(p, i)) \/ RefusePack(p) \/ Die(p)
    BY <2>0, <2>3 DEF DirType, Start, RefusePack, Die
  <2> QED BY <2>1, <2>2, <2>3
<1> QED BY <1>2, <1>5, <1>6 DEF TypeInv

\* A step of somebody else's.
LEMMA TypedMeddling ==
  ASSUME TypeInv, MayMeddle, DirType', UNCHANGED <<runs, run, audit>>, still' = FALSE,
         \/ tampers' = tampers + 1 /\ byHand' = byHand
         \/ tampers' = tampers /\ \E m \in SUBSET Members : byHand' = byHand \cup {m}
  PROVE  TypeInv'
<1>1. AuditType'
  BY DEF TypeInv, AuditType, audit
<1>2. tampers' \in 0..MaxEvents
  BY CountsStay DEF TypeInv, CountType, MayMeddle
<1>3. IsFiniteSet(byHand') /\ byHand' \subseteq SUBSET Members
  BY FS_AddElement DEF TypeInv, CountType
<1>4. CountType'
  BY <1>2, <1>3 DEF TypeInv, CountType
<1> QED BY <1>1, <1>4 DEF TypeInv

LEMMA TypedOthers ==
  ASSUME TypeInv,
         \/ \E n \in DOMAIN dir : Drop(n)
         \/ \E n \in (DOMAIN dir \ {"pack.json"}) \cup {Spare} :
              \/ \E d \in Documents \cup {Torn, Other} : Swap(n, d)
              \/ n \in DOMAIN dir /\ dir[n] \in Documents /\ Swap(n, [dir[n] EXCEPT !.intact = FALSE])
         \/ Reindex("publisher", None) \/ Reindex("other", "other")
         \/ \E b \in Books, names \in SUBSET (DOMAIN dir \ {"pack.json"}) : PackByHand(b, names)
  PROVE  TypeInv'
<1>0. DirType
  BY DEF TypeInv
<1>1. ASSUME NEW n \in DOMAIN dir, Drop(n) PROVE TypeInv'
  <2>1. DirType'
    BY <1>0, <1>1 DEF DirType, Drop
  <2> QED BY <1>1, <2>1, TypedMeddling DEF Drop, publisher
<1>2. ASSUME NEW n \in (DOMAIN dir \ {"pack.json"}) \cup {Spare}, NEW c \in Contents, Swap(n, c)
      PROVE  TypeInv'
  <2>1. n \in FileNames
    BY <1>0, NamesDiffer DEF DirType, IsFileOf, FileNames
  <2>2. DirType'
    BY <1>0, <1>2, <2>1, PutTyped DEF IsFileOf, FileNames, Swap
  <2> QED BY <1>2, <2>2, TypedMeddling DEF Swap, publisher
<1>3. Documents \cup {Torn, Other} \subseteq Contents
      /\ \A d \in Documents : [d EXCEPT !.intact = FALSE] \in Contents
  BY DEF Contents, AnyDocument
<1>4. ASSUME NEW key \in {"publisher", "other"}, NEW by \in {None, "other"}, Reindex(key, by)
      PROVE  TypeInv'
  <2> DEFINE members == {e \in Graph(dir) : e[1] # "pack.json"}
             pack == PackDoc(CHOOSE b \in Books : TRUE, members)
  <2>1. members = {<<n, dir[n]>> : n \in DOMAIN dir \ {"pack.json"}}
    BY DEF Graph
  <2>2. members \subseteq Members
    BY <1>0, <2>1, MembersOfDir
  <2>3. (CHOOSE b \in Books : TRUE) \in Books
    BY ConstantsAssumption
  <2>4. [pack EXCEPT !.key = key, !.signedBy = by] \in Index
    BY <2>2, <2>3 DEF PackDoc, Index
  <2>5. dir' = Put("pack.json", [pack EXCEPT !.key = key, !.signedBy = by])
    BY <1>4 DEF Reindex
  <2>6. DirType'
    BY <1>0, <2>4, <2>5, PutTyped DEF IsFileOf
  <2> QED BY <1>4, <2>6, TypedMeddling DEF Reindex, publisher
<1>5. ASSUME NEW b \in Books, NEW names \in SUBSET (DOMAIN dir \ {"pack.json"}), PackByHand(b, names)
      PROVE  TypeInv'
  <2> DEFINE members == {<<n, dir[n]>> : n \in names}
  <2>1. members \in SUBSET Members
    BY <1>0, MembersOfDir
  <2>2. PackDoc(b, members) \in Index
    BY <2>1 DEF PackDoc, Index
  <2>3. dir' = Put("pack.json", PackDoc(b, members)) /\ byHand' = byHand \cup {members}
    BY <1>5 DEF PackByHand
  <2>4. DirType'
    BY <1>0, <2>2, <2>3, PutTyped DEF IsFileOf
  <2>5. MayMeddle /\ UNCHANGED <<runs, run, audit, tampers>> /\ still' = FALSE
    BY <1>5 DEF PackByHand
  <2> QED BY <2>1, <2>3, <2>4, <2>5, TypedMeddling
<1> QED BY <1>1, <1>2, <1>3, <1>4, <1>5

\* A step of the auditor's.
LEMMA TypedAuditor ==
  ASSUME TypeInv, ReadIndex \/ StartVerify \/ AuditStep \/ Exit
  PROVE  TypeInv'
<1>0. DirType /\ AuditType /\ CountType
  BY DEF TypeInv
<1>1. UNCHANGED <<dir, runs, run, byHand, tampers>>
  BY DEF publisher, ReadIndex, StartVerify, AuditStep, Exit, Answer, MemberVanished,
         IndexFails, IndexHolds, LoadReport, Conclude, ReadMember, SweepProof, SkipSibling,
         SweepFails
<1>2. DirType' /\ CountType'
  BY <1>0, <1>1 DEF DirType, CountType
<1>3. DOMAIN dir \subseteq Names
  BY <1>0, NamesDiffer DEF DirType, IsFileOf
\* An answer is one of those there are, and changes nothing else.
<1>4. ASSUME NEW a \in Answers \cup {"loading"}, Answer(a) PROVE AuditType'
  BY <1>0, <1>4 DEF Answer, AuditType
<1>5. ASSUME ReadIndex PROVE AuditType'
  <2>1. "pack.json" \in DOMAIN dir /\ dir["pack.json"].kind = "pack" => dir["pack.json"] \in Index
    BY <1>0, KindsDiffer DEF DirType, IsFileOf
  <2> QED BY <1>0, <1>3, <1>5, <2>1 DEF ReadIndex, AuditType, Answers
<1>6. ASSUME StartVerify PROVE AuditType'
  BY <1>0, <1>6 DEF StartVerify, AuditType
<1>7. ASSUME Exit PROVE AuditType'
  BY <1>0, <1>7 DEF Exit, AuditType
<1>8. ASSUME MemberVanished \/ IndexHolds \/ Conclude \/ \E n \in todo : SweepFails(n) PROVE AuditType'
  BY <1>4, <1>8 DEF MemberVanished, IndexHolds, Conclude, SweepFails, Answers
<1>9. ASSUME IndexFails PROVE AuditType'
  BY <1>4, <1>9 DEF IndexFails, IndexFailures, Answers
<1>10. ASSUME LoadReport PROVE AuditType'
  <2>1. "report.json" \in DOMAIN dir /\ dir["report.json"].kind = "report"
          => dir["report.json"] \in AnyDocument
    BY <1>0, KindsDiffer DEF DirType, IsFileOf, Contents
  <2> QED BY <1>0, <1>3, <1>10, <2>1 DEF LoadReport, AuditType, Answers
<1>11. ASSUME NEW n \in DOMAIN dir, ReadMember(n) PROVE AuditType'
  <2>1. n \in FileNames /\ dir[n] \in Contents
    BY <1>0, <1>11 DEF DirType, IsFileOf, FileNames, ReadMember
  <2>2. \A m \in DOMAIN got' : m \in FileNames /\ got'[m] \in Contents
    BY <1>0, <1>11, <2>1 DEF ReadMember, AuditType
  <2> QED BY <1>0, <1>11, <2>2 DEF ReadMember, AuditType
<1>12. ASSUME NEW n \in todo, SweepProof(n) PROVE AuditType'
  <2>1. n \in Names /\ n \in DOMAIN dir /\ dir[n].kind = "proof"
    BY <1>0, <1>12 DEF SweepProof, AuditType
  <2>2. dir[n] \in AnyDocument
    BY <1>0, <2>1, KindsDiffer DEF DirType, IsFileOf, Contents
  <2>3. Verifies(dir[n]) \in BOOLEAN
    BY DEF Verifies
  <2>4. outcomes' \subseteq Names \X AnyDocument \X BOOLEAN
    BY <1>0, <1>12, <2>1, <2>2, <2>3 DEF SweepProof, AuditType
  <2> QED BY <1>0, <1>12, <2>4 DEF SweepProof, AuditType
<1>13. ASSUME NEW n \in todo, SkipSibling(n) PROVE AuditType'
  BY <1>0, <1>13 DEF SkipSibling, AuditType
<1>14. AuditType'
  BY <1>5, <1>6, <1>7, <1>8, <1>9, <1>10, <1>11, <1>12, <1>13 DEF AuditStep
<1> QED BY <1>2, <1>14 DEF TypeInv

LEMMA TypedStep == IInv /\ TypeInv /\ [Next]_vars => TypeInv'
<1> SUFFICES ASSUME IInv, TypeInv, [Next]_vars PROVE TypeInv'
  OBVIOUS
<1>1. CASE UNCHANGED vars
  BY <1>1 DEF TypeInv, DirType, CountType, AuditType, vars
<1> QED BY <1>1, TypedPublisher, TypedOthers, TypedAuditor DEF Next

LEMMA TypedInitially == Init => TypeInv
<1> SUFFICES ASSUME Init PROVE TypeInv
  OBVIOUS
<1>1. DOMAIN dir = {} /\ DOMAIN got = {}
  BY DEF Init
<1>2. CountType
  BY FS_EmptySet, ConstantsAssumption DEF Init, CountType, NotRunning
<1> QED BY <1>1, <1>2 DEF Init, TypeInv, DirType, AuditType

LEMMA TypedImplies == IInv /\ TypeInv => TypeOK
<1> SUFFICES ASSUME IInv, TypeInv PROVE TypeOK
  OBVIOUS
<1>1. DOMAIN dir \subseteq Names
      /\ \A e \in Graph(dir) : e \in Members \/ (e[1] = "pack.json" /\ (e[2] = Torn \/ e[2] \in Index))
  BY NamesDiffer DEF TypeInv, DirType, IsFileOf, Graph, Members, Contents
<1>2. ASSUME NEW p \in Procs
      PROVE  /\ run[p].input \in Inputs \cup {None}
             /\ run[p].members = << >> \/ run[p].members \in Seq(Output(run[p].input))
             /\ run[p].open = None \/ run[p].open[1] \in Names
             /\ run[p].alone \in BOOLEAN
  <2>1. run[p] \in Runs
    BY DEF IInv, RunType
  <2>2. run[p].input # None => run[p].members \in Seq(Output(run[p].input))
    BY <2>1 DEF Runs, IInv, RunInv, IsRun
  <2> QED BY <2>1, <2>2, OpenTyped DEF Runs, TypeInv, CountType
<1>3. DOMAIN got \subseteq Names /\ Graph(got) \subseteq Members
  BY DEF TypeInv, AuditType, Graph, Members, FileNames, Contents
<1>4. finished \subseteq Inputs
  BY DEF IInv
<1> QED BY <1>1, <1>2, <1>3, <1>4 DEF TypeOK, TypeInv, CountType, AuditType

\* Every file is what its name says, and every reader's and writer's state is of
\* its kind, to the bounds (publish.rs:146-178, solvency-cli/src/pack.rs:40-92).
THEOREM DirectoryIsTyped == Spec => []TypeOK
BY Initially, IInvKept, TypedInitially, TypedStep, TypedImplies, PTL DEF Spec


-----------------------------------------------------------------------------
(***************************************************************************)
(* A directory that stays as it is while it is read.                       *)
(***************************************************************************)
\* What the auditor holds of the index and of the files is what is there.
ReadInv ==
  still /\ index # None =>
    /\ "pack.json" \in DOMAIN dir /\ index = dir["pack.json"]
    /\ listed = DOMAIN dir \ {"pack.json"}
    /\ DOMAIN got \subseteq listed
    /\ \A n \in DOMAIN got : got[n] = dir[n]

\* What the sweep has answered for a file that is there.
Swept(n) == <<n, dir[n], Verifies(dir[n])>>

SweptFiles == {n \in DOMAIN dir : dir[n].kind = "proof"}

\* The sweep has verified the proofs it has passed and nothing else.
SweepInv ==
  still /\ phase \in {"sweeping", "passed", "failed"} =>
    /\ "report.json" \in DOMAIN dir /\ report = dir["report.json"]
    /\ report.kind = "report"
    /\ todo \subseteq DOMAIN dir
    /\ outcomes \subseteq {Swept(n) : n \in SweptFiles}
    /\ \A n \in SweptFiles \ todo : Swept(n) \in outcomes

\* Where the auditor is.
PhaseInv ==
  /\ phase = "idle" => index = None
  /\ index = None => got = << >>
  /\ phase = "reading" => index # None
  /\ phase \in {"idle", "reading", "loading"} => outcomes = {}
  /\ phase = "passed" => todo = {}
  /\ IndexGood => index.entries = Graph(got) /\ (still => listed \subseteq DOMAIN got)

StillInv == ReadInv /\ SweepInv /\ PhaseInv /\ CompleteDeliveryPasses

\* The index that was read is over named files.
LEMMA IndexIsOfPairs ==
  ASSUME IInv, index # None, index.key = "publisher", index.signedBy = "publisher"
  PROVE  index.kind = "pack" /\ \A e \in index.entries : e = <<e[1], e[2]>>
BY DEF IInv, IndexInv, IsOver, PairsInv

\* What a whole delivery has on disk, and no more.
LEMMA WholeIs ==
  ASSUME NEW i \in Inputs, WholeDelivery(i)
  PROVE  /\ "pack.json" \in DOMAIN dir /\ dir["pack.json"] = PackDoc(Book[i], Output(i))
         /\ "report.json" \in DOMAIN dir /\ dir["report.json"] = ReportDoc(Book[i])
         /\ Output(i) = {<<n, dir[n]>> : n \in DOMAIN dir \ {"pack.json"}}
         /\ \A n \in DOMAIN dir :
              \/ dir[n].kind = "proof" /\ dir[n].of = Book[i] /\ dir[n].intact
              \/ IsSibling(dir[n])
<1> DEFINE pack == <<"pack.json", PackDoc(Book[i], Output(i))>>
<1>1. Graph(dir) = Output(i) \cup {pack}
  BY DEF WholeDelivery
<1>2. "pack.json" \in DOMAIN dir /\ dir["pack.json"] = PackDoc(Book[i], Output(i))
  <2>1. pack \in Graph(dir)
    BY <1>1
  <2> QED BY <2>1 DEF Graph
<1>3. "report.json" \in DOMAIN dir /\ dir["report.json"] = ReportDoc(Book[i])
  <2>1. <<"report.json", ReportDoc(Book[i])>> \in Graph(dir)
    BY <1>1 DEF Output
  <2> QED BY <2>1 DEF Graph
<1>4. ASSUME NEW n \in DOMAIN dir, n # "pack.json" PROVE <<n, dir[n]>> \in Output(i)
  <2>1. <<n, dir[n]>> \in Graph(dir)
    BY DEF Graph
  <2> QED BY <1>1, <1>4, <2>1
<1>5. ASSUME NEW e \in Output(i)
      PROVE  \E n \in DOMAIN dir \ {"pack.json"} : e = <<n, dir[n]>>
  <2>1. e \in Graph(dir) /\ e[1] # "pack.json"
    BY <1>1, OutputFiles
  <2>2. PICK n \in DOMAIN dir : e = <<n, dir[n]>>
    BY <2>1 DEF Graph
  <2> QED BY <2>1, <2>2
<1>6. Output(i) = {<<n, dir[n]>> : n \in DOMAIN dir \ {"pack.json"}}
  BY <1>4, <1>5
<1>7. ASSUME NEW n \in DOMAIN dir
      PROVE  \/ dir[n].kind = "proof" /\ dir[n].of = Book[i] /\ dir[n].intact
             \/ IsSibling(dir[n])
  <2>1. CASE n = "pack.json"
    BY <1>2, <2>1 DEF IsSibling, PackDoc
  <2>2. CASE n # "pack.json"
    <3>1. <<n, dir[n]>> \in Output(i)
      BY <1>4, <2>2
    <3>2. CASE <<n, dir[n]>> \in Proofs(i)
      BY <3>2 DEF Proofs, ProofDoc, Doc
    <3>3. dir[n] = ReportDoc(Book[i]) \/ dir[n] = AnchorDoc(i) \/ <<n, dir[n]>> \in Proofs(i)
      BY <3>1 DEF Output
    <3>4. IsSibling(ReportDoc(Book[i])) /\ IsSibling(AnchorDoc(i))
      BY DEF IsSibling, ReportDoc, AnchorDoc, Doc
    <3> QED BY <3>2, <3>3, <3>4
  <2> QED BY <2>1, <2>2
<1> QED BY <1>2, <1>3, <1>6, <1>7

\* An index of all the files there are, signed by the publisher, is good.
LEMMA WholeIndexHolds ==
  ASSUME NEW i \in Inputs, WholeDelivery(i), still, index # None, ReadInv, AllRead
  PROVE  IndexFailures(index, got) = {}
<1> DEFINE named == {e[1] : e \in index.entries}
           altered == {e \in index.entries : e[1] \in DOMAIN got /\ got[e[1]] # e[2]}
<1>1. index = PackDoc(Book[i], Output(i)) /\ DOMAIN got = DOMAIN dir \ {"pack.json"}
      /\ \A n \in DOMAIN got : got[n] = dir[n]
  BY WholeIs DEF ReadInv, AllRead
<1>2. index.entries = {<<n, got[n]>> : n \in DOMAIN got}
      /\ index.key = "publisher" /\ index.signedBy = "publisher"
  <2>1. Output(i) = {<<n, dir[n]>> : n \in DOMAIN got}
    BY <1>1, WholeIs
  <2>2. index.entries = Output(i)
    BY <1>1 DEF PackDoc
  <2>3. {<<n, dir[n]>> : n \in DOMAIN got} = {<<n, got[n]>> : n \in DOMAIN got}
    BY <1>1
  <2> QED BY <1>1, <2>1, <2>2, <2>3 DEF PackDoc
<1>3. named = DOMAIN got
  <2>1. ASSUME NEW e \in index.entries PROVE e[1] \in DOMAIN got
    BY <1>2
  <2>2. ASSUME NEW n \in DOMAIN got PROVE n \in named
    <3>1. <<n, got[n]>> \in index.entries
      BY <1>2
    <3> QED BY <3>1
  <2> QED BY <2>1, <2>2
<1>4. altered = {}
  BY <1>2
<1>5. named \ DOMAIN got = {} /\ DOMAIN got \ named = {}
  BY <1>3
<1> HIDE DEF named, altered
<1>6. (named \ DOMAIN got) \cup altered = {}
  BY <1>4, <1>5
<1> QED BY <1>2, <1>5, <1>6 DEF IndexFailures, named, altered

\* While others write, nothing the auditor holds is claimed to be there.
LEMMA MeddledKeeps ==
  ASSUME StillInv, UNCHANGED audit, still' = FALSE \/ (still' = still /\ dir' = dir)
  PROVE  StillInv'
<1>1. PhaseInv'
  BY DEF StillInv, PhaseInv, IndexGood, audit
<1>2. CASE still' = FALSE
  BY <1>1, <1>2 DEF StillInv, ReadInv, SweepInv, CompleteDeliveryPasses
<1>3. CASE still' = still /\ dir' = dir
  <2>1. ReadInv' /\ CompleteDeliveryPasses'
    BY <1>3 DEF StillInv, ReadInv, CompleteDeliveryPasses, WholeDelivery, audit
  <2>2. SweptFiles' = SweptFiles /\ \A n \in DOMAIN dir : Swept(n)' = Swept(n)
    BY <1>3 DEF SweptFiles, Swept, Verifies, audit
  <2>3. {Swept(n) : n \in SweptFiles}' = {Swept(n) : n \in SweptFiles}
    BY <1>3, <2>2 DEF SweptFiles, Swept, Verifies, audit
  <2>4. SweepInv'
    BY <1>3, <2>2, <2>3 DEF StillInv, SweepInv, SweptFiles, audit
  <2> QED BY <1>1, <2>1, <2>4 DEF StillInv
<1> QED BY <1>2, <1>3

\* The directory does not change under a step of the auditor's.
LEMMA AuditorLeaves ==
  ASSUME ReadIndex \/ StartVerify \/ AuditStep \/ Exit
  PROVE  dir' = dir /\ (still' = still \/ (phase = "idle" /\ still' = TRUE))
BY DEF ReadIndex, StartVerify, AuditStep, Exit, Answer, MemberVanished,
       IndexFails, IndexHolds, LoadReport, Conclude, ReadMember, SweepProof, SkipSibling,
       SweepFails

\* An answer that is not a pass is given to no whole delivery.
LEMMA AnswerKeeps ==
  ASSUME StillInv, NEW a \in Answers, Answer(a), phase \in {"reading", "sweeping"},
         a \in {"passed", "failed"} => phase = "sweeping" /\ todo = {},
         still /\ a # "passed" => \A i \in Inputs : ~WholeDelivery(i)
  PROVE  StillInv'
<1>0. /\ phase' = a /\ a \notin {"idle", "reading", "loading", "sweeping"}
      /\ UNCHANGED <<dir, index, listed, got, report, todo, outcomes, still>>
  BY DEF Answer, Answers
<1>1. ReadInv' /\ CompleteDeliveryPasses'
  BY <1>0 DEF StillInv, ReadInv, CompleteDeliveryPasses, WholeDelivery
<1>2. SweptFiles' = SweptFiles /\ \A n \in DOMAIN dir : Swept(n)' = Swept(n)
  BY <1>0 DEF SweptFiles, Swept, Verifies
<1>3. {Swept(n) : n \in SweptFiles}' = {Swept(n) : n \in SweptFiles}
  BY <1>0, <1>2 DEF SweptFiles, Swept, Verifies
<1>4. SweepInv'
  BY <1>0, <1>2, <1>3 DEF StillInv, SweepInv, SweptFiles
<1>5. PhaseInv'
  BY <1>0 DEF StillInv, PhaseInv, IndexGood
<1> QED BY <1>1, <1>4, <1>5 DEF StillInv

LEMMA StillAuditor ==
  ASSUME IInv, TypeInv, StillInv, ReadIndex \/ StartVerify \/ AuditStep \/ Exit
  PROVE  StillInv'
<1>0. dir' = dir /\ ReadInv /\ SweepInv /\ PhaseInv
  BY AuditorLeaves DEF StillInv
<1>1. ASSUME ReadIndex PROVE StillInv'
  <2>1. index = None /\ got = << >> /\ outcomes = {} /\ phase = "idle"
    BY <1>0, <1>1 DEF ReadIndex, PhaseInv
  <2>2. CASE "pack.json" \in DOMAIN dir /\ dir["pack.json"].kind = "pack"
    <3>1. /\ phase' = "reading" /\ index' = dir["pack.json"]
          /\ listed' = DOMAIN dir \ {"pack.json"}
          /\ UNCHANGED <<got, report, todo, outcomes>>
      BY <1>1, <2>2 DEF ReadIndex
    <3>2. ReadInv' /\ CompleteDeliveryPasses'
      BY <1>0, <2>1, <2>2, <3>1 DEF ReadInv, CompleteDeliveryPasses, Answers
    <3>3. index' # None
      <4>1. dir["pack.json"] \in Index
        BY <2>2, KindsDiffer DEF TypeInv, DirType, IsFileOf
      <4> QED BY <3>1, <4>1, NoIndexAssumption
    <3> QED BY <2>1, <3>1, <3>2, <3>3 DEF StillInv, SweepInv, PhaseInv, IndexGood
  <2>3. CASE ~("pack.json" \in DOMAIN dir /\ dir["pack.json"].kind = "pack")
    <3>1. phase' = "error" /\ UNCHANGED <<index, listed, got, report, todo, outcomes>>
      BY <1>1, <2>3 DEF ReadIndex
    <3>2. ASSUME NEW i \in Inputs, WholeDelivery(i) PROVE FALSE
      <4>1. "pack.json" \in DOMAIN dir /\ dir["pack.json"] = PackDoc(Book[i], Output(i))
        BY <3>2, WholeIs
      <4> QED BY <2>3, <4>1 DEF PackDoc
    <3>3. CompleteDeliveryPasses'
      BY <1>0, <3>2 DEF CompleteDeliveryPasses, WholeDelivery
    <3>4. PhaseInv'
      BY <2>1, <3>1 DEF PhaseInv, IndexGood
    <3> QED BY <2>1, <3>1, <3>3, <3>4 DEF StillInv, ReadInv, SweepInv
  <2> QED BY <2>2, <2>3
<1>2. ASSUME StartVerify PROVE StillInv'
  <2>1. index' = None /\ got' = << >> /\ outcomes' = {} /\ phase' = "loading"
    BY <1>0, <1>2 DEF StartVerify, PhaseInv
  <2> QED BY <2>1 DEF StillInv, ReadInv, SweepInv, PhaseInv, IndexGood, CompleteDeliveryPasses, Answers
<1>3. ASSUME Exit PROVE StillInv'
  <2>1. index' = None /\ got' = << >> /\ outcomes' = {} /\ phase' = "idle"
    BY <1>3 DEF Exit
  <2> QED BY <2>1 DEF StillInv, ReadInv, SweepInv, PhaseInv, IndexGood, CompleteDeliveryPasses, Answers
<1>4. ASSUME NEW n \in DOMAIN dir, ReadMember(n) PROVE StillInv'
  <2>0. /\ phase = "reading" /\ index # None /\ n \in DOMAIN dir \ {"pack.json"}
        /\ got' = [m \in DOMAIN got \cup {n} |-> IF m = n THEN dir[n] ELSE got[m]]
        /\ UNCHANGED <<phase, index, listed, report, todo, outcomes, still>>
    BY <1>0, <1>4 DEF ReadMember, PhaseInv
  <2>1. ReadInv'
    BY <1>0, <2>0 DEF ReadInv
  <2> QED BY <1>0, <2>0, <2>1 DEF StillInv, SweepInv, PhaseInv, IndexGood, CompleteDeliveryPasses, Answers
<1>5. ASSUME MemberVanished PROVE StillInv'
  <2>1. phase = "reading" /\ index # None /\ Answer("error")
        /\ ~(listed \subseteq DOMAIN got \cup DOMAIN dir)
    BY <1>0, <1>5 DEF MemberVanished, PhaseInv
  <2>2. ~still
    BY <1>0, <2>1 DEF ReadInv
  <2> QED BY <2>1, <2>2, AnswerKeeps DEF Answers
<1>6. ASSUME IndexFails PROVE StillInv'
  <2>1. PICK f \in IndexFailures(index, got) : Answer(f)
    BY <1>6 DEF IndexFails
  <2>2. f \in {"UnknownSigner", "BadSignature", "Missing", "Altered", "Unlisted"}
    BY DEF IndexFailures
  <2>3. phase = "reading" /\ AllRead /\ index # None
    BY <1>0, <1>6 DEF IndexFails, PhaseInv
  <2>4. still => \A i \in Inputs : ~WholeDelivery(i)
    BY <1>0, <2>1, <2>3, WholeIndexHolds
  <2>5. f \in Answers /\ f \notin {"passed", "failed"}
    BY <2>2 DEF Answers
  <2> QED BY <2>1, <2>3, <2>4, <2>5, AnswerKeeps
<1>7. ASSUME IndexHolds PROVE StillInv'
  <2>1. /\ phase = "reading" /\ AllRead /\ index # None /\ IndexFailures(index, got) = {}
        /\ phase' = "loading"
        /\ UNCHANGED <<index, listed, got, report, todo, outcomes, still>>
    BY <1>0, <1>7 DEF IndexHolds, PhaseInv, Answer
  <2>2. index.key = "publisher" /\ index.signedBy = "publisher"
    BY <2>1 DEF IndexFailures
  <2>3. index.entries = Graph(got)
    BY <2>1, <2>2, IndexIsOfPairs, HoldsOverRead
  <2>4. still => listed \subseteq DOMAIN got
    BY <1>0, <2>1 DEF ReadInv, AllRead
  <2>5. Graph(got)' = Graph(got)
    BY <2>1 DEF Graph
  <2> QED BY <1>0, <2>1, <2>3, <2>4, <2>5
          DEF StillInv, ReadInv, SweepInv, PhaseInv, IndexGood, CompleteDeliveryPasses, Answers
<1>8. ASSUME LoadReport PROVE StillInv'
  <2>0. phase = "loading" /\ outcomes = {} /\ UNCHANGED <<dir, index, listed, got, outcomes, still>>
    BY <1>0, <1>8 DEF LoadReport, PhaseInv
  <2>1. CASE "report.json" \in DOMAIN dir /\ dir["report.json"].kind = "report"
    <3>1. phase' = "sweeping" /\ report' = dir["report.json"] /\ todo' = DOMAIN dir
      BY <1>8, <2>1 DEF LoadReport
    <3>2. SweepInv'
      BY <1>0, <2>0, <2>1, <3>1 DEF SweepInv, SweptFiles
    <3> QED BY <1>0, <2>0, <3>1, <3>2 DEF StillInv, ReadInv, PhaseInv, IndexGood, CompleteDeliveryPasses, Answers
  <2>2. CASE ~("report.json" \in DOMAIN dir /\ dir["report.json"].kind = "report")
    <3>1. phase' = "error"
      BY <1>8, <2>2 DEF LoadReport
    <3>2. ASSUME NEW i \in Inputs, WholeDelivery(i) PROVE FALSE
      <4>1. "report.json" \in DOMAIN dir /\ dir["report.json"] = ReportDoc(Book[i])
        BY <3>2, WholeIs
      <4> QED BY <2>2, <4>1 DEF ReportDoc, Doc
    <3>3. CompleteDeliveryPasses'
      BY <1>0, <3>2 DEF CompleteDeliveryPasses, WholeDelivery
    <3> QED BY <1>0, <2>0, <3>1, <3>3 DEF StillInv, ReadInv, SweepInv, PhaseInv, IndexGood
  <2> QED BY <2>1, <2>2
<1>9. ASSUME NEW n \in todo, SweepProof(n) \/ SkipSibling(n) PROVE StillInv'
  <2>0. /\ phase = "sweeping" /\ n \in DOMAIN dir /\ todo' = todo \ {n}
        /\ UNCHANGED <<dir, phase, index, listed, got, report, still>>
    BY <1>9 DEF SweepProof, SkipSibling
  <2>1. \/ n \in SweptFiles /\ outcomes' = outcomes \cup {Swept(n)}
        \/ n \notin SweptFiles /\ outcomes' = outcomes
    BY <1>9 DEF SweepProof, SkipSibling, SweptFiles, Swept, IsSibling
  <2>2. SweptFiles' = SweptFiles /\ \A m \in DOMAIN dir : Swept(m)' = Swept(m)
    BY <2>0 DEF SweptFiles, Swept, Verifies
  <2>3. {Swept(m) : m \in SweptFiles}' = {Swept(m) : m \in SweptFiles}
    BY <2>0, <2>2 DEF SweptFiles, Swept, Verifies
  <2>4. SweptFiles \subseteq DOMAIN dir
    BY DEF SweptFiles
  <2>5. SweepInv'
    BY <1>0, <2>0, <2>1, <2>2, <2>3, <2>4 DEF SweepInv
  <2> QED BY <1>0, <2>0, <2>5 DEF StillInv, ReadInv, PhaseInv, IndexGood, CompleteDeliveryPasses, Answers, WholeDelivery
<1>10. ASSUME NEW n \in todo, SweepFails(n) PROVE StillInv'
  <2>1. phase = "sweeping" /\ Answer("error")
        /\ (n \in DOMAIN dir => dir[n].kind # "proof" /\ ~IsSibling(dir[n]))
    BY <1>10 DEF SweepFails
  <2>2. still => n \in DOMAIN dir
    BY <1>0, <2>1 DEF SweepInv
  <2>3. still => \A i \in Inputs : ~WholeDelivery(i)
    BY <2>1, <2>2, WholeIs
  <2> QED BY <2>1, <2>3, AnswerKeeps DEF Answers
<1>11. ASSUME Conclude PROVE StillInv'
  <2> DEFINE a == IF \A o \in outcomes : o[3] THEN "passed" ELSE "failed"
  <2>1. phase = "sweeping" /\ todo = {} /\ Answer(a) /\ a \in Answers
    BY <1>11 DEF Conclude, Answers
  <2>2. ASSUME still, NEW i \in Inputs, WholeDelivery(i), NEW o \in outcomes PROVE o[3]
    <3>1. PICK n \in SweptFiles : o = Swept(n)
      BY <1>0, <2>1, <2>2 DEF SweepInv
    <3>2. n \in DOMAIN dir /\ dir[n].kind = "proof"
      BY DEF SweptFiles
    <3>3. dir[n].of = Book[i] /\ dir[n].intact
      BY <2>2, <3>2, WholeIs DEF IsSibling
    <3>4. report = ReportDoc(Book[i])
      BY <1>0, <2>1, <2>2, WholeIs DEF SweepInv
    <3>5. Verifies(dir[n])
      BY <3>3, <3>4 DEF Verifies, ReportDoc, Doc
    <3> QED BY <3>1, <3>5 DEF Swept
  <2>3. still /\ a # "passed" => \A i \in Inputs : ~WholeDelivery(i)
    BY <2>2
  <2> HIDE DEF a
  <2> QED BY <2>1, <2>3, AnswerKeeps
<1> QED BY <1>1, <1>2, <1>3, <1>4, <1>5, <1>6, <1>7, <1>8, <1>9, <1>10, <1>11 DEF AuditStep

LEMMA StillStep == IInv /\ TypeInv /\ StillInv /\ [Next]_vars => StillInv'
<1> SUFFICES ASSUME IInv, TypeInv, StillInv, [Next]_vars PROVE StillInv'
  OBVIOUS
<1>1. CASE UNCHANGED vars
  BY <1>1, MeddledKeeps DEF vars, audit
<1>2. CASE \E p \in Procs :
             (\E i \in Inputs : Start(p, i)) \/ OpenFile(p) \/ FillFile(p) \/ RefusePack(p) \/ Die(p)
  BY <1>2, MeddledKeeps DEF Start, OpenFile, FillFile, RefusePack, Die
<1>3. CASE \/ \E n : Drop(n)
           \/ \E n, c : Swap(n, c)
           \/ \E key, signedBy : Reindex(key, signedBy)
           \/ \E b, names : PackByHand(b, names)
  BY <1>3, MeddledKeeps DEF Drop, Swap, Reindex, PackByHand
<1> QED BY <1>1, <1>2, <1>3, StillAuditor DEF Next

LEMMA StillInitially == Init => StillInv
BY DEF Init, StillInv, ReadInv, SweepInv, PhaseInv, IndexGood, CompleteDeliveryPasses, Answers

\* The output of a run, left alone while it is read, is refused neither by the
\* index nor by the sweep (solvency-cli/src/pack.rs:40-92, run.rs:90-169).
THEOREM WholeDeliveriesPass == Spec => []CompleteDeliveryPasses
BY Initially, IInvKept, TypedInitially, TypedStep, StillInitially, StillStep, PTL DEF Spec, StillInv

\* A pass means that every proof the index names was verified, and against the
\* report it names, if nothing changed (solvency-cli/src/pack.rs:40-92).
THEOREM PassedSweeps == Spec => []PassedSawEveryProof
<1>1. IInv /\ StillInv => PassedSawEveryProof
  <2> SUFFICES ASSUME IInv, StillInv, phase = "passed", index # None, still
               PROVE  /\ <<"report.json", report>> \in index.entries
                      /\ {<<o[1], o[2]>> : o \in outcomes} = {e \in index.entries : e[2].kind = "proof"}
    BY DEF PassedSawEveryProof
  <2>1. /\ index = dir["pack.json"] /\ DOMAIN got = DOMAIN dir \ {"pack.json"}
        /\ \A n \in DOMAIN got : got[n] = dir[n]
        /\ index.entries = Graph(got) /\ todo = {}
    BY DEF StillInv, ReadInv, PhaseInv, IndexGood
  <2>2. dir["pack.json"].kind = "pack"
    BY <2>1 DEF IInv, IndexInv
  <2>3. /\ "report.json" \in DOMAIN got /\ report = got["report.json"]
        /\ outcomes = {Swept(n) : n \in SweptFiles}
    BY <2>1 DEF StillInv, SweepInv
  <2>4. SweptFiles = {n \in DOMAIN got : got[n].kind = "proof"}
    BY <2>1, <2>2 DEF SweptFiles
  <2>5. {<<o[1], o[2]>> : o \in outcomes} = {<<n, dir[n]>> : n \in SweptFiles}
    <3>1. ASSUME NEW n \in SweptFiles PROVE Swept(n)[1] = n /\ Swept(n)[2] = dir[n]
      BY DEF Swept
    <3>2. ASSUME NEW o \in outcomes PROVE \E n \in SweptFiles : <<o[1], o[2]>> = <<n, dir[n]>>
      BY <2>3, <3>1
    <3>3. ASSUME NEW n \in SweptFiles PROVE \E o \in outcomes : <<o[1], o[2]>> = <<n, dir[n]>>
      <4>1. Swept(n) \in outcomes
        BY <2>3
      <4> QED BY <3>1, <4>1
    <3> QED BY <3>2, <3>3
  <2>6. {<<n, dir[n]>> : n \in SweptFiles} = {e \in Graph(got) : e[2].kind = "proof"}
    BY <2>1, <2>4 DEF Graph
  <2> QED BY <2>1, <2>3, <2>5, <2>6 DEF Graph
<1> QED BY <1>1, Initially, IInvKept, TypedInitially, TypedStep, StillInitially, StillStep, PTL DEF Spec
=============================================================================
