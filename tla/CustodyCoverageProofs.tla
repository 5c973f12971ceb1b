------------------------ MODULE CustodyCoverageProofs ------------------------
(***************************************************************************)
(* For every set of contracts, whatever they are worth, and however often  *)
(* the ledger moves, holdings are read and books are published: a custody  *)
(* report is a snapshot of the ledger, which AtomicCustody takes in one    *)
(* step, and the coverage verb's exit code is about the ledger.            *)
(***************************************************************************)
EXTENDS CustodyCoverage, LibraryProofs

\* The order of InOrder, of so many rows over a set of contracts.
SortedOver(D, T) ==
  CHOOSE sorted \in Bijection(D, T) : \A i, j \in D : i < j => sorted[i] < sorted[j]

Sorted(held) == SortedOver(1..Cardinality(held), held)

\* What the leaves of a custody report of these contracts are.
LeavesOf(held) == LeavesV2(Positions(Sorted(held)))

CustodyOf(held, offset, at) ==
  SignedOver(LeavesOf(held), Metadata("coverage.custody", "custodian", Zulu(at), offset),
             "custodian")

\* And that of a liabilities report of what is owed.
Owing(owed) == {a \in OwedAssets : owed[a] > 0}
KeysOwed(owed) == {<<"", a>> : a \in Owing(owed)}
Balances(owed) == Keyed("", [a \in Owing(owed) |-> owed[a]])
BookLeaves(owed) == LeavesV1(<<[user |-> "customer", balances |-> Balances(owed)]>>)

BookOf(owed, offset, at) ==
  SignedOver(BookLeaves(owed), Metadata("solvency.liabilities", "venue", Zulu(at), offset),
             "venue")

\* What a contract adds to the total of an asset.
Amount(c, a) == IF Worth[c].asset = a THEN Worth[c].amount ELSE 0

TotalOf(held, a) == SumFunction([c \in held |-> Amount(c, a)])

-----------------------------------------------------------------------------
(***************************************************************************)
(* The trees of the two reports.                                           *)
(***************************************************************************)
\* Some order of the contracts is by their ids.
LEMMA SortedIs ==
  ASSUME NEW held \in SUBSET Contracts
  PROVE  /\ IsFiniteSet(held) /\ Cardinality(held) \in Nat
         /\ Sorted(held) \in Bijection(1..Cardinality(held), held)
<1>1. IsFiniteSet(held) /\ held \subseteq Nat
  BY LedgerAssumption, FS_Subset
<1>2. Cardinality(held) \in Nat
  BY <1>1, FS_CardinalityType
<1>3. \E s \in Bijection(1..Cardinality(held), held) :
        \A i, j \in 1..Cardinality(held) : i < j => s[i] < s[j]
  BY <1>1, CanBeSorted
<1>4. Sorted(held) \in Bijection(1..Cardinality(held), held)
  BY <1>3 DEF Sorted, SortedOver
<1> QED BY <1>1, <1>2, <1>4

\* Rows in any order are put in the one order of the contracts; a repeated row
\* is refused.
LEMMA RowsAreSorted ==
  ASSUME NEW held \in SUBSET Contracts, NEW rows \in Orders(held)
  PROVE  /\ rows \in Seq(held) /\ Len(rows) = Cardinality(held)
         /\ InOrder(rows) = Sorted(held)
         /\ rows # << >> => ~Parsed(Append(rows, Head(rows)))
<1> DEFINE n == Cardinality(held)
<1>1. n \in Nat
  BY SortedIs
<1>2. rows \in [1..n -> held] /\ \A c \in held : \E i \in 1..n : rows[i] = c
  BY DEF Orders, Bijection, Injection, Surjection
<1> HIDE DEF n
<1>3. rows \in Seq(held) /\ Len(rows) = n /\ DOMAIN rows = 1..n
  BY <1>1, <1>2
<1>4. Range(rows) = held
  BY <1>2, <1>3 DEF Range
<1>5. InOrder(rows) = Sorted(held)
  <2>1. InOrder(rows) = SortedOver(DOMAIN rows, Range(rows))
    BY DEF InOrder, SortedOver
  <2> QED BY <1>3, <1>4, <2>1 DEF Sorted, n
<1>6. ASSUME rows # << >> PROVE ~Parsed(Append(rows, Head(rows)))
  <2> DEFINE twice == Append(rows, Head(rows))
  <2>1. n >= 1 /\ Head(rows) = rows[1]
    BY <1>1, <1>3, <1>6
  <2>2. DOMAIN twice = 1..(n + 1) /\ twice[n + 1] = rows[1] /\ twice[1] = rows[1]
    BY <1>3, <2>1
  <2> HIDE DEF twice
  <2>3. 1 \in DOMAIN twice /\ n + 1 \in DOMAIN twice /\ n + 1 # 1
    BY <1>1, <2>1, <2>2
  <2>4. ~IsInjective(twice)
    BY <2>2, <2>3 DEF IsInjective
  <2> QED BY <2>4 DEF Parsed, twice
<1> QED BY <1>3, <1>5, <1>6 DEF n

\* A custody report has a leaf for each contract, of what it is worth.
LEMMA LeavesAre ==
  ASSUME NEW held \in SUBSET Contracts, held # {}
  PROVE  /\ IsLevel(LeavesOf(held)) /\ Len(LeavesOf(held)) = Cardinality(held)
         /\ \A j \in DOMAIN LeavesOf(held) : HasAmounts(LeavesOf(held)[j])
         /\ \A a : \A j \in 1..Cardinality(held) :
              At(LeavesOf(held)[j].sums, <<"held", a>>) = Amount(Sorted(held)[j], a)
<1> DEFINE n == Cardinality(held)
           s == Sorted(held)
           maps(c) == Keyed("held", [a \in {Worth[c].asset} |-> Worth[c].amount])
<1>1. n \in Nat /\ n # 0
  BY SortedIs, FS_EmptySet
<1>2. s \in [1..n -> held]
  BY SortedIs DEF Bijection, Injection
<1> HIDE DEF n, s
<1>3. LeavesOf(held) = [j \in 1..n |-> LeafV2(s[j], maps(s[j]))]
  <2>1. Positions(s) = [j \in 1..n |-> [subject |-> s[j], maps |-> maps(s[j])]]
    BY <1>2 DEF Positions
  <2> QED BY <2>1 DEF LeavesOf, LeavesV2, s
<1>4. Len(LeavesOf(held)) = n /\ DOMAIN LeavesOf(held) = 1..n
  BY <1>1, <1>3
<1>5. ASSUME NEW c \in Contracts
      PROVE  /\ maps(c) = [key \in {<<"held", Worth[c].asset>>} |-> Worth[c].amount]
             /\ maps(c) \in AmountMaps
             /\ \A a : At(maps(c), <<"held", a>>) = Amount(c, a)
  <2> DEFINE asset == Worth[c].asset
             amount == Worth[c].amount
             m == [key \in {<<"held", asset>>} |-> amount]
  <2>1. maps(c) = m
    BY DEF Keyed
  <2>2. amount \in 0..MaxAmount /\ <<"held", asset>> \in Assets
    BY LedgerAssumption DEF HeldAssets
  <2>3. m \in AmountMaps
    <3>1. m \in [{<<"held", asset>>} -> 0..MaxAmount]
      BY <2>2
    <3>2. {<<"held", asset>>} \in SUBSET Assets
      BY <2>2
    <3> QED BY <3>1, <3>2 DEF AmountMaps
  <2>4. ASSUME NEW a PROVE At(m, <<"held", a>>) = Amount(c, a)
    BY DEF At, Amount
  <2> QED BY <2>1, <2>3, <2>4
<1> HIDE DEF maps
<1>6. ASSUME NEW j \in 1..n
      PROVE  /\ HasAmounts(LeavesOf(held)[j])
             /\ \A a : At(LeavesOf(held)[j].sums, <<"held", a>>) = Amount(s[j], a)
  <2>1. s[j] \in Contracts
    BY <1>2
  <2>2. LeavesOf(held)[j].sums = maps(s[j]) /\ "sums" \in DOMAIN LeavesOf(held)[j]
    BY <1>3 DEF LeafV2
  <2> QED BY <1>5, <2>1, <2>2 DEF HasAmounts
<1> QED BY <1>1, <1>4, <1>6 DEF IsLevel, n, s


LEMMA AmountIsNatural ==
  ASSUME NEW c \in Contracts, NEW a
  PROVE  Amount(c, a) \in Nat
<1>1. Worth[c].amount \in 0..MaxAmount
  BY LedgerAssumption
<1>2. Worth[c].amount \in Nat
  BY <1>1, MaxAmountAssumption
<1> QED BY <1>2 DEF Amount

\* The total of a custody report is what the contracts are worth together,
\* each counted once (build.rs:38-59).
LEMMA RootTotals ==
  ASSUME NEW held \in SUBSET Contracts, held # {}, Builds(LeavesOf(held)), NEW a
  PROVE  At(Root(LeavesOf(held)).sums, <<"held", a>>) = TotalOf(held, a)
<1> DEFINE n == Cardinality(held)
           s == Sorted(held)
           leaves == LeavesOf(held)
           key == <<"held", a>>
           f == [c \in held |-> Amount(c, a)]
           g == [j \in DOMAIN leaves |-> At(leaves[j].sums, key)]
<1>1. At(Root(leaves).sums, key) = LevelTotal(leaves, key)
  <2> HIDE DEF leaves, key
  <2>1. IsLevel(leaves) /\ \A j \in DOMAIN leaves : HasAmounts(leaves[j])
    BY LeavesAre DEF leaves
  <2> QED BY <2>1, RootIsTotal DEF leaves
<1>2. IsFiniteSet(1..n) /\ n \in Nat
  <2>1. n \in Nat
    BY SortedIs
  <2> HIDE DEF n
  <2>2. 1 \in Int /\ n \in Int
    BY <2>1
  <2> QED BY <2>1, <2>2, FS_Interval
<1>3. DOMAIN leaves = 1..n
  BY LeavesAre DEF IsLevel
<1>4. s \in Bijection(1..n, held)
  BY SortedIs
<1>5. \A c \in held : f[c] \in Nat
  BY AmountIsNatural
<1>6. ASSUME NEW j \in 1..n PROVE g[j] = f[s[j]]
  <2>1. At(leaves[j].sums, key) = Amount(s[j], a)
    BY LeavesAre
  <2>2. s[j] \in held
    BY <1>4 DEF Bijection, Injection
  <2> QED BY <1>3, <2>1, <2>2
<1>7. SumFunctionOnSet(g, 1..n) = SumFunctionOnSet(f, held)
  <2> HIDE DEF f, g, s, n
  <2> QED BY <1>2, <1>4, <1>5, <1>6, SumMoved
<1>8. LevelTotal(leaves, key) = SumFunctionOnSet(g, 1..n)
  BY <1>3 DEF LevelTotal, SumFunction
<1>9. TotalOf(held, a) = SumFunctionOnSet(f, held)
  BY DEF TotalOf, SumFunction
<1> QED BY <1>1, <1>7, <1>8, <1>9

\* And nothing that a contract is worth is negative.
LEMMA TotalIsNatural ==
  ASSUME NEW held \in SUBSET Contracts, NEW a
  PROVE  TotalOf(held, a) \in Nat
<1> DEFINE f == [c \in held |-> Amount(c, a)]
<1>1. \A c \in held : f[c] \in Nat
  BY AmountIsNatural
<1>2. IsFiniteSet(held)
  BY SortedIs
<1>3. TotalOf(held, a) = SumFunctionOnSet(f, held)
  BY DEF TotalOf, SumFunction
<1> HIDE DEF f
<1> QED BY <1>1, <1>2, <1>3, SumPick

\* A liabilities report has one leaf, which is its root: its totals are what is
\* owed, under the keys of the assets of which something is.
LEMMA BookTotals ==
  ASSUME NEW owed \in [OwedAssets -> 0..MaxAmount]
  PROVE  /\ Root(BookLeaves(owed)).sums = Balances(owed)
         /\ DOMAIN Balances(owed) = KeysOwed(owed)
         /\ \A a \in OwedAssets : owed[a] > 0 => Balances(owed)[<<"", a>>] = owed[a]
<1> DEFINE leaves == BookLeaves(owed)
           amounts == [a \in Owing(owed) |-> owed[a]]
<1>1. /\ IsLevel(leaves) /\ Len(leaves) = 1
      /\ leaves[1].sums = Balances(owed)
  <2> DEFINE x == [user |-> "customer", balances |-> Balances(owed)]
  <2>1. x.balances = Balances(owed)
    OBVIOUS
  <2> HIDE DEF x
  <2>2. leaves = [i \in DOMAIN <<x>> |-> Leaf(<<x>>[i].user, <<x>>[i].balances)]
    BY DEF BookLeaves, LeavesV1, x
  <2>3. DOMAIN <<x>> = 1..1 /\ <<x>>[1] = x
    OBVIOUS
  <2>4. Len(leaves) = 1 /\ DOMAIN leaves = 1..1 /\ leaves[1] = Leaf(x.user, x.balances)
    BY <2>2, <2>3
  <2> HIDE DEF leaves
  <2> QED BY <2>1, <2>4 DEF IsLevel, Leaf
<1> HIDE DEF leaves
<1>2. Built(leaves)[0] = leaves
  BY <1>1, BuiltIs
<1>3. Root(leaves) = leaves[1]
  <2>1. 0 \in 0..Len(leaves) /\ 0 \in Nat /\ 0 < Len(leaves) /\ Len(Built(leaves)[0]) = 1
    BY <1>1, <1>2
  <2> QED BY <1>1, <1>2, <2>1, AboveTheRoot
<1>4. Balances(owed) = [key \in {<<"", a>> : a \in DOMAIN amounts} |-> amounts[key[2]]]
  BY DEF Balances, Keyed
<1>5. ASSUME NEW a \in OwedAssets, owed[a] > 0 PROVE Balances(owed)[<<"", a>>] = owed[a]
  <2>1. a \in DOMAIN amounts /\ amounts[a] = owed[a]
    BY <1>5 DEF Owing
  <2> HIDE DEF amounts
  <2> QED BY <1>4, <2>1
<1>6. DOMAIN Balances(owed) = {<<"", a>> : a \in DOMAIN amounts}
  BY <1>4
<1> QED BY <1>1, <1>3, <1>5, <1>6 DEF leaves, KeysOwed

-----------------------------------------------------------------------------
(***************************************************************************)
(* What the two reports say, and that an edit of one is noticed.           *)
(***************************************************************************)
\* Both are v1 reports without a manifest, signed by who publishes them.
LEMMA WhatIsSigned ==
  ASSUME NEW leaves, NEW profile, NEW publisher, NEW at, NEW offset, NEW key, NEW signed,
         signed = SignedOver(leaves, Metadata(profile, publisher, Zulu(at), offset), key)
  PROVE  /\ signed.report.meta.profile = profile
         /\ signed.report.meta.time = Zulu(at) /\ signed.report.meta.offset = offset
         /\ signed.report.root = Root(leaves).hash
         /\ signed.report.count = Len(leaves)
         /\ signed.report.sums = Root(leaves).sums
         /\ signed.report.version = V1
         /\ signed.signature = Sign(key, Digest(signed.report))
         /\ DOMAIN signed = {"report", "signature"}
         /\ DOMAIN signed.report = {"version", "meta", "root", "count", "sums"}
         /\ {"profile", "time", "offset", "manifest"} \subseteq DOMAIN signed.report.meta
BY DEF SignedOver, Signing, ReportOver, Metadata

\* The digest of a v1 report covers everything but the manifest.
LEMMA DigestCovers ==
  ASSUME NEW r, r.version = V1,
         {"version", "meta", "sums"} \subseteq DOMAIN r,
         {"profile", "time", "offset", "manifest"} \subseteq DOMAIN r.meta
  PROVE  /\ Digest(r).sums = r.sums
         /\ Digest(r).meta.profile = r.meta.profile
         /\ Digest(r).meta.time = r.meta.time
         /\ Digest(r).meta.offset = r.meta.offset
<1>1. Digest(r) = [r EXCEPT !.meta = [r.meta EXCEPT !.manifest = None]]
  BY DEF Digest, V1, V2
<1> DEFINE m == [r.meta EXCEPT !.manifest = None]
<1>2. m.profile = r.meta.profile /\ m.time = r.meta.time /\ m.offset = r.meta.offset
  OBVIOUS
<1> HIDE DEF m
<1>3. Digest(r).sums = r.sums /\ Digest(r).meta = m
  BY <1>1 DEF m
<1> QED BY <1>2, <1>3


-----------------------------------------------------------------------------
(***************************************************************************)
(* The ledger only grows, so what was the state stays what was the state.  *)
(***************************************************************************)
States == [held : SUBSET Contracts, owed : [OwedAssets -> 0..MaxAmount], time : Int]

LedgerInv ==
  /\ ledger \in Seq(States) /\ End # 0
  /\ now \in Int /\ ledger[End].time <= now

\* The state at this offset was the state at this time, which has passed.
IsDated(offset, at) ==
  /\ offset \in 1..End
  /\ at \in Int /\ ledger[offset].time <= at /\ at <= now
  /\ offset < End => at <= ledger[offset + 1].time

LEMMA StateIs ==
  ASSUME LedgerInv, NEW o \in 1..End
  PROVE  /\ ledger[o].held \in SUBSET Contracts
         /\ ledger[o].owed \in [OwedAssets -> 0..MaxAmount]
<1>1. ledger[o] \in States
  BY DEF LedgerInv, End
<1> QED BY <1>1 DEF States

LEMMA LedgerGrows ==
  ASSUME LedgerInv, NEW state \in States, state.time = now,
         ledger' = Append(ledger, state), now' = now
  PROVE  /\ LedgerInv'
         /\ \A o \in 1..End : ledger'[o] = ledger[o]
         /\ \A o, at : IsDated(o, at) => IsDated(o, at)'
<1>1. End \in Nat \ {0} /\ End' = End + 1 /\ ledger' \in Seq(States)
  BY DEF LedgerInv, End
<1>2. ledger'[End + 1] = state /\ \A o \in 1..End : ledger'[o] = ledger[o]
  BY DEF LedgerInv, End
<1>3. now \in Int
  BY DEF LedgerInv
<1>4. LedgerInv'
  BY <1>1, <1>2, <1>3 DEF LedgerInv
<1>5. ASSUME NEW o, NEW at, IsDated(o, at) PROVE IsDated(o, at)'
  <2>1. o \in 1..End /\ at \in Int /\ at <= now /\ ledger[o].time <= at
    BY <1>5 DEF IsDated
  <2>2. o \in 1..End' /\ ledger'[o] = ledger[o]
    <3>1. ledger'[o] = ledger[o]
      BY <1>2, <2>1
    <3>2. \A n \in Nat : \A i \in 1..n : i \in 1..(n + 1)
      OBVIOUS
    <3> QED BY <1>1, <2>1, <3>1, <3>2
  <2>3. ASSUME o < End' PROVE at <= ledger'[o + 1].time
    <3>1. CASE o = End
      <4>1. ledger'[o + 1].time = now
        BY <1>2, <3>1
      <4> QED BY <2>1, <4>1
    <3>2. CASE o < End
      <4>1. o + 1 \in 1..End
        BY <1>1, <2>1, <3>2
      <4> QED BY <1>2, <1>5, <3>2, <4>1 DEF IsDated
    <3>3. o = End \/ o < End
      <4>1. \A n \in Nat : \A i \in 1..n : i = n \/ i < n
        OBVIOUS
      <4> QED BY <1>1, <2>1, <4>1
    <3> QED BY <3>1, <3>2, <3>3
  <2> QED BY <2>1, <2>2, <2>3 DEF IsDated
<1> QED BY <1>2, <1>4, <1>5

LEMMA PastIsKept ==
  ASSUME LedgerInv, [Next]_vars
  PROVE  /\ LedgerInv'
         /\ \A o \in 1..End : ledger'[o] = ledger[o]
         /\ \A o, at : IsDated(o, at) => IsDated(o, at)'
<1>1. ASSUME UNCHANGED ledgerVars
      PROVE  /\ LedgerInv'
             /\ \A o \in 1..End : ledger'[o] = ledger[o]
             /\ \A o, at : IsDated(o, at) => IsDated(o, at)'
  BY <1>1 DEF ledgerVars, LedgerInv, IsDated, End
<1>2. End \in 1..End /\ ledger[End] \in States
  BY DEF LedgerInv, End
<1>3. CASE Transact
  <2>1. CASE \E c \in Contracts :
               ledger' = Append(ledger, [ledger[End] EXCEPT !.held = Toggle(@, c), !.time = now])
    <3>1. PICK c \in Contracts :
            ledger' = Append(ledger, [ledger[End] EXCEPT !.held = Toggle(@, c), !.time = now])
      BY <2>1
    <3> DEFINE state == [ledger[End] EXCEPT !.held = Toggle(@, c), !.time = now]
    <3>2. state \in States /\ state.time = now
      BY <1>2 DEF States, LedgerInv, Toggle
    <3> HIDE DEF state
    <3>3. now' = now
      BY <1>3 DEF Transact
    <3> QED BY <3>1, <3>2, <3>3, LedgerGrows DEF state
  <2>2. CASE \E a \in OwedAssets, amount \in 0..Owes :
               ledger' = Append(ledger, [ledger[End] EXCEPT !.owed[a] = amount, !.time = now])
    <3>1. PICK a \in OwedAssets, amount \in 0..Owes :
            ledger' = Append(ledger, [ledger[End] EXCEPT !.owed[a] = amount, !.time = now])
      BY <2>2
    <3> DEFINE state == [ledger[End] EXCEPT !.owed[a] = amount, !.time = now]
    <3>2. state \in States /\ state.time = now
      <4>1. amount \in 0..MaxAmount
        <5>1. Owes \in 0..MaxAmount
          BY LedgerAssumption
        <5> QED BY <5>1, MaxAmountAssumption
      <4>2. [ledger[End].owed EXCEPT ![a] = amount] \in [OwedAssets -> 0..MaxAmount]
        BY <1>2, <4>1 DEF States
      <4> QED BY <1>2, <4>2 DEF States, LedgerInv
    <3> HIDE DEF state
    <3>3. now' = now
      BY <1>3 DEF Transact
    <3> QED BY <3>1, <3>2, <3>3, LedgerGrows DEF state
  <2> QED BY <1>3, <2>1, <2>2 DEF Transact
<1>4. CASE Pass
  <2>1. ledger' = ledger /\ now' = now + Step /\ now' \in Int /\ now <= now'
    BY <1>4, StepAssumption DEF Pass, LedgerInv
  <2>2. ledger[End].time \in Int
    BY <1>2 DEF States
  <2>3. LedgerInv'
    BY <2>1, <2>2 DEF LedgerInv, End
  <2>4. ASSUME NEW o, NEW at, IsDated(o, at) PROVE IsDated(o, at)'
    BY <2>1, <2>4 DEF IsDated, End, LedgerInv
  <2> QED BY <2>1, <2>3, <2>4
<1>5. CASE ~(Transact \/ Pass)
  <2>1. UNCHANGED ledgerVars
    BY <1>5 DEF Next, vars, ledgerVars, StartRead, EndArrives, RowsArrive, CallFails, TimeOut,
                Attest, PublishBook, Audit, AuditFails
  <2> QED BY <1>1, <2>1
<1> QED BY <1>3, <1>4, <1>5


-----------------------------------------------------------------------------
(***************************************************************************)
(* Reads, reports and the verdict.                                         *)
(***************************************************************************)
\* A read that has an offset has one that is, or was, the state when it was
\* asked for; the rows are what was held then, one of them perhaps twice.
ReadInv ==
  /\ \E pc, offset, at, rows : read = [pc |-> pc, offset |-> offset, at |-> at, rows |-> rows]
  /\ read.pc \in {"query", "rows"} => IsDated(read.offset, read.at)
  /\ read.pc = "rows" => \E rows \in Orders(ledger[read.offset].held) :
                           \/ read.rows = rows
                           \/ rows # << >> /\ read.rows = Append(rows, Head(rows))

\* Every report was made of a state of the ledger, and dated to it.
IsCustody(c, offset, at) ==
  /\ IsDated(offset, at)
  /\ ledger[offset].held # {} /\ Builds(LeavesOf(ledger[offset].held))
  /\ c = CustodyOf(ledger[offset].held, offset, at)

CustodiesInv == \A c \in custodies : \E offset, at : IsCustody(c, offset, at)

IsBook(b, offset, at) == IsDated(offset, at) /\ b = BookOf(ledger[offset].owed, offset, at)

BooksInv == \A b \in books : \E offset, at : IsBook(b, offset, at)

ReportsInv == LedgerInv /\ ReadInv /\ CustodiesInv /\ BooksInv

LEMMA ReportsStart ==
  ASSUME Init
  PROVE  ReportsInv
<1>1. LedgerInv
  <2>1. Opening \in States
    BY LedgerAssumption DEF States
  <2>2. <<Opening>> \in Seq(States) /\ Len(<<Opening>>) = 1 /\ <<Opening>>[1] = Opening
    BY <2>1
  <2>3. Opening.time \in Int
    BY LedgerAssumption
  <2> QED BY <2>2, <2>3 DEF Init, LedgerInv, End
<1>2. ReadInv
  BY DEF Init, ReadInv, Reader
<1> QED BY <1>1, <1>2 DEF Init, ReportsInv, CustodiesInv, BooksInv

\* A report stays one of the state it was made of.
LEMMA ReportsStay ==
  ASSUME LedgerInv, [Next]_vars
  PROVE  /\ \A c, o, at : IsCustody(c, o, at) => IsCustody(c, o, at)'
         /\ \A b, o, at : IsBook(b, o, at) => IsBook(b, o, at)'
BY PastIsKept DEF IsCustody, IsBook, IsDated

\* A read that was not touched is still what it was.
LEMMA ReadStays ==
  ASSUME ReportsInv, [Next]_vars, read' = read
  PROVE  ReadInv'
<1>1. read.pc \in {"query", "rows"} =>
        IsDated(read.offset, read.at)' /\ ledger'[read.offset] = ledger[read.offset]
  BY PastIsKept DEF ReportsInv, ReadInv, IsDated
<1> QED BY <1>1 DEF ReportsInv, ReadInv

\* A read that starts, or is given up, has no offset.
LEMMA ReaderHasNone ==
  ASSUME NEW pc \in {"idle", "end", "failed"}, read' = Reader(pc)
  PROVE  ReadInv'
BY DEF ReadInv, Reader

LEMMA EndIsDated ==
  ASSUME LedgerInv
  PROVE  IsDated(End, now)
BY DEF LedgerInv, IsDated, End

\* What is attested is a custody report of the state at the offset it was read at.
LEMMA AttestedIsCustody ==
  ASSUME ReportsInv, read.pc = "rows",
         NEW meta, NEW snapshotOffset, Attestable(read.rows, meta, snapshotOffset),
         meta = Metadata("coverage.custody", "custodian", Zulu(read.at), read.offset)
  PROVE  IsCustody(CustodyReport(read.rows, meta), read.offset, read.at)
<1> DEFINE held == ledger[read.offset].held
<1>1. IsDated(read.offset, read.at)
  BY DEF ReportsInv, ReadInv
<1>2. held \in SUBSET Contracts
  <2>1. read.offset \in 1..End
    BY <1>1 DEF IsDated
  <2> QED BY <2>1, StateIs DEF ReportsInv
<1>3. PICK rows \in Orders(held) :
        \/ read.rows = rows
        \/ rows # << >> /\ read.rows = Append(rows, Head(rows))
  BY DEF ReportsInv, ReadInv
<1>4. Parsed(read.rows) /\ read.rows # << >> /\ Publishable(LeavesV2(Positions(InOrder(read.rows))))
  BY DEF Attestable
<1> HIDE DEF held
<1>5. read.rows = rows /\ Len(rows) = Cardinality(held) /\ rows \in Seq(held)
      /\ InOrder(rows) = Sorted(held)
  BY <1>2, <1>3, <1>4, RowsAreSorted
<1>6. held # {}
  BY <1>4, <1>5
<1>7. LeavesV2(Positions(InOrder(read.rows))) = LeavesOf(held)
  BY <1>5 DEF LeavesOf
<1>8. Builds(LeavesOf(held))
  BY <1>4, <1>7 DEF Publishable
<1>9. CustodyReport(read.rows, meta) = CustodyOf(held, read.offset, read.at)
  <2>1. CustodyReport(read.rows, meta) =
          SignedOver(LeavesV2(Positions(InOrder(read.rows))), meta, "custodian")
    BY DEF CustodyReport, PublishV2, PublishOver, WithProofs
  <2> QED BY <1>7, <2>1 DEF CustodyOf
<1> QED BY <1>1, <1>6, <1>8, <1>9 DEF IsCustody, held

LEMMA ReportsStep ==
  ASSUME ReportsInv, [Next]_vars
  PROVE  ReportsInv'
<1>0. LedgerInv /\ ReadInv /\ CustodiesInv /\ BooksInv
  BY DEF ReportsInv
<1>1. LedgerInv'
  BY <1>0, PastIsKept
<1>2. /\ \A c, o, at : IsCustody(c, o, at) => IsCustody(c, o, at)'
      /\ \A b, o, at : IsBook(b, o, at) => IsBook(b, o, at)'
  BY <1>0, ReportsStay
<1>3. custodies' = custodies => CustodiesInv'
  BY <1>0, <1>2 DEF CustodiesInv
<1>4. books' = books => BooksInv'
  BY <1>0, <1>2 DEF BooksInv
<1>5. read' = read => ReadInv'
  BY ReadStays
<1>6. ASSUME UNCHANGED <<read, custodies, books>> PROVE ReportsInv'
  BY <1>1, <1>3, <1>4, <1>5, <1>6 DEF ReportsInv
<1>7. ASSUME NEW pc \in {"idle", "end", "failed"}, read' = Reader(pc), UNCHANGED <<custodies, books>>
      PROVE  ReportsInv'
  <2>1. ReadInv'
    BY <1>7, ReaderHasNone
  <2> QED BY <1>1, <1>3, <1>4, <1>7, <2>1 DEF ReportsInv
<1>8. CASE Transact \/ Pass \/ Audit \/ AuditFails \/ UNCHANGED vars
  BY <1>6, <1>8 DEF Transact, Pass, Audit, AuditFails, vars, readVars
<1>9. CASE StartRead \/ CallFails \/ TimeOut
  <2>1. CASE StartRead
    BY <1>7, <2>1 DEF StartRead
  <2>2. CASE CallFails \/ TimeOut
    BY <1>7, <2>2 DEF CallFails, TimeOut
  <2> QED BY <1>9, <2>1, <2>2
<1>10. CASE EndArrives
  <2>1. read' = [read EXCEPT !.pc = "query", !.offset = End, !.at = now] /\ UNCHANGED ledgerVars
        /\ UNCHANGED <<custodies, books>>
    BY <1>10 DEF EndArrives
  <2>2. PICK pc, offset, at, rows :
          read = [pc |-> pc, offset |-> offset, at |-> at, rows |-> rows]
    BY <1>0 DEF ReadInv
  <2>3. read' = [pc |-> "query", offset |-> End, at |-> now, rows |-> rows]
    BY <2>1, <2>2
  <2>4. IsDated(End, now)'
    BY <1>1, EndIsDated, <2>1 DEF LedgerInv, IsDated, End, ledgerVars
  <2>5. ReadInv'
    BY <2>1, <2>3, <2>4 DEF ReadInv, ledgerVars, End
  <2> QED BY <1>1, <1>3, <1>4, <2>1, <2>5 DEF ReportsInv
<1>11. CASE RowsArrive
  <2>1. PICK rows \in Orders(ledger[read.offset].held) :
          \/ read' = [read EXCEPT !.pc = "rows", !.rows = rows]
          \/ rows # << >> /\ read' = [read EXCEPT !.pc = "rows", !.rows = Append(rows, Head(rows))]
    BY <1>11 DEF RowsArrive, ActiveAt
  <2>2. PICK pc, offset, at, old :
          read = [pc |-> pc, offset |-> offset, at |-> at, rows |-> old]
    BY <1>0 DEF ReadInv
  <2>3. PICK new :
          /\ read' = [pc |-> "rows", offset |-> offset, at |-> at, rows |-> new]
          /\ new = rows \/ (rows # << >> /\ new = Append(rows, Head(rows)))
    BY <2>1, <2>2
  <2>4. UNCHANGED <<ledger, now, custodies, books>> /\ IsDated(offset, at)
    BY <1>0, <1>11, <2>2 DEF RowsArrive, ReadInv, ledgerVars
  <2>5. ReadInv'
    BY <2>1, <2>2, <2>3, <2>4 DEF ReadInv, IsDated, End
  <2> QED BY <1>1, <1>3, <1>4, <2>4, <2>5 DEF ReportsInv
<1>12. CASE Attest
  <2> DEFINE meta == Metadata("coverage.custody", "custodian", Zulu(read.at), read.offset)
  <2>1. read.pc = "rows" /\ UNCHANGED books
    BY <1>12 DEF Attest
  <2>2. PICK snapshotOffset :
          IF Attestable(read.rows, meta, snapshotOffset)
          THEN /\ custodies' = custodies \cup {CustodyReport(read.rows, meta)}
               /\ read' = Reader("idle")
          ELSE /\ custodies' = custodies
               /\ read' = Reader("failed")
    BY <1>12 DEF Attest
  <2>3. CASE Attestable(read.rows, meta, snapshotOffset)
    <3>1. PICK c, o, at : c = CustodyReport(read.rows, meta) /\ IsCustody(c, o, at)
      BY <2>1, <2>3, AttestedIsCustody
    <3>2. custodies' = custodies \cup {c} /\ read' = Reader("idle")
      BY <2>2, <2>3, <3>1
    <3>3. CustodiesInv'
      BY <1>0, <1>2, <3>1, <3>2 DEF CustodiesInv
    <3>4. ReadInv'
      BY <3>2, ReaderHasNone
    <3> QED BY <1>1, <1>4, <2>1, <3>3, <3>4 DEF ReportsInv
  <2>4. CASE ~Attestable(read.rows, meta, snapshotOffset)
    BY <1>7, <2>1, <2>2, <2>4
  <2> QED BY <2>3, <2>4
<1>13. CASE PublishBook
  <2>1. PICK b, o, at : b = Book /\ IsBook(b, o, at)
    <3>1. Book = BookOf(ledger[End].owed, End, now)
      BY DEF Book, BookOf, BookLeaves, Balances, Owing, Publish, PublishOver, WithProofs
    <3> QED BY <1>0, <3>1, EndIsDated DEF IsBook
  <2>2. books' = books \cup {b} /\ custodies' = custodies /\ read' = read
    BY <1>13, <2>1 DEF PublishBook, readVars
  <2>3. BooksInv'
    BY <1>0, <1>2, <2>1, <2>2 DEF BooksInv
  <2> QED BY <1>1, <1>3, <1>5, <2>2, <2>3 DEF ReportsInv
<1> QED BY <1>8, <1>9, <1>10, <1>11, <1>12, <1>13 DEF Next


-----------------------------------------------------------------------------
(***************************************************************************)
(* What a report says of the ledger.                                       *)
(***************************************************************************)
LEMMA CustodySays ==
  ASSUME LedgerInv, NEW c, NEW o, NEW at, IsCustody(c, o, at)
  PROVE  /\ o \in 1..End /\ at \in Int
         /\ ledger[o].held \in SUBSET Contracts
         /\ c.report.meta.profile = "coverage.custody"
         /\ c.report.meta.time = Zulu(at) /\ c.report.meta.offset = o
         /\ c.report.root = Root(LeavesOf(ledger[o].held)).hash
         /\ c.report.count = Cardinality(ledger[o].held)
         /\ \A a : At(c.report.sums, <<"held", a>>) = TotalOf(ledger[o].held, a)
         /\ c.report.version = V1
         /\ c.signature = Sign("custodian", Digest(c.report))
         /\ {"report", "signature"} \subseteq DOMAIN c
         /\ {"version", "meta", "sums"} \subseteq DOMAIN c.report
         /\ {"profile", "time", "offset", "manifest"} \subseteq DOMAIN c.report.meta
<1>1. o \in 1..End /\ at \in Int
  BY DEF IsCustody, IsDated
<1> DEFINE held == ledger[o].held
<1>2. held \in SUBSET Contracts
  BY <1>1, StateIs
<1>3. held # {} /\ Builds(LeavesOf(held)) /\ c = CustodyOf(held, o, at)
  BY DEF IsCustody
<1> HIDE DEF held
<1>4. /\ c.report.meta.profile = "coverage.custody"
      /\ c.report.meta.time = Zulu(at) /\ c.report.meta.offset = o
      /\ c.report.root = Root(LeavesOf(held)).hash
      /\ c.report.count = Len(LeavesOf(held))
      /\ c.report.sums = Root(LeavesOf(held)).sums
      /\ c.report.version = V1
      /\ c.signature = Sign("custodian", Digest(c.report))
      /\ DOMAIN c = {"report", "signature"}
      /\ DOMAIN c.report = {"version", "meta", "root", "count", "sums"}
      /\ {"profile", "time", "offset", "manifest"} \subseteq DOMAIN c.report.meta
  BY <1>3, WhatIsSigned DEF CustodyOf
<1>5. Len(LeavesOf(held)) = Cardinality(held)
  BY <1>2, <1>3, LeavesAre
<1>6. \A a : At(c.report.sums, <<"held", a>>) = TotalOf(held, a)
  BY <1>2, <1>3, <1>4, RootTotals
<1> QED BY <1>1, <1>2, <1>4, <1>5, <1>6 DEF held

StatesOwed(sums, owed) == \A a \in OwedAssets : owed[a] > 0 => sums[<<"", a>>] = owed[a]

LEMMA BookSays ==
  ASSUME LedgerInv, NEW b, NEW p, NEW at, IsBook(b, p, at)
  PROVE  /\ p \in 1..End /\ at \in Int
         /\ b.report.meta.profile = "solvency.liabilities"
         /\ b.report.meta.time = Zulu(at) /\ b.report.meta.offset = p
         /\ DOMAIN b.report.sums = KeysOwed(ledger[p].owed)
         /\ StatesOwed(b.report.sums, ledger[p].owed)
         /\ ledger[p].owed \in [OwedAssets -> 0..MaxAmount]
         /\ b.report.version = V1
         /\ b.signature = Sign("venue", Digest(b.report))
         /\ {"report", "signature"} \subseteq DOMAIN b
         /\ {"version", "meta", "sums"} \subseteq DOMAIN b.report
         /\ {"profile", "time", "offset", "manifest"} \subseteq DOMAIN b.report.meta
<1>1. p \in 1..End /\ at \in Int
  BY DEF IsBook, IsDated
<1> DEFINE owed == ledger[p].owed
<1>2. owed \in [OwedAssets -> 0..MaxAmount]
  BY <1>1, StateIs
<1>3. b = BookOf(owed, p, at)
  BY DEF IsBook
<1> HIDE DEF owed
<1>4. /\ b.report.meta.profile = "solvency.liabilities"
      /\ b.report.meta.time = Zulu(at) /\ b.report.meta.offset = p
      /\ b.report.sums = Root(BookLeaves(owed)).sums
      /\ b.report.version = V1
      /\ b.signature = Sign("venue", Digest(b.report))
      /\ DOMAIN b = {"report", "signature"}
      /\ DOMAIN b.report = {"version", "meta", "root", "count", "sums"}
      /\ {"profile", "time", "offset", "manifest"} \subseteq DOMAIN b.report.meta
  BY <1>3, WhatIsSigned DEF BookOf
<1>5. /\ DOMAIN b.report.sums = KeysOwed(owed)
      /\ StatesOwed(b.report.sums, owed)
  <2>1. /\ Root(BookLeaves(owed)).sums = Balances(owed)
        /\ DOMAIN Balances(owed) = KeysOwed(owed)
        /\ \A a \in OwedAssets : owed[a] > 0 => Balances(owed)[<<"", a>>] = owed[a]
    BY <1>2, BookTotals, Zenon
  <2> QED BY <1>4, <2>1 DEF StatesOwed
<1> QED BY <1>1, <1>2, <1>4, <1>5 DEF owed

LEMMA HeldAtIs ==
  ASSUME NEW o, NEW a
  PROVE  HeldAt(o, a) = TotalOf(ledger[o].held, a)
BY DEF HeldAt, TotalOf, Amount

\* What is covered, is.
LEMMA CoveredIs ==
  ASSUME NEW c, NEW b
  PROVE  Outcome(FullyCovered(c, b), {}) = "ok" <=>
           \A key \in DOMAIN b.report.sums : Held(c, key) >= b.report.sums[key]
<1> DEFINE covered == \A key \in DOMAIN b.report.sums : Held(c, key) >= b.report.sums[key]
           x == Check("coverage: per asset", "shortfall", covered)
<1>1. FullyCovered(c, b) = <<x>>
  BY Zenon DEF FullyCovered
<1>2. x.holds <=> covered
  <2> HIDE DEF covered
  <2> QED BY Zenon DEF Check
<1>3. Fails(x)
  <2> HIDE DEF covered
  <2> QED BY ChecksFail
<1> HIDE DEF x, covered
<1>4. IsChecks(<<x>>) /\ (AllHold(<<x>>) <=> x.holds)
  BY <1>3, ListedChecks, ListedHold
<1>5. Outcome(<<x>>, {}) = "ok" <=> AllHold(<<x>>)
  BY <1>4, OkMeansAllHold, AllHoldMeansOk
<1> QED BY <1>1, <1>2, <1>4, <1>5 DEF covered

\* Of a custody report and a liabilities report: each asset owed is held.
LEMMA CoveredHolds ==
  ASSUME LedgerInv, NEW c, NEW o, NEW s, IsCustody(c, o, s), NEW b, NEW p, NEW t, IsBook(b, p, t)
  PROVE  (\A key \in DOMAIN b.report.sums : Held(c, key) >= b.report.sums[key]) <=>
           \A a \in OwedAssets : HeldAt(o, a) >= ledger[p].owed[a]
<1> DEFINE owed == ledger[p].owed
           sums == b.report.sums
<1>1. /\ owed \in [OwedAssets -> 0..MaxAmount]
      /\ DOMAIN sums = KeysOwed(owed)
      /\ \A a \in OwedAssets : owed[a] > 0 => sums[<<"", a>>] = owed[a]
  <2>1. owed \in [OwedAssets -> 0..MaxAmount]
    BY BookSays
  <2>2. DOMAIN sums = KeysOwed(owed)
    BY BookSays
  <2>3. StatesOwed(sums, owed)
    BY BookSays
  <2> QED BY <2>1, <2>2, <2>3, Zenon DEF StatesOwed
<1>2. \A a : Held(c, <<"", a>>) = HeldAt(o, a) /\ HeldAt(o, a) \in Nat
  <2> SUFFICES ASSUME NEW a PROVE Held(c, <<"", a>>) = HeldAt(o, a) /\ HeldAt(o, a) \in Nat
    OBVIOUS
  <2>1. /\ At(c.report.sums, <<"held", a>>) = TotalOf(ledger[o].held, a)
        /\ ledger[o].held \in SUBSET Contracts
    BY CustodySays
  <2>2. Held(c, <<"", a>>) = At(c.report.sums, <<"held", a>>)
    BY DEF Held
  <2>3. TotalOf(ledger[o].held, a) \in Nat
    BY <2>1, TotalIsNatural
  <2> QED BY <2>1, <2>2, <2>3, HeldAtIs
<1> HIDE DEF owed, sums
<1>3. ASSUME \A key \in DOMAIN sums : Held(c, key) >= sums[key], NEW a \in OwedAssets
      PROVE  HeldAt(o, a) >= owed[a]
  <2>1. HeldAt(o, a) \in Nat /\ owed[a] \in 0..MaxAmount
    BY <1>1, <1>2
  <2>2. CASE owed[a] > 0
    <3>1. <<"", a>> \in DOMAIN sums
      BY <1>1, <2>2 DEF Owing, KeysOwed
    <3>2. Held(c, <<"", a>>) >= sums[<<"", a>>]
      BY <1>3, <3>1
    <3> QED BY <1>1, <1>2, <2>2, <3>2
  <2>3. CASE ~(owed[a] > 0)
    BY <2>1, <2>3, MaxAmountAssumption
  <2> QED BY <2>2, <2>3
<1>4. ASSUME \A a \in OwedAssets : HeldAt(o, a) >= owed[a], NEW key \in DOMAIN sums
      PROVE  Held(c, key) >= sums[key]
  <2>1. PICK a \in OwedAssets : key = <<"", a>> /\ owed[a] > 0
    BY <1>1 DEF Owing, KeysOwed
  <2>2. HeldAt(o, a) >= owed[a]
    BY <1>4
  <2> QED BY <1>1, <1>2, <2>1, <2>2
<1> QED BY <1>3, <1>4 DEF owed, sums

-----------------------------------------------------------------------------
\* A report that was edited and still has a good signature says what it said.
SaysAs(x, y) ==
  /\ x.report.sums = y.report.sums
  /\ x.report.meta.profile = y.report.meta.profile
  /\ x.report.meta.time = y.report.meta.time
  /\ x.report.meta.offset = y.report.meta.offset

IsV1(s) ==
  /\ s.report.version = V1
  /\ s.signature.on = Digest(s.report)
  /\ {"report", "signature"} \subseteq DOMAIN s
  /\ {"version", "meta", "sums"} \subseteq DOMAIN s.report
  /\ {"profile", "time", "offset", "manifest"} \subseteq DOMAIN s.report.meta

LEMMA EditIsNoticed ==
  ASSUME NEW s, IsV1(s), NEW total, NEW x \in {s} \cup Edited(s, total),
         NEW key, GoodSignature(x.signature, key, Digest(x.report))
  PROVE  SaysAs(x, s) /\ s.signature.by = key
<1>1. /\ x.signature = s.signature
      /\ x.report.version = V1
      /\ {"version", "meta", "sums"} \subseteq DOMAIN x.report
      /\ {"profile", "time", "offset", "manifest"} \subseteq DOMAIN x.report.meta
  <2>1. CASE x = s
    BY <2>1 DEF IsV1
  <2>2. ASSUME NEW m, DOMAIN m = DOMAIN s.report.meta,
               x = [s EXCEPT !.report = [s.report EXCEPT !.meta = m]]
        PROVE  /\ x.signature = s.signature
               /\ x.report.version = V1
               /\ {"version", "meta", "sums"} \subseteq DOMAIN x.report
               /\ {"profile", "time", "offset", "manifest"} \subseteq DOMAIN x.report.meta
    <3> DEFINE r == [s.report EXCEPT !.meta = m]
    <3>1. r.version = V1 /\ r.meta = m /\ DOMAIN r = DOMAIN s.report
      BY DEF IsV1
    <3> HIDE DEF r
    <3>2. x.report = r /\ x.signature = s.signature
      BY <2>2 DEF IsV1, r
    <3> QED BY <2>2, <3>1, <3>2 DEF IsV1
  <2>3. CASE \E b \in books : x = [s EXCEPT !.report.meta.time = b.report.meta.time]
    <3>1. PICK t : x = [s EXCEPT !.report.meta.time = t]
      BY <2>3
    <3> DEFINE m == [s.report.meta EXCEPT !.time = t]
    <3>2. DOMAIN m = DOMAIN s.report.meta /\ x = [s EXCEPT !.report = [s.report EXCEPT !.meta = m]]
      BY <3>1
    <3> HIDE DEF m
    <3> QED BY <2>2, <3>2
  <2>4. CASE x = [s EXCEPT !.report.meta.profile = "coverage.custody"]
    <3> DEFINE m == [s.report.meta EXCEPT !.profile = "coverage.custody"]
    <3>1. DOMAIN m = DOMAIN s.report.meta /\ x = [s EXCEPT !.report = [s.report EXCEPT !.meta = m]]
      BY <2>4
    <3> HIDE DEF m
    <3> QED BY <2>2, <3>1
  <2>5. CASE x = [s EXCEPT !.report.sums = [k \in DOMAIN @ |-> total]]
    <3> DEFINE sums == [k \in DOMAIN s.report.sums |-> total]
               r == [s.report EXCEPT !.sums = sums]
    <3>1. x = [s EXCEPT !.report = r]
      BY <2>5
    <3>2. r.version = V1 /\ r.meta = s.report.meta /\ DOMAIN r = DOMAIN s.report
      BY DEF IsV1
    <3> HIDE DEF r
    <3>3. x.report = r /\ x.signature = s.signature
      BY <3>1 DEF IsV1
    <3> QED BY <3>2, <3>3 DEF IsV1
  <2>6. \/ x = s
        \/ \E b \in books : x = [s EXCEPT !.report.meta.time = b.report.meta.time]
        \/ x = [s EXCEPT !.report.meta.profile = "coverage.custody"]
        \/ x = [s EXCEPT !.report.sums = [k \in DOMAIN @ |-> total]]
    BY Zenon DEF Edited
  <2> QED BY <2>1, <2>3, <2>4, <2>5, <2>6
<1>2. s.signature.by = key /\ Digest(x.report) = Digest(s.report)
  BY <1>1 DEF GoodSignature, IsV1
<1>3. SaysAs(x, s)
  <2> DEFINE d == Digest(x.report)
  <2>1. /\ d.sums = x.report.sums /\ d.meta.profile = x.report.meta.profile
        /\ d.meta.time = x.report.meta.time /\ d.meta.offset = x.report.meta.offset
    BY <1>1, DigestCovers
  <2>2. /\ d.sums = s.report.sums /\ d.meta.profile = s.report.meta.profile
        /\ d.meta.time = s.report.meta.time /\ d.meta.offset = s.report.meta.offset
    BY <1>2, DigestCovers DEF IsV1
  <2> HIDE DEF d
  <2> QED BY <2>1, <2>2 DEF SaysAs
<1> QED BY <1>2, <1>3


-----------------------------------------------------------------------------
\* Two honest reads of one snapshot commit to one root, though the rows came in
\* another order (build.rs:38-41).
THEOREM SnapshotsHaveOneRoot == Spec => []SameSnapshotSameRoot
<1>1. Init => ReportsInv
  BY ReportsStart
<1>2. ReportsInv /\ [Next]_vars => ReportsInv'
  BY ReportsStep
<1>3. ReportsInv => SameSnapshotSameRoot
  <2> SUFFICES ASSUME ReportsInv, NEW c \in custodies, NEW d \in custodies,
                      c.report.meta.offset = d.report.meta.offset
               PROVE  c.report.root = d.report.root
    BY DEF SameSnapshotSameRoot
  <2>0. LedgerInv /\ CustodiesInv
    BY DEF ReportsInv
  <2>1. PICK o, s : IsCustody(c, o, s)
    BY <2>0 DEF CustodiesInv
  <2>2. PICK p, t : IsCustody(d, p, t)
    BY <2>0 DEF CustodiesInv
  <2>3. c.report.meta.offset = o /\ c.report.root = Root(LeavesOf(ledger[o].held)).hash
    BY <2>0, <2>1, CustodySays
  <2>4. d.report.meta.offset = p /\ d.report.root = Root(LeavesOf(ledger[p].held)).hash
    BY <2>0, <2>2, CustodySays
  <2> QED BY <2>3, <2>4
<1> QED BY <1>1, <1>2, <1>3, PTL DEF Spec

\* Two reports of one offset, taken in one run, of a venue that holds what it
\* owes: the auditor is not told otherwise (coverage.rs:67-160).
THEOREM HonestCoverage == Spec => []HonestCoverageAccepted
<1>1. Init => ReportsInv
  BY ReportsStart
<1>2. ReportsInv /\ [Next]_vars => ReportsInv'
  BY ReportsStep
<1>3. ReportsInv => HonestCoverageAccepted
  <2> SUFFICES ASSUME ReportsInv, NEW c \in custodies, NEW b \in books,
                      b.report.meta.offset = c.report.meta.offset,
                      Abs(Instant(c.report.meta.time) - Instant(b.report.meta.time)) <= SameRun,
                      \A a \in OwedAssets : HeldAt(c.report.meta.offset, a) >=
                                              ledger[c.report.meta.offset].owed[a]
               PROVE  ExitOf(c, b, CoverageStatement(c, b), SameRun) = 0
    BY DEF HonestCoverageAccepted
  <2>0. LedgerInv /\ CustodiesInv /\ BooksInv
    BY DEF ReportsInv
  <2>1. PICK o, s : IsCustody(c, o, s)
    BY <2>0 DEF CustodiesInv
  <2>2. PICK p, t : IsBook(b, p, t)
    BY <2>0 DEF BooksInv
  <2>3. /\ c.report.meta.offset = o /\ c.report.meta.time = Zulu(s)
        /\ c.report.meta.profile = "coverage.custody"
        /\ c.signature = Sign("custodian", Digest(c.report))
    BY <2>0, <2>1, CustodySays
  <2>4. /\ b.report.meta.offset = p /\ b.report.meta.time = Zulu(t)
        /\ b.report.meta.profile = "solvency.liabilities"
        /\ b.signature = Sign("venue", Digest(b.report))
    BY <2>0, <2>2, BookSays
  <2>5. Pairs(c, b, CoverageStatement(c, b), "custodian", "venue", SameRun)
    <3>1. /\ CoverageStatement(c, b).version = "coverage-v1"
          /\ CoverageStatement(c, b).custody = Digest(c.report)
          /\ CoverageStatement(c, b).liabilities = Digest(b.report)
      BY DEF CoverageStatement
    <3>2. /\ c.signature.key = "custodian"
          /\ GoodSignature(c.signature, "custodian", Digest(c.report))
          /\ b.signature.key = "venue"
          /\ GoodSignature(b.signature, "venue", Digest(b.report))
      BY <2>3, <2>4 DEF Sign, GoodSignature
    <3>3. Parses(c.report.meta.time) /\ Parses(b.report.meta.time)
      BY <2>3, <2>4 DEF Parses, Zulu
    <3>4. Skew(c.report.meta.time, b.report.meta.time) <= SameRun
      BY DEF Skew
    <3> QED BY <2>3, <2>4, <3>1, <3>2, <3>3, <3>4, Zenon DEF Pairs
  <2>6. Answer(c, b, CoverageStatement(c, b), SameRun) = "ok"
    BY <2>5, CoverageTakesPairs DEF Answer
  <2>7. \A a \in OwedAssets : HeldAt(o, a) >= ledger[p].owed[a]
    BY <2>3, <2>4
  <2>8. \A key \in DOMAIN b.report.sums : Held(c, key) >= b.report.sums[key]
    BY <2>0, <2>1, <2>2, <2>7, CoveredHolds
  <2>9. Outcome(FullyCovered(c, b), {}) = "ok"
    BY <2>8, CoveredIs
  <2> QED BY <2>6, <2>9 DEF ExitOf
<1> QED BY <1>1, <1>2, <1>3, PTL DEF Spec

-----------------------------------------------------------------------------
(***************************************************************************)
(* Exit code 0.                                                            *)
(***************************************************************************)
\* It was about two reports that were signed, whatever was handed over.
VerdictInv ==
  verdict # None /\ verdict.exit = 0 =>
    \E c \in custodies, b \in books :
      /\ SaysAs(verdict.custody, c) /\ SaysAs(verdict.liabilities, b)
      /\ Skew(c.report.meta.time, b.report.meta.time) <= verdict.maxSkew
      /\ \A key \in DOMAIN b.report.sums : Held(c, key) >= b.report.sums[key]

LEMMA SignedAreV1 ==
  ASSUME ReportsInv
  PROVE  /\ \A c \in custodies : IsV1(c) /\ c.signature.by = "custodian"
         /\ \A b \in books : IsV1(b) /\ b.signature.by = "venue"
<1>0. LedgerInv /\ CustodiesInv /\ BooksInv
  BY DEF ReportsInv
<1>1. ASSUME NEW c \in custodies PROVE IsV1(c) /\ c.signature.by = "custodian"
  <2>1. PICK o, s : IsCustody(c, o, s)
    BY <1>0 DEF CustodiesInv
  <2>2. /\ c.report.version = V1
        /\ {"report", "signature"} \subseteq DOMAIN c
        /\ {"version", "meta", "sums"} \subseteq DOMAIN c.report
        /\ {"profile", "time", "offset", "manifest"} \subseteq DOMAIN c.report.meta
    BY <1>0, <2>1, CustodySays
  <2>3. c.signature = Sign("custodian", Digest(c.report))
    BY <1>0, <2>1, CustodySays
  <2>4. c.signature.by = "custodian" /\ c.signature.on = Digest(c.report)
    BY <2>3 DEF Sign
  <2> QED BY <2>2, <2>4 DEF IsV1
<1>2. ASSUME NEW b \in books PROVE IsV1(b) /\ b.signature.by = "venue"
  <2>1. PICK p, t : IsBook(b, p, t)
    BY <1>0 DEF BooksInv
  <2>2. /\ b.report.version = V1
        /\ {"report", "signature"} \subseteq DOMAIN b
        /\ {"version", "meta", "sums"} \subseteq DOMAIN b.report
        /\ {"profile", "time", "offset", "manifest"} \subseteq DOMAIN b.report.meta
    BY <1>0, <2>1, BookSays
  <2>3. b.signature = Sign("venue", Digest(b.report))
    BY <1>0, <2>1, BookSays
  <2>4. b.signature.by = "venue" /\ b.signature.on = Digest(b.report)
    BY <2>3 DEF Sign
  <2> QED BY <2>2, <2>4 DEF IsV1
<1> QED BY <1>1, <1>2

\* Whatever is handed over was signed, or is an edit of what was.
LEMMA HandedWas ==
  ASSUME NEW pair \in Handed
  PROVE  \E x, y \in custodies \cup books : \E m, n :
           pair[1] \in {x} \cup Edited(x, m) /\ pair[2] \in {y} \cup Edited(y, n)
<1> DEFINE signed == custodies \cup books
<1>1. CASE pair \in signed \X signed
  BY <1>1
<1>2. CASE pair \in (UNION {Edited(s, MaxAmount) : s \in signed}) \X books
  <2>1. PICK x \in signed : pair[1] \in Edited(x, MaxAmount)
    BY <1>2
  <2>2. pair[2] \in signed
    BY <1>2
  <2> QED BY <2>1, <2>2
<1>3. CASE pair \in custodies \X (UNION {Edited(b, 0) : b \in books})
  <2>1. PICK y \in signed : pair[2] \in Edited(y, 0)
    BY <1>3
  <2>2. pair[1] \in signed
    BY <1>3
  <2> QED BY <2>1, <2>2
<1> QED BY <1>1, <1>2, <1>3, Zenon DEF Handed

LEMMA VerdictIsOfSigned ==
  ASSUME ReportsInv, NEW pair \in Handed, NEW paired, NEW maxSkew,
         ExitOf(pair[1], pair[2], paired, maxSkew) = 0
  PROVE  \E c \in custodies, b \in books :
           /\ SaysAs(pair[1], c) /\ SaysAs(pair[2], b)
           /\ Skew(c.report.meta.time, b.report.meta.time) <= maxSkew
           /\ \A key \in DOMAIN b.report.sums : Held(c, key) >= b.report.sums[key]
<1>1. /\ Answer(pair[1], pair[2], paired, maxSkew) = "ok"
      /\ Outcome(FullyCovered(pair[1], pair[2]), {}) = "ok"
  BY DEF ExitOf
<1>2. Pairs(pair[1], pair[2], paired, "custodian", "venue", maxSkew)
  BY <1>1, CoverageTakesPairs DEF Answer
<1>3. \A key \in DOMAIN pair[2].report.sums : Held(pair[1], key) >= pair[2].report.sums[key]
  BY <1>1, CoveredIs
<1>4. /\ GoodSignature(pair[1].signature, "custodian", Digest(pair[1].report))
      /\ GoodSignature(pair[2].signature, "venue", Digest(pair[2].report))
      /\ Skew(pair[1].report.meta.time, pair[2].report.meta.time) <= maxSkew
  BY <1>2, Zenon DEF Pairs
<1>5. PICK c, b, m, n :
        /\ c \in custodies \cup books /\ b \in custodies \cup books
        /\ pair[1] \in {c} \cup Edited(c, m) /\ pair[2] \in {b} \cup Edited(b, n)
  BY HandedWas
<1>6. IsV1(c) /\ IsV1(b)
  BY <1>5, SignedAreV1
<1>7. SaysAs(pair[1], c) /\ c.signature.by = "custodian"
  BY <1>4, <1>5, <1>6, EditIsNoticed
<1>8. SaysAs(pair[2], b) /\ b.signature.by = "venue"
  BY <1>4, <1>5, <1>6, EditIsNoticed
<1>9. c \in custodies /\ b \in books
  BY <1>5, <1>7, <1>8, SignedAreV1
<1>10. Skew(c.report.meta.time, b.report.meta.time) <= maxSkew
  BY <1>4, <1>7, <1>8 DEF SaysAs
<1>11. \A key : Held(c, key) = Held(pair[1], key)
  BY <1>7 DEF SaysAs, Held
<1>12. \A key \in DOMAIN b.report.sums : Held(c, key) >= b.report.sums[key]
  BY <1>3, <1>8, <1>11 DEF SaysAs
<1> QED BY <1>7, <1>8, <1>9, <1>10, <1>12

LEMMA VerdictStep ==
  ASSUME ReportsInv, VerdictInv, [Next]_vars
  PROVE  VerdictInv'
<1>1. custodies \subseteq custodies' /\ books \subseteq books'
  BY DEF Next, vars, readVars, Transact, Pass, StartRead, EndArrives, RowsArrive, CallFails,
         TimeOut, Attest, PublishBook, Audit, AuditFails
<1>2. CASE verdict' = verdict
  BY <1>1, <1>2 DEF VerdictInv
<1>3. CASE Audit
  <2>1. UNCHANGED <<custodies, books>> /\ verdict' \in Verdicts
    BY <1>3 DEF Audit, readVars
  <2>2. PICK pair, maxSkew :
          /\ pair \in Handed
          /\ \/ verdict' = Refused
             \/ /\ verdict' = Passed(pair[1], pair[2], maxSkew)
                /\ \E paired : ExitOf(pair[1], pair[2], paired, maxSkew) = 0
    BY <2>1 DEF Verdicts
  <2>3. CASE verdict' = Refused
    BY <2>3 DEF Refused, VerdictInv
  <2>4. CASE /\ verdict' = Passed(pair[1], pair[2], maxSkew)
             /\ \E paired : ExitOf(pair[1], pair[2], paired, maxSkew) = 0
    <3>1. PICK c \in custodies, b \in books :
            /\ SaysAs(pair[1], c) /\ SaysAs(pair[2], b)
            /\ Skew(c.report.meta.time, b.report.meta.time) <= maxSkew
            /\ \A key \in DOMAIN b.report.sums : Held(c, key) >= b.report.sums[key]
      BY <2>2, <2>4, VerdictIsOfSigned
    <3>2. /\ verdict'.custody = pair[1] /\ verdict'.liabilities = pair[2]
          /\ verdict'.maxSkew = maxSkew
      BY <2>4 DEF Passed
    <3> QED BY <2>1, <3>1, <3>2 DEF VerdictInv
  <2> QED BY <2>2, <2>3, <2>4
<1>4. CASE AuditFails
  BY <1>4 DEF AuditFails, VerdictInv
<1>5. verdict' = verdict \/ Audit \/ AuditFails
  BY DEF Next, vars, readVars, Transact, Pass, StartRead, EndArrives, RowsArrive, CallFails,
         TimeOut, Attest, PublishBook
<1> QED BY <1>2, <1>3, <1>4, <1>5

\* Exit code 0 is about the ledger: what the two parties really held and owed,
\* of every asset that was owed, at two moments no further apart than the
\* auditor allows, whoever picked the reports, edited one or paired them
\* (coverage.rs:67-160).
THEOREM CoverageIsOfTheLedger == Spec => []AcceptedCoverageIsOfTheLedger
<1> DEFINE IInv == ReportsInv /\ VerdictInv
<1>1. Init => IInv
  BY ReportsStart DEF Init, VerdictInv
<1>2. IInv /\ [Next]_vars => IInv'
  BY ReportsStep, VerdictStep
<1>3. IInv => AcceptedCoverageIsOfTheLedger
  <2> SUFFICES ASSUME IInv, verdict # None, verdict.exit = 0
               PROVE  LET o == verdict.custody.report.meta.offset
                          p == verdict.liabilities.report.meta.offset
                          s == verdict.custody.report.meta.time
                          t == verdict.liabilities.report.meta.time
                      IN /\ IsAsOf(o, s) /\ IsAsOf(p, t)
                         /\ Abs(Instant(s) - Instant(t)) <= verdict.maxSkew
                         /\ \A a \in OwedAssets : HeldAt(o, a) >= ledger[p].owed[a]
    BY DEF AcceptedCoverageIsOfTheLedger
  <2>0. LedgerInv /\ CustodiesInv /\ BooksInv
    BY DEF ReportsInv
  <2>1. PICK c \in custodies, b \in books :
          /\ SaysAs(verdict.custody, c) /\ SaysAs(verdict.liabilities, b)
          /\ Skew(c.report.meta.time, b.report.meta.time) <= verdict.maxSkew
          /\ \A key \in DOMAIN b.report.sums : Held(c, key) >= b.report.sums[key]
    BY DEF VerdictInv
  <2>2. PICK o, s : IsCustody(c, o, s)
    BY <2>0 DEF CustodiesInv
  <2>3. PICK p, t : IsBook(b, p, t)
    BY <2>0 DEF BooksInv
  <2>4. c.report.meta.offset = o /\ c.report.meta.time = Zulu(s)
    BY <2>0, <2>2, CustodySays
  <2>5. b.report.meta.offset = p /\ b.report.meta.time = Zulu(t)
    BY <2>0, <2>3, BookSays
  <2>6. \A a \in OwedAssets : HeldAt(o, a) >= ledger[p].owed[a]
    BY <2>0, <2>1, <2>2, <2>3, CoveredHolds
  <2>7. IsAsOf(o, Zulu(s)) /\ IsAsOf(p, Zulu(t))
    BY <2>2, <2>3 DEF IsCustody, IsBook, IsDated, IsAsOf, Instant, Zulu
  <2>8. Abs(Instant(Zulu(s)) - Instant(Zulu(t))) <= verdict.maxSkew
    BY <2>1, <2>4, <2>5 DEF Skew
  <2>9. /\ verdict.custody.report.meta.offset = o
        /\ verdict.liabilities.report.meta.offset = p
        /\ verdict.custody.report.meta.time = Zulu(s)
        /\ verdict.liabilities.report.meta.time = Zulu(t)
    BY <2>1, <2>4, <2>5 DEF SaysAs
  <2> QED BY <2>6, <2>7, <2>8, <2>9
<1> QED BY <1>1, <1>2, <1>3, PTL DEF Spec


-----------------------------------------------------------------------------
(***************************************************************************)
(* The refinement of AtomicCustody.                                        *)
(***************************************************************************)
\* What is signed, as the promise counts it.
SnapshotOf(c) ==
  [offset |-> c.report.meta.offset, time |-> Instant(c.report.meta.time),
   count |-> c.report.count,
   totals |-> [a \in HeldAssets |-> At(c.report.sums, <<"held", a>>)]]

\* The library's sums and cardinalities are the same to the promise.
LEMMA PromiseCounts ==
  /\ \A S : Promise!Cardinality(S) = Cardinality(S)
  /\ \A f : Promise!SumFunction(f) = SumFunction(f)
<1>1. ASSUME NEW S PROVE Promise!Cardinality(S) = Cardinality(S)
  BY DEF Promise!Cardinality, Cardinality
<1>2. ASSUME NEW f PROVE Promise!SumFunction(f) = SumFunction(f)
  <2> DEFINE one(T) == CHOOSE x \in T : TRUE
             Body(g, T) == IF T = {} THEN 0 ELSE f[one(T)] + g[T \ {one(T)}]
             iter(R) == CHOOSE g : g = [T \in SUBSET R |-> Body(g, T)]
  <2>1. SumFunctionOnSet(f, DOMAIN f) = iter(DOMAIN f)[DOMAIN f]
    BY DEF SumFunctionOnSet, FoldFunctionOnSet, MapThenFoldSet
  <2>2. Promise!SumFunctionOnSet(f, DOMAIN f) = iter(DOMAIN f)[DOMAIN f]
    BY DEF Promise!SumFunctionOnSet, Promise!FoldFunctionOnSet, Promise!MapThenFoldSet
  <2> HIDE DEF iter
  <2> QED BY <2>1, <2>2 DEF SumFunction, Promise!SumFunction
<1> QED BY <1>1, <1>2

\* A custody report is a snapshot as the promise takes it.
LEMMA CustodyIsSnapshot ==
  ASSUME LedgerInv, NEW c, NEW o, NEW at, IsCustody(c, o, at)
  PROVE  /\ SnapshotOf(c) = Promise!Snapshot(o, at)
         /\ SnapshotOf(c).offset = o /\ SnapshotOf(c).time = at
         /\ SnapshotOf(c).count > 0
         /\ Promise!WasState(o, at)
<1> DEFINE held == ledger[o].held
           totals == [a \in HeldAssets |-> At(c.report.sums, <<"held", a>>)]
<1>1. /\ c.report.meta.offset = o /\ c.report.meta.time = Zulu(at)
      /\ c.report.count = Cardinality(held) /\ held \in SUBSET Contracts
      /\ \A a : At(c.report.sums, <<"held", a>>) = TotalOf(held, a)
  BY CustodySays
<1>2. Promise!HeldAssets = HeldAssets
  BY DEF Promise!HeldAssets, HeldAssets, Contracts
<1>3. totals = Promise!Totals(held)
  <2>1. ASSUME NEW a
        PROVE  Promise!SumFunction([x \in held |-> IF Worth[x].asset = a THEN Worth[x].amount ELSE 0]) =
                 At(c.report.sums, <<"held", a>>)
    BY <1>1, PromiseCounts DEF TotalOf, Amount
  <2> HIDE DEF held
  <2> QED BY <1>2, <2>1 DEF Promise!Totals
<1>4. /\ SnapshotOf(c).offset = o /\ SnapshotOf(c).time = at
      /\ SnapshotOf(c).count = Cardinality(held)
  BY <1>1 DEF SnapshotOf, Instant, Zulu
<1>5. SnapshotOf(c) = Promise!Snapshot(o, at)
  <2>1. SnapshotOf(c) = [offset |-> o, time |-> at, count |-> Cardinality(held), totals |-> totals]
    BY <1>1 DEF SnapshotOf, Instant, Zulu
  <2> HIDE DEF totals
  <2> QED BY <1>3, <2>1, PromiseCounts DEF Promise!Snapshot
<1>6. Cardinality(held) > 0
  <2>1. held # {}
    BY DEF IsCustody
  <2> HIDE DEF held
  <2>2. IsFiniteSet(held) /\ Cardinality(held) \in Nat
    BY <1>1, SortedIs
  <2> QED BY <2>1, <2>2, FS_EmptySet
<1>7. Promise!WasState(o, at)
  <2>1. DOMAIN ledger = 1..End /\ End \in Nat
    BY DEF LedgerInv, End
  <2> QED BY <2>1 DEF IsCustody, IsDated, Promise!WasState
<1> QED BY <1>4, <1>5, <1>6, <1>7

LEMMA StepIsPromised ==
  ASSUME ReportsInv, [Next]_vars
  PROVE  [Promise!Next]_(Promise!vars)
<1>0. LedgerInv /\ ReadInv
  BY DEF ReportsInv
<1>1. custodies' = custodies => SignedSnapshots' = SignedSnapshots
  BY DEF SignedSnapshots
<1>2. CASE Transact
  <2>1. now' = now /\ custodies' = custodies
    BY <1>2 DEF Transact, readVars
  <2>2. PICK state : ledger' = Append(ledger, state) /\ state.time = now
    <3>1. "time" \in DOMAIN ledger[End]
      <4>1. ledger[End] \in States
        BY <1>0 DEF LedgerInv, End
      <4> QED BY <4>1 DEF States
    <3>2. ASSUME NEW c, ledger' = Append(ledger, [ledger[End] EXCEPT !.held = Toggle(@, c), !.time = now])
          PROVE  \E state : ledger' = Append(ledger, state) /\ state.time = now
      <4>1. [ledger[End] EXCEPT !.held = Toggle(@, c), !.time = now].time = now
        BY <3>1
      <4> QED BY <3>2, <4>1
    <3>3. ASSUME NEW a, NEW amount,
                 ledger' = Append(ledger, [ledger[End] EXCEPT !.owed[a] = amount, !.time = now])
          PROVE  \E state : ledger' = Append(ledger, state) /\ state.time = now
      <4>1. [ledger[End] EXCEPT !.owed[a] = amount, !.time = now].time = now
        BY <3>1
      <4> QED BY <3>3, <4>1
    <3> QED BY <1>2, <3>2, <3>3 DEF Transact
  <2>3. ledger'[Len(ledger')] = state
    BY <1>0, <2>2 DEF LedgerInv, End
  <2> QED BY <1>1, <2>1, <2>2, <2>3 DEF Promise!Next, Promise!Move
<1>3. CASE Pass
  <2>1. UNCHANGED <<ledger, custodies>> /\ now' > now
    BY <1>0, <1>3, StepAssumption DEF Pass, readVars, LedgerInv
  <2> QED BY <1>1, <2>1 DEF Promise!Next, Promise!Wait
<1>4. ASSUME UNCHANGED <<ledger, now, custodies>> PROVE UNCHANGED Promise!vars
  BY <1>1, <1>4 DEF Promise!vars
<1>5. CASE Attest
  <2> DEFINE meta == Metadata("coverage.custody", "custodian", Zulu(read.at), read.offset)
  <2>1. read.pc = "rows" /\ UNCHANGED <<ledger, now>>
    BY <1>5 DEF Attest, ledgerVars
  <2>2. PICK snapshotOffset :
          IF Attestable(read.rows, meta, snapshotOffset)
          THEN custodies' = custodies \cup {CustodyReport(read.rows, meta)}
          ELSE custodies' = custodies
    BY <1>5 DEF Attest
  <2>3. CASE Attestable(read.rows, meta, snapshotOffset)
    <3>1. PICK c, o, at : c = CustodyReport(read.rows, meta) /\ IsCustody(c, o, at)
      BY <2>1, <2>3, AttestedIsCustody
    <3>2. custodies' = custodies \cup {c}
      BY <2>2, <2>3, <3>1
    <3>3. SignedSnapshots = {SnapshotOf(d) : d \in custodies}
      BY DEF SignedSnapshots, SnapshotOf
    <3>4. SignedSnapshots' = {SnapshotOf(d) : d \in custodies'}
      BY DEF SignedSnapshots, SnapshotOf
    <3>5. SignedSnapshots' = SignedSnapshots \cup {SnapshotOf(c)}
      BY <3>2, <3>3, <3>4
    <3>6. /\ SnapshotOf(c) = Promise!Snapshot(o, at)
          /\ SnapshotOf(c).offset = o /\ SnapshotOf(c).time = at
          /\ SnapshotOf(c).count > 0
          /\ Promise!WasState(o, at)
      BY <1>0, <3>1, CustodyIsSnapshot
    <3> HIDE DEF SnapshotOf
    <3>7. Promise!SignSnapshot
      BY <2>1, <3>5, <3>6 DEF Promise!SignSnapshot
    <3> QED BY <3>7 DEF Promise!Next
  <2>4. CASE ~Attestable(read.rows, meta, snapshotOffset)
    BY <1>4, <2>1, <2>2, <2>4
  <2> QED BY <2>3, <2>4
<1>6. CASE ~(Transact \/ Pass \/ Attest)
  <2>1. UNCHANGED <<ledger, now, custodies>>
    BY <1>6 DEF Next, vars, ledgerVars, readVars, StartRead, EndArrives, RowsArrive, CallFails,
                TimeOut, PublishBook, Audit, AuditFails
  <2> QED BY <1>4, <2>1
<1> QED BY <1>2, <1>3, <1>5, <1>6

\* Whatever the ledger did between the two calls, in whatever order the rows
\* came, whichever was repeated and however often the read failed: a custody
\* report totals exactly the contracts held at the offset it declares, each
\* once, that was the state at the time it declares, and reports are only ever
\* added (lib.rs:244-271, build.rs:16-59).
THEOREM CustodyIsAtomic == Spec => ImplementsAtomicCustody
<1>1. Init => ReportsInv
  BY ReportsStart
<1>2. ReportsInv /\ [Next]_vars => ReportsInv'
  BY ReportsStep
<1>3. Init => Promise!Init
  BY DEF Init, Promise!Init, SignedSnapshots
<1>4. ReportsInv /\ [Next]_vars => [Promise!Next]_(Promise!vars)
  BY StepIsPromised
<1> QED BY <1>1, <1>2, <1>3, <1>4, PTL DEF Spec, ImplementsAtomicCustody, Promise!Spec
=============================================================================
