--------------------------- MODULE CustodyCoverage ---------------------------
(***************************************************************************)
(* Coverage of what is owed by what is held, from the ledger to the exit   *)
(* code: rust/reserve-attest reads the active contracts of a participant   *)
(* and commits them as a custody report, the venue publishes what it owes, *)
(* and an auditor runs the coverage verb on two reports and the statement  *)
(* that pairs them (rust/solvency-report/src/coverage.rs, rust/solvency-   *)
(* cli/src/coverage.rs, SPEC 11, 18.4).                                    *)
(*                                                                         *)
(* The ledger moves at any moment, the participant refuses, hangs or       *)
(* repeats a row, and whoever hands over the documents picks them freely   *)
(* and may edit one.                                                       *)
(***************************************************************************)
EXTENDS ReportChecks, Functions

CONSTANTS
  Worth,          \* what each contract holds: contract -> [asset, amount]
  Owes,           \* the largest amount owed of an asset
  Opening,        \* the ledger's first state
  Step, MaxTime,  \* seconds that pass at a time, and at most
  MaxMoves,       \* transactions on the ledger
  MaxReads,       \* times holdings are read
  MaxBooks        \* liabilities reports

VARIABLES
  ledger,     \* its states, in the order of their offsets: [held, owed, time]
  now,
  read,       \* the reader: [pc, offset, at, rows]
  reads,      \* times it was started
  custodies,  \* custody reports signed
  books,      \* liabilities reports signed
  verdict     \* the auditor's last run, or None

vars == <<ledger, now, read, reads, custodies, books, verdict>>

ledgerVars == <<ledger, now>>
readVars   == <<read, reads, custodies>>

Contracts  == DOMAIN Worth
OwedAssets == DOMAIN Opening.owed
HeldAssets == {Worth[c].asset : c \in Contracts}

\* Contracts are ordered by their ids; amounts are u128s; Assets has the keys
\* under which a report of either side states an asset.
ASSUME LedgerAssumption ==
  /\ IsFiniteSet(Contracts) /\ Contracts \subseteq Nat
  /\ \A c \in Contracts : Worth[c].amount \in 0..MaxAmount
  /\ \A a \in HeldAssets : <<"held", a>> \in Assets
  /\ \A a \in OwedAssets : <<"", a>> \in Assets
  /\ Owes \in 0..MaxAmount
  /\ Opening.held \subseteq Contracts /\ Opening.time \in Int
  /\ Opening.owed \in [OwedAssets -> 0..MaxAmount]
  /\ Opening = [held |-> Opening.held, owed |-> Opening.owed, time |-> Opening.time]

ASSUME StepAssumption == Step \in Nat \ {0}

End == Len(ledger)

-----------------------------------------------------------------------------
(***************************************************************************)
(* The ledger, the participant and the passing of time.                    *)
(***************************************************************************)
Toggle(held, c) == IF c \in held THEN held \ {c} ELSE held \cup {c}

\* A position is opened or closed, or what is owed of an asset changes.
Transact ==
  /\ End <= MaxMoves
  /\ \/ \E c \in Contracts :
          ledger' = Append(ledger, [ledger[End] EXCEPT !.held = Toggle(@, c), !.time = now])
     \/ \E a \in OwedAssets, amount \in 0..Owes :
          /\ amount \in {ledger[End].owed[a] - 1, ledger[End].owed[a] + 1}
          /\ ledger' = Append(ledger, [ledger[End] EXCEPT !.owed[a] = amount, !.time = now])
  /\ UNCHANGED <<now, readVars, books, verdict>>

Pass ==
  /\ now + Step <= MaxTime
  /\ now' = now + Step
  /\ UNCHANGED <<ledger, readVars, books, verdict>>

-----------------------------------------------------------------------------
(***************************************************************************)
(* read_holdings over CurlTransport: two calls, each of which may fail.    *)
(***************************************************************************)
Reader(pc) == [pc |-> pc, offset |-> 0, at |-> 0, rows |-> << >>]

Reading == read.pc \in {"end", "query"}

StartRead ==
  /\ read.pc \in {"idle", "failed"}
  /\ reads < MaxReads
  /\ read' = Reader("end")
  /\ reads' = reads + 1
  /\ UNCHANGED <<ledgerVars, custodies, books, verdict>>

\* GET /state/ledger-end, parse_ledger_end.
EndArrives ==
  /\ read.pc = "end"
  /\ read' = [read EXCEPT !.pc = "query", !.offset = End, !.at = now]
  /\ UNCHANGED <<ledgerVars, reads, custodies, books, verdict>>

\* Mutant of ActiveAt: the query names no offset and is answered as of now.
ActiveNow(offset) == ledger[End].held

\* The snapshot active_contracts_request asks for: what is held at that offset.
ActiveAt(offset) == ledger[offset].held

\* A set's members, in any order.
Orders(held) == Bijection(1..Cardinality(held), held)

\* POST /state/active-contracts.  Rows come in any order, and a participant
\* may repeat one.
RowsArrive ==
  /\ read.pc = "query"
  /\ \E rows \in Orders(ActiveAt(read.offset)) :
       \/ read' = [read EXCEPT !.pc = "rows", !.rows = rows]
       \/ rows # << >> /\ read' = [read EXCEPT !.pc = "rows", !.rows = Append(rows, Head(rows))]
  /\ UNCHANGED <<ledgerVars, reads, custodies, books, verdict>>

\* The participant refuses, for instance because it has pruned the offset.
CallFails ==
  /\ Reading
  /\ read' = Reader("failed")
  /\ UNCHANGED <<ledgerVars, reads, custodies, books, verdict>>

\* Mutant of Patience: curl is not told to give up.
Endless(pc) == pc = "never"

\* --max-time: a call that hangs is given up, whichever of the two it is.
Patience(pc) == pc \in {"end", "query"}

TimeOut ==
  /\ Patience(read.pc)
  /\ read' = Reader("failed")
  /\ UNCHANGED <<ledgerVars, reads, custodies, books, verdict>>

-----------------------------------------------------------------------------
(***************************************************************************)
(* parse_holdings and build_custody_report.                                *)
(***************************************************************************)
\* Mutant of InOrder: rows stay as they came.
AsReturned(rows) == rows

\* parse_holdings refuses a contract that appears twice.
Parsed(rows) == IsInjective(rows)

\* Leaves in the order of contract ids.
InOrder(rows) ==
  CHOOSE sorted \in Bijection(DOMAIN rows, Range(rows)) :
    \A i, j \in DOMAIN rows : i < j => sorted[i] < sorted[j]

Positions(rows) ==
  [i \in DOMAIN rows |->
     [subject |-> rows[i],
      maps |-> Keyed("held", [a \in {Worth[rows[i]].asset} |-> Worth[rows[i]].amount])]]

CustodyReport(rows, meta) == PublishV2(Positions(InOrder(rows)), meta, "custodian").signed

\* Everything it takes for a report to be signed: rows that parse, a position,
\* the offset of the liabilities snapshot, no overflow.
Attestable(rows, meta, snapshotOffset) ==
  /\ Parsed(rows)
  /\ rows # << >>
  /\ meta.offset = snapshotOffset
  /\ Publishable(LeavesV2(Positions(InOrder(rows))))

\* The operator commits the rows under the offset and the time of the read,
\* and names the snapshot they are meant for: that of a liabilities report, or
\* the read itself.
Attest ==
  /\ read.pc = "rows"
  /\ LET meta == Metadata("coverage.custody", "custodian", Zulu(read.at), read.offset)
     IN \E snapshotOffset \in {read.offset} \cup {b.report.meta.offset : b \in books} :
          IF Attestable(read.rows, meta, snapshotOffset)
          THEN /\ custodies' = custodies \cup {CustodyReport(read.rows, meta)}
               /\ read' = Reader("idle")
          ELSE /\ custodies' = custodies
               /\ read' = Reader("failed")
  /\ UNCHANGED <<ledgerVars, reads, books, verdict>>

-----------------------------------------------------------------------------
(***************************************************************************)
(* The venue's side: publish over what it owes now.                        *)
(***************************************************************************)
Book ==
  LET owed == ledger[End].owed
      user == [user |-> "customer", balances |-> Keyed("", [a \in {b \in OwedAssets : owed[b] > 0} |-> owed[a]])]
  IN Publish(<<user>>, Metadata("solvency.liabilities", "venue", Zulu(now), End), "venue").signed

PublishBook ==
  /\ Cardinality(books) < MaxBooks
  /\ books' = books \cup {Book}
  /\ UNCHANGED <<ledgerVars, readVars, verdict>>

-----------------------------------------------------------------------------
(***************************************************************************)
(* The coverage verb, over documents that somebody hands the auditor.      *)
(***************************************************************************)
\* A report edited after it was signed: its time, a total, its kind.
Edited(signed, total) ==
  {[signed EXCEPT !.report.meta.time = b.report.meta.time] : b \in books}
    \cup {[signed EXCEPT !.report.meta.profile = "coverage.custody"],
          [signed EXCEPT !.report.sums = [key \in DOMAIN @ |-> total]]}

\* Reports of either kind and any day, as they were signed, or one of them
\* edited: more is held, or nothing is owed.
Handed ==
  LET signed == custodies \cup books IN
  (signed \X signed)
    \cup ((UNION {Edited(s, MaxAmount) : s \in signed}) \X books)
    \cup (custodies \X (UNION {Edited(b, 0) : b \in books}))

Answer(custody, liabilities, paired, maxSkew) ==
  Outcome(VerifyCoverage(custody, liabilities, paired, "custodian", "venue", maxSkew), {})

\* run_coverage and exit_code: 1 for a refusal and for a shortfall alike.
ExitOf(custody, liabilities, paired, maxSkew) ==
  IF /\ Answer(custody, liabilities, paired, maxSkew) = "ok"
     /\ Outcome(FullyCovered(custody, liabilities), {}) = "ok"
  THEN 0 ELSE 1

Refused == [exit |-> 1]
Passed(custody, liabilities, maxSkew) ==
  [exit |-> 0, custody |-> custody, liabilities |-> liabilities, maxSkew |-> maxSkew]

\* No document is ever withdrawn, so it is enough to audit once there will be no
\* more of them.
AllPublished ==
  /\ reads = MaxReads /\ read.pc \in {"idle", "failed"}
  /\ Cardinality(books) = MaxBooks
  /\ End = MaxMoves + 1 /\ now = MaxTime

\* What a run can answer, with a statement that names the two reports, or two
\* that were published.
Verdicts ==
  LET statements == {CoverageStatement(c, b) : c \in custodies, b \in books}
      Run(pair, maxSkew) ==
        IF \E paired \in {CoverageStatement(pair[1], pair[2])} \cup statements :
             ExitOf(pair[1], pair[2], paired, maxSkew) = 0
        THEN Passed(pair[1], pair[2], maxSkew) ELSE Refused
  IN {Run(pair, maxSkew) : pair \in Handed, maxSkew \in {ExactSkew, SameRun}}

Audit ==
  /\ verdict = None /\ AllPublished
  /\ verdict' \in Verdicts
  /\ UNCHANGED <<ledgerVars, readVars, books>>

\* A document that cannot be read.
AuditFails ==
  /\ verdict = None /\ AllPublished
  /\ verdict' = [exit |-> 2]
  /\ UNCHANGED <<ledgerVars, readVars, books>>

-----------------------------------------------------------------------------
Init ==
  /\ ledger = <<Opening>>
  /\ now = Opening.time
  /\ read = Reader("idle")
  /\ reads = 0
  /\ custodies = {} /\ books = {}
  /\ verdict = None

Next ==
  \/ Transact \/ Pass
  \/ StartRead \/ EndArrives \/ RowsArrive \/ CallFails \/ TimeOut \/ Attest
  \/ PublishBook \/ Audit \/ AuditFails

\* curl gives up in time, whatever the participant does.
Spec == Init /\ [][Next]_vars /\ WF_read(TimeOut)

-----------------------------------------------------------------------------
(***************************************************************************)
(* Properties.                                                             *)
(***************************************************************************)
\* totals, of the contracts held at an offset.
HeldAt(offset, a) ==
  SumFunction([c \in ledger[offset].held |->
                 IF Worth[c].asset = a THEN Worth[c].amount ELSE 0])

\* The state at an offset was the state at a time.
IsAsOf(offset, time) ==
  /\ ledger[offset].time <= Instant(time)
  /\ offset < End => Instant(time) <= ledger[offset + 1].time

\* What is signed, as the promise counts it.
SignedSnapshots ==
  {[offset |-> c.report.meta.offset, time |-> Instant(c.report.meta.time),
    count |-> c.report.count,
    totals |-> [a \in HeldAssets |-> At(c.report.sums, <<"held", a>>)]] : c \in custodies}

Promise == INSTANCE AtomicCustody WITH reports <- SignedSnapshots

\* Whatever the ledger did between the two calls, in whatever order the rows
\* came, whichever was repeated and however often the read failed: a custody
\* report totals exactly the contracts held at the offset it declares, each
\* once, that was the state at the time it declares, and reports are only ever
\* added (lib.rs:244-271, build.rs:16-59).
ImplementsAtomicCustody == Promise!Spec

\* Two honest reads of one snapshot commit to one root, though the rows came in
\* another order (build.rs:38-41).
SameSnapshotSameRoot ==
  \A c, d \in custodies :
    c.report.meta.offset = d.report.meta.offset => c.report.root = d.report.root

\* Exit code 0 is about the ledger: what the two parties really held and owed,
\* of every asset that was owed, at two moments no further apart than the
\* auditor allows, whoever picked the reports, edited one or paired them
\* (coverage.rs:67-160).
AcceptedCoverageIsOfTheLedger ==
  verdict # None /\ verdict.exit = 0 =>
    LET o == verdict.custody.report.meta.offset
        p == verdict.liabilities.report.meta.offset
        s == verdict.custody.report.meta.time
        t == verdict.liabilities.report.meta.time
    IN /\ IsAsOf(o, s) /\ IsAsOf(p, t)
       /\ Abs(Instant(s) - Instant(t)) <= verdict.maxSkew
       /\ \A a \in OwedAssets : HeldAt(o, a) >= ledger[p].owed[a]

\* Two reports of one offset, taken in one run, of a venue that holds what it
\* owes: the auditor is not told otherwise.
HonestCoverageAccepted ==
  \A c \in custodies, b \in books :
    LET o == c.report.meta.offset IN
    /\ b.report.meta.offset = o
    /\ Abs(Instant(c.report.meta.time) - Instant(b.report.meta.time)) <= SameRun
    /\ \A a \in OwedAssets : HeldAt(o, a) >= ledger[o].owed[a]
    => ExitOf(c, b, CoverageStatement(c, b), SameRun) = 0

\* A read that was started comes to an end, even if the participant never
\* answers the first call or the second (curl.rs:46-50).
ReadReturns == Reading ~> ~Reading
=============================================================================
