# Formal model of the Canton Assurance Layer

TLA+ modules, TLC configurations and TLAPS proofs about the Rust crates of this
repository (`src/rust/solvency-merkle`, `src/rust/solvency-report`,
`src/rust/solvency-cli`, `src/rust/reserve-attest`):

* the Merkle sum tree and what a customer's check of it establishes;
* the chain from a customer to a group's total;
* the history of report anchors and what `verify_chain` establishes;
* the delivery of a report to an auditor while it is being written, rewritten or
  interfered with;
* the reading of holdings from a ledger that moves, and the coverage of what is owed by
  what is held;
* what a reader may believe about the figures of a venue's reports day by day:
  disclosure manifests, anchors, attestations, provenance, assurance levels;
* every check a verifier makes, in its order, and what the conformance corpus and a
  compatibility statement say about an implementation of them.

To run one instance, and to check one module's proofs:

    tlc -workers 2 -config MCAnchorHistory.cfg MCAnchorHistory
    tlapm AnchorHistoryProofs.tla

## 1. The system

A publisher (an exchange, a custodian) takes a snapshot of what it owes each
customer at a ledger offset, builds a Merkle sum tree over the balances, signs a
report with the root and the totals, writes one inclusion proof per customer, an
anchor that links the report to yesterday's, and a signed index of all the files.
Customers check their own proof. Auditors check a whole directory. Readers of the
ledger check the chain of anchors. Nothing is a long-running service: every part is
a library function over values, or a process that reads and writes files. What is
hard is therefore not scheduling inside a process but what the *parties* can do
between calls: die half-way, run twice, hand over a subset, change a file, give a
figure the library would not have computed.

### 1.1 Components, state, operations

| component | source | state | operations |
|---|---|---|---|
| Merkle sum tree | `solvency-merkle/src/lib.rs` | `SumTree::levels` | `build`, `prove`, `root`; leaf and node hashing |
| Report production | `solvency-report/src/produce.rs`, `sign.rs`, `digest.rs`, `document.rs` | none | `publish`, `publish_v2`, `publish_for_audiences` |
| Report verification | `solvency-report/src/verify.rs`, `profile.rs`, `instant.rs` | none (a fold) | `verify`, `verify_v2`, `verify_against_report`, `verify_with_anchor` |
| Anchor history | `solvency-report/src/anchor.rs`, `solvency-cli/src/anchors.rs` | the anchor files | `anchor_report`, `anchor_digest`, `verify_chain`, `verify_anchored_reports` |
| Publishing tool | `solvency-report/src/bin/publish.rs` | the output directory | one run: report, anchor, proofs, index |
| Evidence pack | `solvency-report/src/pack.rs`, `solvency-cli/src/pack.rs` | `pack.json` | `build_pack`, `verify_pack`, `run_pack` |
| verify verb | `solvency-cli/src/run.rs`, `main.rs` | none (a sweep) | `run(Verify)`, `is_sibling_document`, `Summary::all_passed` |
| Recompute verb | `solvency-cli/src/recompute.rs` | none | `run_recompute`: rebuild the tree from a dump of the leaves, compare root and totals |
| Group reports | `solvency-report/src/group.rs` | the group documents | `publish_group`, `verify_membership`, `verify_chain` |
| Coverage | `solvency-report/src/coverage.rs`, `solvency-cli/src/coverage.rs` | none | `verify_coverage` |
| Reserve attestation | `reserve-attest/src/{lib,build,curl}.rs` | a participant's ledger (external) | `read_holdings`: ledger end, then active contracts at it; `build_custody_report` |
| Assurance, provenance | `assurance.rs`, `provenance.rs` | none | `establish`, `verify_assurance`, `check_against_assurance` |
| Disclosure manifest | `manifest.rs`, `solvency-cli/src/diff.rs` | successive manifests | `diff`, `is_reduction` |
| On-ledger anchor | `daml/solvency-anchor/daml/SolvencyReportAnchor.daml` | ledger contracts | create, `Disclose`, Archive |
| Compatibility statements and corpus | `compat.rs`, `corpus_gen.rs`, `golden.rs`, `tests/statements.rs` | the corpus, `manifest.json`, a statement | `generate`, `run_case`, `build_statement`, `corpus_digest`, `defects` |
| TypeScript and Python verifiers | `ts/verifier`, `spec-audit` | none | the same checks, held to the same corpus |
| Arguments, output | `args.rs`, `output.rs` | none | parsing and rendering |

### 1.2 Interactions

* **Files.** The publishing tool writes a directory; `verify`, `verify-pack` and
  `anchors` read it, possibly at the same time, possibly after the tool died,
  possibly after a second run or somebody else wrote over it. No lock, no temporary
  name, no rename, nothing removed: `std::fs::write` in place, the index last.
* **Documents handed on.** Anchors, proofs and packs are documents anybody can
  copy, omit, reorder or edit. Reports and packs are signed; anchors are not, and
  rely on the digest their successor holds.
* **Digests.** A report pins its tree by the root hash, a proof pins a leaf by
  folding to it, an anchor pins its report and its predecessor, an index pins the
  bytes of every file.
* **Documents put together by a reader.** A coverage claim is two reports and a
  statement, an assured figure is a report, a statement and whatever evidence comes
  along, from whatever day. Nothing but the digests says that they belong together.
* **The corpus.** `corpus_gen` writes it from the fixtures of `golden`; implementations
  in three languages run it; a statement says what came of it; the corpus moves on.
* **The participant.** `reserve-attest` makes two HTTP calls (ledger end, then the
  contracts at that offset) to a ledger that moves and prunes meanwhile.

### 1.3 What is hard, and what correct means

| component | what is hard | what makes it correct |
|---|---|---|
| Sum tree | odd levels (`chunks(2)` in `build` against a sibling out of range in `prove`), the order of `checked_add`, what a hash binds | nothing is counted twice or dropped; an overflow is a real one; every proof of an honest publisher folds; a proof that folds bounds the totals and commits the customer's balances |
| Anchor history | suffixes, gaps, forks, edited documents, texts compared as strings | an accepted list is the whole past of its newest anchor, ordered throughout; two accepted lists part at most once; nothing honest is refused |
| Publishing tool, pack, verify | death between or inside writes, leftovers of earlier runs, overlapping runs, `build_pack` refusing after the files are written, a directory that changes while it is read, two readings of it | an index that holds means one run's whole output; a whole output is never refused; a pass means every proof was verified; a retry repairs |
| Group | documents that are each valid and do not belong together: another entity's membership, an older report, a restated position | a chain that holds leads to the customer's own book, and bounds the balance by the entity's total and that by the group's |
| Coverage, reserve | two snapshots paired after the fact; the ledger moves, the participant hangs, fails or repeats a row between two calls | a custody report is the ledger at one offset, taken whole; exit code 0 is about what was held and owed at the declared times; a read comes to an end |
| Recompute | the publisher chooses the dump | a matching dump, with every customer's check, fixes the totals |
| Profiles | unanimity is claimed of all leaves and each verifier sees one | no eligible leaf is counted in twice or left out |
| Assurance, provenance, manifest | replays onto other fields, reports, days, roles; reductions in two steps; two verbs that answer the same question in different ways | no level is granted without the evidence it names; no reduction goes unreported; honest evidence is enough |
| Compatibility, corpus | a case refused for the wrong reason; a feature claimed and skipped; a check no case decides; a corpus revised after the statement | a case that is decided is decided as it declares; an accepted statement is not overclaimed, and is about the corpus the reader holds |

## 2. The modules

| module | models | proofs |
|---|---|---|
| `AnchorHistory` | `anchor.rs`: `anchor_report`, `anchor_digest`, `verify_chain`; the `anchors` verb | `AnchorHistoryProofs` |
| `EvidenceDelivery` | `bin/publish.rs` from the first write on, `build_pack`, `verify_pack`, `verify-pack`, the sweep of `verify` | `EvidenceDeliveryProofs` |
| `SumNodes` | the nodes of the tree: leaf and inner hashes, checked addition, the order of siblings; and a whole `build`, `prove` and `fold` as functions, for who uses the tree as a library | `LibraryProofs` |
| `SumTree` | `SumTree::build`, `SumTree::prove` and `fold` loop by loop, `verify_against_report`, `run_recompute`, and `publish` as far as the root and the proofs; extends `SumNodes` | `SumTreeProofs` |
| `GroupChain` | `publish_group`, `verify_membership`, `verify_chain` of `group.rs`; extends `SumNodes` | `GroupChainProofs` |
| `Reports` | the documents and who makes them: `publish`, `publish_v2`, `publish_group`, `publish_for_audiences`, digests, signatures, manifests, the registry of profiles, instants, anchors, attestations, graphs, statements; extends `SumNodes` | |
| `ReportChecks` | every verifier: `verify`, `verify_v2`, `verify_membership`, `verify_chain` of groups and of anchors, `verify_coverage`, `verify_with_anchor`, `verify_provenance`, `establish`, `verify_assurance`, `verify_pack`; extends `Reports` | `LibraryProofs` |
| `AtomicCustody` | the promise of `reserve-attest`: a snapshot taken in one step | |
| `CustodyCoverage` | `reserve-attest` call by call, `build_custody_report`, the `coverage` verb; implements `AtomicCustody`; extends `ReportChecks` | `CustodyCoverageProofs` |
| `AssuredReports` | a venue's days: publications, anchors, attestations, graphs; the `assurance`, `provenance`, `manifest-diff` verbs and `verify_with_anchor`; extends `ReportChecks` | `AssuredReportsProofs` |
| `Golden`, `Corpus` | the fixtures of `golden.rs` and the cases of `corpus_gen.rs`, made by the operators of `Reports`; `run_case` over `ReportChecks` | |
| `Conformance` | `build_statement`, `corpus_digest`, `defects`, the statement tests, and implementations that know less or check less; extends `Corpus` | `ConformanceProofs` |
| `MCAnchorHistory`, `MCAnchorTexts`, `MCEvidenceDelivery`, `MCSumTree`, `MCGroupChain`, `MCCustodyCoverage`, `MCAssuredReports`, `MCConformance` | instances for TLC | |

Common to all: a hash or a digest is injective on what the code feeds it and on
nothing else, so it is modelled by the term it was computed from, and *which
fields the code feeds it* is part of the model; a valid signature can be made only
with the key. Every definition after a comment `Mutant of X` is a form of `X` with
a plausible bug, used to check that the properties notice; nothing else uses it.

### 2.1 AnchorHistory

`docs` is the sequence of all anchor documents ever written; a document is named by
its place in it, and `genuine` are the places the publishing tool wrote.
`AnchorReport` is `anchor_report`: every field comes from the report, `prev` is
whatever file the operator named (`--prev-anchor`, `publish.rs` 212): none, an old one,
an edited one, one of another publisher, and nothing is compared with it. A genuine
anchor can therefore stand on a past that the tool did not write. `EditedPastWasNamed`
says that this is the only way: in an accepted list under a genuine newest anchor, above
every document the tool did not write there is a place where the tool was handed one. `EditAnchor` is an edit of one field of any document, made
outside the tool: version, report, time, offset, publisher or predecessor, an
"empty" predecessor included, which the digest keeps apart from none by a presence
byte (`Preimage`). `Load` is a call of the `anchors` verb with any list of
documents in any order. `Advance`, `Accept` and `Reject` are one iteration of
`verify_chain`'s loop, with its five comparisons in the code's order (`Check`), and
`Report` ends the process. Two variables are history: `lineage`, the past a
document's digest commits to, recorded when it is written, and `accepted`, the
lists that passed.

Timestamps and offsets are compared as strings. `TimeRank` and `OffsetRank` are the
order of the texts, `Instant` and `Position` what they denote, so that a property
can be about the meaning while the code compares the text.

### 2.2 EvidenceDelivery

`dir` maps names to contents. A publishing process (`run[p]`) goes through
`OpenFile` (truncate: the content is `Torn`) and `FillFile` for the report, the
anchor, the proofs in any order (file names derive from salts) and `pack.json`;
`Pending` is the order of `main`. `RefusePack` is `build_pack` returning
`DuplicateEntry`, which happens after all the files are on disk. `Die` is a crash
or an I/O error at any moment. Nothing excludes a second process, and one that
fills a file another has filled since may leave a tail of the other's bytes, hence
the third disjunct of `FillFile`. `Drop`, `Swap` and `Reindex` are changes by
others who do not have the publisher's key; `PackByHand` is the key holder calling
`build_pack` over files of its choice. Runs and these together are bounded by
`MaxEvents`, these alone by `MaxOthers`.

The auditor runs `verify-pack` (`ReadIndex`, `ReadMember` file by file,
`MemberVanished`, then `IndexFails` or `IndexHolds` as `verify_pack` answers) and,
when the index holds, the content check, which reads everything again: `LoadReport`,
`SweepProof`, `SkipSibling`, `SweepFails`, `Conclude`. `StartVerify` is plain
`verify` over the same directory. The publisher, everybody else and the auditor
interleave at every file. History: `finished` (inputs whose index a run signed),
`byHand`, `still` (nothing changed since the audit began), `run[p].alone`.

### 2.3 SumTree

`Begin` chooses the customers' balances and the leaves; `Pair`, `PairOverflows`,
`Promote` and `PushLevel` are the iterations of `build`; `PublishRoot` puts the root in
the report. Then customers check one by one: `AskForProof` and `ProveStep` are
`prove`, `StartFold` computes the customer's own leaf, `FoldStep` and
`FoldOverflows` are `fold` with its own checked addition, `Compare` ends `verify`: hash
and totals separately (`verify_against_report`), and of the checks made before them the
one of the profile, which refuses a report whose totals name no asset (`CarriesTotals`). `PairMiscounted`, and the
wrong figures allowed in `Begin`, `PublishRoot` and `ProveStep`, are a publisher whose
own software gives other figures than the library would: wrong books, wrong inner
sums, wrong totals, wrong sibling sums. `faults` counts them. Properties of an
honest publisher are stated for `faults = 0`, properties a verifier relies on are
stated for any number. After the customers an auditor may `Recompute`: the publisher
dumps any of its customers in any selection that keeps their order, with any balances,
and `run_recompute` builds a tree of the dump and compares root and totals. It
verifies no signature, which plays no part in the model either.

`SumTree` takes the loops one iteration at a time because the agreement of `build` and
`prove` at odd levels is what could be wrong. `LoopsBuildTheTree` shows that they arrive
at what `SumNodes` defines in one go (`Built`, `Prove`), which is what lets `GroupChain`,
and `Recompute`, take a tree as one step.

### 2.4 GroupChain

`PublishEntity` is `publish` for one entity, with the books behind it; an entity may publish
again from other books. `PublishGroup` takes positions (`EntityInput`) from any of the
reports there are, an old one or the same one twice included, since nothing in
`publish_group` says otherwise, and one of them may be entered with wrong sums. `Ask` is
one call of `verify_chain`: a customer is shown a report of its entity, its own proof of
one, and the membership of any entity of the group; a sibling's sums in either proof and
the figures of the membership may be wrong. `VerifyChain` keeps the order of the code,
and `SameBook` is the comparison the code calls critical. The profiles of both reports
refuse totals that name no asset (`CarriesTotals`), so `HonestChainPasses` is about
entities that owe some asset; the instance has one that owes none. `Return` ends the call. The
inputs that no caller can make are left out: reports and groups are signed, and a report
that was altered afterwards fails its signature. The wrong figures are those a signer
could have signed or that nobody signs (memberships, proofs).

### 2.5 Reports and ReportChecks

`Reports` has one operator for each publisher and each kind of document. A digest is the
document as far as the code feeds it to the hash (a v1 digest leaves out the manifest), a
signature is what was signed and by whom, an amount is kept under the pair of its map and
its asset as in a v2 leaf. A snapshot time is an instant and the tail of its text.

`ReportChecks` writes a verifier as the *sequence of its checks*, each with a name, the
failure the code answers with, and whether it holds; `Outcome` is the failure of the first
that does not. That is all a verifier of this repository does: each is a straight line of
early returns. The order is therefore part of the model and what a document that breaks
two rules answers is determined. `omitted` is a set of checks that are not made: empty
for this repository's verifier, and a verifier with a bug otherwise (section 2.8). Where
the code goes through a list entry by entry, the order is kept between the checks of one
entry, not between two entries, which decides only which of two entries is named.

### 2.6 CustodyCoverage and AtomicCustody

`ledger` is the list of the participant's states, one per offset; `Transact` opens or
closes a position or changes what is owed, `Pass` lets time go by. The reader goes through
`StartRead`, `EndArrives` (`GET ledger-end`), `RowsArrive` (`POST active-contracts`: the
contracts held at the offset that was read, in any order, one of them perhaps twice) and
`Attest` (`parse_holdings`, `build_custody_report` and the signature). `CallFails` is a
refusal, for instance of an offset that was pruned, and `TimeOut` is curl's `--max-time`.
The caller dates the report to its read of the ledger end, and names the snapshot the
report is meant for. `PublishBook` is the venue's own publication, at any other moment.

`Audit` is a run of the `coverage` verb over any two reports, of any days, as they were
signed or one of them edited (another time, another profile, other totals), with the
statement that pairs them or another one. No document is ever withdrawn, so an audit
after the last of them sees everything an earlier one could.

`AtomicCustody` is what `reserve-attest` says of its output: each report is the state of
the ledger at one offset, and dated to a time when that was the state, in one step.
`Promise == INSTANCE AtomicCustody WITH reports <- SignedSnapshots` maps the signed
reports to snapshots, and the property `ImplementsAtomicCustody` is `Promise!Spec`: the
two calls, the failures and the retries are stutters, `Attest` is `SignSnapshot`.

### 2.7 AssuredReports

`PublishDay` publishes the venue's book, without a manifest, or once for each of several
audiences, and anchors the first packaging to the anchor of the day before. `Attest` is
anybody vouching for a field of today's report in a role of their choosing; `SignSources`
is the venue signing a graph, consistent or not. The reader is handed *any* of it:
documents of any day, and edited ones (`HandedReports`, `HandedProofs`,
`HandedAttestations`, `HandedAnchors`: another field or role, another report's digest, a
trusted key in the place of a stranger's, a figure declared withheld, an anchor with
another time). `Grade` is the `assurance` verb on one claim, `FollowAnchor` is
`verify_with_anchor`. The `provenance` and `manifest-diff` verbs are functions of what was
published (`GraphChecks`, `Diff`), so the properties about them need no action.

### 2.8 Golden, Corpus and Conformance

`Golden` makes the fixtures with the publishers of `Reports`, as `golden.rs` does with
those of the library; amounts are smaller and in the same order. `Corpus` lists all the
cases in the generator's order with the features they require, what they expect and the
failure they declare, and `ChecksOf` is `run_case`.

`Conformance` takes a list of cases as a constant (`Suite`; the run's are all of `Cases`) and
has one implementation of the format per behaviour: it knows a set of
features and refuses, as the version gate does, a document of a format it does not know;
it claims a set of features; it may fail to make some of the checks; and it reports as
`build_statement` does, or everything, or only what agrees with the corpus (`Reporting`).
`Build` runs the corpus and publishes the statement. `Revise` is the corpus moving on
afterwards: a case requires less, expects the opposite, or is dropped. `Defects` and
`AsExpected` are the reader.

## 3. Runs

| run | instance | shows |
|---|---|---|
| `history` | 3 documents, 3 times, 2 offsets, 2 publishers of whom one uses the tool, 2 versions, 1 edited document, lists of up to 3, 2 accepted lists | type invariant, five safety properties |
| `texts_profile` | four timestamp texts, one outside the profile | the SPEC's refusal of such a chain is not in the code |
| `delivery` | 2 processes, 3 books (two customers; one of them the next day; two customers whose proofs share a file name), 2 events among runs, changes by others and packs by hand, crashes anywhere | type invariant, four properties of packs and retries |
| `reread` | 1 process, 2 runs | `verify-pack` can verify files its index does not name |
| `vacuous` | 1 run that dies early | `verify` passes a directory with no proof in it |
| `lifted` | 1 run, 1 pack by hand | an index signed for another report passes |
| `tree` | 1 to 7 leaves, 2 assets, 3 balance maps, `MaxAmount` 6, up to 3 wrong figures in trees of 1 or 2 leaves, 2 in trees of 3, 1 in trees of 4; dumps of trees of up to 3 | type invariant, three properties of the library, two of the check, one of the auditor's |
| `group` | 2 entities, 2 reports, books of 1 or 2 customers or of one who is owed nothing, groups of 1 to 3 positions, 2 wrong figures | three properties of a chain |
| `understated` | 2 customers, 3 wrong figures | all customers pass against a total below what they are owed |
| `coverage` | 3 contracts in 2 assets of which 2 overflow together (`MaxAmount` 2), 2 moves of the ledger, 2 reads, 1 book, times 0, 200 and 400 | the refinement of `AtomicCustody`, `ReadReturns`, three properties of reports and audits |
| `assured` | 3 documents among days, attestations and graphs; 6 plans (two books of the same totals, prices shown, hidden, silent); 2 trusted attestors in different roles, 1 stranger; 3 graphs | nine properties of what a reader is told |
| `conformance` | all 12 features in every subset, claimed truly or in full, every single check and every two checks left out, two cases that may be revised | four properties of cases and statements |

`texts_profile`, `reread`, `vacuous`, `lifted` and `understated` are runs in which
TLC finds a sentence of the documentation violated; PROJECT.json quotes it under
`findings`. The other runs finish without error; the largest is `delivery` with 1.3
million states, the smallest `assured` with 23 thousand. A type invariant is checked of the three modules whose
state is built up piece by piece (`AnchorHistory`, `EvidenceDelivery`, `SumTree`).

**Why these bounds.**
*Anchors.* `verify_chain` compares neighbours and the properties relate any two
positions, so the smallest list with a pair that are not neighbours has 3
documents; a fork needs 3 (a common past and two continuations); one edit is enough
to try every field at every place. Two accepted lists is what `SharedAnchorSharedPast`
relates. For longer lists and more edits there are the proofs.
*Delivery.* One earlier run to leave files behind or to overlap, one later, or one run
and one change, or two changes; three books so that the later run has fewer customers,
the same names with other contents, or clashing names. `clash` is needed for
`RefusePack`. The two processes are interchangeable (no definition names one, and the
run checks no liveness), so the instance declares their permutations a symmetry; the
books and runs are not. For any number of events there is the proof.
*Tree.* 7 is the smallest number of leaves with an odd level at every height but
the root (7, 4, 2) and 5 and 6 have a node that is promoted twice or later; all of
1 to 7 are run. `MaxAmount` 6 lets seven balances of 1 overflow and six not, both
in `build` and, with wrong figures, in `fold`. Two wrong figures is the least that
can hide each other; three, in the smallest trees, is what it takes to publish too
little and have every customer pass (`understated`): the root's sums and both
siblings'. Those trees are also dumped, so that `RecomputedTotalsAreOwed` is checked on
the very publications that `understated` is about.
*Group.* Three positions make a group with an odd level; two reports are the same entity
twice or two entities; two wrong figures allow a restated position with totals to match.
*Coverage.* One move before the query and one after it are what it takes for an offset
to be neither the first state nor the last; two reads, for a retry and for two reports
of one snapshot; 200 s is within the allowance of one run (`SameRun`) and 400 s is not.
The opening state covers what is owed, one move makes a shortfall.
*Assured.* Three documents allow two days and one piece of evidence, one day and two, or
three days for a reduction in two steps. All nine properties are proved for any number.
*Conformance.* Nothing is sampled: the corpus is the whole one and the implementations
are all those of the kinds described in `MCConformance`. Two omissions are the least that
could hide each other; that more cannot either is proved.
`CHECK_DEADLOCK FALSE` stands where an instance comes to its end: no documents, customers
or moves left, an audit answered, a corpus revised. `EvidenceDelivery` never does, and
is checked for deadlock.

**Fairness.** `CustodyCoverage` has `WF_read(TimeOut)`: curl is started with
`--max-time` (`curl.rs` 41-52) and ends by itself, whatever the participant does; no
fairness is assumed of the participant, and `ReadReturns` holds though it may never
answer. No fairness is assumed of publishers, editors or readers. The other modules
state no liveness: a publishing run may die at any point, and what a retry promises is
the action property `CompletedRunDelivers`.

## 4. Proofs

The proof modules were written after TLC had agreed, and hold for every value of the
constants that satisfies the named assumptions. Every safety and action property that a
passing run checks is stated by a theorem, and the refinement of `AtomicCustody` with
them; the exceptions are at the end of this section.

| module | assumptions on constants |
|---|---|
| `LibraryProofs` | `MaxAmountAssumption`; of the verifiers, none |
| `SumTreeProofs` | and `ConstantsAssumption`: the bounds are numbers, balances and wrong figures are maps of amounts |
| `GroupChainProofs` | and `ConstantsAssumption`: books are non-empty lists of maps of amounts |
| `AnchorHistoryProofs` | `ConstantsAssumption`; two theorems a hypothesis about texts |
| `EvidenceDeliveryProofs` | `ConstantsAssumption`: there is a book, every book has a customer, no proof has the name of another kind of file; `NoFileAssumption` and `NoIndexAssumption`: the mark for "nothing" is neither a document nor an index |
| `CustodyCoverageProofs` | `LedgerAssumption`: finitely many contracts with ordered ids, amounts that fit, an opening state of the right kind (sums that fit are *not* assumed); `StepAssumption`: time goes forward |
| `AssuredReportsProofs` | `PlansAssumption`: a day's inputs and manifests are lists, and its metadata has its fields; `GraphsAssumption`: the sources of a graph are a list; `NoneAssumption`; one theorem a hypothesis about `None` |
| `ConformanceProofs` | `ImplementationsAssumption`: features are of the format, reporting is of the three kinds; `CorpusAssumption`, about the corpus (`Suite`), which TLC evaluates in full for the generator's `Cases` |

**LibraryProofs** is the library of the others; its first part is about `SumNodes`. A tree, a proof and a fold are recursive
functions over levels and steps, and what they compute is an induction. The induction
theorems of the standard library take an operator as a parameter, which the provers
cannot instantiate, so induction is stated of *sets* here: `LeastNumber` comes from the
well-founded order of finite sets, and from it a set that holds 0 and each successor holds
every number up to n (`UpTo`, `AllNumbers`), and a set of sets closed under adding one
element holds every part of a finite set (`AllParts`). With these the recursions are
unfolded (`FoldedIs`, `BuiltIs`, `AncestorIs`, `ProofToIs`, `SumChosen`), and then:

* `FoldIsCommitted`, `TreeIsClosed`, `FoldsToALeaf`: whatever steps a fold is given, if it
  ends in a tree's root it started from one of the tree's leaves, even if the root's sums
  are not its children's;
* `FoldsToBounds`: and within the totals it ends with, since checked addition of
  non-negative amounts never takes anything away (`AddedBounds`);
* `ProveFoldsToRoot`: the proof `prove` makes folds its leaf to the root, at odd levels
  too (`StepGoesUp`, `ProofFolds`);
* `SameRootSameLeaves`: two trees over as many leaves with one root hash are of the same
  leaves in the same places;
* sums over finite sets do not depend on the order in which they are taken (`SumPick`,
  `SumSame`, `SumMoved`), pairing preserves them (`SumPairs`), no asset is lost on the way
  up (`RootHasAssets`), and a finite set of numbers can be put in order (`CanBeSorted`).

**SumTreeProofs.** For any number of customers, assets, wrong figures and any integer
width. `IInv` is what holds whoever made the figures up: every sum in the tree and in a
proof is a map of amounts, nobody checks before publication, and the fold, which starts
from the customer's own balances (`FoldInv`), never goes below them. It gives `TreeIsTyped`
and `CheckBoundsTotals` (`PassedBoundsOwnBalance`). `ShapeInv` adds what hashes commit to:
each level stands over the one below it and is shorter (`LevelsInv`), what is published is
the hash of the root, and if the fold is in the tree so is the customer it started from
(`CommitInv`); hence `CheckCommits` (`PassedIsCommitted`). `HonestInv` follows a publisher
without wrong figures: each level is `Up` of the one below, the level being built is the
beginning of it (`RightInv`), and the proof and the fold so far are the first steps of
`ProofTo` and `Folded` (`ProvingInv`). It gives `RightProofsCheck` (`EveryCustomerPasses`,
where somebody has to be owed an asset: a report without totals is refused before any proof
is looked at, and `RootHasAssets` says that one account with an asset gives the root one),
`LoopsCompute` (`LoopsBuildTheTree`) and `LevelsTotalTheLeaves` (`EveryLevelTotalsTheLeaves`,
where the overflow refused is shown to be a real one). `RecomputedIsOwed`
(`RecomputedTotalsAreOwed`) puts both together: the dump is a tree with the published root,
so it has the leaves the customers' checks committed to, and its totals are theirs.
That the totals cover all customers does *not* follow from their checks alone: that is
what `understated` refutes.

**GroupChainProofs.** `IInv` says that a signed report commits to its entity's books
whatever totals it states, a group to positions that entities signed, and that the answer
is `VerifyChain` of what is asked. `ChainBounds` (`PassedChainBounds`) and
`ChainIsCommitted` (`PassedChainIsCommitted`) follow from the lemmas on folds, one tree
after the other, and `SameBook` is what joins them; `HonestChains` (`HonestChainPasses`)
from `ProveFoldsToRoot`, twice, and `RootHasAssets`.

**AnchorHistoryProofs.** `IInv == HistoryInv /\ WalkInv`. `HistoryInv` relates the
documents to `lineage`: no two documents are equal, a predecessor is older than its
successor, a lineage is its predecessor's lineage plus the document itself, and closed
under predecessors. `WalkInv` says of the list being walked
that the part already passed *is* a lineage, ordered and one publisher's, and the
same of every accepted list. Neither is implied by the properties: `verify_chain`
keeps nothing but an index, and what it has established about the prefix has to be
carried along. From `IInv`:

* `TypeCorrect`: `Spec => []TypeOK`;
* `AcceptedWhole`: `Spec => []AcceptedIsWholeHistory`;
* `SharedPast`: `Spec => []SharedAnchorSharedPast`;
* `EditedPastNamed`: `Spec => []EditedPastWasNamed`, whatever the tool is handed. Above a
  document that is not the tool's there is a last one that is not (`LastPlace`); the next
  is the tool's, and in a lineage each document names the one before it (`LineageLinks`);
* `AcceptedOrdered`: `Spec => []AcceptedIsOrdered` under the explicit hypothesis
  `TextOrderFaithful`, that a text which sorts later (not earlier) denotes a later
  (not earlier) instant (position). The hypothesis is needed: for texts outside the
  profile, for a fraction that sorts before the second it extends, and for offsets of
  different widths (`reserve-attest` puts unpadded numbers in) it is false, and
  the ordering promised in SPEC 12.1 fails with it. `texts_profile` shows one such case;
* `HonestAccepted`: `Spec => []HonestHistoryNotRejected` under the converse,
  `TextOrderComplete`: what denotes something later sorts later. Without it an honest
  history would be refused for its texts. The invariant is `RefusalIsJust`: a list that was
  refused is no honest history, and does not become one when documents are written
  (`HonestBefore`); each of the five comparisons is shown to hold of an honest history at
  every place (`HonestPasses`), where the links are read off `lineage` (`LineageLinks`).

**EvidenceDeliveryProofs.** `DeliveryIsOneRuns`: `Spec => []AcceptedDeliveryIsOneRuns`,
for any set of processes, customers and inputs and any number of runs, changes, packs by
hand and crashes; of the constants it uses `ConstantsAssumption` only.
The property speaks of the moment of acceptance, when the directory may have changed ten
times since the index was signed, so the invariant follows the *signature* instead of
the files:

* `RunInv`: what a process has written is of its own input's output, the report and the
  anchor first; an index it has open is of all of it, which is where `build_pack`'s
  refusal of duplicate names is needed (`EntriesAreWritten`); and that input is already
  in `finished`;
* `IndexInv`: no index on disk, and none the auditor has read, carries the publisher's
  signature over anything but a `Pinned` set: the output of a finished run or a set the
  key holder packed;
* `PairsInv`: a pinned set is a set of names with contents, so that equality of entries
  is equality of files (`HoldsOverRead`).

Steps that write a file other than an index keep `IndexInv` whatever they write
(`PutPinned`, `TornIsNoIndex`); steps that enlarge `Pinned` keep it because it only grows
(`StillOver`). At `IndexHolds`, no failures means that what was read and what is pinned
are the same set.

`RetryDelivers`: `Spec => CompletedRunDelivers`, the action property about a run nobody
interferes with, by `AloneInv`. While a run is undisturbed no other process is running
and nobody has changed the directory, so what it last wrote under each name is on disk
and the file it has open is there, torn; filling that file in therefore leaves the whole
of it. The index comes last and no two entries share a name (`EndsWithIndex`), so at that
step everything it is over is on disk. The files dead runs left behind need no case of
their own: each of them is either overwritten or not named by the index. Here
`NoFileAssumption` is used too.

`DirectoryIsTyped` is the type invariant. `WholeDeliveriesPass`
(`CompleteDeliveryPasses`) and `PassedSweeps` (`PassedSawEveryProof`) are about audits
during which nothing changes, by `StillInv`: while the directory is still, what the auditor
has read of the index and of the files is what is there (`ReadInv`), the sweep has verified
exactly the proofs it has passed (`SweepInv`), and where the auditor is says how much of the
two is complete (`PhaseInv`). Both need that the two readings agree, which is what fails in
`reread`.

The second part of **LibraryProofs** is about `ReportChecks`. A verifier is a list of checks,
and what its "ok" means is proved once: the list has a first failing check unless all hold (`FirstExists`, `OkMeansAllHold`,
`AllHoldMeansOk`), and lists may be read part by part (`OneAfterAnother`). So an accepted
proof carries a good signature and folds to the report's root (`VerifiedIsSigned`,
`FollowedIsSigned`); an accepted coverage statement pairs the two reports it names; and in
the other direction a proof passes that is of a report whose manifest says what it carries,
is of customers, is signed and folds (`GoodProofPasses`).

**CustodyCoverageProofs.** `ReportsInv` says that the ledger only grows, that a read that
has an offset has one that was the state when it was asked for, its rows what was held then
(`ReadInv`), and that each custody report and each book is the one made of the state at some
offset and dated to when that was the state. From it `SnapshotsHaveOneRoot`
(`SameSnapshotSameRoot`: `InOrder` is a function of the contracts held, whatever the order
and the repetition of rows) and `HonestCoverage` (`HonestCoverageAccepted`).
`CoverageIsOfTheLedger` (`AcceptedCoverageIsOfTheLedger`) adds `VerdictInv`: exit code 0 was
about two reports that were signed and say what was shown, because an edit leaves the
signature behind.
`CustodyIsAtomic`: `Spec => ImplementsAtomicCustody`. Initial states map to initial states;
a report is a snapshot as the promise takes it (`CustodyIsSnapshot`: its totals per asset are
sums over the contracts held, its count their number); and each step is a step of the promise
or a stutter (`StepIsPromised`): `Attest` is `SignSnapshot`, a move of the ledger or of time
is the promise's own, calls, failures, retries and audits are stutters.

**AssuredReportsProofs.** `ReductionsReported`: `Spec => []ReductionsAreReported`, for
any number of days, audiences, fields and manifests. The property is inductive over the
last day, given only that days are a list that is appended to (`IsList`): what an
audience was told on a day does not change (`PastIsKept`), and a field published on one
day and not on the next is a reduction in the diff of the two, whether it was changed or
is no longer mentioned (`LossIsAReduction`, which needs `NoneAssumption`: no disclosure
state is confused with the absence of one). If the field was lost on the last day that
day's diff lists it, otherwise an earlier one did.

The others are about what a reader accepts, whatever documents are moved and altered:

* `NoEditIsAccepted`: `Spec => []AcceptedReportIsTheVenues`. With `PublishedInv`, every
  published report is signed over its digest: an edit leaves the signature alone, so the
  edited report has the digest of the original, and a digest fixes everything but a v1
  manifest (`DigestFixesReport`);
* `AttestedLevels`: `Spec => []AttestedWasVouchedFor`. With `AttestationsInv`, each
  attestation is signed over its own words by the key it names, so one that was moved to
  another report, field, role or key counts only if nothing changed (`CountedWasSigned`);
* `DerivedLevels`: `Spec => []DerivedIsAnchoredThatDay`. With `AnchorsInv`, the day's
  anchor says of ledger and tree what *every* packaging of that day says, though it was
  made from the first; `AnchorsReport` compares the shown anchor with the report, and by
  the argument above the report is the venue's in those fields;
* `AnchoredIsPublished`, `OneBook` and `CommittedLevels` (`AnchoredIsWhatWasPublished`,
  `PackagingsCommitToOneBook`, `VerifiedIsCommitted`). With `DaysInv`, every report of a
  day is what `publish` makes of that day's book and of metadata with that day's offset, and
  the anchor has the first one's digest. A digest covers the offset, so no two days share
  one (`DaysApart`); two books with one root and one count are one book
  (`OneCommitmentOneBook`); and a proof that was moved and renamed still folds only from a
  customer of the book (`HandedSteps`, `FoldsToACustomer`);
* `GraphsAgree`: `Spec => []GraphAnswersAgree`. `UniqueIds` among the checks makes "the last
  source with this id" the source with this id (`OneSourcePerId`, `GraphSays`);
* `HonestClaims`: `Spec => []HonestClaimIsAccepted`, the other direction, under the
  hypothesis that `None` has no version, that is, is no document. A truthful manifest fits
  the report (`TruthfulFits`), so a customer's proof passes `verify` (`HonestProofPasses`
  from `GoodProofPasses`, `ProveFoldsToRoot` and `RootHasAssets`); what the attestors and
  the venue signed vouches and derives (`TrustedVouches`, `AnchorSaysDay`, `GraphSays`); and
  what establishes a level is accepted (`EstablishedBy`, `EstablishedIsAccepted`).

**ConformanceProofs.** What can only be found by running the corpus is `CorpusAssumption`:
this verifier answers each case as the case declares, each case asks for all that it takes to
read it, every feature is needed by some case that must be accepted, and every check of
`Exposed` has a case that is accepted without it. TLC evaluates it case by case (it is what
the generator's own tests see to). What statements say is proved from it, for any corpus like
that, any number of implementations and any sets of features and of omitted checks. `IInv`: until
there is a statement the cases are the corpus, and then it is the one this implementation makes
of the corpus (`StatementOf`), whatever becomes of the cases; its digest tells them apart.

* `ReportedRead` (`ReportedIsRead`) and `OverclaimsNoticed` (`OverclaimIsNoticed`): in a
  statement without defects what is claimed is reported and nothing else (`ClaimedAreReported`),
  and what must be accepted was accepted (`AcceptedAreExpected`), so a feature that is claimed
  and not known fails a case that needs it (`NothingOverclaimed`);
* `DecidedAsExpected` (`DecidedAsDeclared`): hence such an implementation reads whatever it
  reports, and its answers are this verifier's;
* `OmissionsNoticed` (`OmissionIsNoticed`): there is a case that must be refused and is
  accepted without the one check, and what is accepted with few omissions is accepted with
  more (`OmittingMore`, from `AsksNoMore` for every kind of case). No failure is called "ok"
  in any verifier (`SharedParts` to `PackIsChecks`), so a list passes exactly if nothing in
  it fails. But `OmittingMore` is false as it stands: a verifier that asks neither whether a
  figure was declared withheld nor whether the report shows it counts *every* figure as
  withheld, grants it no other level, and so refuses more than it did. Such a one is found
  out from the other side, by an assurance case that must be accepted (`OnlyBothWithdraw`,
  `WithdrawingIsNoticed`, `UnsupportedFails`); only if it does not compare levels at all does
  the argument go through as before.

**Only model-checked.** The liveness property, `ReadReturns`: fairness and ENABLED are
beyond the provers. `CorpusAssumption`: it is what comes of
running every case, and cases with one check left out, and TLC does that. The sentences of the
documentation that the five violation runs refute.

## 5. Observations

What was noticed while reading the code closely enough to model it. No run is about
these; those that are runs are under `findings` in PROJECT.json.

* `establish` uses the provenance graph it is given and looks at its sources only
  (`assurance.rs` 256-264; the verb passes it on from `solvency-cli/src/assurance.rs` 90):
  neither the graph's signature nor its `report_digest` is checked on that path, so that
  it is bound to its report only for a reader who also runs the `provenance` verb. SPEC
  17.1 says a graph cannot be lifted onto another report. `GraphAnswersAgree` therefore
  has the `provenance` verb's success as its condition.
* Of sources that share an id, `derives_from_ledger` takes any and
  `check_against_assurance` the last (`provenance.rs` 264); they agree because
  `verify_provenance` refuses such a graph, and only then.
* A v1 digest does not cover the manifest, and `withheld` (`assurance.rs` 230-237)
  consults it in a v1 report too. `AcceptedReportIsTheVenues` is exact about what remains.
* `publish_for_audiences` has one metadata for all audiences, so a figure that is in the
  report cannot be withheld from one audience and shown to another; and it does not check
  that a manifest is truthful, which is why `HonestClaimIsAccepted` assumes it, and that the
  day is of customers' balances: `verify` takes no other profile.
* Coverage and assurance statements are unsigned; the comment on `custody_basis`
  (`coverage.rs` 28) says "Signed".
* `corpus_digest` covers a case's id, expectation and requirements, not its documents,
  kind or declared failure; two corpora with other documents have one digest. `defects`
  takes the first result of an id, so a second one goes unnoticed. The comment before it
  (`compat.rs` 104) speaks of the three rules of SPEC 14.5; two are checked there.
* An implementation that claims some features and knows fewer can pass where only
  rejecting cases require the missing ones together; one that claims all cannot
  (`OverclaimIsNoticed`). `Exposed` in `Conformance` lists the checks some case decides;
  the others are decided by none, the role of an attestor among them: the case named for
  it is refused by the same verifier without that check, for the level it names.
* A second `--attestor` entry for a key replaces the role of the first silently
  (`args.rs`, `parse_attestors`).

## 6. What is not modelled, and why

* Hash functions, signatures, canonical encoding, JSON, hex, decimal parsing:
  replaced by injective terms as above. Salts and customer identifiers: a
  customer's place in the order stands for both. Names of files, except where two
  proofs share one.
* Identifiers of entities as text: `verify_chain` compares root and totals of the entity
  and never `entity_id` with anything. In the model a root determines its entity, because
  salts do; a group that names the entity wrongly is not among its inputs.
* A position entered in a group twice: `publish_group` accepts it and every chain still
  holds, in the code and in the model; no property says otherwise.
* Publishers' names in packs. `check_name` and the versions of packs are left out of
  `EvidenceDelivery` and are in `ReportChecks`.
* The time of a custody report is the caller's (`meta.snapshot_time`); the model's caller
  dates it to the read of the ledger end. One who dates it otherwise promises nothing.
* The on-ledger Daml template: it holds an anchor's fields, and its one choice changes
  who sees a contract and none of its fields. Who sees what is decided by the Daml
  runtime, which is not in the repository.
* Argument parsing, rendering, and the verbs that only read files and call a verifier
  (`verify-group`, `verify-chain`, `digest`): pure functions of text.
* The TypeScript and Python verifiers, and the console: other implementations of the
  same checks. What the corpus can tell about them is `Conformance`.

## 7. Done, and what could follow

Written in this order, the most important behaviour first: `AnchorHistory`,
`EvidenceDelivery`, `SumNodes` and `SumTree`, `GroupChain`, their proofs, `Reports` and
`ReportChecks`, `CustodyCoverage` with `AtomicCustody`, `AssuredReports`, `Golden`,
`Corpus` and `Conformance`. Parameters are CONSTANTS with named assumptions, there is one
action per operation, and no module that is proved about uses a RECURSIVE operator.

What would add most next: an abstract `AtomicDelivery` that `EvidenceDelivery` implements
for an auditor who reads only packs, and the refinement's proof.
