------------------------------ MODULE Reports ------------------------------
(***************************************************************************)
(* Signed reports and the documents that refer to them, as publishers make *)
(* them (rust/solvency-report: document.rs, digest.rs, produce.rs,         *)
(* group.rs, profile.rs, manifest.rs, instant.rs; SPEC 8, 9, 13, 14, 18).  *)
(*                                                                         *)
(* A balance is kept under the pair of its map and its asset, with the map *)
(* "" in a v1 leaf.  A digest is the document as far as the code feeds it  *)
(* to the hash; a signature is what was signed and by whom.                *)
(***************************************************************************)
EXTENDS SumNodes, FiniteSets

CONSTANT None

\* The amounts of one map.
Keyed(map, amounts) ==
  [key \in {<<map, a>> : a \in DOMAIN amounts} |-> amounts[key[2]]]

\* leaf_node_v2
LeafV2(subject, maps) ==
  [hash |-> [kind |-> "leaf2", subject |-> subject, maps |-> maps], sums |-> maps]

-----------------------------------------------------------------------------
(***************************************************************************)
(* Snapshot times.  A text is an instant in seconds and what follows it.   *)
(***************************************************************************)
Zulu(at) == [at |-> at, tail |-> "Z"]

\* parse: `Z`, or a fraction, which is discarded, and `Z`; nothing else.
Parses(time) == time.tail \in {"Z", ".5Z"}
Instant(time) == time.at

Abs(n) == IF n < 0 THEN -n ELSE n
Skew(s, t) == Abs(Instant(s) - Instant(t))

\* The byte order of two texts of one length up to the tail: `+`, `.`, `Z`.
TailRank(time) == CASE time.tail = "+00:00" -> 0 [] time.tail = ".5Z" -> 1 [] time.tail = "Z" -> 2
TextLater(t, s) == t.at > s.at \/ (t.at = s.at /\ TailRank(t) > TailRank(s))

-----------------------------------------------------------------------------
(***************************************************************************)
(* Digests and signatures.                                                 *)
(***************************************************************************)
V1 == "report-v1"
V2 == "report-v2"

\* Mutant of Digest: the manifest is never covered.
DigestWithoutManifest(report) == [report EXCEPT !.meta.manifest = None]

\* report_digest: the manifest only under v2.
Digest(report) ==
  IF report.version = V2 THEN report ELSE [report EXCEPT !.meta.manifest = None]

\* A digest, or a hash, with some characters replaced.
Garbled == [garbled |-> TRUE]

Ed25519 == "ed25519"

Sign(key, digest) == [algorithm |-> Ed25519, key |-> key, by |-> key, on |-> digest]

\* A signature value that is nobody's.
Forged(signature) == [signature EXCEPT !.by = None]

\* verify_signature, against the key the caller gives.
GoodSignature(signature, key, digest) == signature.by = key /\ signature.on = digest

-----------------------------------------------------------------------------
(***************************************************************************)
(* publish, publish_v2 and publish_group.                                  *)
(***************************************************************************)
\* The metadata of a report, less what a caller wants otherwise.
Metadata(profile, publisher, time, offset) ==
  [profile |-> profile, publisher |-> publisher, time |-> time, offset |-> offset,
   prices |-> << >>, badDebt |-> << >>, houseAccounts |-> 0, houseTotals |-> << >>,
   manifest |-> None]

\* A report of a tree with this root, over so many leaves.
ReportOver(root, count, meta) ==
  [version |-> IF meta.manifest = None THEN V1 ELSE V2, meta |-> meta,
   root |-> root.hash, count |-> count, sums |-> root.sums]

\* sign_report
Signing(report, key) == [report |-> report, signature |-> Sign(key, Digest(report))]

\* A report over these nodes, signed.
SignedOver(leaves, meta, key) == Signing(ReportOver(Root(leaves), Len(leaves), meta), key)

LeavesV1(inputs) == [i \in DOMAIN inputs |-> Leaf(inputs[i].user, inputs[i].balances)]
LeavesV2(inputs) == [i \in DOMAIN inputs |-> LeafV2(inputs[i].subject, inputs[i].maps)]

\* A publisher refuses an empty tree and a sum that overflows.
Publishable(leaves) == leaves # << >> /\ Builds(leaves)

\* A signed report, and for each input the document that binds its path to it.
WithProofs(inputs, leaves, version, signed) ==
  [signed |-> signed,
   proofs |-> [i \in DOMAIN inputs |->
                 [version |-> version, digest |-> Digest(signed.report), leaf |-> inputs[i],
                  steps |-> Prove(leaves, i - 1)]]]

PublishOver(inputs, leaves, version, meta, key) ==
  WithProofs(inputs, leaves, version, SignedOver(leaves, meta, key))

Publish(inputs, meta, key)   == PublishOver(inputs, LeavesV1(inputs), "proof-v1", meta, key)
PublishV2(inputs, meta, key) == PublishOver(inputs, LeavesV2(inputs), "proof-v2", meta, key)

\* An entity's position, as it enters a group.
EntityOf(id, signed) == [id |-> id, root |-> signed.report.root, sums |-> signed.report.sums]

WithMemberships(entities, leaves, signed) ==
  [signed |-> signed,
   memberships |-> [j \in DOMAIN entities |->
                      [version |-> "membership-v1", digest |-> Digest(signed.report),
                       entity |-> entities[j], steps |-> Prove(leaves, j - 1)]]]

PublishGroupReport(entities, meta, key) ==
  WithMemberships(entities, EntityLeaves(entities),
                  SignedOver(EntityLeaves(entities), [meta EXCEPT !.profile = "solvency.group"], key))

-----------------------------------------------------------------------------
(***************************************************************************)
(* Disclosure manifests.                                                   *)
(***************************************************************************)
ResidentFields ==
  {"root_sums", "mark_prices", "bad_debt", "house_accounts", "house_totals"}
KnownFields == ResidentFields \cup {"customer_balances", "customer_identities"}

Disclosures == {"published", "committed", "withheld"}

ASSUME NoneAssumption == None \notin Disclosures

\* Mutant of CarriesData: prices have no place in a report.
CarriesNoPrices(report, field) ==
  \/ field = "root_sums"      /\ DOMAIN report.sums # {}
  \/ field = "bad_debt"       /\ DOMAIN report.meta.badDebt # {}
  \/ field = "house_accounts" /\ report.meta.houseAccounts > 0
  \/ field = "house_totals"   /\ DOMAIN report.meta.houseTotals # {}

\* carries_data
CarriesData(report, field) ==
  \/ field = "root_sums"      /\ DOMAIN report.sums # {}
  \/ field = "mark_prices"    /\ DOMAIN report.meta.prices # {}
  \/ field = "bad_debt"       /\ DOMAIN report.meta.badDebt # {}
  \/ field = "house_accounts" /\ report.meta.houseAccounts > 0
  \/ field = "house_totals"   /\ DOMAIN report.meta.houseTotals # {}

StateOf(manifest, field) ==
  IF field \in DOMAIN manifest.fields THEN manifest.fields[field] ELSE None

\* diff: what is added has no state before, what is removed none after.
Diff(previous, current) ==
  {[path |-> f, from |-> StateOf(previous, f), to |-> StateOf(current, f)] :
     f \in {g \in DOMAIN previous.fields \cup DOMAIN current.fields :
              StateOf(previous, g) # StateOf(current, g)}}

\* Mutant of IsReduction: only a change counts, not a removal.
ReducedByChange(change) ==
  change.from = "published" /\ change.to \in {"committed", "withheld"}

IsReduction(change) == change.from = "published" /\ change.to # "published"

\* publish_for_audiences: one packaging for each manifest, none named twice.
Packageable(manifests) ==
  /\ manifests # << >>
  /\ \A i, j \in DOMAIN manifests : i # j => manifests[i].audience # manifests[j].audience

Packagings(inputs, meta, manifests, key) ==
  [i \in DOMAIN manifests |-> Publish(inputs, [meta EXCEPT !.manifest = manifests[i]], key)]

\* Mutant of SameCommitment: the roots are not compared.
SameTotals(a, b) == a.sums = b.sums /\ a.count = b.count

SameCommitment(a, b) == a.root = b.root /\ a.sums = b.sums /\ a.count = b.count

-----------------------------------------------------------------------------
(***************************************************************************)
(* The registry of profiles.                                               *)
(***************************************************************************)
Rules(name, leaf, aggregates) ==
  [name |-> name, leaf |-> leaf, aggregates |-> aggregates,
   coverage |-> {}, leafMaps |-> {}, unanimous |-> {}]

Registry ==
  {Rules("solvency.liabilities", "Customer", {"root_sums"}),
   Rules("solvency.group", "Entity", {"root_sums"}),
   [Rules("collateral.repo", "RepoLeg", {"collateral", "exposure"})
      EXCEPT !.coverage = {[covering |-> "collateral", covered |-> "exposure"]}],
   Rules("fund.nav", "Shareholder", {"units", "entitlement"}),
   [Rules("settlement.dvp", "SettledTrade", {"delivered", "paid"})
      EXCEPT !.leafMaps = {"delivered", "paid"}],
   [Rules("eligibility.holder", "AttestedHolder", {"attested"})
      EXCEPT !.leafMaps = {"attested"}, !.unanimous = {"attested"}],
   [Rules("coverage.custody", "CustodyPosition", {"held"}) EXCEPT !.leafMaps = {"held"}]}

UsesLeafV2(kind) == kind \notin {"Customer", "Entity"}

Registered(report) == \E rules \in Registry : rules.name = report.meta.profile
RulesOf(report) == CHOOSE rules \in Registry : rules.name = report.meta.profile

\* Whether the sums have an asset in this map.
Carries(sums, map) == \E key \in DOMAIN sums : map \in {"root_sums", key[1]}

\* What validate asks of a report whose profile is registered.
HasAggregates(report) == \A map \in RulesOf(report).aggregates : Carries(report.sums, map)

IsCovered(report) ==
  \A rule \in RulesOf(report).coverage, key \in DOMAIN report.sums :
    key[1] = rule.covered => At(report.sums, <<rule.covering, key[2]>>) >= report.sums[key]

\* The amount 1: a leaf to which a rule applies.
One == 1

IsUnanimous(report) ==
  \A map \in RulesOf(report).unanimous, key \in DOMAIN report.sums :
    key[1] = map => report.sums[key] = report.count * One

-----------------------------------------------------------------------------
(***************************************************************************)
(* Documents beside a report.                                              *)
(***************************************************************************)
\* anchor_report
AnchorOf(signed, previous) ==
  [version |-> "anchor-v1", digest |-> Digest(signed.report), root |-> signed.report.root,
   time |-> signed.report.meta.time, offset |-> signed.report.meta.offset,
   publisher |-> signed.report.meta.publisher, key |-> signed.signature.key,
   prev |-> previous]

\* anchor_digest covers every field.
AnchorDigest(anchor) == anchor

CoverageStatement(custody, liabilities) ==
  [version |-> "coverage-v1", custody |-> Digest(custody.report),
   liabilities |-> Digest(liabilities.report)]

\* An attestation, and a graph of sources, signed; their digests cover every field.
Attested(signed, field, role, key) ==
  LET attestation == [version |-> "attestation-v1", digest |-> Digest(signed.report),
                      field |-> field, role |-> role]
  IN [attestation |-> attestation, signature |-> Sign(key, attestation)]

Source(id, kind, basis) == [id |-> id, kind |-> kind, basis |-> basis]
Derivation(field, sources) == [field |-> field, sources |-> sources]

Provenance(signed, sources, derivations) ==
  [version |-> "provenance-v1", digest |-> Digest(signed.report),
   sources |-> sources, derivations |-> derivations]

SignedGraph(graph, key) == [provenance |-> graph, signature |-> Sign(key, graph)]

AssuranceStatement(digest, levels) ==
  [version |-> "assurance-v1", digest |-> digest, levels |-> levels]
=============================================================================
