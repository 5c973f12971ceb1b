------------------------------- MODULE Corpus -------------------------------
(***************************************************************************)
(* The conformance corpus (rust/solvency-report/src/corpus_gen.rs): the    *)
(* cases, in the order of the generator, and the runner of one case        *)
(* (compat.rs).  A document that was "tweaked" is the golden one with one  *)
(* field replaced, under the signature it had.                             *)
(***************************************************************************)
EXTENDS Golden, ReportChecks

Case(id, kind, requires, expect, failure, docs) ==
  [id |-> id, kind |-> kind, requires |-> requires, expect |-> expect,
   failure |-> failure, docs |-> docs]

Accept(id, kind, requires, docs) == Case(id, kind, requires, "accept", None, docs)
Reject(id, kind, requires, failure, docs) == Case(id, kind, requires, "reject", failure, docs)

-----------------------------------------------------------------------------
(***************************************************************************)
(* Customer proofs and the manifest.                                       *)
(***************************************************************************)
R1P1 == {"report-v1", "proof-v1"}
R2P1 == {"report-v2", "proof-v1", "manifest"}

ProofCases ==
  <<Accept("proof-valid", "proof", R1P1, Golden1),
    Reject("proof-tampered-balance", "proof", R1P1, "root_hash_mismatch",
           [Golden1 EXCEPT !.proof.leaf.balances[<<"", "CBTC">>] = 10]),
    Reject("proof-understated-totals", "proof", R1P1, "digest_mismatch",
           [Golden1 EXCEPT !.report.report.sums[<<"", "USDA">>] = 2]),
    Reject("proof-forged-signature", "proof", R1P1, "bad_signature",
           [Golden1 EXCEPT !.report.signature = Forged(@)]),
    Reject("proof-stale", "proof", R1P1, "digest_mismatch",
           [Golden1 EXCEPT !.proof.digest = Garbled])>>

ManifestCases ==
  <<Accept("report-v2-valid", "proof", R2P1, Golden2),
    Reject("report-v2-manifest-lies", "proof", R2P1, "manifest_inconsistent",
           [Golden2 EXCEPT !.report.report.meta.manifest.fields["root_sums"] = "withheld"])>>

ManifestEdgeCases ==
  <<Reject("report-v2-published-but-absent", "proof", R2P1, "manifest_inconsistent",
           PublishedButAbsent),
    Reject("report-v1-carrying-a-manifest", "proof", R1P1 \cup {"manifest"}, "manifest_presence",
           [Golden1 EXCEPT !.report = V1WithManifest]),
    Reject("report-v2-without-a-manifest", "proof", R2P1, "manifest_presence",
           [Golden2 EXCEPT !.report = V2WithoutManifest])>>

\* Trust comes from the caller.
ForeignCases ==
  <<Reject("proof-signed-by-another-key", "proof", R1P1, "unknown_signer", Foreign)>>

\* The version gate.
VersionCases ==
  <<Reject("proof-unknown-report-version", "proof", R1P1, "unsupported_version",
           [Golden1 EXCEPT !.report.report.version = "report-v9"]),
    Reject("proof-unknown-proof-version", "proof", R1P1, "unsupported_version",
           [Golden1 EXCEPT !.proof.version = "proof-v9"]),
    Reject("proof-unknown-signature-algorithm", "proof", R1P1, "unsupported_version",
           [Golden1 EXCEPT !.report.signature.algorithm = "ed448"])>>

\* The comparison of sums, and the order of asset names.
SumsCases ==
  <<Reject("proof-signed-understated-totals", "proof", R1P1, "root_sums_mismatch", Understated),
    Accept("proof-astral-assets", "proof", R1P1, Astral)>>

-----------------------------------------------------------------------------
(***************************************************************************)
(* Profiles over v2 leaves.                                                *)
(***************************************************************************)
R1P2 == {"report-v1", "proof-v2", "leaf-v2"}

RepoCases ==
  <<Accept("repo-valid", "proof-v2", R1P2, Repo),
    Reject("repo-under-collateralised", "proof-v2", R1P2, "profile",
           [Repo EXCEPT !.report.report.sums[<<"exposure", "USDA">>] = 999])>>

ProfileCases ==
  <<Accept("dvp-valid", "proof-v2", R1P2, Fixture(Trades, 1)),
    Reject("dvp-missing-leg", "proof-v2", R1P2, "profile", Fixture(Trades, 2)),
    Accept("fund-valid", "proof-v2", R1P2, FundBook({"units", "entitlement"})),
    Accept("eligibility-valid", "proof-v2", R1P2, Eligible(TRUE)),
    Reject("eligibility-not-unanimous", "proof-v2", R1P2, "profile", Eligible(FALSE)),
    Reject("fund-missing-aggregate", "proof-v2", R1P2, "profile", FundBook({"units"}))>>

-----------------------------------------------------------------------------
(***************************************************************************)
(* Groups and chains.                                                      *)
(***************************************************************************)
GoldenMembership == [group |-> GoldenGroup.signed, membership |-> GoldenGroup.memberships[1]]

GroupCases ==
  <<Accept("group-valid", "membership", {"report-v1", "group-v1"}, GoldenMembership),
    Reject("group-relabelled-entity", "membership", {"report-v1", "group-v1"},
           "root_hash_mismatch", [GoldenMembership EXCEPT !.membership.entity.id = "entity-z"])>>

ChainOf(group, j) ==
  [group |-> group.signed, membership |-> group.memberships[j],
   entity |-> Golden1.report, proof |-> Golden1.proof]

ChainRequires == R1P1 \cup {"group-v1"}

DisagreeingChain ==
  <<Reject("chain-entity-sums-disagree", "chain", ChainRequires, "entity_sums_mismatch",
           ChainOf(DisagreesGroup, 1))>>

ChainCases ==
  <<Accept("chain-valid", "chain", ChainRequires, ChainOf(GoldenGroup, 1)),
    Reject("chain-substituted-entity", "chain", ChainRequires, "entity_root_mismatch",
           ChainOf(GoldenGroup, 2))>>

-----------------------------------------------------------------------------
(***************************************************************************)
(* Coverage.                                                               *)
(***************************************************************************)
CoverageRequires == {"report-v1", "coverage-v1"}

CoverageCases ==
  <<Accept("coverage-valid", "coverage", CoverageRequires, Covered),
    Reject("coverage-unbound-statement", "coverage", CoverageRequires, "digest_mismatch",
           [Covered EXCEPT !.statement.custody = Garbled]),
    Reject("coverage-untrusted-signer", "coverage", CoverageRequires, "unknown_signer",
           [Covered EXCEPT !.custody.signature.key = "somebody"])>>

ShortfallCases ==
  <<Reject("coverage-shortfall", "coverage", CoverageRequires, "shortfall", Shortfall)>>

TemporalCases ==
  <<Reject("coverage-stale-pairing", "coverage",
           {"report-v1", "report-v2", "coverage-v1", "leaf-v2"}, "temporal_mismatch",
           StalePairing)>>

-----------------------------------------------------------------------------
(***************************************************************************)
(* Anchors.                                                                *)
(***************************************************************************)
SuccessorOf(genesis) ==
  [genesis EXCEPT !.time = Zulu(Day), !.offset = 43, !.prev = AnchorDigest(genesis)]

AnchorsReject(id, failure, history) ==
  Reject(id, "anchors", {"anchor-v1"}, failure, [history |-> history])

AnchorsCasesOf(genesis, next) ==
  <<Accept("anchors-intact", "anchors", {"anchor-v1"}, [history |-> <<genesis, next>>]),
    AnchorsReject("anchors-suffix", "not_genesis", <<next>>),
    AnchorsReject("anchors-publisher-changed", "publisher_changed",
                  <<genesis, [next EXCEPT !.publisher = "venue::somebody-else"]>>),
    AnchorsReject("anchors-restated-instant", "went_backwards",
                  <<genesis, [next EXCEPT !.time = genesis.time]>>),
    AnchorsReject("anchors-rewound-offset", "went_backwards",
                  <<genesis, [next EXCEPT !.offset = 1]>>),
    AnchorsReject("anchors-broken-link", "broken", <<genesis, [next EXCEPT !.prev = Garbled]>>)>>

AnchorsCases == AnchorsCasesOf(Genesis, SuccessorOf(Genesis))

-----------------------------------------------------------------------------
(***************************************************************************)
(* Assurance, with as much evidence as the case carries.                   *)
(***************************************************************************)
NoEvidence == [proof |-> None, anchor |-> None, attestations |-> {}, provenance |-> None]
WithProof == [NoEvidence EXCEPT !.proof = Golden1.proof]
WithAttestation == [NoEvidence EXCEPT !.attestations = {CustodianAttests}]

Declares(field, level) ==
  AssuranceStatement(Digest(Golden1.report.report), [f \in {field} |-> level])

Graded(statement, evidence, attestors) ==
  [report |-> Golden1.report, statement |-> statement, evidence |-> evidence,
   attestors |-> attestors]

NoAttestors == << >>
TrustingCustodian == [key \in {Custodian} |-> "third-party"]

A1 == {"report-v1", "assurance-v1"}
A1P1 == A1 \cup {"proof-v1"}

AssuranceProofCases ==
  <<Accept("assurance-verified-with-proof", "assurance", A1P1,
           Graded(Declares("root_sums", "cryptographically-verified"), WithProof, NoAttestors)),
    Reject("assurance-verified-without-proof", "assurance", A1, "over_claimed",
           Graded(Declares("root_sums", "cryptographically-verified"), NoEvidence, NoAttestors)),
    Reject("assurance-uncommitted-field-declared-verified", "assurance", A1P1, "over_claimed",
           Graded(Declares("mark_prices", "cryptographically-verified"), WithProof, NoAttestors))>>

AttestationCases ==
  <<Accept("assurance-attested-by-trusted-custodian", "assurance", A1,
           Graded(Declares("root_sums", "third-party-attested"), WithAttestation,
                  TrustingCustodian)),
    Reject("assurance-attested-by-untrusted-key", "assurance", A1, "over_claimed",
           Graded(Declares("root_sums", "third-party-attested"), WithAttestation, NoAttestors)),
    Reject("assurance-attestor-role-mismatch", "assurance", A1, "over_claimed",
           Graded(Declares("root_sums", "issuer-attested"), WithAttestation,
                  TrustingCustodian))>>

StatementCases ==
  <<Reject("assurance-statement-for-another-report", "assurance", A1P1, "digest_mismatch",
           Graded([Declares("root_sums", "cryptographically-verified") EXCEPT !.digest = Garbled],
                  WithProof, NoAttestors)),
    Reject("assurance-unknown-field", "assurance", A1P1, "unknown_field",
           Graded(Declares("solvency_vibes", "claimed-only"), WithProof, NoAttestors))>>

-----------------------------------------------------------------------------
(***************************************************************************)
(* Provenance: a graph, and a statement beside it or none.                 *)
(***************************************************************************)
Graph(graph, statement) == [report |-> Golden1.report, graph |-> graph, statement |-> statement]

Dangling ==
  GraphOf(GoldenSources,
          [GoldenDerivations EXCEPT ![1].sources = <<"participant-primary", "ghost-template">>])

Unexplained == GraphOf([GoldenSources EXCEPT ![3].basis = None], GoldenDerivations)

G1 == {"report-v1", "provenance-v1"}
G1A1 == G1 \cup {"assurance-v1"}

ProvenanceCases ==
  <<Accept("provenance-well-formed", "provenance", G1, Graph(GoldenGraph, None)),
    Reject("provenance-dangling-source", "provenance", G1, "provenance_inconsistent",
           Graph(Dangling, None)),
    Reject("provenance-off-ledger-without-basis", "provenance", G1, "provenance_inconsistent",
           Graph(Unexplained, None))>>

DerivedCases ==
  <<Accept("provenance-ledger-derived-honest", "provenance", G1A1,
           Graph(GoldenGraph, Declares("root_sums", "ledger-derived"))),
    Reject("provenance-ledger-derived-contradiction", "provenance", G1A1,
           "provenance_inconsistent",
           Graph(GoldenGraph, Declares("mark_prices", "ledger-derived"))),
    Accept("assurance-ledger-derived-with-graph", "assurance", G1A1 \cup {"anchor-v1"},
           Graded(Declares("root_sums", "ledger-derived"),
                  [NoEvidence EXCEPT !.anchor = Genesis, !.provenance = GoldenGraph.provenance],
                  NoAttestors)),
    Reject("assurance-ledger-derived-anchor-only", "assurance", A1 \cup {"anchor-v1"},
           "over_claimed",
           Graded(Declares("root_sums", "ledger-derived"),
                  [NoEvidence EXCEPT !.anchor = Genesis], NoAttestors))>>

-----------------------------------------------------------------------------
(***************************************************************************)
(* Packs: an index and what was delivered.                                 *)
(***************************************************************************)
Delivery(index, delivered) == [index |-> index, delivered |-> delivered]

PackReject(id, failure, docs) == Reject(id, "pack", {"pack-v1"}, failure, docs)

\* Signed with the path in it, and a version edited afterwards.
Escaping ==
  SignedPack([GoldenPack.pack EXCEPT
    !.entries = [name \in {<<"..", "escape.json">>, <<"report.json">>} |->
                   Content(IF Len(name) = 1 THEN <<"report.json">> ELSE <<"proof.json">>, 0)]])

PackGateCases ==
  <<PackReject("pack-unsafe-name", "unsafe_name", Delivery(Escaping, Members)),
    PackReject("pack-unknown-version", "unsupported_version",
               Delivery([GoldenPack EXCEPT !.pack.version = "pack-v9"], Members))>>

PackCases ==
  <<Accept("pack-valid", "pack", {"pack-v1"}, Delivery(GoldenPack, Members)),
    PackReject("pack-dropped-proof", "pack_missing",
               Delivery(GoldenPack, [n \in {<<"report.json">>} |-> Members[n]])),
    PackReject("pack-altered-member", "pack_altered",
               Delivery(GoldenPack, [Members EXCEPT ![<<"proof.json">>] =
                                       Content(<<"proof.json">>, 1)])),
    PackReject("pack-unlisted-member", "pack_unlisted",
               Delivery(GoldenPack, [n \in {<<"proof-mallory.json">>} |-> Content(<<"{}">>, 1)] @@ Members))>>

-----------------------------------------------------------------------------
\* emit: manifest.json lists them in this order.
Cases ==
  ProofCases \o ManifestCases \o RepoCases \o GroupCases \o CoverageCases \o ForeignCases
    \o DisagreeingChain \o ManifestEdgeCases \o ProfileCases \o ShortfallCases \o VersionCases
    \o AnchorsCases \o ChainCases \o SumsCases
    \o AssuranceProofCases \o AttestationCases \o StatementCases
    \o TemporalCases \o ProvenanceCases \o DerivedCases \o PackGateCases \o PackCases

-----------------------------------------------------------------------------
(***************************************************************************)
(* run_case.                                                               *)
(***************************************************************************)
Kinds ==
  {"proof", "proof-v2", "chain", "membership", "coverage", "anchors", "provenance",
   "assurance", "pack"}

ChecksOf(c, omitted) ==
  LET d == c.docs IN
  CASE c.kind = "proof"      -> Verify(d.report, d.proof, Publisher)
    [] c.kind = "proof-v2"   -> VerifyV2(d.report, d.proof, Publisher)
    [] c.kind = "chain"      -> VerifyGroupChain(d.group, d.membership, d.entity, d.proof,
                                                 Publisher, Publisher)
    [] c.kind = "membership" -> VerifyMembership(d.group, d.membership, Publisher)
    [] c.kind = "coverage"   -> VerifyCoverage(d.custody, d.liabilities, d.statement,
                                               Publisher, Publisher, SameRun)
                                  \o FullyCovered(d.custody, d.liabilities)
    [] c.kind = "anchors"    -> VerifyAnchorChain(d.history)
    [] c.kind = "provenance" -> VerifyProvenance(d.report, d.graph, Publisher)
                                  \o (IF d.statement = None THEN << >>
                                      ELSE CheckAgainstAssurance(d.graph.provenance,
                                                                 d.statement.levels))
    [] c.kind = "assurance"  -> VerifyAssurance(d.report, d.statement, d.evidence,
                                                [publisher |-> Publisher,
                                                 attestors |-> d.attestors], omitted)
    [] c.kind = "pack"       -> VerifyPack(d.index, Publisher, d.delivered)

RunCase(c, omitted) == Outcome(ChecksOf(c, omitted), omitted)
=============================================================================
