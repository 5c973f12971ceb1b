---------------------------- MODULE ReportChecks ----------------------------
(***************************************************************************)
(* What a reader checks of the documents of Reports, verb by verb          *)
(* (rust/solvency-report: verify.rs, group.rs, coverage.rs, anchor.rs,     *)
(* assurance.rs, provenance.rs, pack.rs).                                  *)
(*                                                                         *)
(* A verifier is the sequence of its checks, in the order of the code, and *)
(* answers with the failure of the first that does not hold.  `omitted` is *)
(* a set of checks a verifier does not make: empty for this repository's,  *)
(* and otherwise another implementation of the same format, with a bug.    *)
(* Where the code goes through a list entry by entry, the order is kept    *)
(* between the checks of one entry and not between two entries.            *)
(***************************************************************************)
EXTENDS Reports

\* Min and Max of a set of indices, without the recursion of FiniteSetsExt.
FirstOf(S) == CHOOSE i \in S : \A j \in S : i <= j
LastOf(S)  == CHOOSE i \in S : \A j \in S : j <= i

Check(name, failure, holds) == [name |-> name, failure |-> failure, holds |-> holds]

Outcome(checks, omitted) ==
  LET failing == {i \in DOMAIN checks : ~checks[i].holds /\ checks[i].name \notin omitted}
  IN IF failing = {} THEN "ok" ELSE checks[FirstOf(failing)].failure

\* A condition inside a check, for a verifier that may not ask for it.
Demand(name, omitted, holds) == name \in omitted \/ holds

-----------------------------------------------------------------------------
(***************************************************************************)
(* Proofs: verify and verify_v2.                                           *)
(***************************************************************************)
\* check_report_version_and_manifest
VersionAndManifest(report) ==
  LET m == report.meta.manifest
      stated == IF m = None THEN {} ELSE DOMAIN m.fields
      Shown(states) == {f \in stated \cap ResidentFields : m.fields[f] \in states}
  IN <<Check("report.format_version", "unsupported_version", report.version \in {V1, V2}),
       Check("v1 without manifest", "manifest_presence", report.version = V1 => m = None),
       Check("v2 with manifest", "manifest_presence", report.version = V2 => m # None),
       Check("manifest: known fields", "manifest_inconsistent",
             report.version = V2 => stated \subseteq KnownFields),
       Check("manifest: published is carried", "manifest_inconsistent",
             report.version = V2 => \A f \in Shown({"published"}) : CarriesData(report, f)),
       Check("manifest: withheld is not carried", "manifest_inconsistent",
             report.version = V2 =>
               \A f \in Shown({"withheld", "committed"}) : ~CarriesData(report, f))>>

\* validate
ValidProfile(report) ==
  <<Check("profile: registered", "profile", Registered(report)),
    Check("profile: aggregates", "profile", Registered(report) => HasAggregates(report)),
    Check("profile: coverage", "profile", Registered(report) => IsCovered(report)),
    Check("profile: unanimity", "profile", Registered(report) => IsUnanimous(report))>>

LeafKind(report, kinds) ==
  <<Check("profile: leaf kind", "profile",
          Registered(report) => RulesOf(report).leaf \in kinds)>>

Algorithm(signed) ==
  <<Check("signature.algorithm", "unsupported_version", signed.signature.algorithm = Ed25519)>>

ProofVersion(proof, version) ==
  <<Check("proof.format_version", "unsupported_version", proof.version = version)>>

\* check_signature, and the same two lines of verify_against_report.
TrustedSignature(signed, key) ==
  <<Check("trusted key", "unknown_signer", signed.signature.key = key),
    Check("signature", "bad_signature",
          GoodSignature(signed.signature, key, Digest(signed.report)))>>

\* Mutant of AgainstReport: the root hash is not compared.
AgainstTotals(signed, leaf, steps, digest, key) ==
  LET node == Folded(leaf, steps)
  IN <<Check("proof digest", "digest_mismatch", Digest(signed.report) = digest)>>
     \o TrustedSignature(signed, key)
     \o <<Check("fold: no overflow", "malformed", \A k \in DOMAIN steps : Fits(node[k].sums)),
          Check("root sums", "root_sums_mismatch",
                SameSums(node[Len(steps)].sums, signed.report.sums))>>

\* verify_against_report
AgainstReport(signed, leaf, steps, digest, key) ==
  LET node == Folded(leaf, steps)
  IN <<Check("proof digest", "digest_mismatch", Digest(signed.report) = digest)>>
     \o TrustedSignature(signed, key)
     \o <<Check("fold: no overflow", "malformed", \A k \in DOMAIN steps : Fits(node[k].sums)),
          Check("root hash", "root_hash_mismatch", node[Len(steps)].hash = signed.report.root),
          Check("root sums", "root_sums_mismatch",
                SameSums(node[Len(steps)].sums, signed.report.sums))>>

Verify(signed, proof, key) ==
  VersionAndManifest(signed.report)
    \o ValidProfile(signed.report) \o LeafKind(signed.report, {"Customer"})
    \o ProofVersion(proof, "proof-v1") \o Algorithm(signed)
    \o AgainstReport(signed, Leaf(proof.leaf.user, proof.leaf.balances), proof.steps,
                     proof.digest, key)

VerifyV2(signed, proof, key) ==
  VersionAndManifest(signed.report)
    \o ValidProfile(signed.report)
    \o LeafKind(signed.report, {rules.leaf : rules \in {r \in Registry : UsesLeafV2(r.leaf)}})
    \o ProofVersion(proof, "proof-v2") \o Algorithm(signed)
    \o <<Check("profile: leaf maps", "profile",
               Registered(signed.report) =>
                 \A map \in RulesOf(signed.report).leafMaps : Carries(proof.leaf.maps, map))>>
    \o AgainstReport(signed, LeafV2(proof.leaf.subject, proof.leaf.maps), proof.steps,
                     proof.digest, key)

-----------------------------------------------------------------------------
(***************************************************************************)
(* Groups: verify_membership and verify_chain of group.rs.                 *)
(***************************************************************************)
VerifyMembership(group, membership, key) ==
  <<Check("membership.format_version", "unsupported_version",
          membership.version = "membership-v1")>>
    \o ValidProfile(group.report) \o LeafKind(group.report, {"Entity"})
    \o AgainstReport(group, EntityLeaf(membership.entity), membership.steps,
                     membership.digest, key)

VerifyGroupChain(group, membership, signed, proof, groupKey, key) ==
  Verify(signed, proof, key)
    \o VerifyMembership(group, membership, groupKey)
    \o <<Check("entity root", "entity_root_mismatch",
               membership.entity.root = signed.report.root),
         Check("entity sums", "entity_sums_mismatch",
               SameSums(membership.entity.sums, signed.report.sums))>>

-----------------------------------------------------------------------------
(***************************************************************************)
(* Coverage: verify_coverage.  The statement itself is not signed.         *)
(***************************************************************************)
ExactSkew == 0
SameRun == 300

\* Mutant of Held: looked up under the key it is owed under.
HeldAsOwed(custody, key) == At(custody.report.sums, key)

\* What custody holds of an asset that is owed.
Held(custody, key) ==
  IF key[1] = "" THEN At(custody.report.sums, <<"held", key[2]>>) ELSE 0

\* Mutant of CoveragePairing: any two times will do.
PairingAnyTimes(custody, liabilities, statement, custodyKey, liabilitiesKey, maxSkew) ==
  <<Check("custody digest", "digest_mismatch", statement.custody = Digest(custody.report)),
    Check("liabilities digest", "digest_mismatch",
          statement.liabilities = Digest(liabilities.report))>>
    \o TrustedSignature(custody, custodyKey)
    \o TrustedSignature(liabilities, liabilitiesKey)

\* The two reports belong together.
CoveragePairing(custody, liabilities, statement, custodyKey, liabilitiesKey, maxSkew) ==
  LET s == custody.report.meta.time
      t == liabilities.report.meta.time
  IN <<Check("custody digest", "digest_mismatch", statement.custody = Digest(custody.report)),
       Check("liabilities digest", "digest_mismatch",
             statement.liabilities = Digest(liabilities.report))>>
     \o TrustedSignature(custody, custodyKey)
     \o TrustedSignature(liabilities, liabilitiesKey)
     \o <<Check("coverage: times parse", "malformed", Parses(s) /\ Parses(t)),
          Check("coverage: skew", "temporal_mismatch",
                Parses(s) /\ Parses(t) => Skew(s, t) <= maxSkew)>>

\* And whether the result is fully covered, which is left to the caller.
VerifyCoverage(custody, liabilities, statement, custodyKey, liabilitiesKey, maxSkew) ==
  <<Check("coverage.format_version", "unsupported_version", statement.version = "coverage-v1"),
    Check("coverage: custody profile", "profile",
          custody.report.meta.profile = "coverage.custody"),
    Check("coverage: liabilities profile", "profile",
          liabilities.report.meta.profile = "solvency.liabilities")>>
    \o CoveragePairing(custody, liabilities, statement, custodyKey, liabilitiesKey, maxSkew)

FullyCovered(custody, liabilities) ==
  <<Check("coverage: per asset", "shortfall",
          \A key \in DOMAIN liabilities.report.sums :
            Held(custody, key) >= liabilities.report.sums[key])>>

-----------------------------------------------------------------------------
(***************************************************************************)
(* Anchors: verify_chain, verify_with_anchor and verify_anchored_reports.  *)
(***************************************************************************)
\* One anchor of a history, given the ones before it.
AnchorChecks(history, i) ==
  <<Check("anchor.format_version", "unsupported_version", history[i].version = "anchor-v1"),
    Check("anchor: genesis", "not_genesis", i = 1 => history[i].prev = None)>>
    \o (IF i = 1 THEN << >>
        ELSE <<Check("anchor: link", "broken", history[i].prev = AnchorDigest(history[i - 1])),
               Check("anchor: publisher", "publisher_changed",
                     history[i].publisher = history[i - 1].publisher),
               Check("anchor: time", "went_backwards",
                     TextLater(history[i].time, history[i - 1].time)),
               Check("anchor: offset", "went_backwards",
                     history[i].offset >= history[i - 1].offset)>>)

VerifyAnchorChain(history) ==
  LET upTo[i \in 0..Len(history)] ==
        IF i = 0 THEN << >> ELSE upTo[i - 1] \o AnchorChecks(history, i)
  IN upTo[Len(history)]

\* The key is the anchor's own.
VerifyWithAnchor(signed, proof, anchor) ==
  <<Check("anchor.format_version", "unsupported_version", anchor.version = "anchor-v1"),
    Check("anchor: digest", "digest_mismatch", anchor.digest = Digest(signed.report))>>
    \o Verify(signed, proof, anchor.key)

\* Mutant of AnchoredReports: only the roots are compared.
AnchoredRoots(anchors, reports) ==
  \A i \in DOMAIN anchors \cap DOMAIN reports : anchors[i].root = reports[i].report.root

\* Positionally, to the end of the shorter list.
AnchoredReports(anchors, reports) ==
  \A i \in DOMAIN anchors \cap DOMAIN reports :
    /\ anchors[i].digest = Digest(reports[i].report)
    /\ anchors[i].root = reports[i].report.root

-----------------------------------------------------------------------------
(***************************************************************************)
(* Provenance: verify_provenance and check_against_assurance.              *)
(***************************************************************************)
OnLedger(source) == source.kind # "off-ledger"

\* Mutant of UniqueIds: two sources may share an id.
AnyIds(S) == TRUE

UniqueIds(S) == \A i, j \in DOMAIN S : i # j => S[i].id # S[j].id

Ids(sources) == {sources[i].id : i \in DOMAIN sources}

VerifyProvenance(signed, graph, key) ==
  LET p == graph.provenance
      S == p.sources
      D == p.derivations
  IN <<Check("provenance.format_version", "unsupported_version", p.version = "provenance-v1"),
       Check("provenance: digest", "digest_mismatch", p.digest = Digest(signed.report)),
       Check("provenance: trusted key", "unknown_signer", graph.signature.key = key),
       Check("provenance: algorithm", "unsupported_version",
             graph.signature.algorithm = Ed25519),
       Check("provenance: signature", "bad_signature", GoodSignature(graph.signature, key, p)),
       Check("provenance: ids", "provenance_inconsistent", UniqueIds(S)),
       Check("provenance: basis", "provenance_inconsistent",
             \A i \in DOMAIN S : OnLedger(S[i]) \/ S[i].basis \notin {None, "blank"}),
       Check("provenance: fields", "provenance_inconsistent",
             \A i \in DOMAIN D : D[i].field \in ResidentFields),
       Check("provenance: one derivation", "provenance_inconsistent",
             \A i, j \in DOMAIN D : i # j => D[i].field # D[j].field),
       Check("provenance: some source", "provenance_inconsistent",
             \A i \in DOMAIN D : D[i].sources # << >>),
       Check("provenance: sources declared", "provenance_inconsistent",
             \A i \in DOMAIN D : \A k \in DOMAIN D[i].sources : D[i].sources[k] \in Ids(S))>>

Derived(p, field) == {i \in DOMAIN p.derivations : p.derivations[i].field = field}

\* Its first derivation is the one that counts.
SourcesOf(p, field) ==
  IF Derived(p, field) = {} THEN {}
  ELSE LET ids == p.derivations[FirstOf(Derived(p, field))].sources IN {ids[k] : k \in DOMAIN ids}

\* by_id: a map collected from a list keeps the last of two with one id.
LastWith(p, id) == p.sources[LastOf({i \in DOMAIN p.sources : p.sources[i].id = id})]

CheckAgainstAssurance(p, levels) ==
  LET claimed == {f \in DOMAIN levels : levels[f] = "ledger-derived"}
  IN <<Check("provenance: claimed is derived", "provenance_inconsistent",
             \A f \in claimed : Derived(p, f) # {}),
       Check("provenance: claimed is on ledger", "provenance_inconsistent",
             \A f \in claimed : Derived(p, f) # {} =>
               \E id \in SourcesOf(p, f) \cap Ids(p.sources) : OnLedger(LastWith(p, id)))>>

-----------------------------------------------------------------------------
(***************************************************************************)
(* Assurance: establish and verify_assurance.                              *)
(***************************************************************************)
Withheld(report, field, omitted) ==
  /\ Demand("withheld: declared", omitted,
            report.meta.manifest # None /\ StateOf(report.meta.manifest, field) = "withheld")
  /\ Demand("withheld: not carried", omitted, ~CarriesData(report, field))

\* Mutant of AnchorsReport: only the digest is compared, as with a proof.
AnchorsDigest(report, anchor, omitted) == anchor.digest = Digest(report)

AnchorsReport(report, anchor, omitted) ==
  /\ Demand("anchors: format_version", omitted, anchor.version = "anchor-v1")
  /\ Demand("anchors: digest", omitted, anchor.digest = Digest(report))
  /\ Demand("anchors: root", omitted, anchor.root = report.root)
  /\ Demand("anchors: time", omitted, anchor.time = report.meta.time)
  /\ Demand("anchors: offset", omitted, anchor.offset = report.meta.offset)
  /\ Demand("anchors: publisher", omitted, anchor.publisher = report.meta.publisher)

\* derives_from_ledger: any source with the id will do.
DerivesFromLedger(p, field) ==
  \E id \in SourcesOf(p, field), i \in DOMAIN p.sources :
    p.sources[i].id = id /\ OnLedger(p.sources[i])

RoleLevel(role) == IF role = "issuer" THEN "issuer-attested" ELSE "third-party-attested"

\* Mutant of Vouches: the role a key is trusted in is not compared.
VouchesInAnyRole(a, field, report, trusted, omitted) ==
  /\ a.attestation.field = field
  /\ a.attestation.digest = Digest(report)
  /\ a.signature.key \in DOMAIN trusted.attestors
  /\ GoodSignature(a.signature, a.signature.key, a.attestation)

\* An attestation that counts, for this field of this report.
Vouches(a, field, report, trusted, omitted) ==
  LET key == a.signature.key IN
  /\ Demand("attestation: format_version", omitted, a.attestation.version = "attestation-v1")
  /\ Demand("attestation: field", omitted, a.attestation.field = field)
  /\ Demand("attestation: digest", omitted, a.attestation.digest = Digest(report))
  /\ Demand("attestation: trusted key", omitted, key \in DOMAIN trusted.attestors)
  /\ Demand("attestation: role", omitted,
            key \in DOMAIN trusted.attestors => trusted.attestors[key] = a.attestation.role)
  /\ Demand("attestation: algorithm", omitted, a.signature.algorithm = Ed25519)
  /\ Demand("attestation: signature", omitted,
            GoodSignature(a.signature, key, a.attestation))

\* establish, for one field.  Evidence that is not there is None, or not in the set.
Established(signed, field, evidence, trusted, omitted) ==
  LET report == signed.report IN
  IF Withheld(report, field, omitted) THEN {"not-disclosed"} ELSE
  {"claimed-only"}
    \cup {l \in {"cryptographically-verified"} :
            /\ Demand("verified: committed field", omitted, field = "root_sums")
            /\ Demand("verified: proof verifies", omitted,
                      /\ evidence.proof # None
                      /\ Outcome(Verify(signed, evidence.proof, trusted.publisher), omitted) = "ok")}
    \cup {l \in {"ledger-derived"} :
            /\ Demand("ledger: anchored", omitted,
                      evidence.anchor # None /\ AnchorsReport(report, evidence.anchor, omitted))
            /\ Demand("ledger: derived", omitted,
                      evidence.provenance # None /\ DerivesFromLedger(evidence.provenance, field))}
    \cup {RoleLevel(a.attestation.role) :
            a \in {b \in evidence.attestations : Vouches(b, field, report, trusted, omitted)}}

VerifyAssurance(signed, statement, evidence, trusted, omitted) ==
  <<Check("assurance.format_version", "unsupported_version", statement.version = "assurance-v1"),
    Check("assurance: digest", "digest_mismatch", statement.digest = Digest(signed.report))>>
    \o TrustedSignature(signed, trusted.publisher)
    \o <<Check("assurance: known fields", "unknown_field",
               DOMAIN statement.levels \subseteq ResidentFields),
         Check("assurance: supported", "over_claimed",
               \A f \in DOMAIN statement.levels \cap ResidentFields :
                 statement.levels[f] \in Established(signed, f, evidence, trusted, omitted))>>

-----------------------------------------------------------------------------
(***************************************************************************)
(* Packs: verify_pack.  A name is the sequence of the parts of a path, and *)
(* a delivery maps names to contents.                                      *)
(***************************************************************************)
VerifyPack(signed, key, delivered) ==
  LET entries == signed.pack.entries
      names   == DOMAIN entries
  IN <<Check("pack.format_version", "unsupported_version", signed.pack.version = "pack-v1"),
       Check("pack: trusted key", "unknown_signer", signed.signature.key = key),
       Check("pack: signature", "bad_signature",
             GoodSignature(signed.signature, key, signed.pack)),
       Check("pack: plain names", "unsafe_name", \A n \in names : Len(n) = 1),
       Check("pack: present", "pack_missing", names \subseteq DOMAIN delivered),
       Check("pack: unaltered", "pack_altered",
             \A n \in names \cap DOMAIN delivered : delivered[n] = entries[n]),
       Check("pack: listed", "pack_unlisted", DOMAIN delivered \subseteq names)>>
=============================================================================
