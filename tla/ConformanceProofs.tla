-------------------------- MODULE ConformanceProofs --------------------------
(***************************************************************************)
(* What an accepted statement says, for any corpus that satisfies          *)
(* CorpusAssumption and any set of implementations: whatever features they *)
(* know and claim, whatever checks they omit, and however they report.     *)
(* That the corpus of the generator satisfies the assumption is evaluated. *)
(*                                                                         *)
(* That several omissions cannot hide each other takes more than the       *)
(* cases: a verifier that omits more accepts more (OmittingMore), but for  *)
(* one pair of omissions, which another case tells (WithdrawingIsNoticed). *)
(***************************************************************************)
EXTENDS Conformance, LibraryProofs

-----------------------------------------------------------------------------
(***************************************************************************)
(* No failure is called "ok", in any verifier.                             *)
(***************************************************************************)
\* The parts that verifiers are put together from.
LEMMA SharedParts ==
  /\ \A report : IsChecks(VersionAndManifest(report)) /\ IsChecks(ValidProfile(report))
  /\ \A report, kinds : IsChecks(LeafKind(report, kinds))
  /\ \A proof, version : IsChecks(ProofVersion(proof, version))
  /\ \A signed : IsChecks(Algorithm(signed))
  /\ \A signed, key : IsChecks(TrustedSignature(signed, key))
  /\ \A signed, proof, key : IsChecks(Verify(signed, proof, key))
<1>1. \A report, kinds : IsChecks(LeafKind(report, kinds))
  <2> SUFFICES ASSUME NEW report, NEW kinds PROVE IsChecks(LeafKind(report, kinds))
    OBVIOUS
  <2>1. \E h : LeafKind(report, kinds) = <<Check("profile: leaf kind", "profile", h)>>
    BY Zenon DEF LeafKind
  <2> QED BY <2>1, ListedChecks, ChecksFail
<1>2. \A proof, version : IsChecks(ProofVersion(proof, version))
  <2> SUFFICES ASSUME NEW proof, NEW version PROVE IsChecks(ProofVersion(proof, version))
    OBVIOUS
  <2>1. \E h : ProofVersion(proof, version) =
                 <<Check("proof.format_version", "unsupported_version", h)>>
    BY Zenon DEF ProofVersion
  <2> QED BY <2>1, ListedChecks, ChecksFail
<1>3. \A signed, report, proof :
        IsChecks(VersionAndManifest(report)) /\ IsChecks(ValidProfile(report))
          /\ IsChecks(Algorithm(signed))
  BY PartsAreChecks
<1>4. \A signed, key : IsChecks(TrustedSignature(signed, key))
  BY TrustedIsSigned
<1>5. \A signed, proof, key : IsChecks(Verify(signed, proof, key))
  BY VerifiedIsSigned
<1> QED BY <1>1, <1>2, <1>3, <1>4, <1>5

\* The comparison of a proof with its report.
LEMMA AgainstIsChecks ==
  ASSUME NEW signed, NEW leaf, NEW steps, NEW digest, NEW key
  PROVE  IsChecks(AgainstReport(signed, leaf, steps, digest, key))
<1> DEFINE its == TrustedSignature(signed, key)
           checks == AgainstReport(signed, leaf, steps, digest, key)
<1>1. \E h, h1, h2, h3 :
        checks = <<Check("proof digest", "digest_mismatch", h)>>
                   \o its
                   \o <<Check("fold: no overflow", "malformed", h1),
                        Check("root hash", "root_hash_mismatch", h2),
                        Check("root sums", "root_sums_mismatch", h3)>>
  BY Zenon DEF AgainstReport
<1>2. IsChecks(its)
  BY SharedParts
<1> HIDE DEF its, checks
<1>3. PICK x, y : checks = x \o its \o y /\ IsChecks(x) /\ IsChecks(y)
  BY <1>1, ListedChecks, ChecksFail
<1>4. IsChecks(checks)
  BY <1>2, <1>3, OneAfterAnother
<1> QED BY <1>4 DEF checks

LEMMA VerifyV2IsChecks ==
  ASSUME NEW signed, NEW proof, NEW key
  PROVE  IsChecks(VerifyV2(signed, proof, key))
<1> DEFINE report == signed.report
           kinds == {rules.leaf : rules \in {r \in Registry : UsesLeafV2(r.leaf)}}
           against == AgainstReport(signed, LeafV2(proof.leaf.subject, proof.leaf.maps),
                                    proof.steps, proof.digest, key)
           checks == VerifyV2(signed, proof, key)
<1>1. \E h : checks =
        VersionAndManifest(report) \o ValidProfile(report) \o LeafKind(report, kinds)
          \o ProofVersion(proof, "proof-v2") \o Algorithm(signed)
          \o <<Check("profile: leaf maps", "profile", h)>> \o against
  BY Zenon DEF VerifyV2
<1>2. IsChecks(against)
  BY AgainstIsChecks
<1> HIDE DEF report, kinds, against, checks
<1>3. PICK x : /\ checks = VersionAndManifest(report) \o ValidProfile(report)
                             \o LeafKind(report, kinds) \o ProofVersion(proof, "proof-v2")
                             \o Algorithm(signed) \o x \o against
               /\ IsChecks(x)
  BY <1>1, ListedChecks, ChecksFail
<1>4. IsChecks(checks)
  BY <1>2, <1>3, SharedParts, OneAfterAnother
<1> QED BY <1>4 DEF checks

LEMMA GroupIsChecks ==
  ASSUME NEW group, NEW membership, NEW signed, NEW proof, NEW groupKey, NEW key
  PROVE  /\ IsChecks(VerifyMembership(group, membership, groupKey))
         /\ IsChecks(VerifyGroupChain(group, membership, signed, proof, groupKey, key))
<1> DEFINE against == AgainstReport(group, EntityLeaf(membership.entity), membership.steps,
                                    membership.digest, groupKey)
           member == VerifyMembership(group, membership, groupKey)
           chain == VerifyGroupChain(group, membership, signed, proof, groupKey, key)
           verified == Verify(signed, proof, key)
<1>1. \E h : member =
        <<Check("membership.format_version", "unsupported_version", h)>>
          \o ValidProfile(group.report) \o LeafKind(group.report, {"Entity"}) \o against
  BY Zenon DEF VerifyMembership
<1>2. \E h1, h2 : chain = verified \o member
                            \o <<Check("entity root", "entity_root_mismatch", h1),
                                 Check("entity sums", "entity_sums_mismatch", h2)>>
  BY Zenon DEF VerifyGroupChain
<1>3. IsChecks(against) /\ IsChecks(verified)
  BY AgainstIsChecks, SharedParts
<1> HIDE DEF against, member, chain, verified
<1>4. PICK x : /\ member = x \o ValidProfile(group.report) \o LeafKind(group.report, {"Entity"})
                             \o against
               /\ IsChecks(x)
  BY <1>1, ListedChecks, ChecksFail
<1>5. IsChecks(member)
  BY <1>3, <1>4, SharedParts, OneAfterAnother
<1>6. PICK y : chain = verified \o member \o y /\ IsChecks(y)
  BY <1>2, ListedChecks, ChecksFail
<1>7. IsChecks(chain)
  BY <1>3, <1>5, <1>6, OneAfterAnother
<1> QED BY <1>5, <1>7 DEF member, chain

LEMMA CoverageIsChecks ==
  ASSUME NEW custody, NEW liabilities, NEW statement, NEW custodyKey, NEW liabilitiesKey,
         NEW maxSkew
  PROVE  IsChecks(VerifyCoverage(custody, liabilities, statement, custodyKey, liabilitiesKey,
                                 maxSkew)
                    \o FullyCovered(custody, liabilities))
<1> DEFINE its == TrustedSignature(custody, custodyKey)
           theirs == TrustedSignature(liabilities, liabilitiesKey)
           checks == VerifyCoverage(custody, liabilities, statement, custodyKey, liabilitiesKey,
                                    maxSkew)
           covered == FullyCovered(custody, liabilities)
<1> DEFINE pairing == CoveragePairing(custody, liabilities, statement, custodyKey,
                                      liabilitiesKey, maxSkew)
<1>0. \E h1, h2, h3, h4 : pairing =
        <<Check("custody digest", "digest_mismatch", h1),
          Check("liabilities digest", "digest_mismatch", h2)>>
          \o its \o theirs
          \o <<Check("coverage: times parse", "malformed", h3),
               Check("coverage: skew", "temporal_mismatch", h4)>>
  BY Zenon DEF CoveragePairing
<1>1. \E h1, h2, h3 : checks =
        <<Check("coverage.format_version", "unsupported_version", h1),
          Check("coverage: custody profile", "profile", h2),
          Check("coverage: liabilities profile", "profile", h3)>> \o pairing
  BY Zenon DEF VerifyCoverage
<1>2. \E h : covered = <<Check("coverage: per asset", "shortfall", h)>>
  BY Zenon DEF FullyCovered
<1>3. IsChecks(its) /\ IsChecks(theirs)
  BY SharedParts
<1> HIDE DEF its, theirs, checks, covered, pairing
<1>4. PICK x : checks = x \o pairing /\ IsChecks(x)
  BY <1>1, ListedChecks, ChecksFail
<1>5. IsChecks(covered)
  BY <1>2, ListedChecks, ChecksFail
<1>6. IsChecks(checks)
  <2>1. PICK y, z : pairing = y \o its \o theirs \o z /\ IsChecks(y) /\ IsChecks(z)
    BY <1>0, ListedChecks, ChecksFail
  <2>2. IsChecks(pairing)
    BY <1>3, <2>1, OneAfterAnother
  <2> QED BY <1>4, <2>2, OneAfterAnother
<1>7. IsChecks(checks \o covered)
  BY <1>5, <1>6, OneAfterAnother
<1> QED BY <1>7 DEF checks, covered

\* No checks, and longer lists of them than the others.
LEMMA NoChecks == IsChecks(<< >>)
<1>1. << >> \in Seq({}) /\ \A i \in DOMAIN << >> : Fails(<< >>[i])
  OBVIOUS
<1> QED BY <1>1 DEF IsChecks

LEMMA LongLists ==
  /\ \A a, b, c, d, e, f, g :
       Fails(a) /\ Fails(b) /\ Fails(c) /\ Fails(d) /\ Fails(e) /\ Fails(f) /\ Fails(g) =>
         IsChecks(<<a, b, c, d, e, f, g>>)
  /\ \A a, b, c, d, e, f, g, h, i, j, k :
       Fails(a) /\ Fails(b) /\ Fails(c) /\ Fails(d) /\ Fails(e) /\ Fails(f) /\ Fails(g)
           /\ Fails(h) /\ Fails(i) /\ Fails(j) /\ Fails(k) =>
         IsChecks(<<a, b, c, d, e, f, g, h, i, j, k>>)
<1>1. ASSUME NEW S, \A x \in S : Fails(x), NEW s \in Seq(S) PROVE IsChecks(s)
  <2>1. \A i \in DOMAIN s : Fails(s[i])
    BY <1>1
  <2> QED BY <2>1 DEF IsChecks
<1>2. ASSUME NEW a, NEW b, NEW c, NEW d, NEW e, NEW f, NEW g,
             Fails(a), Fails(b), Fails(c), Fails(d), Fails(e), Fails(f), Fails(g)
      PROVE  IsChecks(<<a, b, c, d, e, f, g>>)
  <2> DEFINE S == {a, b, c, d, e, f, g}
  <2>1. \A x \in S : Fails(x)
    BY <1>2
  <2>2. <<a, b, c, d, e, f, g>> \in Seq(S)
    OBVIOUS
  <2> HIDE DEF S
  <2> QED BY <1>1, <2>1, <2>2
<1>3. ASSUME NEW a, NEW b, NEW c, NEW d, NEW e, NEW f, NEW g, NEW h, NEW i, NEW j, NEW k,
             Fails(a), Fails(b), Fails(c), Fails(d), Fails(e), Fails(f), Fails(g),
             Fails(h), Fails(i), Fails(j), Fails(k)
      PROVE  IsChecks(<<a, b, c, d, e, f, g, h, i, j, k>>)
  <2> DEFINE S == {a, b, c, d, e, f, g, h, i, j, k}
  <2>1. \A x \in S : Fails(x)
    BY <1>3
  <2>2. <<a, b, c, d, e, f, g, h, i, j, k>> \in Seq(S)
    OBVIOUS
  <2> HIDE DEF S
  <2> QED BY <1>1, <2>1, <2>2
<1> QED BY <1>2, <1>3

\* A history is checked one anchor after the other.
LEMMA AnchorsAreChecks ==
  ASSUME NEW history, Len(history) \in Nat
  PROVE  IsChecks(VerifyAnchorChain(history))
<1> DEFINE n == Len(history)
           Body(g, i) == IF i = 0 THEN << >> ELSE g[i - 1] \o AnchorChecks(history, i)
           Is(g, m) == g = [i \in 0..m |-> Body(g, i)]
           P == {m \in Nat : \E g : Is(g, m)}
           upTo == CHOOSE g : Is(g, n)
<1>1. VerifyAnchorChain(history) = upTo[n]
  BY DEF VerifyAnchorChain
<1>2. 0 \in P
  <2> DEFINE g == [i \in 0..0 |-> << >>]
  <2>1. \A i \in 0..0 : g[i] = Body(g, i)
    OBVIOUS
  <2>2. g = [i \in 0..0 |-> Body(g, i)]
    BY <2>1
  <2> HIDE DEF g
  <2> QED BY <2>2
<1>3. ASSUME NEW m \in Nat, m \in P PROVE m + 1 \in P
  <2>1. PICK g : Is(g, m)
    BY <1>3
  <2> DEFINE h == [i \in 0..(m + 1) |-> Body(g, i)]
  <2>2. \A i \in 0..m : g[i] = Body(g, i)
    <3> HIDE DEF Body
    <3> QED BY <2>1
  <2>3. \A i \in 0..m : h[i] = g[i]
    <3> HIDE DEF Body
    <3> QED BY <2>2
  <2>4. ASSUME NEW i \in 0..(m + 1) PROVE Body(g, i) = Body(h, i)
    <3>1. i # 0 => i - 1 \in 0..m
      OBVIOUS
    <3> HIDE DEF h
    <3> QED BY <2>3, <3>1
  <2>5. h = [i \in 0..(m + 1) |-> Body(h, i)]
    <3>1. \A i \in 0..(m + 1) : h[i] = Body(g, i)
      OBVIOUS
    <3>2. h = [i \in 0..(m + 1) |-> h[i]]
      OBVIOUS
    <3> HIDE DEF h, Body
    <3> QED BY <2>4, <3>1, <3>2
  <2> HIDE DEF h, Body
  <2> QED BY <2>5
<1>4. n \in P
  <2> HIDE DEF P
  <2> QED BY <1>2, <1>3, AllNumbers
<1>5. Is(upTo, n)
  <2>1. \E g : Is(g, n)
    BY <1>4
  <2> HIDE DEF Is
  <2> QED BY <2>1
<1>6. \A i \in 0..n : upTo[i] = Body(upTo, i)
  <2> HIDE DEF Body, upTo
  <2> QED BY <1>5
<1> HIDE DEF upTo, Is
<1>7. ASSUME NEW i PROVE IsChecks(AnchorChecks(history, i))
  <2> DEFINE h1 == history[i].version = "anchor-v1"
             h2 == i = 1 => history[i].prev = None
             h3 == history[i].prev = AnchorDigest(history[i - 1])
             h4 == history[i].publisher = history[i - 1].publisher
             h5 == TextLater(history[i].time, history[i - 1].time)
             h6 == history[i].offset >= history[i - 1].offset
             x == <<Check("anchor.format_version", "unsupported_version", h1),
                    Check("anchor: genesis", "not_genesis", h2)>>
             y == <<Check("anchor: link", "broken", h3),
                    Check("anchor: publisher", "publisher_changed", h4),
                    Check("anchor: time", "went_backwards", h5),
                    Check("anchor: offset", "went_backwards", h6)>>
  <2>1. AnchorChecks(history, i) = x \o (IF i = 1 THEN << >> ELSE y)
    BY Zenon DEF AnchorChecks
  <2> HIDE DEF h1, h2, h3, h4, h5, h6
  <2>2. IsChecks(x) /\ IsChecks(y)
    BY ListedChecks, ChecksFail
  <2> HIDE DEF x, y
  <2> QED BY <2>1, <2>2, NoChecks, OneAfterAnother
<1> DEFINE Q == {i \in Nat : i <= n => IsChecks(upTo[i])}
<1>8. 0 \in Q
  BY <1>6, NoChecks
<1>9. ASSUME NEW m \in Nat, m \in Q PROVE m + 1 \in Q
  <2> SUFFICES ASSUME m + 1 <= n PROVE IsChecks(upTo[m + 1])
    OBVIOUS
  <2>1. m + 1 \in 0..n /\ m + 1 # 0 /\ (m + 1) - 1 = m /\ m <= n
    OBVIOUS
  <2>2. upTo[m + 1] = upTo[m] \o AnchorChecks(history, m + 1)
    BY <1>6, <2>1
  <2>3. IsChecks(upTo[m])
    BY <1>9, <2>1
  <2> QED BY <1>7, <2>2, <2>3, OneAfterAnother
<1>10. n \in Q
  <2> HIDE DEF Q
  <2> QED BY <1>8, <1>9, AllNumbers
<1> QED BY <1>1, <1>10

LEMMA ProvenanceIsChecks ==
  ASSUME NEW signed, NEW graph, NEW key, NEW p, NEW levels
  PROVE  /\ IsChecks(VerifyProvenance(signed, graph, key))
         /\ IsChecks(CheckAgainstAssurance(p, levels))
<1> DEFINE q == graph.provenance
           S == q.sources
           D == q.derivations
           h1 == q.version = "provenance-v1"
           h2 == q.digest = Digest(signed.report)
           h3 == graph.signature.key = key
           h4 == graph.signature.algorithm = Ed25519
           h5 == GoodSignature(graph.signature, key, q)
           h6 == UniqueIds(S)
           h7 == \A i \in DOMAIN S : OnLedger(S[i]) \/ S[i].basis \notin {None, "blank"}
           h8 == \A i \in DOMAIN D : D[i].field \in ResidentFields
           h9 == \A i, j \in DOMAIN D : i # j => D[i].field # D[j].field
           h10 == \A i \in DOMAIN D : D[i].sources # << >>
           h11 == \A i \in DOMAIN D : \A k \in DOMAIN D[i].sources : D[i].sources[k] \in Ids(S)
           checks == <<Check("provenance.format_version", "unsupported_version", h1),
                       Check("provenance: digest", "digest_mismatch", h2),
                       Check("provenance: trusted key", "unknown_signer", h3),
                       Check("provenance: algorithm", "unsupported_version", h4),
                       Check("provenance: signature", "bad_signature", h5),
                       Check("provenance: ids", "provenance_inconsistent", h6),
                       Check("provenance: basis", "provenance_inconsistent", h7),
                       Check("provenance: fields", "provenance_inconsistent", h8),
                       Check("provenance: one derivation", "provenance_inconsistent", h9),
                       Check("provenance: some source", "provenance_inconsistent", h10),
                       Check("provenance: sources declared", "provenance_inconsistent", h11)>>
<1>1. VerifyProvenance(signed, graph, key) = checks
  BY Zenon DEF VerifyProvenance
<1>2. \E k1, k2 : CheckAgainstAssurance(p, levels) =
        <<Check("provenance: claimed is derived", "provenance_inconsistent", k1),
          Check("provenance: claimed is on ledger", "provenance_inconsistent", k2)>>
  BY Zenon DEF CheckAgainstAssurance
<1>3. IsChecks(CheckAgainstAssurance(p, levels))
  BY <1>2, ListedChecks, ChecksFail
<1>4. IsChecks(checks)
  <2> HIDE DEF h1, h2, h3, h4, h5, h6, h7, h8, h9, h10, h11
  <2> QED BY LongLists, ChecksFail
<1> QED BY <1>1, <1>3, <1>4

LEMMA PackIsChecks ==
  ASSUME NEW signed, NEW key, NEW delivered
  PROVE  IsChecks(VerifyPack(signed, key, delivered))
<1> DEFINE entries == signed.pack.entries
           names == DOMAIN entries
           h1 == signed.pack.version = "pack-v1"
           h2 == signed.signature.key = key
           h3 == GoodSignature(signed.signature, key, signed.pack)
           h4 == \A n \in names : Len(n) = 1
           h5 == names \subseteq DOMAIN delivered
           h6 == \A n \in names \cap DOMAIN delivered : delivered[n] = entries[n]
           h7 == DOMAIN delivered \subseteq names
           checks == <<Check("pack.format_version", "unsupported_version", h1),
                       Check("pack: trusted key", "unknown_signer", h2),
                       Check("pack: signature", "bad_signature", h3),
                       Check("pack: plain names", "unsafe_name", h4),
                       Check("pack: present", "pack_missing", h5),
                       Check("pack: unaltered", "pack_altered", h6),
                       Check("pack: listed", "pack_unlisted", h7)>>
<1>1. VerifyPack(signed, key, delivered) = checks
  BY Zenon DEF VerifyPack
<1>2. IsChecks(checks)
  <2> HIDE DEF h1, h2, h3, h4, h5, h6, h7
  <2> QED BY LongLists, ChecksFail
<1> QED BY <1>1, <1>2

-----------------------------------------------------------------------------
(***************************************************************************)
(* A verifier that omits more accepts more.  All but the assurance verb    *)
(* make the same checks, less the ones omitted.  In that verb omissions    *)
(* are inside the conditions, too, and two of them together withdraw every *)
(* level instead of granting one.                                          *)
(***************************************************************************)
Withdrawing == {"withheld: declared", "withheld: not carried"}

\* The second list asks for no more than the first, less what is omitted.
AsksNoMore(t, s, omitted) ==
  /\ IsChecks(s) /\ DOMAIN t = DOMAIN s
  /\ \A i \in DOMAIN s : /\ t[i].name = s[i].name
                         /\ s[i].holds => t[i].holds \/ s[i].name \in omitted

\* What passes with few omissions passes with more, of checks that ask less.
LEMMA PassesWithMore ==
  ASSUME NEW s, NEW t, NEW few, NEW many, few \subseteq many, AsksNoMore(t, s, many),
         Outcome(s, few) = "ok"
  PROVE  Outcome(t, many) = "ok"
<1> DEFINE Failing(checks, omitted) ==
             {i \in DOMAIN checks : ~checks[i].holds /\ checks[i].name \notin omitted}
<1>1. Failing(s, few) = {}
  <2> SUFFICES ASSUME Failing(s, few) # {} PROVE FALSE
    OBVIOUS
  <2>1. Outcome(s, few) = s[FirstOf(Failing(s, few))].failure
    BY DEF Outcome
  <2>2. DOMAIN s \subseteq Nat
    BY DEF AsksNoMore, IsChecks
  <2>3. FirstOf(Failing(s, few)) \in DOMAIN s
    BY <2>2, FirstExists
  <2> QED BY <2>1, <2>3 DEF AsksNoMore, IsChecks, Fails
<1>2. Failing(t, many) = {}
  BY <1>1 DEF AsksNoMore
<1> QED BY <1>2 DEF Outcome

LEMMA SameAskNoMore ==
  ASSUME NEW s, IsChecks(s)
  PROVE  \A omitted : AsksNoMore(s, s, omitted)
BY DEF AsksNoMore

\* A condition that is asked for by fewer is met by more.
LEMMA DemandsLess ==
  ASSUME NEW name, NEW few, NEW many, few \subseteq many, NEW h, NEW k, h => k,
         Demand(name, few, h)
  PROVE  Demand(name, many, k)
BY DEF Demand

\* A list whose last check asks for less.
LEMMA LastAsksNoMore ==
  ASSUME NEW first, IsChecks(first), NEW c, NEW d, NEW e, Fails(c), Fails(d),
         NEW omitted, d.name = e.name, d.holds => e.holds \/ d.name \in omitted
  PROVE  AsksNoMore(first \o <<c, e>>, first \o <<c, d>>, omitted)
<1> DEFINE s == first \o <<c, d>>
           t == first \o <<c, e>>
           n == Len(first)
<1>1. PICK S : first \in Seq(S)
  BY DEF IsChecks
<1>2. /\ DOMAIN s = 1..(n + 2) /\ DOMAIN t = 1..(n + 2) /\ n \in Nat
      /\ \A i \in 1..n : s[i] = first[i] /\ t[i] = first[i]
      /\ s[n + 1] = c /\ t[n + 1] = c /\ s[n + 2] = d /\ t[n + 2] = e
  BY <1>1
<1>3. IsChecks(s)
  <2>1. IsChecks(<<c, d>>)
    BY ListedChecks
  <2> QED BY <2>1, OneAfterAnother
<1>4. \A i \in 1..(n + 2) : i \in 1..n \/ i = n + 1 \/ i = n + 2
  BY <1>2
<1> HIDE DEF s, t
<1>5. ASSUME NEW i \in DOMAIN s
      PROVE  t[i].name = s[i].name /\ (s[i].holds => t[i].holds \/ s[i].name \in omitted)
  BY <1>2, <1>4
<1> QED BY <1>2, <1>3, <1>5 DEF AsksNoMore, s, t

\* What counts as an attestation, an anchor or a proof counts with more omitted.
LEMMA EvidenceCounts ==
  ASSUME NEW few, NEW many, few \subseteq many
  PROVE  /\ \A report, anchor : AnchorsReport(report, anchor, few) =>
                                 AnchorsReport(report, anchor, many)
         /\ \A a, field, report, trusted : Vouches(a, field, report, trusted, few) =>
                                           Vouches(a, field, report, trusted, many)
         /\ \A signed, proof, key : Outcome(Verify(signed, proof, key), few) = "ok" =>
                                    Outcome(Verify(signed, proof, key), many) = "ok"
<1>1. ASSUME NEW report, NEW anchor, AnchorsReport(report, anchor, few)
      PROVE  AnchorsReport(report, anchor, many)
  BY <1>1, Zenon DEF AnchorsReport, Demand
<1>2. ASSUME NEW a, NEW field, NEW report, NEW trusted, Vouches(a, field, report, trusted, few)
      PROVE  Vouches(a, field, report, trusted, many)
  BY <1>2, Zenon DEF Vouches, Demand
<1>3. ASSUME NEW signed, NEW proof, NEW key, Outcome(Verify(signed, proof, key), few) = "ok"
      PROVE  Outcome(Verify(signed, proof, key), many) = "ok"
  <2>1. AsksNoMore(Verify(signed, proof, key), Verify(signed, proof, key), many)
    BY SharedParts, SameAskNoMore
  <2> QED BY <1>3, <2>1, PassesWithMore
<1> QED BY <1>1, <1>2, <1>3

\* Levels are granted to more fields with more omitted, unless what is omitted
\* makes a figure that is shown count as withheld.
LEMMA EstablishedGrows ==
  ASSUME NEW few, NEW many, few \subseteq many,
         NEW signed, NEW field, NEW evidence, NEW trusted, ~Withheld(signed.report, field, many)
  PROVE  Established(signed, field, evidence, trusted, few) \subseteq
         Established(signed, field, evidence, trusted, many)
<1> DEFINE report == signed.report
           Verified(omitted) ==
             {l \in {"cryptographically-verified"} :
                /\ Demand("verified: committed field", omitted, field = "root_sums")
                /\ Demand("verified: proof verifies", omitted,
                          /\ evidence.proof # None
                          /\ Outcome(Verify(signed, evidence.proof, trusted.publisher), omitted)
                               = "ok")}
           OnTheLedger(omitted) ==
             {l \in {"ledger-derived"} :
                /\ Demand("ledger: anchored", omitted,
                          evidence.anchor # None
                            /\ AnchorsReport(report, evidence.anchor, omitted))
                /\ Demand("ledger: derived", omitted,
                          evidence.provenance # None
                            /\ DerivesFromLedger(evidence.provenance, field))}
           AttestedTo(omitted) ==
             {RoleLevel(a.attestation.role) :
                a \in {b \in evidence.attestations : Vouches(b, field, report, trusted, omitted)}}
<1>1. \A omitted : Established(signed, field, evidence, trusted, omitted) =
        IF Withheld(report, field, omitted) THEN {"not-disclosed"}
        ELSE {"claimed-only"} \cup Verified(omitted) \cup OnTheLedger(omitted)
               \cup AttestedTo(omitted)
  BY Zenon DEF Established
<1>2. ~Withheld(report, field, few) /\ ~Withheld(report, field, many)
  BY Zenon DEF Withheld, Demand
<1>3. Verified(few) \subseteq Verified(many)
  BY EvidenceCounts, DemandsLess, Zenon
<1>4. OnTheLedger(few) \subseteq OnTheLedger(many)
  BY EvidenceCounts, DemandsLess, Zenon
<1>5. AttestedTo(few) \subseteq AttestedTo(many)
  BY EvidenceCounts, Zenon
<1> HIDE DEF Verified, OnTheLedger, AttestedTo, report
<1> QED BY <1>1, <1>2, <1>3, <1>4, <1>5

LEMMA AssuranceAsksNoMore ==
  ASSUME NEW few, NEW many, few \subseteq many,
         NEW signed, NEW statement, NEW evidence, NEW trusted,
         \/ "assurance: supported" \in many
         \/ \A f \in DOMAIN statement.levels \cap ResidentFields : ~Withheld(signed.report, f, many)
  PROVE  AsksNoMore(VerifyAssurance(signed, statement, evidence, trusted, many),
                    VerifyAssurance(signed, statement, evidence, trusted, few), many)
<1> DEFINE its == TrustedSignature(signed, trusted.publisher)
           fields == DOMAIN statement.levels \cap ResidentFields
           h1 == statement.version = "assurance-v1"
           h2 == statement.digest = Digest(signed.report)
           h3 == DOMAIN statement.levels \subseteq ResidentFields
           Supported(omitted) ==
             \A f \in fields :
               statement.levels[f] \in Established(signed, f, evidence, trusted, omitted)
           x == <<Check("assurance.format_version", "unsupported_version", h1),
                  Check("assurance: digest", "digest_mismatch", h2)>>
           c == Check("assurance: known fields", "unknown_field", h3)
           Compared(omitted) == Check("assurance: supported", "over_claimed", Supported(omitted))
           first == x \o its
<1>1. /\ VerifyAssurance(signed, statement, evidence, trusted, few) = first \o <<c, Compared(few)>>
      /\ VerifyAssurance(signed, statement, evidence, trusted, many) = first \o <<c, Compared(many)>>
  BY Zenon DEF VerifyAssurance
<1>2. Supported(few) => Supported(many) \/ "assurance: supported" \in many
  BY EstablishedGrows
<1>3. IsChecks(its)
  BY SharedParts
<1> HIDE DEF its, fields, h1, h2, h3, Supported
<1>4. IsChecks(x) /\ Fails(c) /\ \A omitted : Fails(Compared(omitted))
  BY ListedChecks, ChecksFail
<1>5. /\ Compared(few).name = Compared(many).name
      /\ Compared(few).holds => Compared(many).holds \/ Compared(few).name \in many
  BY <1>2 DEF Check
<1> HIDE DEF x, c, Compared
<1>6. IsChecks(first)
  BY <1>3, <1>4, OneAfterAnother
<1> HIDE DEF first
<1>7. AsksNoMore(first \o <<c, Compared(many)>>, first \o <<c, Compared(few)>>, many)
  BY <1>4, <1>5, <1>6, LastAsksNoMore
<1> QED BY <1>1, <1>7, Zenon

LEMMA EndOfTwo ==
  ASSUME NEW S, NEW y \in Seq(S), NEW c, NEW d
  PROVE  Len(y) + 2 \in DOMAIN (y \o <<c, d>>) /\ (y \o <<c, d>>)[Len(y) + 2] = d
<1>1. /\ DOMAIN (y \o <<c, d>>) = 1..(Len(y) + 2) /\ Len(y) \in Nat
      /\ (y \o <<c, d>>)[Len(y) + 2] = d
  OBVIOUS
<1>2. Len(y) + 2 \in 1..(Len(y) + 2)
  BY <1>1
<1> QED BY <1>1, <1>2

LEMMA ChecksNumbered ==
  ASSUME NEW checks, IsChecks(checks)
  PROVE  DOMAIN checks \subseteq Nat
<1>1. PICK S : checks \in Seq(S)
  BY DEF IsChecks
<1>2. DOMAIN checks = 1..Len(checks) /\ Len(checks) \in Nat
  BY <1>1
<1> QED BY <1>2

\* A level that is not established fails the statement, in a verifier that compares.
LEMMA UnsupportedFails ==
  ASSUME NEW omitted, "assurance: supported" \notin omitted,
         NEW signed, NEW statement, NEW evidence, NEW trusted,
         NEW f \in DOMAIN statement.levels \cap ResidentFields,
         statement.levels[f] \notin Established(signed, f, evidence, trusted, omitted)
  PROVE  Outcome(VerifyAssurance(signed, statement, evidence, trusted, omitted), omitted) # "ok"
<1> DEFINE checks == VerifyAssurance(signed, statement, evidence, trusted, omitted)
           failing == {i \in DOMAIN checks : ~checks[i].holds /\ checks[i].name \notin omitted}
           its == TrustedSignature(signed, trusted.publisher)
           h == \A g \in DOMAIN statement.levels \cap ResidentFields :
                  statement.levels[g] \in Established(signed, g, evidence, trusted, omitted)
           last == Check("assurance: supported", "over_claimed", h)
<1>1. \E h1, h2, h3 : checks =
        <<Check("assurance.format_version", "unsupported_version", h1),
          Check("assurance: digest", "digest_mismatch", h2)>>
          \o its \o <<Check("assurance: known fields", "unknown_field", h3), last>>
  BY Zenon DEF VerifyAssurance
<1>2. ~h
  OBVIOUS
<1>3. IsChecks(its)
  BY SharedParts
<1> HIDE DEF h, its, checks
<1>4. Fails(last) /\ ~last.holds /\ last.name \notin omitted
  BY <1>2 DEF Check, Fails
<1> HIDE DEF last
<1>5. PICK x, c : checks = x \o its \o <<c, last>> /\ IsChecks(x) /\ Fails(c)
  BY <1>1, ListedChecks, ChecksFail
<1>6. IsChecks(x \o its) /\ IsChecks(<<c, last>>)
  BY <1>3, <1>4, <1>5, ListedChecks, OneAfterAnother
<1>7. IsChecks(checks)
  BY <1>5, <1>6, OneAfterAnother
<1>8. Len(x \o its) + 2 \in DOMAIN checks /\ checks[Len(x \o its) + 2] = last
  <2> DEFINE y == x \o its
  <2>1. PICK S : y \in Seq(S)
    BY <1>6 DEF IsChecks
  <2>2. checks = y \o <<c, last>>
    BY <1>5
  <2> HIDE DEF y
  <2>3. Len(y) + 2 \in DOMAIN (y \o <<c, last>>) /\ (y \o <<c, last>>)[Len(y) + 2] = last
    BY <2>1, EndOfTwo
  <2>4. Len(y) + 2 \in DOMAIN checks /\ checks[Len(y) + 2] = last
    BY <2>2, <2>3, Zenon
  <2> QED BY <2>4 DEF y
<1>9. failing # {} /\ failing \subseteq DOMAIN checks /\ failing \subseteq Nat
  <2>1. DOMAIN checks \subseteq Nat
    BY <1>7, ChecksNumbered
  <2>2. Len(x \o its) + 2 \in failing
    BY <1>4, <1>8
  <2> QED BY <2>1, <2>2
<1>10. FirstOf(failing) \in DOMAIN checks
  BY <1>9, FirstExists
<1>11. Outcome(checks, omitted) = checks[FirstOf(failing)].failure
  BY <1>9 DEF Outcome
<1>12. Outcome(checks, omitted) # "ok"
  BY <1>7, <1>10, <1>11 DEF IsChecks, Fails
<1> QED BY <1>12 DEF checks

\* What checks a case comes down to, kind by kind.
LEMMA ChecksByKind ==
  ASSUME NEW c, NEW omitted
  PROVE  LET d == c.docs
             checks == ChecksOf(c, omitted) IN
         /\ c.kind = "proof" => checks = Verify(d.report, d.proof, Publisher)
         /\ c.kind = "proof-v2" => checks = VerifyV2(d.report, d.proof, Publisher)
         /\ c.kind = "chain" =>
              checks = VerifyGroupChain(d.group, d.membership, d.entity, d.proof, Publisher,
                                        Publisher)
         /\ c.kind = "membership" => checks = VerifyMembership(d.group, d.membership, Publisher)
         /\ c.kind = "coverage" =>
              checks = VerifyCoverage(d.custody, d.liabilities, d.statement, Publisher, Publisher,
                                      SameRun) \o FullyCovered(d.custody, d.liabilities)
         /\ c.kind = "anchors" => checks = VerifyAnchorChain(d.history)
         /\ c.kind = "provenance" =>
              checks = VerifyProvenance(d.report, d.graph, Publisher)
                         \o (IF d.statement = None THEN << >>
                             ELSE CheckAgainstAssurance(d.graph.provenance, d.statement.levels))
         /\ c.kind = "assurance" =>
              checks = VerifyAssurance(d.report, d.statement, d.evidence,
                                       [publisher |-> Publisher, attestors |-> d.attestors], omitted)
         /\ c.kind = "pack" => checks = VerifyPack(d.index, Publisher, d.delivered)
BY DEF ChecksOf

\* A case that passes with few omissions passes with more, unless what is omitted
\* makes figures that are shown count as withheld.
LEMMA OmittingMore ==
  ASSUME NEW few, NEW many, few \subseteq many,
         NEW c, c.kind \in Kinds, c.kind = "anchors" => Len(c.docs.history) \in Nat,
         \/ c.kind # "assurance"
         \/ "assurance: supported" \in many
         \/ \A f \in DeclaredFigures(c.docs) : ~Withheld(c.docs.report.report, f, many),
         RunCase(c, few) = "ok"
  PROVE  RunCase(c, many) = "ok"
<1> DEFINE d == c.docs
<1>1. SUFFICES AsksNoMore(ChecksOf(c, many), ChecksOf(c, few), many)
  BY PassesWithMore DEF RunCase
<1>2. CASE c.kind = "proof"
  <2>1. /\ ChecksOf(c, few) = Verify(d.report, d.proof, Publisher)
        /\ ChecksOf(c, many) = Verify(d.report, d.proof, Publisher)
    BY <1>2, ChecksByKind
  <2> QED BY <2>1, SharedParts, SameAskNoMore
<1>3. CASE c.kind = "proof-v2"
  <2>1. /\ ChecksOf(c, few) = VerifyV2(d.report, d.proof, Publisher)
        /\ ChecksOf(c, many) = VerifyV2(d.report, d.proof, Publisher)
    BY <1>3, ChecksByKind
  <2> QED BY <2>1, VerifyV2IsChecks, SameAskNoMore
<1>4. CASE c.kind \in {"chain", "membership"}
  <2>1. ChecksOf(c, few) = ChecksOf(c, many) /\ IsChecks(ChecksOf(c, few))
    BY <1>4, ChecksByKind, GroupIsChecks
  <2> QED BY <2>1, SameAskNoMore
<1>5. CASE c.kind = "coverage"
  <2>1. ChecksOf(c, few) = ChecksOf(c, many) /\ IsChecks(ChecksOf(c, few))
    BY <1>5, ChecksByKind, CoverageIsChecks
  <2> QED BY <2>1, SameAskNoMore
<1>6. CASE c.kind = "anchors"
  <2>1. ChecksOf(c, few) = ChecksOf(c, many) /\ IsChecks(ChecksOf(c, few))
    BY <1>6, ChecksByKind, AnchorsAreChecks
  <2> QED BY <2>1, SameAskNoMore
<1>7. CASE c.kind = "provenance"
  <2> DEFINE x == VerifyProvenance(d.report, d.graph, Publisher)
             y == IF d.statement = None THEN << >>
                  ELSE CheckAgainstAssurance(d.graph.provenance, d.statement.levels)
  <2>1. ChecksOf(c, few) = x \o y /\ ChecksOf(c, many) = x \o y
    BY <1>7, ChecksByKind
  <2>2. IsChecks(x) /\ IsChecks(y)
    BY ProvenanceIsChecks, NoChecks
  <2> HIDE DEF x, y
  <2>3. IsChecks(x \o y)
    BY <2>2, OneAfterAnother
  <2> QED BY <2>1, <2>3, SameAskNoMore
<1>8. CASE c.kind = "assurance"
  <2> DEFINE trusted == [publisher |-> Publisher, attestors |-> d.attestors]
  <2>1. /\ ChecksOf(c, few) = VerifyAssurance(d.report, d.statement, d.evidence, trusted, few)
        /\ ChecksOf(c, many) = VerifyAssurance(d.report, d.statement, d.evidence, trusted, many)
    BY <1>8, ChecksByKind
  <2>2. \/ "assurance: supported" \in many
        \/ \A f \in DOMAIN d.statement.levels \cap ResidentFields :
             ~Withheld(d.report.report, f, many)
    BY <1>8 DEF DeclaredFigures
  <2>3. AsksNoMore(VerifyAssurance(d.report, d.statement, d.evidence, trusted, many),
                   VerifyAssurance(d.report, d.statement, d.evidence, trusted, few), many)
    BY <2>2, AssuranceAsksNoMore
  <2> QED BY <2>1, <2>3
<1>9. CASE c.kind = "pack"
  <2>1. ChecksOf(c, few) = ChecksOf(c, many) /\ IsChecks(ChecksOf(c, few))
    BY <1>9, ChecksByKind, PackIsChecks
  <2> QED BY <2>1, SameAskNoMore
<1> QED BY <1>2, <1>3, <1>4, <1>5, <1>6, <1>7, <1>8, <1>9 DEF Kinds

-----------------------------------------------------------------------------
(***************************************************************************)
(* What came of the corpus, and what the statement says came of it.        *)
(***************************************************************************)
\* An implementation answers as this verifier would, less the checks it omits,
\* if it can read the case.
LEMMA AnswerIs ==
  ASSUME NEW im, NEW i \in DOMAIN Suite
  PROVE  AnswersOf(im)[i] = IF Needs(Suite[i]) \subseteq im.knows
                            THEN RunCase(Suite[i], im.omits) ELSE "unsupported_version"
<1> DEFINE full == IF im.omits = {} THEN OurAnswers ELSE AnswersWithout(im.omits)
<1>1. full = AnswersWithout(im.omits)
  BY DEF OurAnswers
<1>2. DOMAIN full = DOMAIN Suite /\ full[i] = RunCase(Suite[i], im.omits)
  BY <1>1 DEF AnswersWithout, RunEach
<1>3. Needed[i] = Needs(Suite[i])
  BY DEF Needed, EachNeeds
<1>4. AnswersOf(im) = [j \in DOMAIN full |-> IF Needed[j] \subseteq im.knows THEN full[j]
                                             ELSE "unsupported_version"]
  BY DEF AnswersOf
<1> HIDE DEF full
<1> QED BY <1>2, <1>3, <1>4

\* read_cases keeps the cases' places and what is asked about here.
LEMMA SpecsAre ==
  /\ DOMAIN CaseSpecs = DOMAIN Suite
  /\ \A i \in DOMAIN Suite : /\ CaseSpecs[i].id = Suite[i].id
                             /\ CaseSpecs[i].expect = Suite[i].expect
                             /\ CaseSpecs[i].requires = Suite[i].requires
BY DEF CaseSpecs, EachSpec

PlaceOf(id) == CHOOSE i \in DOMAIN CaseSpecs : CaseSpecs[i].id = id

ResultOf(im, i) == OutcomeOf(im, CaseSpecs[i], Said(AnswersOf(im)[i]))

\* The statement an implementation makes over the corpus as it was generated.
StatementOf(im) ==
  [supports |-> im.claims, digest |-> CorpusDigest(CaseSpecs),
   results |-> [id \in {CaseSpecs[i].id : i \in DOMAIN CaseSpecs} |-> ResultOf(im, PlaceOf(id))]]

\* No two cases share an id, so each has its own result in it.
LEMMA StatedOf ==
  ASSUME NEW im, NEW i \in DOMAIN Suite
  PROVE  /\ CaseSpecs[i].id \in DOMAIN StatementOf(im).results
         /\ StatementOf(im).results[CaseSpecs[i].id] = ResultOf(im, i)
<1>1. i \in DOMAIN CaseSpecs /\ \A j \in DOMAIN CaseSpecs : CaseSpecs[j].id = CaseSpecs[i].id => j = i
  BY SpecsAre, CorpusAssumption
<1>2. PlaceOf(CaseSpecs[i].id) = i
  BY <1>1 DEF PlaceOf
<1> QED BY <1>1, <1>2 DEF StatementOf

\* A revision changes the corpus under a statement, never the statement.
IInv ==
  /\ impl \in Implementations
  /\ declared = None => cases = CaseSpecs
  /\ declared # None => answers = AnswersOf(impl) /\ declared = StatementOf(impl)

LEMMA IInvHolds == Spec => []IInv
<1>1. Init => IInv
  BY DEF Init, IInv
<1>2. IInv /\ [Next]_vars => IInv'
  <2> SUFFICES ASSUME IInv, [Next]_vars PROVE IInv'
    OBVIOUS
  <2>1. CASE Build
    <3>1. cases = CaseSpecs /\ cases' = cases /\ impl' = impl /\ answers' = AnswersOf(impl)
      BY <2>1 DEF Build, IInv
    <3>2. declared' = [supports |-> impl.claims, digest |-> CorpusDigest(cases),
                       results |-> [id \in {cases[i].id : i \in DOMAIN cases} |->
                                      LET i == Place(id)
                                      IN OutcomeOf(impl, cases[i], Said(answers'[i]))]]
      BY <2>1 DEF Build
    <3>3. \A id : Place(id) = PlaceOf(id)
      BY <3>1, Zenon DEF Place, PlaceOf
    <3>4. declared' = StatementOf(impl)
      BY <3>1, <3>2, <3>3, Zenon DEF StatementOf, ResultOf
    <3> QED BY <3>1, <3>4 DEF IInv
  <2>2. CASE Revise
    BY <2>2 DEF Revise, IInv
  <2>3. CASE UNCHANGED vars
    BY <2>3 DEF IInv, vars
  <2> QED BY <2>1, <2>2, <2>3 DEF Next
<1> QED BY <1>1, <1>2, PTL DEF Spec

\* A reader who holds the corpus of the statement and finds no defect in it sees a
\* result for every case that was claimed, and for no other.
LEMMA ClaimedAreReported ==
  ASSUME IInv, declared # None, declared.digest = CorpusDigest(cases),
         Defects(declared, cases) = {}
  PROVE  /\ cases = CaseSpecs /\ answers = AnswersOf(impl)
         /\ \A i \in DOMAIN Suite :
              /\ declared.results[Suite[i].id] = ResultOf(impl, i)
              /\ declared.results[Suite[i].id] # "skip" <=> Suite[i].requires \subseteq impl.claims
<1>1. declared = StatementOf(impl) /\ answers = AnswersOf(impl)
  BY DEF IInv
<1>2. cases = CaseSpecs
  BY <1>1 DEF CorpusDigest, StatementOf
<1>3. declared.supports = impl.claims
  BY <1>1 DEF StatementOf
<1>4. ASSUME NEW i \in DOMAIN Suite
      PROVE  /\ declared.results[Suite[i].id] = ResultOf(impl, i)
             /\ declared.results[Suite[i].id] # "skip" <=> Suite[i].requires \subseteq impl.claims
  <2>1. declared.results[Suite[i].id] = ResultOf(impl, i)
    BY <1>1, SpecsAre, StatedOf
  <2>2. i \in DOMAIN cases /\ cases[i].id = Suite[i].id /\ cases[i].requires = Suite[i].requires
    BY <1>2, SpecsAre
  <2>3. Claimed(cases[i], declared.supports) # (declared.results[cases[i].id] = "skip")
    BY <2>2, Zenon DEF Defects
  <2> QED BY <1>3, <2>1, <2>2, <2>3 DEF Claimed
<1> QED BY <1>1, <1>2, <1>4

\* However results are reported, an accepted one is what came of the case and what
\* was expected of it.
LEMMA AcceptedAreExpected ==
  ASSUME IInv, IsAccepted, NEW i \in DOMAIN Suite, Suite[i].requires \subseteq impl.claims
  PROVE  Said(AnswersOf(impl)[i]) = Suite[i].expect
<1> DEFINE said == Said(AnswersOf(impl)[i])
           result == declared.results[Suite[i].id]
<1>1. /\ declared # None /\ declared.digest = CorpusDigest(cases)
      /\ Defects(declared, cases) = {} /\ AsExpected(declared, cases)
  BY DEF IsAccepted, Accepted
<1>2. cases = CaseSpecs /\ result = ResultOf(impl, i) /\ result # "skip"
  BY <1>1, ClaimedAreReported
<1>3. result = Suite[i].expect
  BY <1>1, <1>2, SpecsAre DEF AsExpected
<1>4. impl.reports \in Reporting
  BY ImplementationsAssumption DEF IInv
<1>5. Claimed(CaseSpecs[i], impl.claims) /\ CaseSpecs[i].expect = Suite[i].expect
  BY SpecsAre DEF Claimed
<1>6. ResultOf(impl, i) = OutcomeOf(impl, CaseSpecs[i], said)
  BY DEF ResultOf
<1> HIDE DEF said
<1>7. result = said
  BY <1>2, <1>4, <1>5, <1>6, <1>3 DEF OutcomeOf, Reporting
<1> QED BY <1>3, <1>7 DEF said

-----------------------------------------------------------------------------
(***************************************************************************)
(* The properties.                                                         *)
(***************************************************************************)
\* No result about documents the implementation cannot read, if it claims what it
\* knows (defects, compat.rs:109-144): each case asks for all it takes to read it.
THEOREM ReportedRead == Spec => []ReportedIsRead
<1>1. IInv => ReportedIsRead
  <2> SUFFICES ASSUME IInv, declared # None, declared.digest = CorpusDigest(cases),
                      impl.claims = impl.knows, Defects(declared, cases) = {},
                      NEW i \in DOMAIN cases, declared.results[cases[i].id] # "skip"
               PROVE  Needed[i] \subseteq impl.knows
    BY DEF ReportedIsRead
  <2>1. i \in DOMAIN Suite /\ cases[i].id = Suite[i].id
    BY ClaimedAreReported, SpecsAre
  <2>2. Suite[i].requires \subseteq impl.claims
    BY <2>1, ClaimedAreReported
  <2>3. Needed[i] \subseteq Suite[i].requires
    BY <2>1, CorpusAssumption DEF Needed, EachNeeds
  <2> QED BY <2>2, <2>3
<1> QED BY <1>1, IInvHolds, PTL

\* Who claims every feature knows every feature, or the statement is not accepted
\* (compat.rs:124-131): some case that must be accepted needs it.
LEMMA NothingOverclaimed ==
  ASSUME IInv, IsAccepted, impl.claims = SUPPORTED
  PROVE  impl.knows = SUPPORTED
<1>1. impl.knows \subseteq SUPPORTED
  BY ImplementationsAssumption DEF IInv
<1>2. ASSUME NEW f \in SUPPORTED PROVE f \in impl.knows
  <2>1. PICK i \in DOMAIN Suite : Suite[i].expect = "accept" /\ f \in Needs(Suite[i])
    BY CorpusAssumption
  <2>2. Said(AnswersOf(impl)[i]) = "accept"
    BY <2>1, CorpusAssumption, AcceptedAreExpected
  <2>3. AnswersOf(impl)[i] = "ok"
    BY <2>2 DEF Said
  <2> QED BY <2>1, <2>3, AnswerIs
<1> QED BY <1>1, <1>2

THEOREM OverclaimsNoticed == Spec => []OverclaimIsNoticed
<1>1. IInv => OverclaimIsNoticed
  BY NothingOverclaimed DEF OverclaimIsNoticed
<1> QED BY <1>1, IInvHolds, PTL

\* What is decided in an accepted statement is decided as its case declares, over
\* the corpus the reader holds (compat.rs:6-13 and 65-80).
THEOREM DecidedAsExpected == Spec => []DecidedAsDeclared
<1>1. IInv => DecidedAsDeclared
  <2> SUFFICES ASSUME IInv, IsAccepted PROVE DecidedAsDeclared
    BY DEF DecidedAsDeclared
  <2>1. /\ declared # None /\ declared.digest = CorpusDigest(cases)
        /\ Defects(declared, cases) = {}
    BY DEF IsAccepted, Accepted
  <2>2. cases = CaseSpecs /\ answers = AnswersOf(impl)
    BY <2>1, ClaimedAreReported
  <2>3. ASSUME impl.omits = {}, impl.claims \in {impl.knows, SUPPORTED}, NEW i \in DOMAIN cases,
               declared.results[cases[i].id] # "skip"
        PROVE  answers[i] = IF cases[i].expect = "accept" THEN "ok" ELSE Suite[i].failure
    <3>1. i \in DOMAIN Suite /\ cases[i].id = Suite[i].id /\ cases[i].expect = Suite[i].expect
      BY <2>2, <2>3, SpecsAre
    <3>2. Suite[i].requires \subseteq impl.claims
      BY <2>1, <2>3, <3>1, ClaimedAreReported
    <3>3. impl.claims = impl.knows
      BY <2>3, NothingOverclaimed
    <3>4. Needs(Suite[i]) \subseteq impl.knows
      BY <3>1, <3>2, <3>3, CorpusAssumption
    <3>5. answers[i] = RunCase(Suite[i], {})
      BY <2>2, <2>3, <3>1, <3>4, AnswerIs
    <3>6. \/ Suite[i].expect = "accept" /\ RunCase(Suite[i], {}) = "ok"
          \/ Suite[i].expect = "reject" /\ RunCase(Suite[i], {}) = Suite[i].failure
      BY <3>1, CorpusAssumption
    <3> QED BY <3>1, <3>5, <3>6
  <2> QED BY <2>2, <2>3 DEF DecidedAsDeclared
<1> QED BY <1>1, IInvHolds, PTL

\* A figure that is shown in a report without a manifest counts as withheld only
\* for a verifier that asks neither whether it was declared so nor whether it is
\* shown; and that one grants no level but that.
LEMMA OnlyBothWithdraw ==
  ASSUME NEW i \in DOMAIN Suite, Suite[i].kind = "assurance",
         NEW f \in DeclaredFigures(Suite[i].docs), NEW omitted
  PROVE  Withheld(Suite[i].docs.report.report, f, omitted) <=> Withdrawing \subseteq omitted
<1> DEFINE report == Suite[i].docs.report.report
<1>1. report.meta.manifest = None /\ CarriesData(report, f)
  BY CorpusAssumption DEF IsGraded
<1> HIDE DEF report
<1>2. Withheld(report, f, omitted) <=>
        "withheld: declared" \in omitted /\ "withheld: not carried" \in omitted
  BY <1>1, Zenon DEF Withheld, Demand
<1> QED BY <1>2 DEF Withdrawing, report

\* Such a verifier refuses statements that have to be accepted, unless it does not
\* compare levels at all.
LEMMA WithdrawingIsNoticed ==
  ASSUME IInv, IsAccepted, impl.claims = SUPPORTED, Withdrawing \subseteq impl.omits
  PROVE  "assurance: supported" \in impl.omits
<1> SUFFICES ASSUME "assurance: supported" \notin impl.omits PROVE FALSE
  OBVIOUS
<1>1. PICK i \in DOMAIN Suite : /\ Suite[i].kind = "assurance" /\ Suite[i].expect = "accept"
                              /\ Grades(Suite[i].docs)
  BY CorpusAssumption
<1> DEFINE d == Suite[i].docs
           trusted == [publisher |-> Publisher, attestors |-> d.attestors]
           checks == VerifyAssurance(d.report, d.statement, d.evidence, trusted, impl.omits)
           fields == DOMAIN d.statement.levels \cap ResidentFields
<1>2. PICK f \in fields : d.statement.levels[f] # "not-disclosed"
  BY <1>1 DEF Grades, DeclaredFigures
<1>3. Withheld(d.report.report, f, impl.omits)
  BY <1>1, <1>2, OnlyBothWithdraw DEF DeclaredFigures
<1>4. d.statement.levels[f] \notin Established(d.report, f, d.evidence, trusted, impl.omits)
  BY <1>2, <1>3 DEF Established
<1>5. Outcome(checks, impl.omits) # "ok"
  BY <1>2, <1>4, UnsupportedFails
<1>6. RunCase(Suite[i], impl.omits) # "ok"
  BY <1>1, <1>5, ChecksByKind DEF RunCase
<1>7. impl.knows = SUPPORTED
  BY NothingOverclaimed
<1>8. Suite[i].requires \subseteq impl.claims /\ Needs(Suite[i]) \subseteq impl.knows
  BY <1>7, CorpusAssumption
<1>9. AnswersOf(impl)[i] # "ok"
  BY <1>6, <1>8, AnswerIs
<1>10. Said(AnswersOf(impl)[i]) = "accept"
  BY <1>1, <1>8, AcceptedAreExpected
<1> QED BY <1>9, <1>10 DEF Said

\* A check that is omitted, and that some case decides, is noticed (SPEC 14.3), and
\* cannot be hidden by omitting others.
THEOREM OmissionsNoticed == Spec => []OmissionIsNoticed
<1>1. IInv => OmissionIsNoticed
  <2> SUFFICES ASSUME IInv, IsAccepted, impl.claims = SUPPORTED,
                      NEW check \in impl.omits \cap Exposed
               PROVE  FALSE
    BY DEF OmissionIsNoticed
  <2>1. PICK i \in DOMAIN Suite :
          Suite[i].expect = "reject" /\ RunCase(Suite[i], {check}) = "ok"
    BY CorpusAssumption
  <2>2. RunCase(Suite[i], impl.omits) = "ok"
    <3>1. {check} \subseteq impl.omits
      OBVIOUS
    <3>2. /\ Suite[i].kind \in Kinds
          /\ Suite[i].kind = "anchors" => Len(Suite[i].docs.history) \in Nat
      BY CorpusAssumption
    <3>3. \/ Suite[i].kind # "assurance"
          \/ "assurance: supported" \in impl.omits
          \/ \A f \in DeclaredFigures(Suite[i].docs) :
               ~Withheld(Suite[i].docs.report.report, f, impl.omits)
      BY WithdrawingIsNoticed, OnlyBothWithdraw
    <3> QED BY <2>1, <3>1, <3>2, <3>3, OmittingMore
  <2>3. impl.knows = SUPPORTED
    BY NothingOverclaimed
  <2>4. Suite[i].requires \subseteq impl.claims /\ Needs(Suite[i]) \subseteq impl.knows
    BY <2>3, CorpusAssumption
  <2>5. AnswersOf(impl)[i] = "ok"
    BY <2>2, <2>4, AnswerIs
  <2>6. Said(AnswersOf(impl)[i]) = "reject"
    BY <2>1, <2>4, AcceptedAreExpected
  <2> QED BY <2>5, <2>6 DEF Said
<1> QED BY <1>1, IInvHolds, PTL

=============================================================================
