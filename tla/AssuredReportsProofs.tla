------------------------- MODULE AssuredReportsProofs -------------------------
(***************************************************************************)
(* For every number of days, whatever the venue publishes and whatever is  *)
(* handed over: no field an audience once saw is lost without some day's   *)
(* diff saying so; no edited report is accepted; a verified figure is of a *)
(* customer in that day's book, an attested one was vouched for, and a     *)
(* ledger-derived one was anchored, that day; and what was really done is  *)
(* enough.                                                                 *)
(***************************************************************************)
EXTENDS AssuredReports, LibraryProofs

\* What happened on the days is a list, of whatever.
IsList == \E S : days \in Seq(S)

\* Appending keeps a list and everything in it.
LEMMA Appended ==
  ASSUME NEW S, NEW s \in Seq(S), NEW x
  PROVE  /\ Append(s, x) \in Seq(S \cup {x})
         /\ Len(s) \in Nat
         /\ DOMAIN Append(s, x) = 1..(Len(s) + 1)
         /\ DOMAIN s = 1..Len(s)
         /\ \A d \in 1..Len(s) : Append(s, x)[d] = s[d]
<1>1. s \in Seq(S \cup {x})
  OBVIOUS
<1> QED BY <1>1

\* A field that was published and is not any more is a reduction in the diff of
\* the two manifests, whether it was changed or is no longer mentioned.
LEMMA LossIsAReduction ==
  ASSUME NEW m, NEW n, NEW f,
         StateOf(m, f) = "published", StateOf(n, f) # "published"
  PROVE  \E change \in Diff(m, n) : change.path = f /\ IsReduction(change)
<1> DEFINE change == [path |-> f, from |-> StateOf(m, f), to |-> StateOf(n, f)]
<1>1. f \in DOMAIN m.fields
  BY NoneAssumption DEF StateOf, Disclosures
<1>2. change \in Diff(m, n)
  BY <1>1 DEF Diff
<1>3. change.path = f /\ IsReduction(change)
  BY DEF IsReduction
<1> QED BY <1>2, <1>3

\* What an audience was told on a day does not change when a day is added.
LEMMA PastIsKept ==
  ASSUME NEW d, NEW audience, days'[d] = days[d]
  PROVE  ManifestFor(audience, d)' = ManifestFor(audience, d)
BY DEF ManifestFor, PublishedOn

-----------------------------------------------------------------------------
\* The reductions an audience suffers are reported, however many steps they
\* take (manifest.rs:103-156, diff.rs:31-52).
THEOREM ReductionsReported == Spec => []ReductionsAreReported
<1> DEFINE IInv == IsList /\ ReductionsAreReported
<1>1. Init => IInv
  <2> SUFFICES ASSUME Init PROVE IInv
    OBVIOUS
  <2>1. days \in Seq({}) /\ DOMAIN days = {}
    BY DEF Init
  <2> QED BY <2>1 DEF IsList, ReductionsAreReported
<1>2. IInv /\ [Next]_vars => IInv'
  <2> SUFFICES ASSUME IInv, [Next]_vars PROVE IInv'
    OBVIOUS
  <2>1. CASE UNCHANGED days
    <3>1. \A audience, d : ManifestFor(audience, d)' = ManifestFor(audience, d)
      BY <2>1, PastIsKept
    <3>2. IsList'
      BY <2>1 DEF IsList
    <3>3. ReductionsAreReported'
      BY <2>1, <3>1 DEF ReductionsAreReported, IsReported
    <3> QED BY <3>2, <3>3
  <2>2. CASE \E x : days' = Append(days, x)
    <3>1. PICK x : days' = Append(days, x)
      BY <2>2
    <3>2. PICK S : days \in Seq(S)
      BY DEF IsList
    <3>3. PICK n \in Nat :
            /\ n = Len(days)
            /\ days' \in Seq(S \cup {x})
            /\ DOMAIN days' = 1..(n + 1)
            /\ DOMAIN days = 1..n
            /\ \A d \in 1..n : days'[d] = days[d]
      BY <3>1, <3>2, Appended
    <3>4. \A audience : \A d \in 1..n : ManifestFor(audience, d)' = ManifestFor(audience, d)
      BY <3>3, PastIsKept
    <3>5. \A audience, f : \A k \in 1..(n - 1) :
            IsReported(audience, k, f) => IsReported(audience, k, f)'
      <4> SUFFICES ASSUME NEW audience, NEW f, NEW k \in 1..(n - 1)
                   PROVE  IsReported(audience, k, f) => IsReported(audience, k, f)'
        OBVIOUS
      <4>1. k \in 1..n /\ k + 1 \in 1..n
        BY <3>3
      <4> QED BY <3>4, <4>1 DEF IsReported
    <3>6. ReductionsAreReported'
      <4> SUFFICES ASSUME NEW audience \in Audiences,
                          NEW d \in DOMAIN days', NEW e \in DOMAIN days', NEW f \in Fields,
                          d < e,
                          StateOf(ManifestFor(audience, d)', f) = "published",
                          StateOf(ManifestFor(audience, e)', f) # "published"
                   PROVE  \E k \in d..(e - 1) : IsReported(audience, k, f)'
        BY DEF ReductionsAreReported
      <4>1. d \in 1..n /\ e \in 1..(n + 1)
        BY <3>3
      <4>2. StateOf(ManifestFor(audience, d), f) = "published"
        BY <3>4, <4>1
      <4>3. CASE e \in 1..n
        <5>1. StateOf(ManifestFor(audience, e), f) # "published"
          BY <3>4, <4>3
        <5>2. PICK k \in d..(e - 1) : IsReported(audience, k, f)
          BY <3>3, <4>1, <4>2, <4>3, <5>1 DEF ReductionsAreReported
        <5>3. k \in 1..(n - 1)
          BY <4>1, <4>3
        <5> QED BY <3>5, <5>2, <5>3
      <4>4. CASE e = n + 1 /\ StateOf(ManifestFor(audience, n), f) = "published"
        <5>1. n \in 1..n /\ n \in d..(e - 1)
          BY <4>1, <4>4
        <5>2. StateOf(ManifestFor(audience, n)', f) = "published"
          BY <3>4, <4>4, <5>1
        <5>3. StateOf(ManifestFor(audience, n + 1)', f) # "published"
          BY <4>4
        <5>4. IsReported(audience, n, f)'
          BY <5>2, <5>3, LossIsAReduction DEF IsReported
        <5> QED BY <5>1, <5>4
      <4>5. CASE e = n + 1 /\ StateOf(ManifestFor(audience, n), f) # "published"
        <5>1. d < n /\ n \in 1..n
          BY <4>1, <4>2, <4>5
        <5>2. PICK k \in d..(n - 1) : IsReported(audience, k, f)
          BY <3>3, <4>1, <4>2, <4>5, <5>1 DEF ReductionsAreReported
        <5>3. k \in 1..(n - 1) /\ k \in d..(e - 1)
          BY <4>1, <4>5
        <5> QED BY <3>5, <5>2, <5>3
      <4> QED BY <4>1, <4>3, <4>4, <4>5
    <3> QED BY <3>3, <3>6 DEF IsList
  <2> QED BY <2>1, <2>2 DEF Next, vars, PublishDay, Attest, SignSources, Grade, FollowAnchor
<1> QED BY <1>1, <1>2, PTL DEF Spec

-----------------------------------------------------------------------------
\* A report accepted at a level: the venue signed its digest, and the level is
\* one that the evidence establishes.
LEMMA AcceptedIsEstablished ==
  ASSUME NEW signed, NEW c, IsAccepted(signed, c)
  PROVE  /\ GoodSignature(signed.signature, Venue, Digest(signed.report))
         /\ c.level \in Established(signed, c.field, c.evidence, Trusted, {})
<1> DEFINE levels == [f \in {c.field} |-> c.level]
           statement == AssuranceStatement(Digest(signed.report), levels)
           known == DOMAIN levels \subseteq ResidentFields
           supported == \A f \in DOMAIN levels \cap ResidentFields :
                          levels[f] \in Established(signed, f, c.evidence, Trusted, {})
           x == Check("assurance: known fields", "unknown_field", known)
           y == Check("assurance: supported", "over_claimed", supported)
           signatureChecks == TrustedSignature(signed, Venue)
           checks == VerifyAssurance(signed, statement, c.evidence, Trusted, {})
<1>1. statement.levels = levels
  BY DEF AssuranceStatement
<1>2. \E h, i : checks = <<Check("assurance.format_version", "unsupported_version", h),
                          Check("assurance: digest", "digest_mismatch", i)>>
                         \o signatureChecks \o <<x, y>>
  <2> HIDE DEF statement, levels
  <2> QED BY <1>1, Zenon DEF VerifyAssurance, Venue
<1>3. (x.holds => known) /\ (y.holds => supported) /\ Fails(x) /\ Fails(y)
  <2> HIDE DEF known, supported
  <2>1. (x.holds => known) /\ (y.holds => supported)
    BY Zenon DEF Check
  <2> QED BY <2>1, ChecksFail
<1> HIDE DEF x, y
<1>4. PICK before : checks = before \o signatureChecks \o <<x, y>> /\ IsChecks(before)
  <2> HIDE DEF checks, signatureChecks
  <2> QED BY <1>2, ListedChecks, ChecksFail
<1>5. IsChecks(signatureChecks) /\ IsChecks(<<x, y>>)
  BY <1>3, ListedChecks, TrustedIsSigned
<1>6. Outcome(checks, {}) = "ok"
  BY DEF IsAccepted
<1>7. AllHold(signatureChecks) /\ AllHold(<<x, y>>)
  <2> HIDE DEF checks, signatureChecks
  <2>1. IsChecks(checks)
    BY <1>4, <1>5, OneAfterAnother
  <2>2. AllHold(checks)
    BY <1>6, <2>1, OkMeansAllHold
  <2> QED BY <1>4, <1>5, <2>2, OneAfterAnother
<1>8. known /\ supported
  <2>1. x.holds /\ y.holds
    BY <1>7 DEF AllHold
  <2> QED BY <1>3, <2>1
<1>9. c.field \in DOMAIN levels \cap ResidentFields /\ levels[c.field] = c.level
  BY <1>8
<1> QED BY <1>7, <1>8, <1>9, TrustedIsSigned

-----------------------------------------------------------------------------
(***************************************************************************)
(* Attested levels.                                                        *)
(***************************************************************************)
Word(digest, field, role) ==
  [version |-> "attestation-v1", digest |-> digest, field |-> field, role |-> role]

\* Every attestation was signed by the key it names.
AttestationsInv ==
  \A a \in attestations : \E key, digest, field : \E role \in Roles :
    a = [attestation |-> Word(digest, field, role),
         signature   |-> Sign(key, Word(digest, field, role))]

\* One that counts, whoever handed it over, says what was signed, by whom it was
\* signed: a signature does not survive a change of the words or of the key.
LEMMA CountedWasSigned ==
  ASSUME AttestationsInv, NEW signed, NEW field, NEW a \in HandedAttestations(signed, field),
         GoodSignature(a.signature, a.signature.key, a.attestation)
  PROVE  \E b \in attestations : /\ b.attestation = a.attestation
                                 /\ b.signature.key = a.signature.key
                                 /\ a.attestation.role \in Roles
<1>1. PICK b \in attestations :
        \/ a = b
        \/ a = [b EXCEPT !.attestation.digest = Digest(signed.report)]
        \/ a = [b EXCEPT !.attestation.field = field]
        \/ \E r \in Roles : a = [b EXCEPT !.attestation.role = r]
        \/ \E k : a = [b EXCEPT !.signature.key = k]
  <2>1. CASE a \in attestations
    BY <2>1
  <2>2. ASSUME NEW b \in attestations,
               a \in {[b EXCEPT !.attestation.digest = Digest(signed.report)],
                     [b EXCEPT !.attestation.field = field]}
                    \cup {[b EXCEPT !.attestation.role = r] : r \in Roles}
                    \cup {[b EXCEPT !.signature.key = k] : k \in DOMAIN Trusted.attestors}
        PROVE  \/ a = [b EXCEPT !.attestation.digest = Digest(signed.report)]
               \/ a = [b EXCEPT !.attestation.field = field]
               \/ \E r \in Roles : a = [b EXCEPT !.attestation.role = r]
               \/ \E k : a = [b EXCEPT !.signature.key = k]
    BY <2>2, Zenon
  <2> QED BY <2>1, <2>2, Zenon DEF HandedAttestations
<1>2. PICK key, digest, f : \E role \in Roles :
        b = [attestation |-> Word(digest, f, role),
             signature   |-> Sign(key, Word(digest, f, role))]
  BY DEF AttestationsInv
<1>3. PICK role \in Roles :
        b = [attestation |-> Word(digest, f, role),
             signature   |-> Sign(key, Word(digest, f, role))]
  BY <1>2
<1>4. /\ a.signature.by = key /\ a.signature.on = Word(digest, f, role)
      /\ b.signature.key = key /\ b.attestation = Word(digest, f, role)
  <2> DEFINE w == Word(digest, f, role)
             g == Sign(key, w)
  <2>1. b.signature = g /\ b.attestation = w /\ DOMAIN b = {"attestation", "signature"}
    BY <1>3
  <2>2. g.by = key /\ g.on = w /\ g.key = key /\ DOMAIN g = {"algorithm", "key", "by", "on"}
    BY DEF Sign
  <2> HIDE DEF w, g
  <2>3. a.signature = g \/ \E k : a.signature = [g EXCEPT !.key = k]
    BY <1>1, <2>1
  <2>4. a.signature.by = key /\ a.signature.on = w
    BY <2>2, <2>3
  <2> QED BY <2>1, <2>2, <2>4 DEF w
<1>5. a.attestation = b.attestation /\ a.signature.key = b.signature.key
  BY <1>4 DEF GoodSignature
<1>6. b.attestation.role = role
  BY <1>4 DEF Word
<1> QED BY <1>5, <1>6

\* What a claim rests on was handed over for its field.
LEMMA ClaimsHanded ==
  ASSUME NEW signed, NEW c \in Claims(signed)
  PROVE  c.evidence.attestations \subseteq HandedAttestations(signed, c.field)
<1> DEFINE Stated   == [field : Fields, level : {"not-disclosed", "claimed-only"},
                        evidence : {NoEvidence}]
           Proved   == [field : Fields, level : {"cryptographically-verified"},
                        evidence : {[NoEvidence EXCEPT !.proof = p] : p \in HandedProofs(signed)}]
           From(g)  == {[NoEvidence EXCEPT !.anchor = a, !.provenance = g.provenance] :
                          a \in HandedAnchors(signed)}
           Derivable == [field : Fields, level : {"ledger-derived"},
                         evidence : UNION {From(g) : g \in graphs}]
           VouchedFor(f) == [field : {f}, level : {RoleLevel(r) : r \in Roles},
                             evidence : {[NoEvidence EXCEPT !.attestations = {a}] :
                                           a \in HandedAttestations(signed, f)}]
<1>1. NoEvidence.attestations = {} /\ DOMAIN NoEvidence = {"proof", "anchor", "attestations", "provenance"}
  BY DEF NoEvidence
<1>2. ASSUME c \in Stated PROVE c.evidence.attestations = {}
  BY <1>1, <1>2
<1>3. ASSUME c \in Proved PROVE c.evidence.attestations = {}
  <2>1. PICK p : c.evidence = [NoEvidence EXCEPT !.proof = p]
    BY <1>3
  <2> QED BY <1>1, <2>1
<1>4. ASSUME c \in Derivable PROVE c.evidence.attestations = {}
  <2>1. PICK g \in graphs : c.evidence \in From(g)
    <3> HIDE DEF From
    <3> QED BY <1>4
  <2>2. PICK a : c.evidence = [NoEvidence EXCEPT !.anchor = a, !.provenance = g.provenance]
    BY <2>1
  <2> QED BY <1>1, <2>2
<1>5. ASSUME NEW f \in Fields, c \in VouchedFor(f)
      PROVE  c.evidence.attestations \subseteq HandedAttestations(signed, c.field)
  <2>1. c.field = f
    BY <1>5
  <2>2. PICK a \in HandedAttestations(signed, f) : c.evidence = [NoEvidence EXCEPT !.attestations = {a}]
    BY <1>5
  <2>3. c.evidence.attestations = {a}
    BY <1>1, <2>2
  <2> QED BY <2>1, <2>2, <2>3
<1>6. c \in Stated \cup Proved \cup Derivable \cup UNION {VouchedFor(f) : f \in Fields}
  BY Zenon DEF Claims
<1> HIDE DEF Stated, Proved, Derivable, VouchedFor
<1> QED BY <1>2, <1>3, <1>4, <1>5, <1>6

\* A report that is accepted at the level of a role.
LEMMA AttestedLevelIsRoles ==
  ASSUME NEW signed, NEW field, NEW evidence, NEW r \in Roles,
         RoleLevel(r) \in Established(signed, field, evidence, Trusted, {}),
         \A a \in evidence.attestations : 
           Vouches(a, field, signed.report, Trusted, {}) => a.attestation.role \in Roles
  PROVE  \E a \in evidence.attestations :
           Vouches(a, field, signed.report, Trusted, {}) /\ a.attestation.role = r
<1>1. PICK a \in evidence.attestations :
        Vouches(a, field, signed.report, Trusted, {}) /\ RoleLevel(r) = RoleLevel(a.attestation.role)
  BY DEF Established, RoleLevel
<1> QED BY <1>1 DEF RoleLevel, Roles

\* An attested level takes an attestor's word about that field of that report, in
\* the role the reader trusts that key in (assurance.rs:322-349).
THEOREM AttestedLevels == Spec => []AttestedWasVouchedFor
<1> DEFINE IInv == AttestationsInv /\ AttestedWasVouchedFor
<1>1. Init => IInv
  BY DEF Init, AttestationsInv, AttestedWasVouchedFor, IsGraded
<1>2. IInv /\ [Next]_vars => IInv'
  <2> SUFFICES ASSUME IInv, [Next]_vars PROVE IInv'
    OBVIOUS
  <2>1. ASSUME attestations \subseteq attestations', verdict' = verdict
        PROVE  AttestedWasVouchedFor'
    BY <2>1 DEF AttestedWasVouchedFor, IsGraded
  <2>2. CASE UNCHANGED vars
    BY <2>1, <2>2 DEF vars, AttestationsInv
  <2>3. ASSUME NEW plan \in Plans, PublishDay(plan) PROVE IInv'
    BY <2>1, <2>3 DEF PublishDay, AttestationsInv
  <2>4. ASSUME NEW k \in Attestors, NEW f \in Fields, NEW r \in Roles, Attest(k, f, r)
        PROVE  IInv'
    <3>1. attestations' = attestations \cup {Attested(Today.published[1].signed, f, r, k)}
          /\ verdict' = verdict
      BY <2>4 DEF Attest
    <3>2. AttestationsInv'
      <4> DEFINE digest == Digest(Today.published[1].signed.report)
      <4>1. Attested(Today.published[1].signed, f, r, k) =
              [attestation |-> Word(digest, f, r), signature |-> Sign(k, Word(digest, f, r))]
        BY DEF Attested, Word
      <4> HIDE DEF digest
      <4>2. SUFFICES ASSUME NEW a \in attestations'
                     PROVE  \E key, dg, field : \E role \in Roles :
                              a = [attestation |-> Word(dg, field, role),
                                   signature   |-> Sign(key, Word(dg, field, role))]
        BY DEF AttestationsInv
      <4>3. CASE a \in attestations
        BY <4>3 DEF AttestationsInv
      <4>4. CASE a = Attested(Today.published[1].signed, f, r, k)
        BY <4>1, <4>4
      <4> QED BY <3>1, <4>3, <4>4
    <3> QED BY <2>1, <3>1, <3>2
  <2>5. ASSUME NEW g \in Graphs, SignSources(g) PROVE IInv'
    BY <2>1, <2>5 DEF SignSources, AttestationsInv
  <2>6. ASSUME Grade PROVE IInv'
    <3>1. attestations' = attestations
      BY <2>6 DEF Grade
    <3>2. PICK signed \in HandedReports : \E c \in Claims(signed) :
            verdict' = IF IsAccepted(signed, c)
                       THEN [verb |-> "assurance", signed |-> signed, claim |-> c]
                       ELSE Refused
      BY <2>6 DEF Grade
    <3>3. PICK c \in Claims(signed) :
            verdict' = IF IsAccepted(signed, c)
                       THEN [verb |-> "assurance", signed |-> signed, claim |-> c]
                       ELSE Refused
      BY <3>2
    <3>4. ASSUME NEW r \in Roles, IsGraded(RoleLevel(r))'
          PROVE  \E a \in attestations :
                   /\ a.signature.key \in DOMAIN Trusted.attestors
                   /\ Trusted.attestors[a.signature.key] = r
                   /\ a.attestation = Word(Digest(signed.report), c.field, r)
      <4>1. IsAccepted(signed, c) /\ c.level = RoleLevel(r)
        BY <3>3, <3>4 DEF IsGraded, Refused
      <4>2. RoleLevel(r) \in Established(signed, c.field, c.evidence, Trusted, {})
        BY <4>1, AcceptedIsEstablished
      <4>3. c.evidence.attestations \subseteq HandedAttestations(signed, c.field)
        BY ClaimsHanded
      <4>4. \A a \in c.evidence.attestations :
              Vouches(a, c.field, signed.report, Trusted, {}) => a.attestation.role \in Roles
        BY <4>3, CountedWasSigned DEF Vouches, Demand
      <4>5. PICK a \in c.evidence.attestations :
              Vouches(a, c.field, signed.report, Trusted, {}) /\ a.attestation.role = r
        BY <4>2, <4>4, AttestedLevelIsRoles
      <4>6. PICK b \in attestations : /\ b.attestation = a.attestation
                                      /\ b.signature.key = a.signature.key
        BY <4>3, <4>5, CountedWasSigned DEF Vouches, Demand
      <4>7. PICK digest, field, role :
              b.attestation = Word(digest, field, role)
        BY DEF AttestationsInv
      <4>8. a.attestation = Word(Digest(signed.report), c.field, r)
        BY <4>5, <4>6, <4>7 DEF Vouches, Demand, Word
      <4> QED BY <4>5, <4>6, <4>8 DEF Vouches, Demand
    <3>5. AttestedWasVouchedFor'
      <4>1. \A r \in Roles : IsGraded(RoleLevel(r))' =>
              verdict'.signed = signed /\ verdict'.claim = c
        BY <3>3 DEF IsGraded, Refused
      <4> QED BY <3>1, <3>4, <4>1, Zenon DEF AttestedWasVouchedFor, Word
    <3> QED BY <3>1, <3>5 DEF AttestationsInv
  <2>7. ASSUME FollowAnchor PROVE IInv'
    <3>1. attestations' = attestations
      BY <2>7 DEF FollowAnchor
    <3>2. \A level : ~IsGraded(level)'
      BY <2>7 DEF FollowAnchor, IsGraded, Refused
    <3> QED BY <3>1, <3>2 DEF AttestationsInv, AttestedWasVouchedFor
  <2> QED BY <2>2, <2>3, <2>4, <2>5, <2>6, <2>7 DEF Next
<1> QED BY <1>1, <1>2, PTL DEF Spec

-----------------------------------------------------------------------------
(***************************************************************************)
(* Edited reports.                                                         *)
(***************************************************************************)
IsFunction(f) == f = [x \in DOMAIN f |-> f[x]]

Report(version, meta, root, count, sums) ==
  [version |-> version, meta |-> meta, root |-> root, count |-> count, sums |-> sums]

\* Every report that was published was signed by the venue, over its digest.
PublishedInv ==
  \A s \in Signed : \E version, meta, root, count, sums :
    /\ IsFunction(meta)
    /\ s = Signing(Report(version, meta, root, count, sums), Venue)

\* The figures of a report, and its manifest if the digest covers it, are those of
\* any other report of its version that has its digest.
LEMMA DigestFixesReport ==
  ASSUME NEW version, NEW m, NEW root, NEW count, NEW sums, NEW n, NEW others,
         IsFunction(m), IsFunction(n),
         Digest(Report(version, n, root, count, others)) = Digest(Report(version, m, root, count, sums))
  PROVE  Report(version, n, root, count, others) =
           IF version = V2 THEN Report(version, m, root, count, sums)
           ELSE [Report(version, m, root, count, sums) EXCEPT !.meta.manifest = n.manifest]
<1> DEFINE r == Report(version, m, root, count, sums)
           x == Report(version, n, root, count, others)
<1>1. r.version = version /\ x.version = version
  BY DEF Report
<1>2. CASE version = V2
  BY <1>1, <1>2 DEF Digest
<1>3. CASE version # V2
  <2>1. [x EXCEPT !.meta.manifest = None] = [r EXCEPT !.meta.manifest = None]
    BY <1>1, <1>3 DEF Digest
  <2>2. /\ [x EXCEPT !.meta.manifest = None] = Report(version, [n EXCEPT !.manifest = None], root, count, others)
        /\ [r EXCEPT !.meta.manifest = None] = Report(version, [m EXCEPT !.manifest = None], root, count, sums)
    BY DEF Report
  <2>3. others = sums /\ [n EXCEPT !.manifest = None] = [m EXCEPT !.manifest = None]
    BY <2>1, <2>2 DEF Report
  <2>4. DOMAIN n = DOMAIN m /\ \A f \in DOMAIN m : f # "manifest" => n[f] = m[f]
    BY <2>3
  <2>5. n = [m EXCEPT !.manifest = n.manifest]
    BY <2>4 DEF IsFunction
  <2>6. [r EXCEPT !.meta.manifest = n.manifest] =
          Report(version, [m EXCEPT !.manifest = n.manifest], root, count, sums)
    BY DEF Report
  <2> QED BY <1>3, <2>3, <2>5, <2>6
<1> QED BY <1>2, <1>3

\* An edited report keeps the signature it had, and what is edited is its
\* metadata or its totals.
LEMMA EditsAreOf ==
  ASSUME NEW version, NEW m, NEW root, NEW count, NEW sums, IsFunction(m), NEW s,
         s = Signing(Report(version, m, root, count, sums), Venue),
         NEW signed \in {s} \cup EditedReport(s)
  PROVE  /\ signed.signature = s.signature
         /\ \E n, others : IsFunction(n) /\ signed.report = Report(version, n, root, count, others)
<1> DEFINE Is(x) == /\ x.signature = s.signature
                    /\ DOMAIN x = {"report", "signature"}
                    /\ \E n, others : /\ IsFunction(n)
                                      /\ x.report = Report(version, n, root, count, others)
<1>1. Is(s)
  BY DEF Signing
<1>2. ASSUME NEW x, Is(x), NEW manifest PROVE Is([x EXCEPT !.report.meta.manifest = manifest])
  <2>1. PICK n, others : IsFunction(n) /\ x.report = Report(version, n, root, count, others)
    BY <1>2
  <2>2. [x EXCEPT !.report.meta.manifest = manifest].report =
          Report(version, [n EXCEPT !.manifest = manifest], root, count, others)
    BY <1>2, <2>1 DEF Report
  <2>3. IsFunction([n EXCEPT !.manifest = manifest])
    BY DEF IsFunction
  <2> QED BY <1>2, <2>2, <2>3
<1>3. ASSUME NEW x, Is(x) PROVE Is([x EXCEPT !.report.meta.prices = << >>])
  <2>1. PICK n, others : IsFunction(n) /\ x.report = Report(version, n, root, count, others)
    BY <1>3
  <2>2. [x EXCEPT !.report.meta.prices = << >>].report =
          Report(version, [n EXCEPT !.prices = << >>], root, count, others)
    BY <1>3, <2>1 DEF Report
  <2>3. IsFunction([n EXCEPT !.prices = << >>])
    BY DEF IsFunction
  <2> QED BY <1>3, <2>2, <2>3
<1>4. Is(Zeroed(s))
  <2> DEFINE none == [key \in DOMAIN s.report.sums |-> 0]
             x == [s EXCEPT !.report.sums = none]
  <2>1. x.report = Report(version, m, root, count, none)
    <3> HIDE DEF none
    <3> QED BY <1>1 DEF Report, Signing
  <2>2. x.signature = s.signature /\ DOMAIN x = {"report", "signature"}
    BY <1>1
  <2>3. Is(x)
    BY <2>1, <2>2
  <2> QED BY <2>3 DEF Zeroed
<1>5. ASSUME NEW f PROVE Is(Hiding(s, f))
  <2> HIDE DEF Is
  <2> QED BY <1>1, <1>2 DEF Hiding
<1>6. Is(signed)
  <2> HIDE DEF Is
  <2>1. CASE signed = s
    BY <1>1, <2>1
  <2>2. CASE \E f \in Fields : signed = Hiding(s, f)
    BY <1>5, <2>2
  <2>3. CASE \E f \in Fields : signed = [Hiding(s, f) EXCEPT !.report.meta.prices = << >>]
    BY <1>3, <1>5, <2>3
  <2>4. CASE signed = Zeroed(s)
    BY <1>4, <2>4
  <2>5. ASSUME NEW f \in Fields,
               signed \in {Hiding(s, f), [Hiding(s, f) EXCEPT !.report.meta.prices = << >>]}
        PROVE  Is(signed)
    BY <2>2, <2>3, <2>5
  <2>6. signed \in UNION {{Hiding(s, f), [Hiding(s, f) EXCEPT !.report.meta.prices = << >>]} : f \in Fields}
          => Is(signed)
    BY <2>5, Zenon
  <2>7. signed = s \/ signed = Zeroed(s) \/
        signed \in UNION {{Hiding(s, f), [Hiding(s, f) EXCEPT !.report.meta.prices = << >>]} : f \in Fields}
    BY Zenon DEF EditedReport
  <2> QED BY <2>1, <2>4, <2>6, <2>7
<1> QED BY <1>6

\* A report with a signature over its digest is the venue's.
LEMMA SignedIsTheVenues ==
  ASSUME PublishedInv, NEW signed \in HandedReports, NEW key,
         GoodSignature(signed.signature, key, Digest(signed.report))
  PROVE  \E s \in Signed :
           signed.report = IF s.report.version = V2 THEN s.report
                           ELSE [s.report EXCEPT !.meta.manifest = signed.report.meta.manifest]
<1>1. PICK s \in Signed : signed \in {s} \cup EditedReport(s)
  BY DEF HandedReports
<1>2. PICK version, m, root, count, sums :
        IsFunction(m) /\ s = Signing(Report(version, m, root, count, sums), Venue)
  BY DEF PublishedInv
<1> DEFINE r == Report(version, m, root, count, sums)
<1>3. /\ signed.signature = s.signature
      /\ \E n, others : IsFunction(n) /\ signed.report = Report(version, n, root, count, others)
  BY <1>1, <1>2, EditsAreOf
<1>4. PICK n, others : IsFunction(n) /\ signed.report = Report(version, n, root, count, others)
  BY <1>3
<1>5. s.report = r /\ s.signature.on = Digest(r)
  BY <1>2 DEF Signing, Sign
<1>6. Digest(signed.report) = Digest(r)
  BY <1>3, <1>5 DEF GoodSignature
<1>7. signed.report = IF version = V2 THEN r ELSE [r EXCEPT !.meta.manifest = n.manifest]
  BY <1>2, <1>4, <1>6, DigestFixesReport
<1>8. signed.report.meta = n /\ r.version = version
  BY <1>4 DEF Report
<1> QED BY <1>5, <1>7, <1>8

\* A report of a day: metadata from the plan, of some tree, signed by the venue.
LEMMA PublishedIsSigned ==
  ASSUME NEW inputs, NEW meta, IsFunction(meta)
  PROVE  \E version, m, root, count, sums :
           /\ IsFunction(m)
           /\ Publish(inputs, meta, Venue).signed =
                Signing(Report(version, m, root, count, sums), Venue)
<1> DEFINE leaves == LeavesV1(inputs)
           version == IF meta.manifest = None THEN V1 ELSE V2
<1>1. ReportOver(Root(leaves), Len(leaves), meta) =
        Report(version, meta, Root(leaves).hash, Len(leaves), Root(leaves).sums)
  BY DEF ReportOver, Report
<1>2. Publish(inputs, meta, Venue).signed =
        Signing(ReportOver(Root(leaves), Len(leaves), meta), Venue)
  BY DEF Publish, PublishOver, WithProofs, SignedOver
<1> QED BY <1>1, <1>2

\* What is published stays so, and what a day adds is signed by the venue.
LEMMA PublishedKept ==
  ASSUME IsList, PublishedInv, NEW plan, PublishDay(plan)
  PROVE  IsList' /\ PublishedInv' /\ Signed \subseteq Signed'
<1> DEFINE meta == [plan.meta EXCEPT !.publisher = Venue, !.time = Zulu((Len(days) + 1) * DayLength),
                                     !.offset = 10 * (Len(days) + 1)]
           published == IF plan.manifests = << >>
                        THEN <<Publish(plan.inputs, meta, Venue)>>
                        ELSE Packagings(plan.inputs, meta, plan.manifests, Venue)
           today == [plan |-> plan, published |-> published]
<1>1. days' = Append(days, today)
  BY DEF PublishDay
<1>2. \A i \in DOMAIN published : \E m : IsFunction(m) /\ published[i] = Publish(plan.inputs, m, Venue)
  <2>1. IsFunction(meta)
    BY DEF IsFunction
  <2>2. \A manifest : IsFunction([meta EXCEPT !.manifest = manifest])
    BY DEF IsFunction
  <2> HIDE DEF meta
  <2> DEFINE Of(m) == Publish(plan.inputs, m, Venue)
             Told(manifest) == [meta EXCEPT !.manifest = manifest]
  <2>3. /\ plan.manifests = << >> => published = <<Of(meta)>>
        /\ plan.manifests # << >> =>
             published = [i \in DOMAIN plan.manifests |-> Of(Told(plan.manifests[i]))]
    BY DEF Packagings
  <2> HIDE DEF published, Of, Told
  <2>4. \A i \in DOMAIN published :
          published[i] = Of(meta) \/ \E manifest : published[i] = Of(Told(manifest))
    BY <2>3
  <2> QED BY <2>1, <2>2, <2>4, Zenon DEF Of, Told
<1> HIDE DEF published
<1>3. PICK S : days \in Seq(S)
  BY DEF IsList
<1>4. PICK n \in Nat :
        /\ n = Len(days) /\ days' \in Seq(S \cup {today})
        /\ DOMAIN days' = 1..(n + 1) /\ DOMAIN days = 1..n
        /\ \A d \in 1..n : days'[d] = days[d]
        /\ days'[n + 1] = today
  <2> HIDE DEF today
  <2>1. days'[Len(days) + 1] = today
    BY <1>1, <1>3
  <2> QED BY <1>1, <1>3, <2>1, Appended
<1>5. \A s : s \in Signed <=> \E d \in DOMAIN days : \E i : i \in DOMAIN days[d].published
                                 /\ s = days[d].published[i].signed
  BY DEF Signed, Published, PublishedOn
<1>6. \A s : s \in Signed' <=> \E d \in DOMAIN days' : \E i : i \in DOMAIN days'[d].published
                                 /\ s = days'[d].published[i].signed
  BY DEF Signed, Published, PublishedOn
<1>7. Signed \subseteq Signed'
  BY <1>4, <1>5, <1>6
<1>8. ASSUME NEW s \in Signed'
      PROVE  s \in Signed \/ \E i \in DOMAIN published : s = published[i].signed
  <2>1. PICK d \in 1..(n + 1) : \E i : i \in DOMAIN days'[d].published
                                       /\ s = days'[d].published[i].signed
    BY <1>4, <1>6
  <2>2. CASE d \in 1..n
    BY <1>4, <1>5, <2>1, <2>2
  <2>3. CASE d = n + 1
    BY <1>4, <2>1, <2>3
  <2> QED BY <2>2, <2>3
<1>9. PublishedInv'
  <2> SUFFICES ASSUME NEW s \in Signed'
               PROVE  \E version, m, root, count, sums :
                        /\ IsFunction(m)
                        /\ s = Signing(Report(version, m, root, count, sums), Venue)
    BY DEF PublishedInv, Venue
  <2>1. CASE s \in Signed
    BY <2>1 DEF PublishedInv
  <2>2. CASE \E i \in DOMAIN published : s = published[i].signed
    BY <1>2, <2>2, PublishedIsSigned
  <2> QED BY <1>8, <2>1, <2>2
<1> QED BY <1>4, <1>7, <1>9 DEF IsList

\* A report accepted at any level, or through an anchor, is one the venue
\* published, to the figure, and to the manifest where the digest covers it
\* (assurance.rs:380-389, digest.rs:19-54).
THEOREM NoEditIsAccepted == Spec => []AcceptedReportIsTheVenues
<1> DEFINE IInv == IsList /\ PublishedInv /\ AcceptedReportIsTheVenues
           TheVenues(signed) ==
             \E s \in Signed :
               signed.report = IF s.report.version = V2 THEN s.report
                               ELSE [s.report EXCEPT !.meta.manifest = signed.report.meta.manifest]
<1>1. Init => IInv
  <2> SUFFICES ASSUME Init PROVE IInv
    OBVIOUS
  <2>1. days \in Seq({}) /\ DOMAIN days = {} /\ verdict = None
    BY DEF Init
  <2>2. Signed = {}
    BY <2>1 DEF Signed, Published
  <2> QED BY <2>1, <2>2 DEF IsList, PublishedInv, AcceptedReportIsTheVenues
<1>2. IInv /\ [Next]_vars => IInv'
  <2> SUFFICES ASSUME IInv, [Next]_vars PROVE IInv'
    OBVIOUS
  <2>1. ASSUME UNCHANGED days PROVE IsList' /\ PublishedInv' /\ Signed' = Signed
    BY <2>1 DEF IsList, PublishedInv, Signed, Published, PublishedOn, Venue
  <2>2. ASSUME UNCHANGED verdict, Signed \subseteq Signed' PROVE AcceptedReportIsTheVenues'
    BY <2>2 DEF AcceptedReportIsTheVenues, Refused
  <2>3. CASE UNCHANGED vars
    BY <2>1, <2>2, <2>3 DEF vars
  <2>4. ASSUME NEW plan \in Plans, PublishDay(plan) PROVE IInv'
    BY <2>2, <2>4, PublishedKept DEF PublishDay
  <2>5. ASSUME NEW k, NEW f, NEW r, Attest(k, f, r) PROVE IInv'
    BY <2>1, <2>2, <2>5 DEF Attest
  <2>6. ASSUME NEW g, SignSources(g) PROVE IInv'
    BY <2>1, <2>2, <2>6 DEF SignSources
  <2>7. ASSUME UNCHANGED days, NEW signed \in HandedReports,
               verdict' = Refused \/ (verdict'.signed = signed /\ \E key :
                 GoodSignature(signed.signature, key, Digest(signed.report)))
        PROVE  IInv'
    <3>1. verdict' = Refused \/ (verdict'.signed = signed /\ TheVenues(signed))
      BY <2>7, SignedIsTheVenues
    <3>2. AcceptedReportIsTheVenues'
      <4>1. CASE verdict' = Refused
        BY <4>1 DEF AcceptedReportIsTheVenues, Refused
      <4>2. CASE verdict'.signed = signed /\ TheVenues(signed)
        BY <2>1, <2>7, <4>2 DEF AcceptedReportIsTheVenues
      <4> QED BY <3>1, <4>1, <4>2
    <3> QED BY <2>1, <2>7, <3>2
  <2>8. ASSUME Grade PROVE IInv'
    <3>1. PICK signed \in HandedReports : \E c \in Claims(signed) :
            verdict' = IF IsAccepted(signed, c)
                       THEN [verb |-> "assurance", signed |-> signed, claim |-> c]
                       ELSE Refused
      BY <2>8 DEF Grade
    <3>2. verdict' = Refused \/ (verdict'.signed = signed
                                 /\ GoodSignature(signed.signature, Venue, Digest(signed.report)))
      BY <3>1, AcceptedIsEstablished
    <3> QED BY <2>7, <2>8, <3>2 DEF Grade
  <2>9. ASSUME FollowAnchor PROVE IInv'
    <3>1. PICK signed \in HandedReports, i \in DOMAIN anchors : \E p \in HandedProofs(signed) :
            verdict' = IF Outcome(VerifyWithAnchor(signed, p, anchors[i]), {}) = "ok"
                       THEN [verb |-> "anchor", signed |-> signed, day |-> i, proof |-> p]
                       ELSE Refused
      BY <2>9 DEF FollowAnchor
    <3>2. verdict' = Refused \/ (verdict'.signed = signed
                                 /\ GoodSignature(signed.signature, anchors[i].key, Digest(signed.report)))
      BY <3>1, FollowedIsSigned
    <3> QED BY <2>7, <2>9, <3>2 DEF FollowAnchor
  <2> QED BY <2>3, <2>4, <2>5, <2>6, <2>8, <2>9 DEF Next
<1>3. IInv => AcceptedReportIsTheVenues
  OBVIOUS
<1> QED BY <1>1, <1>2, <1>3, PTL DEF Spec

-----------------------------------------------------------------------------
(***************************************************************************)
(* Ledger-derived levels.                                                  *)
(***************************************************************************)
Places == {"publisher", "time", "offset", "manifest"}

\* There is an anchor for each day, and it says of the ledger and of the tree what
\* every packaging of that day says.
AnchorsInv ==
  /\ DOMAIN anchors = DOMAIN days
  /\ \E S : anchors \in Seq(S)
  /\ \A d \in DOMAIN days : \A i \in DOMAIN days[d].published :
       LET report == days[d].published[i].signed.report IN
       /\ Places \subseteq DOMAIN report.meta
       /\ anchors[d].root = report.root
       /\ anchors[d].time = report.meta.time
       /\ anchors[d].offset = report.meta.offset
       /\ anchors[d].publisher = report.meta.publisher

\* What a day adds.
LEMMA AnchorsKept ==
  ASSUME IsList, AnchorsInv, NEW plan \in Plans, PublishDay(plan)
  PROVE  /\ AnchorsInv'
         /\ \A d \in DOMAIN days : d \in DOMAIN days' /\ d \in DOMAIN anchors' 
                                   /\ days'[d] = days[d] /\ anchors'[d] = anchors[d]
<1> DEFINE meta == [plan.meta EXCEPT !.publisher = Venue, !.time = Zulu((Len(days) + 1) * DayLength),
                                     !.offset = 10 * (Len(days) + 1)]
           published == IF plan.manifests = << >>
                        THEN <<Publish(plan.inputs, meta, Venue)>>
                        ELSE Packagings(plan.inputs, meta, plan.manifests, Venue)
           today == [plan |-> plan, published |-> published]
           previous == IF anchors = << >> THEN None ELSE AnchorDigest(anchors[Len(days)])
           anchor == AnchorOf(published[1].signed, previous)
           root == Root(LeavesV1(plan.inputs)).hash
           Says(report) == /\ Places \subseteq DOMAIN report.meta
                           /\ report.root = root
                           /\ report.meta.time = meta.time
                           /\ report.meta.offset = meta.offset
                           /\ report.meta.publisher = meta.publisher
<1>1. PICK S : days \in Seq(S)
  BY DEF IsList
<1>2. days' = Append(days, today) /\ anchors' = Append(anchors, anchor)
  <2>1. Len(days) + 1 - 1 = Len(days)
    BY <1>1
  <2> QED BY <2>1 DEF PublishDay
<1>3. Places \subseteq DOMAIN meta
  BY PlansAssumption DEF Places
<1>4. \A m : /\ Publish(plan.inputs, m, Venue).signed.report.root = root
             /\ Publish(plan.inputs, m, Venue).signed.report.meta = m
  BY DEF Publish, PublishOver, WithProofs, SignedOver, Signing, ReportOver
<1>5. 1 \in DOMAIN published
  <2>1. plan.manifests = << >> \/ 1 \in DOMAIN plan.manifests
    BY PlansAssumption
  <2> QED BY <2>1 DEF Packagings
<1>6. \A i \in DOMAIN published : Says(published[i].signed.report)
  <2>1. Says(Publish(plan.inputs, meta, Venue).signed.report)
    BY <1>3, <1>4
  <2>2. ASSUME NEW manifest
        PROVE  Says(Publish(plan.inputs, [meta EXCEPT !.manifest = manifest], Venue).signed.report)
    <3> DEFINE m == [meta EXCEPT !.manifest = manifest]
    <3> HIDE DEF meta
    <3>1. /\ Places \subseteq DOMAIN m
          /\ m.time = meta.time /\ m.offset = meta.offset /\ m.publisher = meta.publisher
      BY <1>3 DEF Places
    <3> HIDE DEF m
    <3> QED BY <1>4, <3>1 DEF m
  <2> HIDE DEF meta, Says
  <2> DEFINE Of(m) == Publish(plan.inputs, m, Venue)
             Told(manifest) == [meta EXCEPT !.manifest = manifest]
  <2>3. /\ plan.manifests = << >> => published = <<Of(meta)>>
        /\ plan.manifests # << >> =>
             published = [i \in DOMAIN plan.manifests |-> Of(Told(plan.manifests[i]))]
    BY DEF Packagings
  <2> HIDE DEF published, Of, Told
  <2>4. \A i \in DOMAIN published :
          published[i] = Of(meta) \/ \E manifest : published[i] = Of(Told(manifest))
    BY <2>3
  <2>5. Says(Of(meta).signed.report) /\ \A manifest : Says(Of(Told(manifest)).signed.report)
    BY <2>1, <2>2, Zenon DEF Of, Told
  <2> QED BY <2>4, <2>5, Zenon
<1>7. /\ anchor.root = root /\ anchor.time = meta.time
      /\ anchor.offset = meta.offset /\ anchor.publisher = meta.publisher
  <2> HIDE DEF published, meta, root
  <2> QED BY <1>5, <1>6 DEF AnchorOf
<1> HIDE DEF published, meta, root, anchor, previous
<1>8. PICK n \in Nat :
        /\ n = Len(days) /\ DOMAIN days' = 1..(n + 1) /\ DOMAIN days = 1..n
        /\ \A d \in 1..n : days'[d] = days[d]
        /\ days'[n + 1] = today
  <2> HIDE DEF today
  <2>1. days'[Len(days) + 1] = today
    BY <1>1, <1>2
  <2> QED BY <1>1, <1>2, <2>1, Appended
<1>9. /\ \E T : anchors' \in Seq(T)
      /\ DOMAIN anchors' = 1..(n + 1)
      /\ \A d \in 1..n : anchors'[d] = anchors[d]
      /\ anchors'[n + 1] = anchor
  <2>1. PICK T : anchors \in Seq(T)
    BY DEF AnchorsInv
  <2>2. Len(anchors) = n
    BY <1>8, <2>1 DEF AnchorsInv
  <2>3. anchors'[Len(anchors) + 1] = anchor
    BY <1>2, <2>1
  <2> QED BY <1>2, <2>1, <2>2, <2>3, Appended
<1>10. ASSUME NEW d \in DOMAIN days', NEW i \in DOMAIN days'[d].published
       PROVE  LET report == days'[d].published[i].signed.report IN
              /\ Places \subseteq DOMAIN report.meta
              /\ anchors'[d].root = report.root
              /\ anchors'[d].time = report.meta.time
              /\ anchors'[d].offset = report.meta.offset
              /\ anchors'[d].publisher = report.meta.publisher
  <2>1. CASE d \in 1..n
    BY <1>8, <1>9, <1>10, <2>1 DEF AnchorsInv
  <2>2. CASE d = n + 1
    <3>1. days'[d].published = published /\ anchors'[d] = anchor
      BY <1>8, <1>9, <2>2
    <3> QED BY <1>6, <1>7, <1>10, <3>1
  <2> QED BY <1>8, <2>1, <2>2
<1>11. AnchorsInv'
  BY <1>8, <1>9, <1>10, Zenon DEF AnchorsInv
<1> QED BY <1>8, <1>9, <1>11

\* A figure accepted as ledger-derived was shown with an anchor that says what the
\* report says.
LEMMA DerivedIsAnchored ==
  ASSUME NEW signed, NEW field, NEW evidence,
         "ledger-derived" \in Established(signed, field, evidence, Trusted, {})
  PROVE  AnchorsReport(signed.report, evidence.anchor, {})
BY DEF Established, Demand, RoleLevel

\* A ledger-derived figure comes with an anchor that says of the ledger what the
\* venue's own anchor of that day says (assurance.rs:239-253).
THEOREM DerivedLevels == Spec => []DerivedIsAnchoredThatDay
<1> DEFINE IInv == IsList /\ PublishedInv /\ AnchorsInv /\ DerivedIsAnchoredThatDay
           Backed(shown) ==
             \E i \in DOMAIN anchors :
               /\ shown.offset = anchors[i].offset /\ shown.time = anchors[i].time
               /\ shown.root = anchors[i].root     /\ shown.publisher = anchors[i].publisher
               /\ \E p \in PublishedOn(i) : shown.digest = Digest(p.signed.report)
<1>1. Init => IInv
  <2> SUFFICES ASSUME Init PROVE IInv
    OBVIOUS
  <2>1. days \in Seq({}) /\ anchors \in Seq({}) /\ DOMAIN days = {} /\ DOMAIN anchors = {} /\ verdict = None
    BY DEF Init
  <2>2. Signed = {}
    BY <2>1 DEF Signed, Published
  <2> QED BY <2>1, <2>2 DEF IsList, PublishedInv, AnchorsInv, DerivedIsAnchoredThatDay, IsGraded
<1>2. IInv /\ [Next]_vars => IInv'
  <2> SUFFICES ASSUME IInv, [Next]_vars PROVE IInv'
    OBVIOUS
  <2>1. ASSUME UNCHANGED <<days, anchors>> PROVE IsList' /\ PublishedInv' /\ AnchorsInv'
    <3>1. IsList' /\ PublishedInv'
      BY <2>1 DEF IsList, PublishedInv, Signed, Published, PublishedOn, Venue
    <3>2. AnchorsInv'
      BY <2>1, Zenon DEF AnchorsInv
    <3> QED BY <3>1, <3>2
  <2>2. ASSUME UNCHANGED <<days, anchors, verdict>> PROVE IInv'
    BY <2>1, <2>2 DEF DerivedIsAnchoredThatDay, IsGraded, PublishedOn
  <2>3. CASE UNCHANGED vars
    BY <2>2, <2>3 DEF vars
  <2>4. ASSUME NEW plan \in Plans, PublishDay(plan) PROVE IInv'
    <3>1. IsList' /\ PublishedInv' /\ AnchorsInv'
      BY <2>4, PublishedKept, AnchorsKept
    <3>2. verdict' = verdict
      BY <2>4 DEF PublishDay
    <3>3. \A shown : Backed(shown) => Backed(shown)'
      <4>1. \A i \in DOMAIN days : /\ i \in DOMAIN anchors' /\ anchors'[i] = anchors[i]
                                  /\ days'[i] = days[i]
        BY <2>4, AnchorsKept
      <4>2. \A i \in DOMAIN days : PublishedOn(i)' = PublishedOn(i)
        BY <4>1, Zenon DEF PublishedOn
      <4>3. DOMAIN anchors = DOMAIN days
        BY DEF AnchorsInv
      <4>4. ASSUME NEW shown, Backed(shown) PROVE Backed(shown)'
        <5>1. PICK i \in DOMAIN anchors :
                /\ shown.offset = anchors[i].offset /\ shown.time = anchors[i].time
                /\ shown.root = anchors[i].root     /\ shown.publisher = anchors[i].publisher
                /\ \E p \in PublishedOn(i) : shown.digest = Digest(p.signed.report)
          BY <4>4
        <5>2. i \in DOMAIN anchors' /\ anchors'[i] = anchors[i] /\ PublishedOn(i)' = PublishedOn(i)
          BY <4>1, <4>2, <4>3
        <5>3. \E p \in PublishedOn(i)' : shown.digest = Digest(p.signed.report)
          BY <5>1, <5>2
        <5> QED BY <5>1, <5>2, <5>3
      <4> QED BY <4>4
    <3> HIDE DEF Backed
    <3>4. DerivedIsAnchoredThatDay'
      BY <3>2, <3>3 DEF DerivedIsAnchoredThatDay, IsGraded, Backed
    <3> QED BY <3>1, <3>4
  <2>5. ASSUME NEW k, NEW f, NEW r, Attest(k, f, r) PROVE IInv'
    BY <2>2, <2>5 DEF Attest
  <2>6. ASSUME NEW g, SignSources(g) PROVE IInv'
    BY <2>2, <2>6 DEF SignSources
  <2>7. ASSUME Grade PROVE IInv'
    <3>1. UNCHANGED <<days, anchors>>
      BY <2>7 DEF Grade
    <3>2. PICK signed \in HandedReports : \E c \in Claims(signed) :
            verdict' = IF IsAccepted(signed, c)
                       THEN [verb |-> "assurance", signed |-> signed, claim |-> c]
                       ELSE Refused
      BY <2>7 DEF Grade
    <3>3. PICK c \in Claims(signed) :
            verdict' = IF IsAccepted(signed, c)
                       THEN [verb |-> "assurance", signed |-> signed, claim |-> c]
                       ELSE Refused
      BY <3>2
    <3>4. ASSUME IsGraded("ledger-derived")' PROVE Backed(verdict'.claim.evidence.anchor)
      <4> DEFINE shown == c.evidence.anchor
                 x == signed.report
      <4>1. IsAccepted(signed, c) /\ c.level = "ledger-derived" /\ verdict'.claim = c
        BY <3>3, <3>4 DEF IsGraded, Refused
      <4>2. /\ shown.digest = Digest(x) /\ shown.root = x.root /\ shown.time = x.meta.time
            /\ shown.offset = x.meta.offset /\ shown.publisher = x.meta.publisher
        BY <4>1, AcceptedIsEstablished, DerivedIsAnchored DEF AnchorsReport, Demand
      <4>3. PICK s \in Signed :
              x = IF s.report.version = V2 THEN s.report
                  ELSE [s.report EXCEPT !.meta.manifest = x.meta.manifest]
        BY <4>1, AcceptedIsEstablished, SignedIsTheVenues
      <4>4. PICK d \in DOMAIN days : \E p \in PublishedOn(d) : p.signed = s
        BY DEF Signed, Published
      <4>5. /\ Places \subseteq DOMAIN s.report.meta
            /\ anchors[d].root = s.report.root /\ anchors[d].time = s.report.meta.time
            /\ anchors[d].offset = s.report.meta.offset
            /\ anchors[d].publisher = s.report.meta.publisher
        BY <4>4 DEF AnchorsInv, PublishedOn
      <4>6. PICK version, m, root, count, sums : s.report = Report(version, m, root, count, sums)
        BY DEF PublishedInv, Signing
      <4> HIDE DEF x
      <4>7. /\ x.root = s.report.root /\ x.meta.time = s.report.meta.time
            /\ x.meta.offset = s.report.meta.offset
            /\ x.meta.publisher = s.report.meta.publisher
        <5>1. CASE s.report.version = V2
          BY <4>3, <5>1
        <5>2. CASE s.report.version # V2
          <6>1. x = Report(version, [m EXCEPT !.manifest = x.meta.manifest], root, count, sums)
            BY <4>3, <4>6, <5>2 DEF Report
          <6>2. x.root = root /\ x.meta = [m EXCEPT !.manifest = x.meta.manifest]
            BY <6>1 DEF Report
          <6>3. s.report.meta = m /\ s.report.root = root
            BY <4>6 DEF Report
          <6> QED BY <4>5, <6>2, <6>3 DEF Places
        <5> QED BY <5>1, <5>2
      <4>8. Digest(x) = Digest(s.report)
        <5>1. CASE s.report.version = V2
          BY <4>3, <5>1
        <5>2. CASE s.report.version # V2
          BY <4>3, <4>6, <5>2 DEF Digest, Report
        <5> QED BY <5>1, <5>2
      <4>9. d \in DOMAIN anchors
        BY DEF AnchorsInv
      <4> QED BY <4>1, <4>2, <4>4, <4>5, <4>7, <4>8, <4>9 DEF x
    <3> HIDE DEF Backed
    <3>5. DerivedIsAnchoredThatDay'
      BY <3>1, <3>4 DEF DerivedIsAnchoredThatDay, Backed, PublishedOn
    <3> QED BY <2>1, <3>1, <3>5
  <2>8. ASSUME FollowAnchor PROVE IInv'
    <3>1. UNCHANGED <<days, anchors>>
      BY <2>8 DEF FollowAnchor
    <3>2. ~IsGraded("ledger-derived")'
      BY <2>8 DEF FollowAnchor, IsGraded, Refused
    <3> QED BY <2>1, <3>1, <3>2 DEF DerivedIsAnchoredThatDay
  <2> QED BY <2>3, <2>4, <2>5, <2>6, <2>7, <2>8 DEF Next
<1>3. IInv => DerivedIsAnchoredThatDay
  OBVIOUS
<1> QED BY <1>1, <1>2, <1>3, PTL DEF Spec


-----------------------------------------------------------------------------
(***************************************************************************)
(* Days and books.                                                         *)
(***************************************************************************)
\* What a plan makes of the metadata, and of the day itself.
MetaOn(plan, d) ==
  [plan.meta EXCEPT !.publisher = Venue, !.time = Zulu(d * DayLength), !.offset = 10 * d]

DayOf(plan, d) ==
  [plan |-> plan,
   published |-> IF plan.manifests = << >>
                 THEN <<Publish(plan.inputs, MetaOn(plan, d), Venue)>>
                 ELSE Packagings(plan.inputs, MetaOn(plan, d), plan.manifests, Venue)]

\* Publishing adds one day, and its anchor.
LEMMA DayAdded ==
  ASSUME IsList, AnchorsInv, NEW plan, PublishDay(plan)
  PROVE  \E n : \E previous :
           /\ n \in Nat /\ DOMAIN days = 1..n
           /\ DOMAIN days' = 1..(n + 1)
           /\ \A d \in 1..n : days'[d] = days[d] /\ anchors'[d] = anchors[d]
           /\ days'[n + 1] = DayOf(plan, n + 1)
           /\ anchors'[n + 1] = AnchorOf(DayOf(plan, n + 1).published[1].signed, previous)
<1> DEFINE today == DayOf(plan, Len(days) + 1)
           previous == IF anchors = << >> THEN None ELSE AnchorDigest(anchors[Len(days) + 1 - 1])
           anchor == AnchorOf(today.published[1].signed, previous)
<1>1. PICK S : days \in Seq(S)
  BY DEF IsList
<1>2. PICK T : anchors \in Seq(T)
  BY DEF AnchorsInv
<1>3. days' = Append(days, today) /\ anchors' = Append(anchors, anchor)
  BY DEF PublishDay, DayOf, MetaOn
<1>4. Len(days) = Len(anchors) /\ Len(days) \in Nat
  BY <1>1, <1>2 DEF AnchorsInv
<1> HIDE DEF today, anchor
<1>5. /\ DOMAIN days = 1..Len(days) /\ DOMAIN days' = 1..(Len(days) + 1)
      /\ \A d \in 1..Len(days) : days'[d] = days[d]
      /\ days'[Len(days) + 1] = today
  BY <1>1, <1>3, Appended
<1>6. /\ \A d \in 1..Len(days) : anchors'[d] = anchors[d]
      /\ anchors'[Len(days) + 1] = anchor
  BY <1>2, <1>3, <1>4, Appended
<1> QED BY <1>4, <1>5, <1>6 DEF today, anchor

\* The metadata that a day leaves as the plan has it.
KeepsFigures(meta, plan) ==
  /\ meta.profile = plan.meta.profile /\ meta.prices = plan.meta.prices
  /\ meta.badDebt = plan.meta.badDebt /\ meta.houseAccounts = plan.meta.houseAccounts
  /\ meta.houseTotals = plan.meta.houseTotals

\* What is so of a day: its book is one that can be published, all its reports
\* are of that book and that day, each for an audience of its own, and the
\* anchor holds the digest of the first.
IsDay(d, day, anchor) ==
  /\ day.plan \in Plans
  /\ Publishable(LeavesV1(day.plan.inputs))
  /\ 1 \in DOMAIN day.published
  /\ "version" \in DOMAIN anchor /\ anchor.version = "anchor-v1"
  /\ anchor.digest = Digest(day.published[1].signed.report)
  /\ \A i \in DOMAIN day.published : \E meta :
       /\ IsFunction(meta) /\ Places \subseteq DOMAIN meta /\ meta.offset = 10 * d
       /\ KeepsFigures(meta, day.plan)
       /\ day.published[i] = Publish(day.plan.inputs, meta, Venue)
  /\ \A i, j \in DOMAIN day.published :
       i # j => day.published[i].signed.report.meta.manifest.audience
                  # day.published[j].signed.report.meta.manifest.audience

DaysInv ==
  /\ IsList
  /\ \A d \in DOMAIN days : d \in Nat /\ IsDay(d, days[d], anchors[d])

\* The report that publish makes, and the proofs.
LEMMA PublishIs ==
  ASSUME NEW inputs, NEW meta
  PROVE  LET leaves == LeavesV1(inputs) 
             p == Publish(inputs, meta, Venue) IN
         /\ p.signed = Signing(p.signed.report, Venue)
         /\ p.signed.report = Report(IF meta.manifest = None THEN V1 ELSE V2, meta,
                                     Root(leaves).hash, Len(leaves), Root(leaves).sums)
         /\ p.signed.report.meta = meta
         /\ p.signed.report.root = Root(leaves).hash
         /\ p.signed.report.count = Len(leaves)
         /\ p.signed.report.sums = Root(leaves).sums
         /\ DOMAIN p.proofs = DOMAIN inputs
         /\ \A i \in DOMAIN inputs :
              p.proofs[i] = [version |-> "proof-v1", digest |-> Digest(p.signed.report),
                             leaf |-> inputs[i], steps |-> Prove(leaves, i - 1)]
<1> DEFINE leaves == LeavesV1(inputs)
           r == ReportOver(Root(leaves), Len(leaves), meta)
<1>1. r = Report(IF meta.manifest = None THEN V1 ELSE V2, meta,
                 Root(leaves).hash, Len(leaves), Root(leaves).sums)
  BY DEF ReportOver, Report
<1>2. Publish(inputs, meta, Venue) = WithProofs(inputs, leaves, "proof-v1", Signing(r, Venue))
  BY DEF Publish, PublishOver, SignedOver
<1>3. Signing(r, Venue).report = r
  BY DEF Signing
<1>4. /\ r.meta = meta /\ r.root = Root(leaves).hash /\ r.count = Len(leaves)
      /\ r.sums = Root(leaves).sums
  BY DEF ReportOver
<1> HIDE DEF r, leaves
<1>5. /\ Publish(inputs, meta, Venue).signed = Signing(r, Venue)
      /\ DOMAIN Publish(inputs, meta, Venue).proofs = DOMAIN inputs
      /\ \A i \in DOMAIN inputs :
           Publish(inputs, meta, Venue).proofs[i] =
             [version |-> "proof-v1", digest |-> Digest(r), leaf |-> inputs[i],
              steps |-> Prove(leaves, i - 1)]
  BY <1>2, <1>3 DEF WithProofs
<1> QED BY <1>1, <1>3, <1>4, <1>5 DEF leaves


\* A day that the venue may publish is one.
LEMMA DayIs ==
  ASSUME NEW plan \in Plans, NEW d \in Nat, NEW previous,
         Publishable(LeavesV1(plan.inputs)),
         plan.manifests # << >> => Packageable(plan.manifests)
  PROVE  IsDay(d, DayOf(plan, d), AnchorOf(DayOf(plan, d).published[1].signed, previous))
<1> DEFINE day == DayOf(plan, d)
           meta == MetaOn(plan, d)
           Told(manifest) == [meta EXCEPT !.manifest = manifest]
           figures == {"profile", "prices", "badDebt", "houseAccounts", "houseTotals"}
<1>1. IsFunction(meta) /\ Places \subseteq DOMAIN meta /\ meta.offset = 10 * d
  BY PlansAssumption DEF MetaOn, IsFunction, Places
<1>9. figures \subseteq DOMAIN meta /\ KeepsFigures(meta, plan)
  BY PlansAssumption DEF MetaOn, KeepsFigures
<1> HIDE DEF meta
<1>2. ASSUME NEW manifest
      PROVE  /\ IsFunction(Told(manifest)) /\ Places \subseteq DOMAIN Told(manifest)
             /\ Told(manifest).offset = 10 * d /\ Told(manifest).manifest = manifest
             /\ KeepsFigures(Told(manifest), plan)
  BY <1>1, <1>9 DEF IsFunction, Places, KeepsFigures
<1>3. day.plan = plan /\ plan \in Plans
  BY DEF DayOf
<1>4. /\ plan.manifests = << >> => day.published = <<Publish(plan.inputs, meta, Venue)>>
      /\ plan.manifests # << >> =>
           /\ DOMAIN day.published = DOMAIN plan.manifests
           /\ \A i \in DOMAIN plan.manifests :
                day.published[i] = Publish(plan.inputs, Told(plan.manifests[i]), Venue)
  BY DEF DayOf, Packagings, meta
<1> HIDE DEF day, Told
<1>5. /\ 1 \in DOMAIN day.published
      /\ plan.manifests = << >> => DOMAIN day.published = {1}
  <2>1. plan.manifests = << >> \/ 1 \in DOMAIN plan.manifests
    BY PlansAssumption
  <2> QED BY <1>4, <2>1
<1>6. \A i \in DOMAIN day.published : \E m :
        /\ IsFunction(m) /\ Places \subseteq DOMAIN m /\ m.offset = 10 * d
        /\ KeepsFigures(m, plan)
        /\ day.published[i] = Publish(plan.inputs, m, Venue)
  BY <1>1, <1>2, <1>4, <1>9
<1>7. ASSUME NEW i \in DOMAIN day.published, NEW j \in DOMAIN day.published, i # j
      PROVE  day.published[i].signed.report.meta.manifest.audience
               # day.published[j].signed.report.meta.manifest.audience
  <2>1. plan.manifests # << >>
    BY <1>5, <1>7
  <2>2. \A k \in DOMAIN plan.manifests :
          day.published[k].signed.report.meta.manifest = plan.manifests[k]
    BY <1>2, <1>4, <2>1, PublishIs
  <2> QED BY <1>4, <1>7, <2>1, <2>2 DEF Packageable
<1>8. /\ AnchorOf(day.published[1].signed, previous).digest = Digest(day.published[1].signed.report)
      /\ AnchorOf(day.published[1].signed, previous).version = "anchor-v1"
      /\ "version" \in DOMAIN AnchorOf(day.published[1].signed, previous)
  BY DEF AnchorOf
<1> QED BY <1>3, <1>5, <1>6, <1>7, <1>8 DEF IsDay, day

LEMMA DaysKept ==
  ASSUME DaysInv, AnchorsInv, NEW plan \in Plans, PublishDay(plan)
  PROVE  DaysInv'
<1>0. IsList
  BY DEF DaysInv
<1>1. PICK n : \E previous :
        /\ n \in Nat /\ DOMAIN days = 1..n
        /\ DOMAIN days' = 1..(n + 1)
        /\ \A d \in 1..n : days'[d] = days[d] /\ anchors'[d] = anchors[d]
        /\ days'[n + 1] = DayOf(plan, n + 1)
        /\ anchors'[n + 1] = AnchorOf(DayOf(plan, n + 1).published[1].signed, previous)
  BY <1>0, DayAdded
<1>2. PICK S : days \in Seq(S)
  BY <1>0 DEF IsList
<1>3. IsList'
  <2>1. PICK x : days' = Append(days, x)
    BY DEF PublishDay
  <2>2. days' \in Seq(S \cup {x})
    BY <1>2, <2>1, Appended
  <2> QED BY <2>2 DEF IsList
<1>4. IsDay(n + 1, days'[n + 1], anchors'[n + 1])
  <2>1. /\ Publishable(LeavesV1(plan.inputs))
        /\ plan.manifests # << >> => Packageable(plan.manifests)
    BY DEF PublishDay
  <2>2. n + 1 \in Nat
    BY <1>1
  <2> QED BY <1>1, <2>1, <2>2, DayIs
<1>5. \A d \in DOMAIN days' : d \in Nat /\ IsDay(d, days'[d], anchors'[d])
  <2> SUFFICES ASSUME NEW d \in DOMAIN days' PROVE d \in Nat /\ IsDay(d, days'[d], anchors'[d])
    OBVIOUS
  <2>1. d \in 1..n \/ d = n + 1
    BY <1>1
  <2>2. CASE d \in 1..n
    BY <1>1, <2>2 DEF DaysInv
  <2>3. CASE d = n + 1
    BY <1>1, <1>4, <2>3
  <2> QED BY <2>1, <2>2, <2>3
<1>6. (\A d \in DOMAIN days : d \in Nat /\ IsDay(d, days[d], anchors[d]))'
  BY <1>5 DEF IsDay, Venue
<1> QED BY <1>3, <1>6 DEF DaysInv

\* Every state: the days and their anchors.
LEMMA DaysAlways == Spec => [](DaysInv /\ AnchorsInv)
<1> DEFINE IInv == DaysInv /\ AnchorsInv
<1>1. Init => IInv
  <2> SUFFICES ASSUME Init PROVE IInv
    OBVIOUS
  <2>1. days \in Seq({}) /\ anchors \in Seq({}) /\ DOMAIN days = {} /\ DOMAIN anchors = {}
    BY DEF Init
  <2> QED BY <2>1 DEF IsList, DaysInv, AnchorsInv
<1>2. IInv /\ [Next]_vars => IInv'
  <2> SUFFICES ASSUME IInv, [Next]_vars PROVE IInv'
    OBVIOUS
  <2>1. CASE UNCHANGED <<days, anchors>>
    <3>1. DaysInv'
      BY <2>1 DEF DaysInv, IsList, IsDay, Venue
    <3>2. AnchorsInv'
      BY <2>1, Zenon DEF AnchorsInv
    <3> QED BY <3>1, <3>2
  <2>2. ASSUME NEW plan \in Plans, PublishDay(plan) PROVE IInv'
    <3>1. IsList
      BY DEF DaysInv
    <3> QED BY <2>2, <3>1, DaysKept, AnchorsKept
  <2> QED BY <2>1, <2>2 DEF Next, vars, Attest, SignSources, Grade, FollowAnchor
<1> QED BY <1>1, <1>2, PTL DEF Spec

\* A digest covers the offset, so that reports of two days never have one digest.
LEMMA DigestIsOfDay ==
  ASSUME NEW version, NEW m, NEW root, NEW count, NEW sums, Places \subseteq DOMAIN m
  PROVE  Digest(Report(version, m, root, count, sums)).meta.offset = m.offset
<1> DEFINE r == Report(version, m, root, count, sums)
           n == [m EXCEPT !.manifest = None]
<1>1. [r EXCEPT !.meta.manifest = None] = Report(version, n, root, count, sums)
  BY DEF Report
<1>2. r.meta = m
  BY DEF Report
<1>3. n.offset = m.offset
  BY DEF Places
<1> HIDE DEF n
<1>4. Report(version, n, root, count, sums).meta = n
  BY DEF Report
<1> HIDE DEF r
<1> QED BY <1>1, <1>2, <1>3, <1>4 DEF Digest, r

LEMMA DaysApart ==
  ASSUME DaysInv, NEW d \in DOMAIN days, NEW e \in DOMAIN days,
         NEW i \in DOMAIN days[d].published, NEW j \in DOMAIN days[e].published,
         Digest(days[d].published[i].signed.report) = Digest(days[e].published[j].signed.report)
  PROVE  d = e
<1>1. PICK m : /\ IsFunction(m) /\ Places \subseteq DOMAIN m /\ m.offset = 10 * d
               /\ days[d].published[i] = Publish(days[d].plan.inputs, m, Venue)
  BY DEF DaysInv, IsDay
<1>2. PICK n : /\ IsFunction(n) /\ Places \subseteq DOMAIN n /\ n.offset = 10 * e
               /\ days[e].published[j] = Publish(days[e].plan.inputs, n, Venue)
  BY DEF DaysInv, IsDay
<1>3. m.offset = n.offset
  <2>1. Digest(days[d].published[i].signed.report).meta.offset = m.offset
    BY <1>1, PublishIs, DigestIsOfDay
  <2>2. Digest(days[e].published[j].signed.report).meta.offset = n.offset
    BY <1>2, PublishIs, DigestIsOfDay
  <2> QED BY <2>1, <2>2
<1> QED BY <1>1, <1>2, <1>3 DEF DaysInv

\* A list of reports that matches the venue's anchors is what the venue
\* published, every day, in order, as far as both lists go (anchor.rs:228-240).
THEOREM AnchoredIsPublished == Spec => []AnchoredIsWhatWasPublished
<1>1. DaysInv /\ AnchorsInv => AnchoredIsWhatWasPublished
  <2> SUFFICES ASSUME DaysInv, AnchorsInv,
                      NEW n \in 0..(Len(days) + 1), NEW listed \in [1..n -> Signed],
                      AnchoredReports(anchors, listed),
                      NEW d \in DOMAIN days \cap (1..n)
               PROVE  listed[d] \in {p.signed : p \in PublishedOn(d)}
    BY DEF AnchoredIsWhatWasPublished
  <2>1. d \in DOMAIN anchors \cap DOMAIN listed
    BY DEF AnchorsInv
  <2>2. anchors[d].digest = Digest(listed[d].report)
    BY <2>1 DEF AnchoredReports
  <2>3. PICK e \in DOMAIN days : \E j : /\ j \in DOMAIN days[e].published
                                        /\ listed[d] = days[e].published[j].signed
    BY DEF Signed, Published, PublishedOn
  <2>4. PICK j : j \in DOMAIN days[e].published /\ listed[d] = days[e].published[j].signed
    BY <2>3
  <2>5. 1 \in DOMAIN days[d].published
        /\ anchors[d].digest = Digest(days[d].published[1].signed.report)
    BY DEF DaysInv, IsDay
  <2>6. d = e
    BY <2>2, <2>4, <2>5, DaysApart
  <2> QED BY <2>4, <2>6 DEF PublishedOn
<1> QED BY <1>1, DaysAlways, PTL


\* Publishable inputs make a level of leaves, one for each.
LEMMA BookIsLevel ==
  ASSUME NEW plan \in Plans, Publishable(LeavesV1(plan.inputs))
  PROVE  LET leaves == LeavesV1(plan.inputs) IN
         /\ IsLevel(leaves) /\ AreLeaves(leaves)
         /\ Len(leaves) = Len(plan.inputs) /\ DOMAIN leaves = DOMAIN plan.inputs
         /\ \A j \in DOMAIN plan.inputs :
              leaves[j].hash = [kind |-> "leaf", user |-> plan.inputs[j].user,
                                balances |-> plan.inputs[j].balances]
<1> DEFINE leaves == LeavesV1(plan.inputs)
<1>1. plan.inputs \in Seq(Range(plan.inputs))
  BY PlansAssumption
<1>2. /\ DOMAIN leaves = 1..Len(plan.inputs) /\ DOMAIN plan.inputs = 1..Len(plan.inputs)
      /\ Len(plan.inputs) \in Nat
      /\ \A j \in 1..Len(plan.inputs) :
           leaves[j] = Leaf(plan.inputs[j].user, plan.inputs[j].balances)
  BY <1>1 DEF LeavesV1
<1>3. leaves = [j \in 1..Len(plan.inputs) |-> leaves[j]]
  BY <1>1 DEF LeavesV1
<1>4. leaves # << >>
  BY DEF Publishable
<1> HIDE DEF leaves
<1>5. Len(leaves) = Len(plan.inputs) /\ Len(plan.inputs) # 0
  BY <1>2, <1>3, <1>4
<1>6. \A u, b : /\ Leaf(u, b).hash = [kind |-> "leaf", user |-> u, balances |-> b]
                /\ Leaf(u, b).hash.kind = "leaf"
  BY DEF Leaf
<1>7. IsLevel(leaves)
  BY <1>2, <1>5 DEF IsLevel
<1>8. AreLeaves(leaves)
  BY <1>2, <1>6 DEF AreLeaves
<1>9. \A j \in DOMAIN plan.inputs :
        leaves[j].hash = [kind |-> "leaf", user |-> plan.inputs[j].user,
                          balances |-> plan.inputs[j].balances]
  BY <1>2, <1>6
<1> QED BY <1>2, <1>5, <1>7, <1>8, <1>9 DEF leaves

\* Two books of one commitment are one book.
LEMMA OneCommitmentOneBook ==
  ASSUME NEW plan \in Plans, Publishable(LeavesV1(plan.inputs)),
         NEW other \in Plans, Publishable(LeavesV1(other.inputs)),
         Root(LeavesV1(plan.inputs)).hash = Root(LeavesV1(other.inputs)).hash,
         Len(LeavesV1(plan.inputs)) = Len(LeavesV1(other.inputs))
  PROVE  plan.inputs = other.inputs
<1> DEFINE leaves == LeavesV1(plan.inputs)
           others == LeavesV1(other.inputs)
<1>1. /\ IsLevel(leaves) /\ IsLevel(others)
      /\ Len(leaves) = Len(plan.inputs) /\ DOMAIN leaves = DOMAIN plan.inputs
      /\ Len(others) = Len(other.inputs)
  BY BookIsLevel
<1>2. \A j \in DOMAIN plan.inputs : leaves[j].hash = others[j].hash
  <2>1. Len(leaves) = Len(others) /\ Root(leaves).hash = Root(others).hash
    OBVIOUS
  <2> HIDE DEF leaves, others
  <2> QED BY <1>1, <2>1, SameRootSameLeaves
<1>3. /\ plan.inputs \in Seq(Range(plan.inputs)) /\ other.inputs \in Seq(Range(other.inputs))
      /\ Len(plan.inputs) = Len(other.inputs)
  BY <1>1, PlansAssumption
<1>4. DOMAIN plan.inputs = DOMAIN other.inputs
  BY <1>3
<1>5. ASSUME NEW j \in DOMAIN plan.inputs PROVE plan.inputs[j] = other.inputs[j]
  <2>1. /\ leaves[j].hash = [kind |-> "leaf", user |-> plan.inputs[j].user,
                             balances |-> plan.inputs[j].balances]
        /\ others[j].hash = [kind |-> "leaf", user |-> other.inputs[j].user,
                             balances |-> other.inputs[j].balances]
    BY <1>4, BookIsLevel
  <2>2. plan.inputs[j].user = other.inputs[j].user /\ plan.inputs[j].balances = other.inputs[j].balances
    BY <1>2, <2>1
  <2>3. /\ plan.inputs[j] = [user |-> plan.inputs[j].user, balances |-> plan.inputs[j].balances]
        /\ other.inputs[j] = [user |-> other.inputs[j].user, balances |-> other.inputs[j].balances]
    BY <1>4, PlansAssumption
  <2> QED BY <2>2, <2>3
<1> QED BY <1>3, <1>4, <1>5

\* The packagings of a day are for different audiences and commit to one book,
\* and no two books pass for one, whatever their totals (produce.rs:216-260).
THEOREM OneBook == Spec => []PackagingsCommitToOneBook
<1>1. DaysInv => PackagingsCommitToOneBook
  <2> SUFFICES ASSUME DaysInv PROVE PackagingsCommitToOneBook
    OBVIOUS
  <2>1. \A d \in DOMAIN days : \A i, j \in DOMAIN days[d].published :
          i # j => days[d].published[i].signed.report.meta.manifest.audience
                     # days[d].published[j].signed.report.meta.manifest.audience
    BY DEF DaysInv, IsDay
  <2>2. ASSUME NEW d \in DOMAIN days, NEW e \in DOMAIN days,
               NEW p \in PublishedOn(d), NEW q \in PublishedOn(e)
        PROVE  SameCommitment(p.signed.report, q.signed.report)
                 = (days[d].plan.inputs = days[e].plan.inputs)
    <3> DEFINE plan == days[d].plan
               other == days[e].plan
               leaves == LeavesV1(plan.inputs)
               others == LeavesV1(other.inputs)
    <3>1. /\ plan \in Plans /\ Publishable(leaves)
          /\ other \in Plans /\ Publishable(others)
      BY DEF DaysInv, IsDay
    <3>2. PICK m : p = Publish(plan.inputs, m, Venue)
      BY DEF PublishedOn, DaysInv, IsDay
    <3>3. PICK n : q = Publish(other.inputs, n, Venue)
      BY DEF PublishedOn, DaysInv, IsDay
    <3>4. /\ p.signed.report.root = Root(leaves).hash /\ p.signed.report.count = Len(leaves)
          /\ p.signed.report.sums = Root(leaves).sums
      BY <3>2, PublishIs
    <3>5. /\ q.signed.report.root = Root(others).hash /\ q.signed.report.count = Len(others)
          /\ q.signed.report.sums = Root(others).sums
      BY <3>3, PublishIs
    <3>6. SameCommitment(p.signed.report, q.signed.report) => plan.inputs = other.inputs
      <4>1. SameCommitment(p.signed.report, q.signed.report) =>
              Root(leaves).hash = Root(others).hash /\ Len(leaves) = Len(others)
        BY <3>4, <3>5 DEF SameCommitment
      <4> HIDE DEF plan, other
      <4> QED BY <3>1, <4>1, OneCommitmentOneBook
    <3>7. plan.inputs = other.inputs => SameCommitment(p.signed.report, q.signed.report)
      BY <3>4, <3>5 DEF SameCommitment
    <3>8. SameCommitment(p.signed.report, q.signed.report) \in BOOLEAN
      BY DEF SameCommitment
    <3> QED BY <3>6, <3>7, <3>8
  <2> QED BY <2>1, <2>2 DEF PackagingsCommitToOneBook
<1> QED BY <1>1, DaysAlways, PTL


-----------------------------------------------------------------------------
(***************************************************************************)
(* Proofs that were followed.                                              *)
(***************************************************************************)
\* A report of some day has this digest and this root.
IsOfDay(signed, d) ==
  \E i \in DOMAIN days[d].published :
    /\ Digest(days[d].published[i].signed.report) = Digest(signed.report)
    /\ days[d].published[i].signed.report.root = signed.report.root

LEMMA SignedIsOfDay ==
  ASSUME DaysInv, NEW signed \in HandedReports, NEW key,
         GoodSignature(signed.signature, key, Digest(signed.report))
  PROVE  \E d \in DOMAIN days : IsOfDay(signed, d)
<1>1. PICK s \in Signed : signed \in {s} \cup EditedReport(s)
  BY DEF HandedReports
<1>2. PICK d \in DOMAIN days : \E i : i \in DOMAIN days[d].published /\ s = days[d].published[i].signed
  BY DEF Signed, Published, PublishedOn
<1>3. PICK i : i \in DOMAIN days[d].published /\ s = days[d].published[i].signed
  BY <1>2
<1>4. PICK m : IsFunction(m) /\ days[d].published[i] = Publish(days[d].plan.inputs, m, Venue)
  BY <1>3 DEF DaysInv, IsDay
<1>5. PICK version, root, count, sums : s = Signing(Report(version, m, root, count, sums), Venue)
  BY <1>3, <1>4, PublishIs
<1>6. /\ signed.signature = s.signature
      /\ \E n, others : IsFunction(n) /\ signed.report = Report(version, n, root, count, others)
  BY <1>1, <1>4, <1>5, EditsAreOf
<1>7. s.report.root = root /\ s.signature.on = Digest(s.report)
  BY <1>5 DEF Signing, Sign, Report
<1>8. signed.report.root = root
  BY <1>6 DEF Report
<1>9. Digest(signed.report) = Digest(s.report)
  BY <1>6, <1>7 DEF GoodSignature
<1> QED BY <1>3, <1>7, <1>8, <1>9 DEF IsOfDay

\* A proof that is handed over has the steps and the balances of one that was
\* published.
LEMMA HandedSteps ==
  ASSUME DaysInv, NEW signed, NEW p \in HandedProofs(signed)
  PROVE  /\ Len(p.steps) \in Nat
         /\ p.leaf = [user |-> p.leaf.user, balances |-> p.leaf.balances]
<1>1. PICK q \in Proofs :
        \/ p = q
        \/ p = [q EXCEPT !.digest = Digest(signed.report)]
        \/ p = [q EXCEPT !.digest = Digest(signed.report), !.leaf.user = "nobody"]
  BY Zenon DEF HandedProofs
<1>2. PICK d \in DOMAIN days : \E i : i \in DOMAIN days[d].published
                                 /\ q \in Range(days[d].published[i].proofs)
  BY DEF Proofs, Published, PublishedOn
<1>3. PICK i : i \in DOMAIN days[d].published /\ q \in Range(days[d].published[i].proofs)
  BY <1>2
<1> DEFINE plan == days[d].plan
           inputs == plan.inputs
           leaves == LeavesV1(inputs)
<1>4. plan \in Plans /\ Publishable(leaves) /\ \E m : days[d].published[i] = Publish(inputs, m, Venue)
  BY <1>3 DEF DaysInv, IsDay
<1>5. PICK j \in DOMAIN inputs : \E digest :
        q = [version |-> "proof-v1", digest |-> digest, leaf |-> inputs[j],
             steps |-> Prove(leaves, j - 1)]
  <2>1. PICK m : days[d].published[i] = Publish(inputs, m, Venue)
    BY <1>4
  <2> DEFINE made == Publish(inputs, m, Venue)
  <2>2. /\ DOMAIN made.proofs = DOMAIN inputs
        /\ \A j \in DOMAIN inputs :
             made.proofs[j] = [version |-> "proof-v1", digest |-> Digest(made.signed.report),
                               leaf |-> inputs[j], steps |-> Prove(leaves, j - 1)]
    BY PublishIs
  <2> HIDE DEF made
  <2>3. PICK j \in DOMAIN made.proofs : q = made.proofs[j]
    BY <1>3, <2>1 DEF made, Range
  <2> HIDE DEF leaves, inputs
  <2> QED BY <2>2, <2>3
<1>6. /\ q.leaf = inputs[j] /\ q.steps = Prove(leaves, j - 1)
      /\ DOMAIN q = {"version", "digest", "leaf", "steps"}
  BY <1>5
<1>7. inputs[j] = [user |-> inputs[j].user, balances |-> inputs[j].balances]
  BY <1>4, PlansAssumption
<1>8. Len(q.steps) \in Nat
  <2>1. IsLevel(leaves) /\ DOMAIN inputs = DOMAIN leaves
    <3> HIDE DEF plan
    <3> QED BY <1>4, BookIsLevel
  <2>2. j - 1 \in Nat /\ j - 1 < Len(leaves)
    BY <2>1 DEF IsLevel
  <2> HIDE DEF leaves
  <2>3. Prove(leaves, j - 1) \in Seq(StepsOf(leaves))
    BY <2>1, <2>2, ProveFoldsToRoot
  <2> QED BY <1>6, <2>3
<1> HIDE DEF plan
<1>9. p.steps = q.steps /\ \E u : p.leaf = [user |-> u, balances |-> inputs[j].balances]
  <2>1. CASE p = q
    BY <1>6, <1>7, <2>1
  <2>2. CASE p = [q EXCEPT !.digest = Digest(signed.report)]
    BY <1>6, <1>7, <2>2
  <2>3. CASE p = [q EXCEPT !.digest = Digest(signed.report), !.leaf.user = "nobody"]
    <3>1. p.leaf = [q.leaf EXCEPT !.user = "nobody"] /\ p.steps = q.steps
      BY <1>6, <2>3
    <3>2. [inputs[j] EXCEPT !.user = "nobody"] = [user |-> "nobody", balances |-> inputs[j].balances]
      BY <1>7
    <3> QED BY <1>6, <3>1, <3>2
  <2> QED BY <1>1, <2>1, <2>2, <2>3
<1> QED BY <1>8, <1>9

\* What leads to the root of a day's report is a customer of that day's book, with
\* that balance.
LEMMA FoldsToACustomer ==
  ASSUME DaysInv, NEW signed, NEW d \in DOMAIN days, IsOfDay(signed, d),
         NEW p \in HandedProofs(signed), LeafFolds(signed, p)
  PROVE  p.leaf \in Range(days[d].plan.inputs)
<1> DEFINE plan == days[d].plan
           leaves == LeavesV1(plan.inputs)
           leaf == Leaf(p.leaf.user, p.leaf.balances)
<1>1. PICK i : i \in DOMAIN days[d].published
               /\ days[d].published[i].signed.report.root = signed.report.root
  BY DEF IsOfDay
<1>2. plan \in Plans /\ Publishable(leaves) /\ signed.report.root = Root(leaves).hash
  BY <1>1, PublishIs DEF DaysInv, IsDay
<1>3. Folded(leaf, p.steps)[Len(p.steps)].hash = Root(leaves).hash
  BY <1>2 DEF LeafFolds, EndsAtRoot
<1>4. /\ leaf.hash = [kind |-> "leaf", user |-> p.leaf.user, balances |-> p.leaf.balances]
      /\ leaf.hash.kind # "node"
  BY DEF Leaf
<1> HIDE DEF plan, leaf
<1>5. /\ IsLevel(leaves) /\ AreLeaves(leaves) /\ DOMAIN leaves = DOMAIN plan.inputs
      /\ \A j \in DOMAIN plan.inputs :
           leaves[j].hash = [kind |-> "leaf", user |-> plan.inputs[j].user,
                             balances |-> plan.inputs[j].balances]
  BY <1>2, BookIsLevel
<1> HIDE DEF leaves
<1>6. leaf.hash \in HashesOf(leaves)
  BY <1>3, <1>5, HandedSteps, TreeIsClosed, FoldIsCommitted
<1>7. PICK j \in DOMAIN leaves : leaves[j].hash = leaf.hash
  BY <1>4, <1>5, <1>6, TreeIsClosed
<1>8. p.leaf.user = plan.inputs[j].user /\ p.leaf.balances = plan.inputs[j].balances
  <2>1. \A u, b, v, c : [kind |-> "leaf", user |-> u, balances |-> b] =
                          [kind |-> "leaf", user |-> v, balances |-> c] => u = v /\ b = c
    OBVIOUS
  <2>2. [kind |-> "leaf", user |-> p.leaf.user, balances |-> p.leaf.balances] =
          [kind |-> "leaf", user |-> plan.inputs[j].user, balances |-> plan.inputs[j].balances]
    BY <1>4, <1>5, <1>7, Zenon
  <2> QED BY <2>1, <2>2, Zenon
<1>9. plan.inputs[j] = [user |-> plan.inputs[j].user, balances |-> plan.inputs[j].balances]
  BY <1>2, <1>5, <1>7, PlansAssumption
<1>10. p.leaf = plan.inputs[j]
  BY <1>8, <1>9, HandedSteps
<1> QED BY <1>5, <1>7, <1>10 DEF Range, plan

\* A total that is claimed verified comes with a proof that was handed over.
LEMMA VerifiedHasProof ==
  ASSUME NEW signed, NEW c \in Claims(signed), c.level = "cryptographically-verified"
  PROVE  c.evidence.proof \in HandedProofs(signed)
<1> DEFINE Stated   == [field : Fields, level : {"not-disclosed", "claimed-only"},
                        evidence : {NoEvidence}]
           Proved   == [field : Fields, level : {"cryptographically-verified"},
                        evidence : {[NoEvidence EXCEPT !.proof = p] : p \in HandedProofs(signed)}]
           Derivable == [field : Fields, level : {"ledger-derived"},
                         evidence : UNION {{[NoEvidence EXCEPT !.anchor = a, !.provenance = g.provenance] :
                                              a \in HandedAnchors(signed)} : g \in graphs}]
           VouchedFor(f) == [field : {f}, level : {RoleLevel(r) : r \in Roles},
                             evidence : {[NoEvidence EXCEPT !.attestations = {a}] :
                                           a \in HandedAttestations(signed, f)}]
<1>1. c \in Stated \cup Proved \cup Derivable \cup UNION {VouchedFor(f) : f \in Fields}
  BY Zenon DEF Claims
<1>2. c \notin Stated /\ c \notin Derivable /\ \A f : c \notin VouchedFor(f)
  BY DEF RoleLevel
<1>3. c \in Proved
  <2> HIDE DEF Stated, Proved, Derivable, VouchedFor
  <2> QED BY <1>1, <1>2
<1>4. PICK p \in HandedProofs(signed) : c.evidence = [NoEvidence EXCEPT !.proof = p]
  BY <1>3
<1> QED BY <1>4 DEF NoEvidence


\* What it takes for a total to be established as verified.
LEMMA VerifiedIsEstablished ==
  ASSUME NEW signed, NEW field, NEW evidence,
         "cryptographically-verified" \in Established(signed, field, evidence, Trusted, {})
  PROVE  field = "root_sums" /\ Outcome(Verify(signed, evidence.proof, Venue), {}) = "ok"
BY DEF Established, Demand, RoleLevel, Venue

\* The digest that an anchor holds is of its own day.
LEMMA AnchorsAreOfDays ==
  ASSUME DaysInv, NEW signed, NEW d \in DOMAIN days, NEW e \in DOMAIN days,
         IsOfDay(signed, e), anchors[d].digest = Digest(signed.report)
  PROVE  d = e
<1>1. /\ 1 \in DOMAIN days[d].published
      /\ anchors[d].digest = Digest(days[d].published[1].signed.report)
  BY DEF DaysInv, IsDay
<1>2. PICK j : /\ j \in DOMAIN days[e].published
               /\ Digest(days[e].published[j].signed.report) = Digest(signed.report)
  BY DEF IsOfDay
<1> QED BY <1>1, <1>2, DaysApart

\* A verified total, and a proof followed from an anchor, are about a customer of
\* that day's book, with that balance; and a proof followed from an anchor is of
\* the day that was anchored (verify.rs:378-426, anchor.rs:206-224).
THEOREM CommittedLevels == Spec => []VerifiedIsCommitted
<1> DEFINE InBookOf(signed, leaf, d) ==
             /\ \E p \in PublishedOn(d) : Digest(p.signed.report) = Digest(signed.report)
             /\ leaf \in Range(days[d].plan.inputs)
           Verified(v) == v # None /\ v.verb = "assurance"
                          /\ v.claim.level = "cryptographically-verified"
           Followed(v) == v # None /\ v.verb = "anchor"
           Total(v) == /\ v.claim.field = "root_sums"
                       /\ \E d \in DOMAIN days : InBookOf(v.signed, v.claim.evidence.proof.leaf, d)
           OfDay(v) == v.day \in DOMAIN days /\ InBookOf(v.signed, v.proof.leaf, v.day)
           Committed(v) == (Verified(v) => Total(v)) /\ (Followed(v) => OfDay(v))
           IInv == DaysInv /\ AnchorsInv /\ Committed(verdict)
<1>1. Init => IInv
  <2> SUFFICES ASSUME Init PROVE IInv
    OBVIOUS
  <2>1. days \in Seq({}) /\ anchors \in Seq({}) /\ DOMAIN days = {} /\ DOMAIN anchors = {} /\ verdict = None
    BY DEF Init
  <2> QED BY <2>1 DEF IsList, DaysInv, AnchorsInv
<1>2. IInv /\ [Next]_vars => IInv'
  <2> SUFFICES ASSUME IInv, [Next]_vars PROVE IInv'
    OBVIOUS
  <2>1. ASSUME UNCHANGED <<days, anchors>> PROVE DaysInv' /\ AnchorsInv'
    <3>1. DaysInv'
      BY <2>1 DEF DaysInv, IsList, IsDay, Venue
    <3>2. AnchorsInv'
      BY <2>1, Zenon DEF AnchorsInv
    <3> QED BY <3>1, <3>2
  <2>2. ASSUME UNCHANGED days, NEW v, Committed(v), verdict' = v PROVE Committed(verdict)'
    BY <2>2 DEF PublishedOn
  <2>3. CASE UNCHANGED <<days, anchors, verdict>>
    BY <2>1, <2>2, <2>3
  <2>4. ASSUME NEW plan \in Plans, PublishDay(plan) PROVE IInv'
    <3>1. IsList
      BY DEF DaysInv
    <3>2. DaysInv' /\ AnchorsInv'
          /\ \A d \in DOMAIN days : d \in DOMAIN days' /\ days'[d] = days[d]
      BY <2>4, <3>1, DaysKept, AnchorsKept
    <3>3. verdict' = verdict
      BY <2>4 DEF PublishDay
    <3>4. \A signed, leaf : \A d \in DOMAIN days :
            InBookOf(signed, leaf, d) => InBookOf(signed, leaf, d)'
      BY <3>2 DEF PublishedOn
    <3> HIDE DEF InBookOf
    <3> QED BY <3>2, <3>3, <3>4
  <2>5. ASSUME Grade PROVE IInv'
    <3>1. PICK signed \in HandedReports : \E c \in Claims(signed) :
            verdict' = IF IsAccepted(signed, c)
                       THEN [verb |-> "assurance", signed |-> signed, claim |-> c]
                       ELSE Refused
      BY <2>5 DEF Grade
    <3>2. PICK c \in Claims(signed) :
            verdict' = IF IsAccepted(signed, c)
                       THEN [verb |-> "assurance", signed |-> signed, claim |-> c]
                       ELSE Refused
      BY <3>1
    <3> DEFINE v == [verb |-> "assurance", signed |-> signed, claim |-> c]
               p == c.evidence.proof
    <3>3. ASSUME IsAccepted(signed, c), c.level = "cryptographically-verified" PROVE Total(v)
      <4>1. /\ GoodSignature(signed.signature, Venue, Digest(signed.report))
            /\ "cryptographically-verified" \in Established(signed, c.field, c.evidence, Trusted, {})
        BY <3>3, AcceptedIsEstablished
      <4>2. c.field = "root_sums" /\ Outcome(Verify(signed, p, Venue), {}) = "ok"
        BY <4>1, VerifiedIsEstablished
      <4>3. LeafFolds(signed, p)
        BY <4>2, OkMeansAllHold, VerifiedIsSigned
      <4>4. p \in HandedProofs(signed)
        BY <3>3, VerifiedHasProof
      <4>5. PICK d \in DOMAIN days : IsOfDay(signed, d)
        BY <4>1, SignedIsOfDay
      <4>6. p.leaf \in Range(days[d].plan.inputs)
        BY <4>3, <4>4, <4>5, FoldsToACustomer
      <4> QED BY <4>2, <4>5, <4>6 DEF IsOfDay, PublishedOn
    <3>4. Committed(v) \/ ~IsAccepted(signed, c)
      BY <3>3
    <3>5. Committed(Refused)
      BY DEF Refused
    <3>6. UNCHANGED <<days, anchors>>
      BY <2>5 DEF Grade
    <3> HIDE DEF Committed, v
    <3>7. Committed(verdict)'
      BY <2>2, <3>2, <3>4, <3>5, <3>6 DEF v
    <3> QED BY <2>1, <3>6, <3>7
  <2>6. ASSUME FollowAnchor PROVE IInv'
    <3>1. PICK signed \in HandedReports, i \in DOMAIN anchors : \E p \in HandedProofs(signed) :
            verdict' = IF Outcome(VerifyWithAnchor(signed, p, anchors[i]), {}) = "ok"
                       THEN [verb |-> "anchor", signed |-> signed, day |-> i, proof |-> p]
                       ELSE Refused
      BY <2>6 DEF FollowAnchor
    <3>2. PICK p \in HandedProofs(signed) :
            verdict' = IF Outcome(VerifyWithAnchor(signed, p, anchors[i]), {}) = "ok"
                       THEN [verb |-> "anchor", signed |-> signed, day |-> i, proof |-> p]
                       ELSE Refused
      BY <3>1
    <3> DEFINE v == [verb |-> "anchor", signed |-> signed, day |-> i, proof |-> p]
    <3>3. ASSUME Outcome(VerifyWithAnchor(signed, p, anchors[i]), {}) = "ok" PROVE OfDay(v)
      <4>1. /\ anchors[i].digest = Digest(signed.report)
            /\ GoodSignature(signed.signature, anchors[i].key, Digest(signed.report))
            /\ LeafFolds(signed, p)
        BY <3>3, FollowedIsSigned
      <4>2. PICK d \in DOMAIN days : IsOfDay(signed, d)
        BY <4>1, SignedIsOfDay
      <4>3. i \in DOMAIN days /\ i = d
        BY <4>1, <4>2, AnchorsAreOfDays DEF AnchorsInv
      <4>4. p.leaf \in Range(days[i].plan.inputs)
        BY <4>1, <4>2, <4>3, FoldsToACustomer
      <4> QED BY <4>2, <4>3, <4>4 DEF IsOfDay, PublishedOn
    <3>4. Committed(v) \/ Outcome(VerifyWithAnchor(signed, p, anchors[i]), {}) # "ok"
      BY <3>3
    <3>5. Committed(Refused)
      BY DEF Refused
    <3>6. UNCHANGED <<days, anchors>>
      BY <2>6 DEF FollowAnchor
    <3> HIDE DEF Committed, v
    <3>7. Committed(verdict)'
      BY <2>2, <3>2, <3>4, <3>5, <3>6 DEF v
    <3> QED BY <2>1, <3>6, <3>7
  <2> QED BY <2>3, <2>4, <2>5, <2>6 DEF Next, vars, Attest, SignSources
<1>3. IInv => VerifiedIsCommitted
  BY DEF VerifiedIsCommitted, IsGraded
<1> QED BY <1>1, <1>2, <1>3, PTL DEF Spec


-----------------------------------------------------------------------------
(***************************************************************************)
(* Graphs of sources.                                                      *)
(***************************************************************************)
\* A graph was signed over the sources of one that the venue may sign.
GraphsInv ==
  \A g \in graphs :
    /\ "version" \in DOMAIN g.provenance
    /\ \E h \in Graphs : g.provenance.sources = h.sources

LEMMA GraphsKept == GraphsInv /\ [Next]_vars => GraphsInv'
<1> SUFFICES ASSUME GraphsInv, [Next]_vars PROVE GraphsInv'
  OBVIOUS
<1>1. CASE UNCHANGED graphs
  BY <1>1 DEF GraphsInv
<1>2. ASSUME NEW h \in Graphs, SignSources(h)
      PROVE  GraphsInv'
  <2> DEFINE g == SignedGraph(Provenance(Today.published[1].signed, h.sources, h.derivations), Venue)
  <2>1. graphs' = graphs \cup {g}
    BY <1>2 DEF SignSources
  <2>2. g.provenance.sources = h.sources /\ "version" \in DOMAIN g.provenance
    BY DEF SignedGraph, Provenance
  <2> HIDE DEF g
  <2> QED BY <2>1, <2>2 DEF GraphsInv
<1> QED BY <1>1, <1>2 DEF Next, vars, PublishDay, Attest, Grade, FollowAnchor

\* The checks of a graph: all of them can fail, and one is that no id is
\* declared twice.
LEMMA GraphIsChecked ==
  ASSUME NEW signed, NEW graph, NEW key
  PROVE  LET checks == VerifyProvenance(signed, graph, key)
         IN  IsChecks(checks) /\ (AllHold(checks) => UniqueIds(graph.provenance.sources))
<1> DEFINE p == graph.provenance
           T == p.sources
           D == p.derivations
           checks == VerifyProvenance(signed, graph, key)
           unique == UniqueIds(T)
           a == Check("provenance.format_version", "unsupported_version",
                      p.version = "provenance-v1")
           b == Check("provenance: digest", "digest_mismatch", p.digest = Digest(signed.report))
           c == Check("provenance: trusted key", "unknown_signer", graph.signature.key = key)
           d == Check("provenance: algorithm", "unsupported_version",
                      graph.signature.algorithm = Ed25519)
           e == Check("provenance: signature", "bad_signature",
                      GoodSignature(graph.signature, key, p))
           x == Check("provenance: ids", "provenance_inconsistent", unique)
           f == Check("provenance: basis", "provenance_inconsistent",
                      \A k \in DOMAIN T : OnLedger(T[k]) \/ T[k].basis \notin {None, "blank"})
           g == Check("provenance: fields", "provenance_inconsistent",
                      \A k \in DOMAIN D : D[k].field \in ResidentFields)
           h == Check("provenance: one derivation", "provenance_inconsistent",
                      \A k, l \in DOMAIN D : k # l => D[k].field # D[l].field)
           i == Check("provenance: some source", "provenance_inconsistent",
                      \A k \in DOMAIN D : D[k].sources # << >>)
           j == Check("provenance: sources declared", "provenance_inconsistent",
                      \A k \in DOMAIN D : \A l \in DOMAIN D[k].sources : D[k].sources[l] \in Ids(T))
<1>1. checks = <<a, b, c, d, e, x, f, g, h, i, j>>
  BY Zenon DEF VerifyProvenance
<1>2. (x.holds => unique) /\ Fails(x)
  <2> HIDE DEF unique
  <2>1. x.holds => unique
    BY Zenon DEF Check
  <2> QED BY <2>1, ChecksFail
<1>3. Fails(a) /\ Fails(b) /\ Fails(c) /\ Fails(d) /\ Fails(e)
  BY ChecksFail, Zenon
<1>4. Fails(f) /\ Fails(g) /\ Fails(h) /\ Fails(i) /\ Fails(j)
  BY ChecksFail, Zenon
<1> HIDE DEF checks, unique, a, b, c, d, e, x, f, g, h, i, j
<1> DEFINE S == {a, b, c, d, e, x, f, g, h, i, j}
<1>5. checks \in Seq(S)
  <2>1. a \in S /\ b \in S /\ c \in S /\ d \in S /\ e \in S /\ x \in S
        /\ f \in S /\ g \in S /\ h \in S /\ i \in S /\ j \in S
    OBVIOUS
  <2> HIDE DEF S
  <2> QED BY <1>1, <2>1
<1>6. \A y \in S : Fails(y)
  BY <1>2, <1>3, <1>4
<1>7. 6 \in DOMAIN checks /\ checks[6] = x
  BY <1>1
<1> HIDE DEF S
<1>8. IsChecks(checks)
  BY <1>5, <1>6 DEF IsChecks
<1>9. AllHold(checks) => x.holds
  BY <1>7, Zenon DEF AllHold
<1> QED BY <1>2, <1>8, <1>9 DEF checks, unique

\* Where no id is declared twice, the last source with an id is the source with
\* that id.
LEMMA OneSourcePerId ==
  ASSUME NEW p, NEW S, p.sources \in Seq(S), UniqueIds(p.sources), NEW i \in DOMAIN p.sources
  PROVE  LastWith(p, p.sources[i].id) = p.sources[i]
<1> DEFINE with == {j \in DOMAIN p.sources : p.sources[j].id = p.sources[i].id}
<1>1. i \in Nat
  OBVIOUS
<1>2. with = {i}
  BY DEF UniqueIds
<1>3. LastOf({i}) = i
  BY <1>1 DEF LastOf
<1> QED BY <1>2, <1>3 DEF LastWith

\* The provenance verb beside a claim takes a graph exactly if it takes the graph
\* and a source on the ledger is behind the field.
LEMMA GraphSays ==
  ASSUME GraphsInv, NEW g \in graphs, NEW s, NEW field
  PROVE  Outcome(GraphChecks(s, g, field), {}) = "ok" <=>
           /\ Outcome(VerifyProvenance(s, g, Venue), {}) = "ok"
           /\ DerivesFromLedger(g.provenance, field)
<1> DEFINE p == g.provenance
           sound == VerifyProvenance(s, g, Venue)
           levels == [f \in {field} |-> "ledger-derived"]
           derived == Derived(p, field) # {}
           onLedger == \E id \in SourcesOf(p, field) \cap Ids(p.sources) : OnLedger(LastWith(p, id))
           against == CheckAgainstAssurance(p, levels)
<1>1. PICK h \in Graphs : p.sources = h.sources
  BY DEF GraphsInv
<1>2. p.sources \in Seq(Range(h.sources))
  BY <1>1, GraphsAssumption
<1>3. IsChecks(sound) /\ (AllHold(sound) => UniqueIds(p.sources))
  BY GraphIsChecked
<1>4. ASSUME UniqueIds(p.sources)
      PROVE  onLedger <=> DerivesFromLedger(p, field)
  <2>1. ASSUME NEW i \in DOMAIN p.sources
        PROVE  LastWith(p, p.sources[i].id) = p.sources[i]
    BY <1>2, <1>4, OneSourcePerId
  <2>2. ASSUME NEW id \in SourcesOf(p, field), id \in Ids(p.sources), OnLedger(LastWith(p, id))
        PROVE  DerivesFromLedger(p, field)
    <3>1. PICK i \in DOMAIN p.sources : p.sources[i].id = id
      BY <2>2 DEF Ids
    <3>2. OnLedger(p.sources[i])
      BY <2>1, <2>2, <3>1
    <3> QED BY <3>1, <3>2, Zenon DEF DerivesFromLedger
  <2>3. ASSUME NEW id \in SourcesOf(p, field), NEW i \in DOMAIN p.sources,
               p.sources[i].id = id, OnLedger(p.sources[i])
        PROVE  onLedger
    <3>1. id \in Ids(p.sources)
      BY <2>3 DEF Ids
    <3>2. OnLedger(LastWith(p, id))
      BY <2>1, <2>3
    <3> QED BY <3>1, <3>2
  <2>4. onLedger => DerivesFromLedger(p, field)
    BY <2>2
  <2>5. DerivesFromLedger(p, field) => onLedger
    <3> HIDE DEF onLedger
    <3> QED BY <2>3, Zenon DEF DerivesFromLedger
  <2> QED BY <2>4, <2>5 DEF DerivesFromLedger
<1>5. onLedger => derived
  BY DEF SourcesOf
<1>6. \E a, b : /\ against = <<Check("provenance: claimed is derived", "provenance_inconsistent", a),
                               Check("provenance: claimed is on ledger", "provenance_inconsistent", b)>>
                /\ (a <=> derived) /\ (b <=> (derived => onLedger))
                /\ a \in BOOLEAN /\ b \in BOOLEAN
  <2> DEFINE claimed == {f \in DOMAIN levels : levels[f] = "ledger-derived"}
             a == \A f \in claimed : Derived(p, f) # {}
             b == \A f \in claimed : Derived(p, f) # {} =>
                    \E id \in SourcesOf(p, f) \cap Ids(p.sources) : OnLedger(LastWith(p, id))
  <2>1. claimed = {field}
    OBVIOUS
  <2>2. against = <<Check("provenance: claimed is derived", "provenance_inconsistent", a),
                    Check("provenance: claimed is on ledger", "provenance_inconsistent", b)>>
    BY Zenon DEF CheckAgainstAssurance
  <2> HIDE DEF claimed
  <2>3. a <=> derived
    BY <2>1
  <2>4. b <=> (derived => onLedger)
    BY <2>1
  <2>5. a \in BOOLEAN /\ b \in BOOLEAN
    OBVIOUS
  <2> HIDE DEF a, b, against, derived, onLedger
  <2> QED BY <2>2, <2>3, <2>4, <2>5
<1>7. IsChecks(against) /\ (AllHold(against) <=> onLedger)
  <2> HIDE DEF against, derived, onLedger
  <2>1. PICK a, b : /\ against = <<Check("provenance: claimed is derived", "provenance_inconsistent", a),
                                   Check("provenance: claimed is on ledger", "provenance_inconsistent", b)>>
                    /\ (a <=> derived) /\ (b <=> (derived => onLedger))
                    /\ a \in BOOLEAN /\ b \in BOOLEAN
    BY <1>6
  <2> DEFINE x == Check("provenance: claimed is derived", "provenance_inconsistent", a)
             y == Check("provenance: claimed is on ledger", "provenance_inconsistent", b)
  <2>2. x.holds = a /\ y.holds = b
    BY DEF Check
  <2>3. Fails(x) /\ Fails(y)
    BY ChecksFail
  <2> HIDE DEF x, y
  <2>4. against = <<x, y>>
    BY <2>1 DEF x, y
  <2>5. IsChecks(against) /\ (AllHold(against) <=> x.holds /\ y.holds)
    BY <2>3, <2>4, ListedChecks, ListedHold
  <2> QED BY <1>5, <2>1, <2>2, <2>5
<1>8. GraphChecks(s, g, field) = sound \o against
  BY DEF GraphChecks
<1>9. /\ Outcome(sound, {}) = "ok" <=> AllHold(sound)
      /\ Outcome(sound \o against, {}) = "ok" <=> AllHold(sound) /\ onLedger
  <2> HIDE DEF sound, against, onLedger
  <2>1. IsChecks(sound \o against) /\ (AllHold(sound \o against) <=> AllHold(sound) /\ onLedger)
    BY <1>3, <1>7, OneAfterAnother
  <2> QED BY <1>3, <2>1, OkMeansAllHold, AllHoldMeansOk
<1> HIDE DEF sound, against, onLedger
<1> QED BY <1>3, <1>4, <1>8, <1>9 DEF sound

(***************************************************************************)
(* Whatever graph the venue signed, if it is sound at all: the two verbs   *)
(* that ask whether a figure comes from the ledger give one answer.        *)
(***************************************************************************)
THEOREM GraphsAgree == Spec => []GraphAnswersAgree
<1>1. Init => GraphsInv
  BY DEF Init, GraphsInv
<1>2. GraphsInv => GraphAnswersAgree
  <2> SUFFICES ASSUME GraphsInv, NEW g \in graphs, NEW s \in Signed, NEW f \in Fields,
                      Outcome(VerifyProvenance(s, g, Venue), {}) = "ok"
               PROVE  (Outcome(GraphChecks(s, g, f), {}) = "ok") = DerivesFromLedger(g.provenance, f)
    BY DEF GraphAnswersAgree
  <2> DEFINE answer == Outcome(GraphChecks(s, g, f), {}) = "ok"
  <2>1. answer <=> DerivesFromLedger(g.provenance, f)
    BY GraphSays
  <2>2. DerivesFromLedger(g.provenance, f) \in BOOLEAN /\ answer \in BOOLEAN
    BY DEF DerivesFromLedger
  <2> HIDE DEF answer
  <2> QED BY <2>1, <2>2 DEF answer
<1>3. GraphsInv /\ [Next]_vars => GraphsInv'
  BY GraphsKept
<1> QED BY <1>1, <1>2, <1>3, PTL DEF Spec


-----------------------------------------------------------------------------
(***************************************************************************)
(* What is accepted.                                                       *)
(***************************************************************************)
\* A claim of a level that the evidence establishes is accepted of a report that
\* the venue signed.
LEMMA EstablishedIsAccepted ==
  ASSUME NEW signed, NEW c, c.field \in ResidentFields,
         signed.signature = Sign(Venue, Digest(signed.report)),
         c.level \in Established(signed, c.field, c.evidence, Trusted, {})
  PROVE  IsAccepted(signed, c)
<1> DEFINE levels == [f \in {c.field} |-> c.level]
           digest == Digest(signed.report)
           statement == AssuranceStatement(digest, levels)
           h1 == statement.version = "assurance-v1"
           h2 == statement.digest = digest
           h3 == DOMAIN statement.levels \subseteq ResidentFields
           h4 == \A f \in DOMAIN statement.levels \cap ResidentFields :
                   statement.levels[f] \in Established(signed, f, c.evidence, Trusted, {})
           c1 == Check("assurance.format_version", "unsupported_version", h1)
           c2 == Check("assurance: digest", "digest_mismatch", h2)
           c3 == Check("assurance: known fields", "unknown_field", h3)
           c4 == Check("assurance: supported", "over_claimed", h4)
           its == TrustedSignature(signed, Venue)
           checks == VerifyAssurance(signed, statement, c.evidence, Trusted, {})
<1>1. checks = <<c1, c2>> \o its \o <<c3, c4>>
  BY Zenon DEF VerifyAssurance, Venue
<1>2. statement.version = "assurance-v1" /\ statement.digest = digest /\ statement.levels = levels
  BY DEF AssuranceStatement
<1>3. h1 /\ h2 /\ h3 /\ h4
  <2> HIDE DEF statement, digest
  <2> QED BY <1>2
<1>4. IsChecks(its) /\ AllHold(its)
  <2>1. /\ signed.signature.key = Venue
        /\ GoodSignature(signed.signature, Venue, Digest(signed.report))
    BY DEF Sign, GoodSignature
  <2> QED BY <2>1, TrustedIsSigned, TrustedHolds
<1> HIDE DEF h1, h2, h3, h4, its
<1>5. c1.holds /\ c2.holds /\ c3.holds /\ c4.holds
  BY <1>3 DEF Check
<1>6. Fails(c1) /\ Fails(c2) /\ Fails(c3) /\ Fails(c4)
  BY ChecksFail
<1> DEFINE x == <<c1, c2>>
           y == <<c3, c4>>
<1> HIDE DEF c1, c2, c3, c4, checks
<1>7. IsChecks(x) /\ AllHold(x) /\ IsChecks(y) /\ AllHold(y)
  BY <1>5, <1>6, ListedChecks, ListedHold
<1>8. checks = x \o its \o y
  BY <1>1
<1> HIDE DEF x, y
<1>9. IsChecks(x \o its) /\ AllHold(x \o its)
  BY <1>4, <1>7, OneAfterAnother
<1>10. AllHold(checks)
  BY <1>7, <1>8, <1>9, OneAfterAnother
<1>11. Outcome(checks, {}) = "ok"
  BY <1>10, AllHoldMeansOk
<1> QED BY <1>11 DEF IsAccepted, checks

\* What establishes each level of a field that is not withheld.
LEMMA EstablishedBy ==
  ASSUME NEW signed, NEW field, NEW evidence, ~Withheld(signed.report, field, {})
  PROVE  LET levels == Established(signed, field, evidence, Trusted, {}) IN
         /\ /\ field = "root_sums" /\ evidence.proof # None
            /\ Outcome(Verify(signed, evidence.proof, Venue), {}) = "ok"
            => "cryptographically-verified" \in levels
         /\ /\ evidence.anchor # None /\ AnchorsReport(signed.report, evidence.anchor, {})
            /\ evidence.provenance # None /\ DerivesFromLedger(evidence.provenance, field)
            => "ledger-derived" \in levels
         /\ \A a \in evidence.attestations :
              Vouches(a, field, signed.report, Trusted, {}) => RoleLevel(a.attestation.role) \in levels
<1> DEFINE levels == Established(signed, field, evidence, Trusted, {})
           proved == /\ Demand("verified: committed field", {}, field = "root_sums")
                     /\ Demand("verified: proof verifies", {},
                               /\ evidence.proof # None
                               /\ Outcome(Verify(signed, evidence.proof, Venue), {}) = "ok")
           derived == /\ Demand("ledger: anchored", {},
                                /\ evidence.anchor # None
                                /\ AnchorsReport(signed.report, evidence.anchor, {}))
                      /\ Demand("ledger: derived", {},
                                /\ evidence.provenance # None
                                /\ DerivesFromLedger(evidence.provenance, field))
           vouched == {RoleLevel(a.attestation.role) :
                         a \in {b \in evidence.attestations :
                                  Vouches(b, field, signed.report, Trusted, {})}}
<1>1. levels = {"claimed-only"} \cup {l \in {"cryptographically-verified"} : proved}
                 \cup {l \in {"ledger-derived"} : derived} \cup vouched
  BY Zenon DEF Established, Venue
<1>2. field = "root_sums" /\ evidence.proof # None
      /\ Outcome(Verify(signed, evidence.proof, Venue), {}) = "ok" => proved
  BY DEF Demand
<1>3. evidence.anchor # None /\ AnchorsReport(signed.report, evidence.anchor, {})
      /\ evidence.provenance # None /\ DerivesFromLedger(evidence.provenance, field) => derived
  BY DEF Demand
<1>4. \A a \in evidence.attestations :
        Vouches(a, field, signed.report, Trusted, {}) => RoleLevel(a.attestation.role) \in vouched
  BY Zenon
<1> HIDE DEF levels, proved, derived, vouched
<1> QED BY <1>1, <1>2, <1>3, <1>4 DEF levels


\* A manifest that is truthful of a plan fits the reports of that plan.
LEMMA TruthfulFits ==
  ASSUME NEW plan, NEW meta, KeepsFigures(meta, plan), NEW report,
         NEW root, NEW count, NEW sums, DOMAIN sums # {},
         report = Report(IF meta.manifest = None THEN V1 ELSE V2, meta, root, count, sums),
         meta.manifest # None => IsTruthful(plan, meta.manifest)
  PROVE  FitsReport(report)
<1>1. /\ report.meta = meta /\ report.sums = sums
      /\ report.version = IF meta.manifest = None THEN V1 ELSE V2
  BY DEF Report
<1>2. CASE meta.manifest = None
  BY <1>1, <1>2 DEF FitsReport
<1>3. CASE meta.manifest # None
  <2> DEFINE m == meta.manifest
             there == {f \in ResidentFields :
                         \/ f = "root_sums"
                         \/ f = "mark_prices"    /\ DOMAIN plan.meta.prices # {}
                         \/ f = "bad_debt"       /\ DOMAIN plan.meta.badDebt # {}
                         \/ f = "house_accounts" /\ plan.meta.houseAccounts > 0
                         \/ f = "house_totals"   /\ DOMAIN plan.meta.houseTotals # {}}
  <2>1. /\ DOMAIN m.fields \subseteq KnownFields
        /\ \A f \in DOMAIN m.fields \cap ResidentFields :
             (m.fields[f] = "published") = (f \in there)
    BY <1>3, Zenon DEF IsTruthful
  <2>2. \A f \in ResidentFields : f \in there <=> CarriesData(report, f)
    <3>1. DOMAIN report.sums # {}
      BY <1>1
    <3>2. /\ report.meta.prices = plan.meta.prices /\ report.meta.badDebt = plan.meta.badDebt
          /\ report.meta.houseAccounts = plan.meta.houseAccounts
          /\ report.meta.houseTotals = plan.meta.houseTotals
      BY <1>1 DEF KeepsFigures
    <3> QED BY <3>1, <3>2 DEF CarriesData
  <2>3. \A f \in ResidentFields : CarriesData(report, f) \in BOOLEAN
    BY DEF CarriesData
  <2> HIDE DEF there
  <2>4. \A f \in ResidentFields : (f \in there) = CarriesData(report, f)
    BY <2>2, <2>3
  <2>5. report.version = V2 /\ report.meta.manifest = m /\ m # None
    BY <1>1, <1>3
  <2> HIDE DEF m
  <2>6. \A f \in DOMAIN m.fields \cap ResidentFields :
          (m.fields[f] = "published") = CarriesData(report, f)
    BY <2>1, <2>4
  <2> QED BY <2>1, <2>5, <2>6 DEF FitsReport
<1> QED BY <1>2, <1>3

\* The reports of a day of customers are signed and carry totals, and their
\* proofs pass.
LEMMA HonestProofPasses ==
  ASSUME DaysInv, NEW d \in DOMAIN days, NEW i \in DOMAIN days[d].published,
         IsOfCustomers(days[d].plan),
         LET manifest == days[d].published[i].signed.report.meta.manifest
         IN  manifest # None => IsTruthful(days[d].plan, manifest)
  PROVE  LET p == days[d].published[i]
             s == p.signed IN
         /\ s.signature = Sign(Venue, Digest(s.report))
         /\ CarriesData(s.report, "root_sums")
         /\ \A k \in DOMAIN p.proofs :
              /\ "version" \in DOMAIN p.proofs[k]
              /\ Outcome(Verify(s, p.proofs[k], Venue), {}) = "ok"
<1> DEFINE p == days[d].published[i]
           plan == days[d].plan
           inputs == plan.inputs
           leaves == LeavesV1(inputs)
           s == p.signed
           root == Root(leaves)
<1>1. PICK meta : KeepsFigures(meta, plan) /\ p = Publish(inputs, meta, Venue)
  BY DEF DaysInv, IsDay
<1>2. plan \in Plans /\ Publishable(leaves)
  BY DEF DaysInv, IsDay
<1>3. /\ s = Signing(s.report, Venue)
      /\ s.report = Report(IF meta.manifest = None THEN V1 ELSE V2, meta,
                           root.hash, Len(leaves), root.sums)
      /\ s.report.meta = meta /\ s.report.root = root.hash /\ s.report.sums = root.sums
      /\ DOMAIN p.proofs = DOMAIN inputs
      /\ \A k \in DOMAIN inputs :
           p.proofs[k] = [version |-> "proof-v1", digest |-> Digest(s.report),
                          leaf |-> inputs[k], steps |-> Prove(leaves, k - 1)]
  BY <1>1, PublishIs
<1>4. /\ IsLevel(leaves) /\ Len(leaves) = Len(inputs) /\ DOMAIN leaves = DOMAIN inputs
  <2> HIDE DEF plan
  <2> QED BY <1>2, BookIsLevel
<1>5. \A k \in DOMAIN inputs : leaves[k] = Leaf(inputs[k].user, inputs[k].balances)
  BY DEF LeavesV1
<1>6. Builds(leaves) /\ plan.meta.profile = "solvency.liabilities"
  BY <1>2 DEF Publishable, IsOfCustomers
<1>7. PICK j \in DOMAIN inputs : DOMAIN inputs[j].balances # {}
  BY DEF IsOfCustomers
<1>8. s.signature = Sign(Venue, Digest(s.report))
  <2> HIDE DEF s
  <2>1. \A r : Signing(r, Venue).signature = Sign(Venue, Digest(r))
    BY DEF Signing
  <2> QED BY <1>3, <2>1
<1>9. meta.manifest # None => IsTruthful(plan, meta.manifest)
  BY <1>3
<1>10. s.report.meta.profile = "solvency.liabilities"
  BY <1>1, <1>3, <1>6 DEF KeepsFigures
<1> HIDE DEF s, p, inputs, leaves
<1>11. DOMAIN root.sums # {}
  <2>1. DOMAIN leaves[j].sums \subseteq DOMAIN root.sums
    BY <1>4, <1>7, RootHasAssets
  <2>2. \A u, b : Leaf(u, b).sums = b
    BY DEF Leaf
  <2>3. leaves[j].sums = inputs[j].balances
    BY <1>5, <1>7, <2>2
  <2> QED BY <1>7, <2>1, <2>3
<1>12. CarriesData(s.report, "root_sums")
  BY <1>3, <1>11 DEF CarriesData
<1> HIDE DEF root
<1>13. FitsReport(s.report)
  <2> HIDE DEF plan
  <2> QED BY <1>1, <1>3, <1>9, <1>11, TruthfulFits
<1>14. ASSUME NEW k \in DOMAIN p.proofs
       PROVE  /\ "version" \in DOMAIN p.proofs[k]
              /\ Outcome(Verify(s, p.proofs[k], Venue), {}) = "ok"
  <2> DEFINE proof == p.proofs[k]
             steps == Prove(leaves, k - 1)
             leaf == leaves[k]
  <2>1. /\ "version" \in DOMAIN proof
        /\ proof.version = "proof-v1" /\ proof.digest = Digest(s.report)
        /\ proof.leaf = inputs[k] /\ proof.steps = steps /\ k \in DOMAIN inputs
    <3> DEFINE digest == Digest(s.report)
    <3>1. k \in DOMAIN inputs
      BY <1>3, <1>14
    <3>2. proof = [version |-> "proof-v1", digest |-> digest, leaf |-> inputs[k], steps |-> steps]
      BY <1>3, <3>1, Zenon
    <3> HIDE DEF proof, digest, steps
    <3> QED BY <3>1, <3>2 DEF digest
  <2>2. k - 1 \in Nat /\ k - 1 < Len(leaves) /\ (k - 1) + 1 = k
    BY <1>4, <2>1 DEF IsLevel
  <2>3. /\ steps \in Seq(StepsOf(leaves))
        /\ FoldsTo(leaf, steps, root)
    BY <1>4, <1>6, <2>2, ProveFoldsToRoot DEF root
  <2>4. DOMAIN steps = 1..Len(steps)
    <3> HIDE DEF steps
    <3> QED BY <2>3
  <2>5. leaf = Leaf(proof.leaf.user, proof.leaf.balances)
    BY <1>5, <2>1
  <2> HIDE DEF proof, steps, leaf
  <2>6. FoldsTo(leaf, steps, [hash |-> s.report.root, sums |-> s.report.sums])
    BY <1>3, <2>3 DEF FoldsTo
  <2>7. DOMAIN s.report.sums # {}
    BY <1>3, <1>11
  <2>8. Outcome(Verify(s, proof, Venue), {}) = "ok"
    BY <1>8, <1>10, <1>13, <2>1, <2>4, <2>5, <2>6, <2>7, GoodProofPasses
  <2> QED BY <2>1, <2>8 DEF proof
<1> QED BY <1>8, <1>12, <1>14 DEF p, s


LEMMA AttestationsKept == AttestationsInv /\ [Next]_vars => AttestationsInv'
<1> SUFFICES ASSUME AttestationsInv, [Next]_vars PROVE AttestationsInv'
  OBVIOUS
<1>1. CASE UNCHANGED attestations
  BY <1>1 DEF AttestationsInv
<1>2. ASSUME NEW k \in Attestors, NEW f \in Fields, NEW r \in Roles, Attest(k, f, r)
      PROVE  AttestationsInv'
  <2> DEFINE a == Attested(Today.published[1].signed, f, r, k)
             digest == Digest(Today.published[1].signed.report)
  <2>1. attestations' = attestations \cup {a}
    BY <1>2 DEF Attest
  <2>2. a = [attestation |-> Word(digest, f, r), signature |-> Sign(k, Word(digest, f, r))]
    BY DEF Attested, Word
  <2> HIDE DEF a, digest
  <2>3. \E key, dg, field : \E role \in Roles :
          a = [attestation |-> Word(dg, field, role), signature |-> Sign(key, Word(dg, field, role))]
    BY <2>2
  <2> QED BY <2>1, <2>3 DEF AttestationsInv
<1> QED BY <1>1, <1>2 DEF Next, vars, PublishDay, SignSources, Grade, FollowAnchor

\* An attestation by a key trusted in its role, about a report's digest, vouches
\* for the field it names.
LEMMA TrustedVouches ==
  ASSUME AttestationsInv, NEW a \in attestations, NEW report,
         a.attestation.digest = Digest(report),
         a.signature.key \in DOMAIN Trusted.attestors,
         Trusted.attestors[a.signature.key] = a.attestation.role
  PROVE  Vouches(a, a.attestation.field, report, Trusted, {})
<1>1. PICK key, dg, field, role :
        a = [attestation |-> Word(dg, field, role), signature |-> Sign(key, Word(dg, field, role))]
  BY DEF AttestationsInv
<1>2. a.attestation.version = "attestation-v1"
  BY <1>1 DEF Word
<1>3. /\ a.signature.algorithm = Ed25519
      /\ GoodSignature(a.signature, a.signature.key, a.attestation)
  BY <1>1 DEF Sign, GoodSignature
<1> QED BY <1>2, <1>3 DEF Vouches, Demand

\* The anchor of a day says what the first report of that day says.
LEMMA AnchorSaysDay ==
  ASSUME DaysInv, AnchorsInv, NEW d \in DOMAIN days
  PROVE  /\ "version" \in DOMAIN anchors[d]
         /\ AnchorsReport(days[d].published[1].signed.report, anchors[d], {})
<1>1. /\ 1 \in DOMAIN days[d].published
      /\ "version" \in DOMAIN anchors[d] /\ anchors[d].version = "anchor-v1"
      /\ anchors[d].digest = Digest(days[d].published[1].signed.report)
  BY DEF DaysInv, IsDay
<1> DEFINE report == days[d].published[1].signed.report
<1>2. /\ anchors[d].root = report.root /\ anchors[d].time = report.meta.time
      /\ anchors[d].offset = report.meta.offset /\ anchors[d].publisher = report.meta.publisher
  BY <1>1 DEF AnchorsInv
<1> QED BY <1>1, <1>2 DEF AnchorsReport, Demand

(***************************************************************************)
(* The other half of what the levels promise: what the venue and the       *)
(* attestors really did is enough, whatever the books, the audiences, the  *)
(* keys and the graphs, provided that nothing at all is no document.       *)
(***************************************************************************)
THEOREM HonestClaims ==
  ASSUME "version" \notin DOMAIN None
  PROVE  Spec => []HonestClaimIsAccepted
<1>1. Init => AttestationsInv /\ GraphsInv
  BY DEF Init, AttestationsInv, GraphsInv
<1>2. ASSUME DaysInv, AnchorsInv, AttestationsInv, GraphsInv,
             NEW d \in DOMAIN days, NEW i \in DOMAIN days[d].published,
             IsOfCustomers(days[d].plan),
             LET manifest == days[d].published[i].signed.report.meta.manifest
             IN  manifest # None => IsTruthful(days[d].plan, manifest)
      PROVE  LET p == days[d].published[i]
                 s == p.signed
                 Holds(field, level, evidence) ==
                   IsAccepted(s, [field |-> field, level |-> level, evidence |-> evidence])
                 manifest == s.report.meta.manifest
                 IsOpen(f) == f \in ResidentFields /\ (manifest # None => StateOf(manifest, f) # "withheld")
             IN /\ \A k \in DOMAIN p.proofs :
                     Holds("root_sums", "cryptographically-verified", [NoEvidence EXCEPT !.proof = p.proofs[k]])
                /\ \A a \in attestations :
                     /\ a.attestation.digest = Digest(s.report)
                     /\ a.signature.key \in DOMAIN Trusted.attestors
                     /\ Trusted.attestors[a.signature.key] = a.attestation.role
                     /\ IsOpen(a.attestation.field)
                     => Holds(a.attestation.field, RoleLevel(a.attestation.role),
                              [NoEvidence EXCEPT !.attestations = {a}])
                /\ \A g \in graphs, f \in Fields :
                     /\ Outcome(GraphChecks(s, g, f), {}) = "ok" /\ i = 1 /\ IsOpen(f)
                     => Holds(f, "ledger-derived",
                              [NoEvidence EXCEPT !.anchor = anchors[d], !.provenance = g.provenance])
  <2> DEFINE p == days[d].published[i]
             s == p.signed
             manifest == s.report.meta.manifest
             IsOpen(f) == f \in ResidentFields /\ (manifest # None => StateOf(manifest, f) # "withheld")
             Claim(field, level, evidence) == [field |-> field, level |-> level, evidence |-> evidence]
  <2>1. /\ s.signature = Sign(Venue, Digest(s.report))
        /\ CarriesData(s.report, "root_sums")
        /\ \A k \in DOMAIN p.proofs :
             /\ "version" \in DOMAIN p.proofs[k]
             /\ Outcome(Verify(s, p.proofs[k], Venue), {}) = "ok"
    BY <1>2, HonestProofPasses
  <2>2. \A f : IsOpen(f) => ~Withheld(s.report, f, {})
    BY DEF Withheld, Demand
  <2>3. ~Withheld(s.report, "root_sums", {})
    BY <2>1 DEF Withheld, Demand
  <2>4. \A field, level, evidence :
          /\ field \in ResidentFields
          /\ level \in Established(s, field, evidence, Trusted, {})
          => IsAccepted(s, Claim(field, level, evidence))
    <3> SUFFICES ASSUME NEW field \in ResidentFields, NEW evidence,
                        NEW level \in Established(s, field, evidence, Trusted, {})
                 PROVE  IsAccepted(s, Claim(field, level, evidence))
      OBVIOUS
    <3> DEFINE c == Claim(field, level, evidence)
    <3>1. c.field = field /\ c.level = level /\ c.evidence = evidence
      OBVIOUS
    <3> HIDE DEF c, s
    <3> QED BY <2>1, <3>1, EstablishedIsAccepted DEF c
  <2>5. /\ \A x : [NoEvidence EXCEPT !.proof = x].proof = x
        /\ \A x : [NoEvidence EXCEPT !.attestations = {x}].attestations = {x}
        /\ \A x, y : /\ [NoEvidence EXCEPT !.anchor = x, !.provenance = y].anchor = x
                     /\ [NoEvidence EXCEPT !.anchor = x, !.provenance = y].provenance = y
    BY DEF NoEvidence
  <2>6. ASSUME NEW k \in DOMAIN p.proofs
        PROVE  IsAccepted(s, Claim("root_sums", "cryptographically-verified",
                                   [NoEvidence EXCEPT !.proof = p.proofs[k]]))
    <3> DEFINE evidence == [NoEvidence EXCEPT !.proof = p.proofs[k]]
    <3>1. evidence.proof = p.proofs[k] /\ p.proofs[k] # None
      BY <2>1, <2>5
    <3>2. "root_sums" \in ResidentFields
      BY DEF ResidentFields
    <3> HIDE DEF evidence, s, p
    <3>3. "cryptographically-verified" \in Established(s, "root_sums", evidence, Trusted, {})
      BY <2>1, <2>3, <2>6, <3>1, EstablishedBy
    <3>4. IsAccepted(s, Claim("root_sums", "cryptographically-verified", evidence))
      BY <2>4, <3>2, <3>3
    <3> QED BY <3>4 DEF evidence
  <2>7. ASSUME NEW a \in attestations,
               a.attestation.digest = Digest(s.report),
               a.signature.key \in DOMAIN Trusted.attestors,
               Trusted.attestors[a.signature.key] = a.attestation.role,
               IsOpen(a.attestation.field)
        PROVE  IsAccepted(s, Claim(a.attestation.field, RoleLevel(a.attestation.role),
                                   [NoEvidence EXCEPT !.attestations = {a}]))
    <3> DEFINE evidence == [NoEvidence EXCEPT !.attestations = {a}]
               field == a.attestation.field
               level == RoleLevel(a.attestation.role)
    <3>1. evidence.attestations = {a} /\ field \in ResidentFields /\ ~Withheld(s.report, field, {})
      BY <2>2, <2>5, <2>7
    <3> HIDE DEF evidence, s
    <3>2. Vouches(a, field, s.report, Trusted, {})
      BY <1>2, <2>7, TrustedVouches
    <3>3. level \in Established(s, field, evidence, Trusted, {})
      <4> HIDE DEF field
      <4> QED BY <3>1, <3>2, EstablishedBy
    <3> HIDE DEF field, level
    <3>4. IsAccepted(s, Claim(field, level, evidence))
      BY <2>4, <3>1, <3>3
    <3> QED BY <3>4 DEF evidence, field, level
  <2>8. ASSUME NEW g \in graphs, NEW f \in Fields,
               Outcome(GraphChecks(s, g, f), {}) = "ok", i = 1, IsOpen(f)
        PROVE  IsAccepted(s, Claim(f, "ledger-derived",
                            [NoEvidence EXCEPT !.anchor = anchors[d], !.provenance = g.provenance]))
    <3> DEFINE evidence == [NoEvidence EXCEPT !.anchor = anchors[d], !.provenance = g.provenance]
    <3>1. evidence.anchor = anchors[d] /\ evidence.provenance = g.provenance
      BY <2>5
    <3>2. f \in ResidentFields /\ ~Withheld(s.report, f, {})
      BY <2>2, <2>8
    <3>3. /\ anchors[d] # None /\ AnchorsReport(s.report, anchors[d], {})
      BY <1>2, <2>8, AnchorSaysDay
    <3>4. g.provenance # None /\ DerivesFromLedger(g.provenance, f)
      BY <1>2, <2>8, GraphSays DEF GraphsInv
    <3> HIDE DEF evidence, s
    <3>5. "ledger-derived" \in Established(s, f, evidence, Trusted, {})
      BY <3>1, <3>2, <3>3, <3>4, EstablishedBy
    <3>6. IsAccepted(s, Claim(f, "ledger-derived", evidence))
      BY <2>4, <3>2, <3>5
    <3> QED BY <3>6 DEF evidence
  <2> QED BY <2>6, <2>7, <2>8, Zenon
<1>3. DaysInv /\ AnchorsInv /\ AttestationsInv /\ GraphsInv => HonestClaimIsAccepted
  BY <1>2, Zenon DEF HonestClaimIsAccepted
<1>4. AttestationsInv /\ GraphsInv /\ [Next]_vars => (AttestationsInv /\ GraphsInv)'
  BY AttestationsKept, GraphsKept
<1> QED BY <1>1, <1>3, <1>4, DaysAlways, PTL DEF Spec
=============================================================================
