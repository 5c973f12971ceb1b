---------------------------- MODULE AssuredReports ----------------------------
(***************************************************************************)
(* What readers may believe about the figures of a venue's reports, day by *)
(* day (rust/solvency-report: manifest.rs, produce.rs, anchor.rs,          *)
(* assurance.rs, provenance.rs; rust/solvency-cli: assurance.rs,           *)
(* provenance.rs, diff.rs; SPEC 8.5, 12, 14.4, 16, 17).                    *)
(*                                                                         *)
(* Every day the venue publishes its book, once or for several audiences,  *)
(* and anchors it; attestors vouch for figures and the venue signs where   *)
(* they come from, on some day.  Whoever hands documents to a reader picks *)
(* them from any day and may edit one; the reader knows whom to trust.     *)
(***************************************************************************)
EXTENDS ReportChecks, Functions

CONSTANTS
  Plans,         \* what a day may bring: [inputs, meta, manifests]
  Trusted,       \* the reader's keys: [publisher, attestors : key -> role]
  Strangers,     \* keys the reader does not trust
  Fields,        \* fields that are vouched for and claimed
  Graphs,        \* what the venue may sign of its sources: [sources, derivations]
  MaxDays,
  MaxDocuments   \* days, attestations and graphs together

\* A plan's inputs and manifests are lists, and its metadata has its fields.
ASSUME PlansAssumption ==
  \A plan \in Plans :
    /\ plan.inputs \in Seq(Range(plan.inputs))
    /\ \A i \in DOMAIN plan.inputs :
         plan.inputs[i] = [user |-> plan.inputs[i].user, balances |-> plan.inputs[i].balances]
    /\ plan.manifests \in Seq(Range(plan.manifests))
    /\ {"publisher", "time", "offset", "manifest", "profile", "prices", "badDebt",
        "houseAccounts", "houseTotals"} \subseteq DOMAIN plan.meta

\* The sources of a graph are a list.
ASSUME GraphsAssumption ==
  \A g \in Graphs : g.sources \in Seq(Range(g.sources))

VARIABLES
  days,          \* [plan, published] of each day, `published` a sequence of publications
  anchors,       \* one each day, each naming the one before
  attestations,  \* signed
  graphs,        \* signed
  verdict        \* the reader's last answer, or None

vars == <<days, anchors, attestations, graphs, verdict>>

Venue == Trusted.publisher
Attestors == DOMAIN Trusted.attestors \cup Strangers
Roles == {"issuer", "third-party"}
DayLength == 86400

Documents == Len(days) + Cardinality(attestations) + Cardinality(graphs)

Today == days[Len(days)]

\* Every publication of a day, and of every day.
PublishedOn(d) == {days[d].published[i] : i \in DOMAIN days[d].published}
Published == UNION {PublishedOn(d) : d \in DOMAIN days}

-----------------------------------------------------------------------------
(***************************************************************************)
(* The venue and the attestors.                                            *)
(***************************************************************************)
\* A report without a manifest, or a packaging for each audience.
PublishDay(plan) ==
  LET day  == Len(days) + 1
      meta == [plan.meta EXCEPT !.publisher = Venue, !.time = Zulu(day * DayLength),
                                !.offset = 10 * day]
      published == IF plan.manifests = << >>
                   THEN <<Publish(plan.inputs, meta, Venue)>>
                   ELSE Packagings(plan.inputs, meta, plan.manifests, Venue)
      previous  == IF anchors = << >> THEN None ELSE AnchorDigest(anchors[day - 1])
  IN /\ Len(days) < MaxDays /\ Documents < MaxDocuments
     /\ plan.manifests # << >> => Packageable(plan.manifests)
     /\ Publishable(LeavesV1(plan.inputs))
     /\ days' = Append(days, [plan |-> plan, published |-> published])
     /\ anchors' = Append(anchors, AnchorOf(published[1].signed, previous))
     /\ UNCHANGED <<attestations, graphs, verdict>>

\* Somebody vouches for a field of today's report, in a role of their choosing.
Attest(key, field, role) ==
  /\ days # << >> /\ Documents < MaxDocuments
  /\ attestations' = attestations \cup
       {Attested(Today.published[1].signed, field, role, key)}
  /\ UNCHANGED <<days, anchors, graphs, verdict>>

\* The signer does not check the graph it is given.
SignSources(g) ==
  /\ days # << >> /\ Documents < MaxDocuments
  /\ graphs' = graphs \cup
       {SignedGraph(Provenance(Today.published[1].signed, g.sources, g.derivations), Venue)}
  /\ UNCHANGED <<days, anchors, attestations, verdict>>

-----------------------------------------------------------------------------
(***************************************************************************)
(* What is handed over: any document, or one that was edited.              *)
(***************************************************************************)
Signed == {p.signed : p \in Published}
Proofs == UNION {Range(p.proofs) : p \in Published}

\* A report edited after it was signed: a figure declared withheld, and also
\* taken out; another total.
Hiding(signed, field) ==
  LET m == signed.report.meta.manifest
      fields == IF m = None THEN << >> ELSE m.fields
  IN [signed EXCEPT !.report.meta.manifest =
        [audience |-> "public",
         fields |-> [f \in DOMAIN fields \cup {field} |->
                       IF f = field THEN "withheld" ELSE fields[f]]]]

Zeroed(signed) == [signed EXCEPT !.report.sums = [key \in DOMAIN signed.report.sums |-> 0]]

EditedReport(signed) ==
  {Zeroed(signed)} \cup
    UNION {{Hiding(signed, f), [Hiding(signed, f) EXCEPT !.report.meta.prices = << >>]} : f \in Fields}

HandedReports == Signed \cup UNION {EditedReport(s) : s \in Signed}

\* A proof moved to the report at hand, under another name or not.
HandedProofs(signed) ==
  Proofs \cup UNION {{[p EXCEPT !.digest = Digest(signed.report)],
                      [p EXCEPT !.digest = Digest(signed.report), !.leaf.user = "nobody"]} : p \in Proofs}

\* An attestation moved to the report or the field at hand, in either role, or
\* shown under a trusted key.
HandedAttestations(signed, field) ==
  attestations \cup
    UNION {{[a EXCEPT !.attestation.digest = Digest(signed.report)],
            [a EXCEPT !.attestation.field = field]}
           \cup {[a EXCEPT !.attestation.role = r] : r \in Roles}
           \cup {[a EXCEPT !.signature.key = k] : k \in DOMAIN Trusted.attestors} : a \in attestations}

\* An anchor with its time or offset moved, or attached to the report at hand.
HandedAnchors(signed) ==
  LET genuine == Range(anchors)
  IN genuine \cup UNION {{[a EXCEPT !.digest = Digest(signed.report)],
                          [a EXCEPT !.time = Zulu(0)], [a EXCEPT !.offset = 0]} : a \in genuine}

NoEvidence == [proof |-> None, anchor |-> None, attestations |-> {}, provenance |-> None]

\* For each level, what would support it; a statement is signed by nobody.
Claims(signed) ==
  [field : Fields, level : {"not-disclosed", "claimed-only"}, evidence : {NoEvidence}]
    \cup [field : Fields, level : {"cryptographically-verified"},
          evidence : {[NoEvidence EXCEPT !.proof = p] : p \in HandedProofs(signed)}]
    \cup [field : Fields, level : {"ledger-derived"},
          evidence : UNION {{[NoEvidence EXCEPT !.anchor = a, !.provenance = g.provenance] :
                               a \in HandedAnchors(signed)} : g \in graphs}]
    \cup UNION {[field : {f}, level : {RoleLevel(r) : r \in Roles},
                 evidence : {[NoEvidence EXCEPT !.attestations = {a}] :
                               a \in HandedAttestations(signed, f)}] : f \in Fields}

-----------------------------------------------------------------------------
(***************************************************************************)
(* The reader.                                                             *)
(***************************************************************************)
\* run_assurance, for one field.
IsAccepted(signed, c) ==
  Outcome(VerifyAssurance(signed,
                          AssuranceStatement(Digest(signed.report), [f \in {c.field} |-> c.level]),
                          c.evidence, Trusted, {}), {}) = "ok"

\* run_provenance, beside a statement that claims the field ledger-derived.
GraphChecks(signed, graph, field) ==
  VerifyProvenance(signed, graph, Venue)
    \o CheckAgainstAssurance(graph.provenance, [f \in {field} |-> "ledger-derived"])

NothingMore == Documents = MaxDocuments

Refused == [verb |-> "refused"]

Grade ==
  /\ verdict = None /\ NothingMore
  /\ \E signed \in HandedReports :
       verdict' \in {IF IsAccepted(signed, c)
                     THEN [verb |-> "assurance", signed |-> signed, claim |-> c]
                     ELSE Refused : c \in Claims(signed)}
  /\ UNCHANGED <<days, anchors, attestations, graphs>>

\* verify_with_anchor: the reader has no key, and an anchor from the ledger.
FollowAnchor ==
  /\ verdict = None /\ NothingMore
  /\ \E signed \in HandedReports, i \in DOMAIN anchors :
       verdict' \in {IF Outcome(VerifyWithAnchor(signed, p, anchors[i]), {}) = "ok"
                     THEN [verb |-> "anchor", signed |-> signed, day |-> i, proof |-> p]
                     ELSE Refused : p \in HandedProofs(signed)}
  /\ UNCHANGED <<days, anchors, attestations, graphs>>

-----------------------------------------------------------------------------
Init ==
  /\ days = << >> /\ anchors = << >>
  /\ attestations = {} /\ graphs = {}
  /\ verdict = None

Next ==
  \/ \E plan \in Plans : PublishDay(plan)
  \/ \E k \in Attestors, f \in Fields, r \in Roles : Attest(k, f, r)
  \/ \E g \in Graphs : SignSources(g)
  \/ Grade \/ FollowAnchor

Spec == Init /\ [][Next]_vars

-----------------------------------------------------------------------------
(***************************************************************************)
(* Properties.                                                             *)
(***************************************************************************)
IsGraded(level) == verdict # None /\ verdict.verb = "assurance" /\ verdict.claim.level = level

\* A report accepted at any level, or through an anchor, is one the venue
\* published: to the figure, and under v2 to the manifest of that audience, so
\* that nobody else can declare a figure withheld (assurance.rs:380-389,
\* digest.rs:19-54).
AcceptedReportIsTheVenues ==
  verdict # None /\ verdict # Refused =>
    \E s \in Signed :
      verdict.signed.report =
        IF s.report.version = V2 THEN s.report
        ELSE [s.report EXCEPT !.meta.manifest = verdict.signed.report.meta.manifest]

\* An attested level takes an attestor who vouched for that field of that
\* report, in the role the reader trusts that key in: not yesterday's word, nor
\* one about another field, nor a custodian's as an issuer (assurance.rs:322-349).
AttestedWasVouchedFor ==
  \A r \in Roles :
    IsGraded(RoleLevel(r)) =>
      \E a \in attestations :
        /\ a.signature.key \in DOMAIN Trusted.attestors
        /\ Trusted.attestors[a.signature.key] = r
        /\ a.attestation = [version |-> "attestation-v1", field |-> verdict.claim.field,
                            digest |-> Digest(verdict.signed.report), role |-> r]

\* A verified total, and a proof followed from an anchor, are about a customer
\* of that day's book, with that balance; and a proof followed from an anchor
\* is of the day that was anchored (verify.rs:378-426, anchor.rs:206-224).
VerifiedIsCommitted ==
  LET InBookOf(signed, leaf, d) ==
        /\ \E p \in PublishedOn(d) : Digest(p.signed.report) = Digest(signed.report)
        /\ leaf \in Range(days[d].plan.inputs)
  IN /\ IsGraded("cryptographically-verified") =>
          /\ verdict.claim.field = "root_sums"
          /\ \E d \in DOMAIN days :
               InBookOf(verdict.signed, verdict.claim.evidence.proof.leaf, d)
     /\ verdict # None /\ verdict.verb = "anchor" =>
          InBookOf(verdict.signed, verdict.proof.leaf, verdict.day)

\* A ledger-derived figure comes with an anchor that says of the ledger what
\* the venue's own anchor of that day says (assurance.rs:239-253).
DerivedIsAnchoredThatDay ==
  IsGraded("ledger-derived") =>
    LET shown == verdict.claim.evidence.anchor IN
    \E i \in DOMAIN anchors :
      /\ shown.offset = anchors[i].offset /\ shown.time = anchors[i].time
      /\ shown.root = anchors[i].root     /\ shown.publisher = anchors[i].publisher
      /\ \E p \in PublishedOn(i) : shown.digest = Digest(p.signed.report)

\* Of one graph the provenance verb and the assurance verb say the same about
\* every field, though one takes any source with an id and the other the last
\* (assurance.rs:256-264, provenance.rs:260-290).
GraphAnswersAgree ==
  \A g \in graphs, s \in Signed, f \in Fields :
    Outcome(VerifyProvenance(s, g, Venue), {}) = "ok" =>
      (Outcome(GraphChecks(s, g, f), {}) = "ok") = DerivesFromLedger(g.provenance, f)

Audiences == {"public", "regulator"}

\* manifest_of, for what one audience is told on a day: nothing is like an
\* empty manifest.
ManifestFor(audience, d) ==
  LET told == {m \in {p.signed.report.meta.manifest : p \in PublishedOn(d)} \ {None} :
                 m.audience = audience}
  IN IF told = {} THEN [audience |-> "", fields |-> << >>] ELSE CHOOSE m \in told : TRUE

\* run_diff of a day and the next lists the loss of a field.
IsReported(audience, k, f) ==
  \E change \in Diff(ManifestFor(audience, k), ManifestFor(audience, k + 1)) :
    change.path = f /\ IsReduction(change)

\* A field that an audience once saw and no longer sees was reported as a
\* reduction on one of the days between, in however many steps it was lost
\* (manifest.rs:103-156).
ReductionsAreReported ==
  \A audience \in Audiences, d \in DOMAIN days, e \in DOMAIN days, f \in Fields :
    /\ d < e
    /\ StateOf(ManifestFor(audience, d), f) = "published"
    /\ StateOf(ManifestFor(audience, e), f) # "published"
    => \E k \in d..(e - 1) : IsReported(audience, k, f)

\* The packagings of a day are for different audiences and commit to one book;
\* and two reports of whatever days pass for packagings of one commitment only
\* when nothing moved between: never two books of the same totals
\* (produce.rs:216-260).
PackagingsCommitToOneBook ==
  /\ \A d \in DOMAIN days : \A i, j \in DOMAIN days[d].published :
       LET Told(k) == days[d].published[k].signed.report.meta.manifest
       IN i # j => Told(i).audience # Told(j).audience
  /\ \A d, e \in DOMAIN days : \A p \in PublishedOn(d), q \in PublishedOn(e) :
       SameCommitment(p.signed.report, q.signed.report) = (days[d].plan.inputs = days[e].plan.inputs)

\* A list of reports that matches the venue's anchors is what the venue
\* published, every day, in order, as far as both lists go.  That is all
\* verify_anchored_reports looks at: a list may be shorter than the anchors,
\* and what lies beyond them may be any day's (anchor.rs:228-240).
AnchoredIsWhatWasPublished ==
  \A n \in 0..(Len(days) + 1) : \A listed \in [1..n -> Signed] :
    AnchoredReports(anchors, listed) =>
      \A d \in DOMAIN days \cap (1..n) : listed[d] \in {p.signed : p \in PublishedOn(d)}

\* A day of customers' balances, some there are.
IsOfCustomers(plan) ==
  /\ plan.meta.profile = "solvency.liabilities"
  /\ \E i \in DOMAIN plan.inputs : DOMAIN plan.inputs[i].balances # {}

\* A manifest for it that says of each figure whether it is there.
IsTruthful(plan, manifest) ==
  LET there == {f \in ResidentFields :
                  \/ f = "root_sums"
                  \/ f = "mark_prices"    /\ DOMAIN plan.meta.prices # {}
                  \/ f = "bad_debt"       /\ DOMAIN plan.meta.badDebt # {}
                  \/ f = "house_accounts" /\ plan.meta.houseAccounts > 0
                  \/ f = "house_totals"   /\ DOMAIN plan.meta.houseTotals # {}}
  IN /\ DOMAIN manifest.fields \subseteq KnownFields
     /\ \A f \in DOMAIN manifest.fields \cap ResidentFields :
          (manifest.fields[f] = "published") = (f \in there)

\* With a truthful manifest, what the venue and the attestors really did is
\* enough: a customer's proof makes the totals verified, an attestation in the
\* trusted role counts, an anchor and a graph make a figure ledger-derived
\* (assurance.rs:283-349).
HonestClaimIsAccepted ==
  \A d \in DOMAIN days : \A i \in DOMAIN days[d].published :
    LET p == days[d].published[i]
        s == p.signed
        Holds(field, level, evidence) ==
          IsAccepted(s, [field |-> field, level |-> level, evidence |-> evidence])
        manifest == s.report.meta.manifest
        IsOpen(f) == f \in ResidentFields /\ (manifest # None => StateOf(manifest, f) # "withheld")
    IN IsOfCustomers(days[d].plan) /\ (manifest # None => IsTruthful(days[d].plan, manifest)) =>
         /\ \A k \in DOMAIN p.proofs :
              Holds("root_sums", "cryptographically-verified", [NoEvidence EXCEPT !.proof = p.proofs[k]])
         /\ \A a \in attestations :
              /\ a.attestation.digest = Digest(s.report)
              /\ a.signature.key \in DOMAIN Trusted.attestors
              /\ Trusted.attestors[a.signature.key] = a.attestation.role
              /\ IsOpen(a.attestation.field)
              => Holds(a.attestation.field, RoleLevel(a.attestation.role),
                       [NoEvidence EXCEPT !.attestations = {a}])
         /\ \A g \in graphs, f \in Fields :
              /\ Outcome(GraphChecks(s, g, f), {}) = "ok" /\ i = 1 /\ IsOpen(f)
              => Holds(f, "ledger-derived",
                       [NoEvidence EXCEPT !.anchor = anchors[d], !.provenance = g.provenance])
=============================================================================
