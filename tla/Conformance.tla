----------------------------- MODULE Conformance -----------------------------
(***************************************************************************)
(* Compatibility statements (rust/solvency-report/src/compat.rs, SPEC      *)
(* 14.5): an implementation of the format runs the corpus and states what  *)
(* came of it, the corpus is revised, and a reader holds the statement to  *)
(* account (tests/statements.rs).                                          *)
(*                                                                         *)
(* The implementation is this repository's verifier, or another party's:   *)
(* it may know only some features, claim more than it knows, skip what it  *)
(* would get wrong, or fail to make one of the checks.                     *)
(***************************************************************************)
EXTENDS Corpus, SequencesExt

CONSTANTS
  Suite,            \* the cases of the corpus, in order
  Implementations,  \* [knows, claims : sets of features, omits : checks, reports : Reporting]
  Revisable         \* indices of the cases that a revision may touch

VARIABLES
  impl,
  cases,      \* manifest.json as it is now, less the documents of each case
  declared,   \* None, or the statement the implementation published
  answers     \* what its verifier answered, in full, case by case

vars == <<impl, cases, declared, answers>>

SUPPORTED ==
  {"anchor-v1", "assurance-v1", "provenance-v1", "coverage-v1", "group-v1", "leaf-v2",
   "manifest", "pack-v1", "proof-v1", "proof-v2", "report-v1", "report-v2"}

\* How results become a statement: as build_statement does it; every result,
\* asked or not; a case that went wrong is left out.
Reporting == {"by rule", "everything", "flattering"}

ASSUME ImplementationsAssumption ==
  Implementations \subseteq [knows : SUBSET SUPPORTED, claims : SUBSET SUPPORTED,
                             omits : SUBSET STRING, reports : Reporting]

-----------------------------------------------------------------------------
(***************************************************************************)
(* What it takes to read a case: the formats of its documents.             *)
(***************************************************************************)
ReportNeeds(signed) ==
  {IF signed.report.version = V2 THEN "report-v2" ELSE "report-v1"}
    \cup {f \in {"manifest"} : signed.report.meta.manifest # None}

EvidenceNeeds(evidence) ==
  {f \in {"proof-v1"} : evidence.proof # None}
    \cup {f \in {"anchor-v1"} : evidence.anchor # None}
    \cup {f \in {"provenance-v1"} : evidence.provenance # None}

Needs(c) ==
  LET d == c.docs IN
  CASE c.kind = "proof"      -> {"proof-v1"} \cup ReportNeeds(d.report)
    [] c.kind = "proof-v2"   -> {"proof-v2", "leaf-v2"} \cup ReportNeeds(d.report)
    [] c.kind = "chain"      -> {"proof-v1", "group-v1"} \cup ReportNeeds(d.group)
                                  \cup ReportNeeds(d.entity)
    [] c.kind = "membership" -> {"group-v1"} \cup ReportNeeds(d.group)
    [] c.kind = "coverage"   -> {"coverage-v1"} \cup ReportNeeds(d.custody)
                                  \cup ReportNeeds(d.liabilities)
    [] c.kind = "anchors"    -> {"anchor-v1"}
    [] c.kind = "provenance" -> {"provenance-v1"} \cup ReportNeeds(d.report)
                                  \cup {f \in {"assurance-v1"} : d.statement # None}
    [] c.kind = "assurance"  -> {"assurance-v1"} \cup ReportNeeds(d.report)
                                  \cup EvidenceNeeds(d.evidence)
    [] c.kind = "pack"       -> {"pack-v1"}

EachNeeds(cs) == [i \in DOMAIN cs |-> Needs(cs[i])]

Needed == EachNeeds(Suite)

\* What a verifier that omits these checks answers, case by case.
RunEach(cs, omits) == [i \in DOMAIN cs |-> RunCase(cs[i], omits)]

AnswersWithout(omits) == RunEach(Suite, omits)

OurAnswers == AnswersWithout({})

\* A format an implementation does not know is refused, as the version gate
\* refuses one.
AnswersOf(im) ==
  LET full == IF im.omits = {} THEN OurAnswers ELSE AnswersWithout(im.omits)
  IN [i \in DOMAIN full |->
        IF Needed[i] \subseteq im.knows THEN full[i] ELSE "unsupported_version"]

\* The checks some case decides: a verifier without one of them answers that
\* case otherwise than expected (SPEC 14.3: the corpus pins the decisions).
Exposed ==
  {"v1 without manifest", "manifest: published is carried", "profile: aggregates",
   "profile: unanimity", "signature.algorithm", "proof.format_version", "trusted key",
   "signature", "proof digest", "root hash", "root sums", "profile: leaf maps",
   "entity sums", "custody digest", "coverage: skew", "coverage: per asset",
   "anchor: genesis", "anchor: link", "anchor: publisher", "anchor: time",
   "anchor: offset", "provenance: basis", "provenance: sources declared",
   "provenance: claimed is on ledger", "attestation: trusted key",
   "verified: committed field", "verified: proof verifies", "ledger: derived",
   "assurance: digest", "assurance: known fields", "assurance: supported",
   "pack: present", "pack: unaltered", "pack: listed"}

\* The corpus' assurance statements are about figures that their report, without a
\* manifest, shows; some grade one of these.
DeclaredFigures(docs) == DOMAIN docs.statement.levels \cap ResidentFields

IsGraded(docs) ==
  /\ docs.report.report.meta.manifest = None
  /\ \A f \in DeclaredFigures(docs) : CarriesData(docs.report.report, f)

Grades(docs) == \E f \in DeclaredFigures(docs) : docs.statement.levels[f] # "not-disclosed"

\* What the generator and its tests see to, case by case: this verifier answers
\* as the case declares, and a case asks for all it takes to read it.  And of
\* the cases together: no feature and no check of Exposed goes untested.
ASSUME CorpusAssumption ==
  /\ \A i, j \in DOMAIN Suite : Suite[i].id = Suite[j].id => i = j
  /\ \A i \in DOMAIN Suite :
       /\ Suite[i].kind \in Kinds
       /\ Suite[i].kind = "anchors" => Len(Suite[i].docs.history) \in Nat
       /\ Needs(Suite[i]) \subseteq Suite[i].requires
       /\ Suite[i].requires \subseteq SUPPORTED
       /\ \/ Suite[i].expect = "accept" /\ RunCase(Suite[i], {}) = "ok"
          \/ Suite[i].expect = "reject" /\ RunCase(Suite[i], {}) = Suite[i].failure
  /\ \A i \in DOMAIN Suite : Suite[i].kind = "assurance" => IsGraded(Suite[i].docs)
  /\ \E i \in DOMAIN Suite : /\ Suite[i].kind = "assurance" /\ Suite[i].expect = "accept"
                             /\ Grades(Suite[i].docs)
  /\ \A f \in SUPPORTED : \E i \in DOMAIN Suite :
       Suite[i].expect = "accept" /\ f \in Needs(Suite[i])
  /\ \A check \in Exposed : \E i \in DOMAIN Suite :
       Suite[i].expect = "reject" /\ RunCase(Suite[i], {check}) = "ok"

-----------------------------------------------------------------------------
(***************************************************************************)
(* build_statement and the two ways around it.                             *)
(***************************************************************************)
Claimed(c, supports) == c.requires \subseteq supports

Outcomes == {"accept", "reject", "skip"}

Said(answer) == IF answer = "ok" THEN "accept" ELSE "reject"

OutcomeOf(im, c, said) ==
  CASE im.reports = "by rule"    -> IF Claimed(c, im.claims) THEN said ELSE "skip"
    [] im.reports = "everything" -> said
    [] im.reports = "flattering" -> IF said = c.expect THEN said ELSE "skip"

\* read_cases
EachSpec(cs) ==
  [i \in DOMAIN cs |-> [id |-> cs[i].id, expect |-> cs[i].expect, requires |-> cs[i].requires]]

CaseSpecs == EachSpec(Suite)

\* Mutant of CorpusDigest: what a case is expected to do is left out.
DigestWithoutExpectations(cs) ==
  [i \in DOMAIN cs |-> [id |-> cs[i].id, requires |-> cs[i].requires]]

\* corpus_digest covers every field of a CaseSpec.
CorpusDigest(cs) == cs

Place(id) == CHOOSE i \in DOMAIN cases : cases[i].id = id

Build ==
  /\ declared = None
  /\ answers' = AnswersOf(impl)
  /\ declared' = [supports |-> impl.claims, digest |-> CorpusDigest(cases),
                  results |-> [id \in {cases[i].id : i \in DOMAIN cases} |->
                                 LET i == Place(id)
                                 IN OutcomeOf(impl, cases[i], Said(answers'[i]))]]
  /\ UNCHANGED <<impl, cases>>

-----------------------------------------------------------------------------
(***************************************************************************)
(* The corpus moves on: a case asks for one feature less, expects the      *)
(* opposite, or is dropped.                                                *)
(***************************************************************************)
Opposite(expect) == IF expect = "accept" THEN "reject" ELSE "accept"

Revise ==
  /\ declared # None
  /\ declared.digest = CorpusDigest(cases)
  /\ \E i \in Revisable :
       \/ \E f \in cases[i].requires : cases' = [cases EXCEPT ![i].requires = @ \ {f}]
       \/ cases' = [cases EXCEPT ![i].expect = Opposite(@)]
       \/ cases' = RemoveAt(cases, i)
  /\ UNCHANGED <<impl, declared, answers>>

Init ==
  /\ impl \in Implementations
  /\ cases = CaseSpecs
  /\ declared = None
  /\ answers = << >>

Next == Build \/ Revise

Spec == Init /\ [][Next]_vars

-----------------------------------------------------------------------------
(***************************************************************************)
(* The reader: defects, and what the tests ask beside it.                  *)
(***************************************************************************)
\* Mutants of Defects: a case skipped though claimed, or reported though not.
SkipsAllowed(s, cs) ==
  {i \in DOMAIN cs :
     \/ cs[i].id \notin DOMAIN s.results
     \/ ~Claimed(cs[i], s.supports) /\ s.results[cs[i].id] # "skip"}

UnclaimedAllowed(s, cs) ==
  {i \in DOMAIN cs :
     \/ cs[i].id \notin DOMAIN s.results
     \/ Claimed(cs[i], s.supports) /\ s.results[cs[i].id] = "skip"}

\* defects
Defects(s, cs) ==
  {i \in DOMAIN cs :
     \/ cs[i].id \notin DOMAIN s.results
     \/ Claimed(cs[i], s.supports) = (s.results[cs[i].id] = "skip")}

\* Mutant of AsExpected: only what had to be accepted is looked at.
RejectionsUnread(s, cs) ==
  \A i \in DOMAIN cs :
    cs[i].expect = "accept" => s.results[cs[i].id] \in {"skip", "accept"}

\* tests/statements.rs
AsExpected(s, cs) ==
  \A i \in DOMAIN cs : s.results[cs[i].id] \in {"skip", cs[i].expect}

Accepted(s, cs) ==
  /\ s.digest = CorpusDigest(cs)
  /\ Defects(s, cs) = {}
  /\ AsExpected(s, cs)

IsAccepted == declared # None /\ Accepted(declared, cases)

-----------------------------------------------------------------------------
\* A statement the reader accepts was made over the very cases the reader holds.
\* And however many of the formats an implementation knows, if it claims those,
\* or all of them: in an accepted statement a case was decided as its corpus
\* entry declares, for the failure it declares, and never because a format was
\* unknown or an earlier check refused the document first (compat.rs:6-13 and
\* 65-80, SPEC 14.3).  This takes complete `requires` lists and the order of
\* checks.
DecidedAsDeclared ==
  IsAccepted =>
    /\ cases = CaseSpecs
    /\ impl.omits = {} /\ impl.claims \in {impl.knows, SUPPORTED} =>
         \A i \in DOMAIN cases :
           declared.results[cases[i].id] # "skip" =>
             answers[i] = IF cases[i].expect = "accept" THEN "ok" ELSE Suite[i].failure

\* Where a statement claims what its implementation knows, a reader who finds
\* no defect in it finds no result about documents the implementation cannot
\* read (defects, compat.rs:109-144).
ReportedIsRead ==
  declared # None /\ declared.digest = CorpusDigest(cases) /\ impl.claims = impl.knows
      /\ Defects(declared, cases) = {} =>
    \A i \in DOMAIN cases :
      declared.results[cases[i].id] # "skip" => Needed[i] \subseteq impl.knows

\* Who claims every feature and lacks one is found out: by a case that must be
\* accepted, or by the skip that hides it (compat.rs:124-131).
OverclaimIsNoticed ==
  IsAccepted /\ impl.claims = SUPPORTED => impl.knows = SUPPORTED

\* A verifier that claims all features and omits a check some case decides, alone
\* or with others, does not get an accepted statement, whatever it leaves out of
\* it (compat.rs:109-144, SPEC 14.3).
OmissionIsNoticed ==
  IsAccepted /\ impl.claims = SUPPORTED => impl.omits \cap Exposed = {}
=============================================================================
