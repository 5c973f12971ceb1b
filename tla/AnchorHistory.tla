--------------------------- MODULE AnchorHistory ---------------------------
(***************************************************************************)
(* A publisher's history of report anchors and the reader that walks it    *)
(* (rust/solvency-report/src/anchor.rs, SPEC 12).                          *)
(*                                                                         *)
(* An anchor is an unsigned document that names its predecessor by digest. *)
(* The digest is injective on the fields of Preimage, so a document is     *)
(* identified by its place in `docs`, the sequence of all the anchor       *)
(* documents ever written: by the publishing tool, or by an edit of one    *)
(* that was.  A reader loads any list of them and walks it oldest first.   *)
(*                                                                         *)
(* Timestamps and ledger offsets are texts.  The code compares the texts   *)
(* (TimeRank and OffsetRank are their places in the order of strings);     *)
(* what they stand for is Instant and Position.                            *)
(***************************************************************************)
EXTENDS Integers, Sequences, FiniteSets

CONSTANTS
  Publishers,     \* publisher parties
  Operators,      \* those that run the publishing tool
  Reports,        \* what an anchor copies from its report and signature:
                  \* report_digest, root_hash and publisher_key
  Versions,       \* format_version values a document may carry
  AnchorVersion,  \* ANCHOR_FORMAT_VERSION
  Times,          \* snapshot_time texts
  Offsets,        \* ledger_offset texts
  TimeRank,       \* string order of the snapshot_time texts
  OffsetRank,     \* string order of the ledger_offset texts
  Instant,        \* the second a text denotes, OutsideProfile if none
  Position,       \* the ledger position a text denotes
  OutsideProfile,
  NoPrev,         \* prev_anchor: None
  EmptyPrev,      \* prev_anchor: Some, of a digest no document has
  MaxDocs,        \* bound on the documents ever written
  MaxEdits,       \* bound on the documents the tool did not write
  MaxChain,       \* bound on the length of a list a reader loads
  MaxAccepted     \* bound on the accepted lists that are remembered

ASSUME ConstantsAssumption ==
  /\ AnchorVersion \in Versions
  /\ Operators \subseteq Publishers
  /\ TimeRank \in [Times -> Nat] /\ OffsetRank \in [Offsets -> Nat]
  /\ Instant \in [Times -> Int]  /\ Position \in [Offsets -> Nat]
  /\ OutsideProfile \in Int
  /\ NoPrev \notin Nat /\ EmptyPrev \notin Nat /\ NoPrev # EmptyPrev
  /\ MaxDocs \in Nat /\ MaxEdits \in Nat /\ MaxChain \in Nat /\ MaxAccepted \in Nat

VARIABLES
  docs,      \* every anchor document ever written, in order of writing
  genuine,   \* those the publishing tool wrote
  lineage,   \* history: the documents each document's digest commits to,
             \* oldest first; 0 stands for a predecessor nobody wrote
  chain,     \* the list the reader loaded
  at,        \* `index` in verify_chain's loop, from 1
  verdict,   \* "idle", "walking", or what verify_chain returned
  accepted   \* history: every list verify_chain returned Ok for

history == <<docs, genuine, lineage>>
reader  == <<chain, at, verdict, accepted>>
vars    == <<docs, genuine, lineage, chain, at, verdict, accepted>>

Anchor ==
  [version : Versions, report : Reports, time : Times, offset : Offsets,
   publisher : Publishers, prev : Nat \cup {NoPrev, EmptyPrev}]

Failures ==
  {"UnsupportedVersion", "NotGenesis", "Broken", "PublisherChanged",
   "TimeWentBackwards", "OffsetWentBackwards"}

-----------------------------------------------------------------------------
(***************************************************************************)
(* Writing anchors.                                                        *)
(***************************************************************************)

\* Mutants of Preimage: a field the digest forgets.
PreimageWithoutOffset(a) ==
  <<a.version, a.report, a.time, a.publisher, a.prev>>
PreimageWithoutTime(a) ==
  <<a.version, a.report, a.offset, a.publisher, a.prev>>

\* What anchor_digest hashes: every field, and a presence byte that keeps
\* "no predecessor" apart from "an empty predecessor".
Preimage(a) ==
  <<a.version, a.report, a.time, a.offset, a.publisher, a.prev>>

SameDigest(i, j) == Preimage(docs[i]) = Preimage(docs[j])

Written == {docs[i] : i \in DOMAIN docs}

\* The documents that a new document with predecessor `prev` commits to.
Past(prev) ==
  IF prev = NoPrev THEN << >> ELSE IF prev = EmptyPrev THEN <<0>> ELSE lineage[prev]

Write(a) ==
  /\ Len(docs) < MaxDocs
  /\ a \notin Written
  /\ docs' = Append(docs, a)
  /\ lineage' = Append(lineage, Append(Past(a.prev), Len(docs) + 1))

\* Mutant of Publish: a document that is written again counts as a new one.
PublishTwice(a) ==
  /\ genuine' = genuine \cup {Len(docs) + 1}
  /\ Write(a) \/ (a \in Written /\ UNCHANGED <<docs, lineage>>)

\* The tool writes a document; what it already wrote it may write again.
Publish(a) ==
  \/ /\ Write(a)
     /\ genuine' = genuine \cup {Len(docs) + 1}
  \/ \E i \in DOMAIN docs :
       /\ docs[i] = a
       /\ genuine' = genuine \cup {i}
       /\ UNCHANGED <<docs, lineage>>

\* anchor_report: the tool fills every field from the signed report and links
\* to the digest of whatever --prev-anchor file it was given: an old one, one
\* that was edited, one it never wrote.  Nothing is compared with the file.
AnchorReport(r, p, t, o, prev) ==
  /\ Publish([version |-> AnchorVersion, report |-> r, time |-> t, offset |-> o,
               publisher |-> p, prev |-> prev])
  /\ UNCHANGED reader

\* An anchor document that differs from document i in one field.
EditOf(i) ==
       {[docs[i] EXCEPT !.version   = v] : v \in Versions}
  \cup {[docs[i] EXCEPT !.report    = r] : r \in Reports}
  \cup {[docs[i] EXCEPT !.time      = t] : t \in Times}
  \cup {[docs[i] EXCEPT !.offset    = o] : o \in Offsets}
  \cup {[docs[i] EXCEPT !.publisher = p] : p \in Publishers}
  \cup {[docs[i] EXCEPT !.prev      = d] : d \in {NoPrev, EmptyPrev} \cup DOMAIN docs}

\* A document is edited outside the tool: anchors carry no signature.
EditAnchor(i) ==
  /\ Cardinality(DOMAIN docs \ genuine) < MaxEdits
  /\ \E a \in EditOf(i) : Write(a)
  /\ UNCHANGED genuine
  /\ UNCHANGED reader

-----------------------------------------------------------------------------
(***************************************************************************)
(* Reading: verify_chain over one list of documents.                       *)
(***************************************************************************)

\* The list can hold any documents in any order: a suffix, a list with a day
\* missing, one that mixes branches.
Load(c) ==
  /\ verdict = "idle"
  /\ Len(c) > 0
  /\ Cardinality(accepted) < MaxAccepted
  /\ chain' = c
  /\ at' = 1
  /\ verdict' = "walking"
  /\ UNCHANGED <<history, accepted>>

\* Mutants of the comparisons: any predecessor will do; two anchors of one
\* instant are a history; a ledger that has not moved has gone backwards.
LinksToSomething(k) == docs[chain[k]].prev # NoPrev
NotEarlierTime(k) ==
  TimeRank[docs[chain[k]].time] >= TimeRank[docs[chain[k - 1]].time]
MovesForward(k) ==
  OffsetRank[docs[chain[k]].offset] > OffsetRank[docs[chain[k - 1]].offset]

\* The comparisons verify_chain makes on document k of the loaded list, in
\* its order: the first that fails decides.
Links(k) ==
  /\ docs[chain[k]].prev \in Nat
  /\ SameDigest(docs[chain[k]].prev, chain[k - 1])
SamePublisher(k) ==
  docs[chain[k]].publisher = docs[chain[k - 1]].publisher
LaterTime(k) ==
  TimeRank[docs[chain[k]].time] > TimeRank[docs[chain[k - 1]].time]
NoRewind(k) ==
  OffsetRank[docs[chain[k]].offset] >= OffsetRank[docs[chain[k - 1]].offset]

Check(k) ==
  IF docs[chain[k]].version # AnchorVersion THEN "UnsupportedVersion"
  ELSE IF k = 1 THEN IF docs[chain[k]].prev = NoPrev THEN "ok" ELSE "NotGenesis"
  ELSE IF ~Links(k)         THEN "Broken"
  ELSE IF ~SamePublisher(k) THEN "PublisherChanged"
  ELSE IF ~LaterTime(k)     THEN "TimeWentBackwards"
  ELSE IF ~NoRewind(k)      THEN "OffsetWentBackwards"
  ELSE "ok"

Advance ==
  /\ verdict = "walking"
  /\ Check(at) = "ok"
  /\ at < Len(chain)
  /\ at' = at + 1
  /\ UNCHANGED <<history, chain, verdict, accepted>>

Accept ==
  /\ verdict = "walking"
  /\ Check(at) = "ok"
  /\ at = Len(chain)
  /\ verdict' = "intact"
  /\ accepted' = accepted \cup {chain}
  /\ UNCHANGED <<history, chain, at>>

Reject ==
  /\ verdict = "walking"
  /\ Check(at) # "ok"
  /\ verdict' = Check(at)
  /\ UNCHANGED <<history, chain, at, accepted>>

Walk == Advance \/ Accept \/ Reject

\* The answer is printed and the process ends.
Report ==
  /\ verdict \in {"intact"} \cup Failures
  /\ chain' = << >>
  /\ at' = 1
  /\ verdict' = "idle"
  /\ UNCHANGED <<history, accepted>>

-----------------------------------------------------------------------------
Init ==
  /\ docs = << >>
  /\ genuine = {}
  /\ lineage = << >>
  /\ chain = << >>
  /\ at = 1
  /\ verdict = "idle"
  /\ accepted = {}

Next ==
  \/ \E r \in Reports, p \in Operators, t \in Times, o \in Offsets,
        prev \in DOMAIN docs \cup {NoPrev} : AnchorReport(r, p, t, o, prev)
  \/ \E i \in DOMAIN docs : EditAnchor(i)
  \/ \E n \in 1..MaxChain : \E c \in [1..n -> DOMAIN docs] : Load(c)
  \/ Walk
  \/ Report

Spec == Init /\ [][Next]_vars

-----------------------------------------------------------------------------
TypeOK ==
  /\ docs \in Seq(Anchor)
  /\ genuine \subseteq DOMAIN docs
  /\ lineage \in Seq(Seq(Nat)) /\ Len(lineage) = Len(docs)
  /\ chain \in Seq(DOMAIN docs)
  /\ at \in Nat \ {0}
  /\ verdict \in {"idle", "walking", "intact"} \cup Failures
  /\ accepted \subseteq Seq(DOMAIN docs)

Newest(c) == c[Len(c)]

(***************************************************************************)
(* A list verify_chain accepts is the complete past of its newest anchor:  *)
(* no day is missing, none was edited, none comes from another branch.     *)
(***************************************************************************)
AcceptedIsWholeHistory ==
  \A c \in accepted : c = lineage[Newest(c)]

(***************************************************************************)
(* Two lists verify_chain accepts, at any two moments and for any two      *)
(* readers, agree on everything up to the last anchor they share: they can *)
(* part once, and never meet again.                                        *)
(***************************************************************************)
SharedAnchorSharedPast ==
  \A c, d \in accepted : \A i \in DOMAIN c, j \in DOMAIN d :
    c[i] = d[j] => SubSeq(c, 1, i) = SubSeq(d, 1, j)

(***************************************************************************)
(* A reader who knows the newest anchor to be the publishing tool's own    *)
(* (it saw it on the ledger) may still be shown a past the tool did not    *)
(* write: the tool links to any file it is handed (publish.rs reads        *)
(* --prev-anchor and compares nothing).  But only so.  From every document *)
(* that is not the tool's, the list leads up to one that the tool itself   *)
(* was handed and linked to; nobody edits the past after the fact.         *)
(***************************************************************************)
EditedPastWasNamed ==
  \A c \in accepted : Newest(c) \in genuine =>
    \A i \in DOMAIN c : c[i] \notin genuine =>
      \E j \in i..(Len(c) - 1) :
        /\ c[j] \notin genuine /\ c[j + 1] \in genuine
        /\ docs[c[j + 1]].prev = c[j]

(***************************************************************************)
(* Along an accepted list, any later document has a later instant, a       *)
(* ledger position no earlier, and the same publisher; not only adjacent   *)
(* ones.                                                                   *)
(***************************************************************************)
OrderedPair(a, b) ==
  /\ Instant[a.time] < Instant[b.time]
  /\ Position[a.offset] <= Position[b.offset]
  /\ a.publisher = b.publisher

AcceptedIsOrdered ==
  \A c \in accepted : \A j \in DOMAIN c : \A i \in 1..(j - 1) :
    OrderedPair(docs[c[i]], docs[c[j]])

(***************************************************************************)
(* verify_chain refuses nothing it should accept: the complete past of an  *)
(* anchor, one publisher's, with time and ledger moving forward, is never  *)
(* reported as tampered with.                                              *)
(***************************************************************************)
HonestHistory(c) ==
  /\ c = lineage[Newest(c)]
  /\ \A j \in DOMAIN c : docs[c[j]].version = AnchorVersion
  /\ \A j \in DOMAIN c : \A i \in 1..(j - 1) : OrderedPair(docs[c[i]], docs[c[j]])

HonestHistoryNotRejected ==
  verdict \in Failures => ~HonestHistory(chain)

(***************************************************************************)
(* What the specification says and the comparison of strings does not do:  *)
(* a chain in which a snapshot_time is outside the timestamp profile is    *)
(* refused (SPEC 18.3).                                                    *)
(***************************************************************************)
AcceptedTimesInProfile ==
  \A c \in accepted : \A i \in DOMAIN c : Instant[docs[c[i]].time] # OutsideProfile
=============================================================================
