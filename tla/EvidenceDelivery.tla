-------------------------- MODULE EvidenceDelivery --------------------------
(***************************************************************************)
(* The output directory of canton-solvency-publish and the auditor who     *)
(* reads it (solvency-report/src/bin/publish.rs, solvency-report/src/      *)
(* pack.rs, solvency-cli/src/pack.rs, solvency-cli/src/run.rs, SPEC 15).   *)
(*                                                                         *)
(* A publishing run writes the report, the anchor, one proof per customer  *)
(* and last the signed index, each with its own std::fs::write: opened and *)
(* truncated, then filled.  Nothing locks the directory, nothing removes   *)
(* what an earlier run left, and a run can die between any two writes.     *)
(* The auditor reads file by file while all that goes on.                  *)
(*                                                                         *)
(* A digest is injective on bytes, so a file's content stands for its      *)
(* digest; a valid signature is the holder's, on the content it signed.    *)
(***************************************************************************)
EXTENDS Integers, Sequences, FiniteSets

CONSTANTS
  Procs,       \* publishing processes that may run at the same time
  Users,       \* customers
  Books,       \* what decides a report and its proofs: balances, time, offset
  Inputs,      \* what decides a run's output: a book and a --prev-anchor
  Customers,   \* the customers with a balance in a book
  Book,        \* the book of an input
  ProofName,   \* proof_filename
  Spare,       \* a .json name no publishing run writes
  None,
  MaxEvents,   \* bound on the publishing runs started, the changes made to the
               \* directory by others and the packs assembled outside the tool
  MaxOthers    \* bound on the latter two

ASSUME ConstantsAssumption ==
  /\ Books # {}
  /\ Customers \in [Books -> SUBSET Users]
  /\ \A b \in Books : Customers[b] # {}
  /\ Book \in [Inputs -> Books]
  /\ \A u \in DOMAIN ProofName :
       ProofName[u] \notin {"report.json", "anchor.json", "pack.json", Spare}
  /\ DOMAIN ProofName = Users
  /\ Spare \notin {"report.json", "anchor.json", "pack.json"}
  /\ None \notin Inputs /\ None \notin Books
  /\ MaxEvents \in Nat /\ MaxOthers \in Nat

VARIABLES
  dir,       \* the directory: name -> content
  runs,      \* how many publishing runs were started
  run,       \* each publishing process: its input, `members`, the open file,
             \* and (history) whether it had the directory to itself
  finished,  \* history: the inputs whose index was signed by a publishing run
  byHand,    \* history: the member sets of the indexes signed otherwise
  tampers,   \* how often the directory was changed by others
  phase,     \* where the auditor is, or what it answered
  index,     \* the SignedPack it parsed; None under plain `verify`
  listed,    \* the names present when delivered() opened the directory
  got,       \* what delivered() has read
  report,    \* the report the content check loaded
  todo,      \* the *.json names it has still to sweep
  outcomes,  \* the proofs it has checked: name, content, whether it passed
  still      \* history: no file has changed since the audit began

publisher == <<runs, run, finished, byHand>>
audit     == <<phase, index, listed, got, report, todo, outcomes>>
vars      == <<dir, runs, run, finished, byHand, tampers, phase, index, listed, got,
               report, todo, outcomes, still>>

-----------------------------------------------------------------------------
(***************************************************************************)
(* Contents.                                                               *)
(***************************************************************************)
Doc(kind, of, who) == [kind |-> kind, of |-> of, who |-> who, intact |-> TRUE]

ReportDoc(b)   == Doc("report", b, None)
AnchorDoc(i)   == Doc("anchor", i, None)
ProofDoc(b, u) == Doc("proof", b, u)

Torn  == [kind |-> "torn"]   \* a proper prefix: what an interrupted write leaves
Other == [kind |-> "other"]  \* JSON no part of the sweep recognises

\* A signed index over `members`, a set of <<name, content>>.
PackDoc(b, members) ==
  [kind |-> "pack", report |-> b, entries |-> members,
   key |-> "publisher", signedBy |-> "publisher"]

Documents ==
  {ReportDoc(b) : b \in Books} \cup {AnchorDoc(i) : i \in Inputs}
  \cup {ProofDoc(b, u) : b \in Books, u \in Users}

Put(name, content) ==
  [n \in DOMAIN dir \cup {name} |-> IF n = name THEN content ELSE dir[n]]

Graph(f) == {<<n, f[n]>> : n \in DOMAIN f}

Proofs(i) ==
  {<<ProofName[u], ProofDoc(Book[i], u)>> : u \in Customers[Book[i]]}

\* What a publishing run on input i hands to build_pack, as a set.
Output(i) ==
  {<<"report.json", ReportDoc(Book[i])>>, <<"anchor.json", AnchorDoc(i)>>} \cup Proofs(i)

\* None is no file that a run writes.
ASSUME NoFileAssumption ==
  \A i \in Inputs : None \notin Output(i) \cup {<<"pack.json", PackDoc(Book[i], Output(i))>>}

-----------------------------------------------------------------------------
(***************************************************************************)
(* The publishing tool.                                                    *)
(***************************************************************************)
Others == tampers + Cardinality(byHand)
Events == runs + Others
MayMeddle == Events < MaxEvents /\ Others < MaxOthers

NotRunning == [input |-> None, members |-> << >>, open |-> None, alone |-> FALSE]

\* Nothing tells a run that another is writing the same directory.
Start(p, i) ==
  /\ run[p] = NotRunning /\ Events < MaxEvents
  /\ runs' = runs + 1
  /\ run' = [q \in Procs |->
               IF q = p
               THEN [NotRunning EXCEPT !.input = i,
                                       !.alone = \A o \in Procs \ {p} : run[o] = NotRunning]
               ELSE [run[q] EXCEPT !.alone = FALSE]]
  /\ UNCHANGED <<dir, finished, byHand, tampers, audit, still>>

Written(p) == {run[p].members[k] : k \in DOMAIN run[p].members}

\* The map build_pack makes of the members: of one name, the last wins.
Entries(p) ==
  {run[p].members[k] : k \in {k \in DOMAIN run[p].members :
    \A j \in DOMAIN run[p].members :
      j > k => run[p].members[j][1] # run[p].members[k][1]}}

\* build_pack refuses two members of one name.
DistinctNames(p) ==
  \A j, k \in DOMAIN run[p].members :
    run[p].members[j][1] = run[p].members[k][1] => j = k

\* Mutant of Pending: a proof that is already on disk is not written again.
PendingResumes(p) ==
  LET left == {f \in Proofs(run[p].input) \ Written(p) : f[1] \notin DOMAIN dir} IN
  IF Len(run[p].members) = 0 THEN {<<"report.json", ReportDoc(Book[run[p].input])>>}
  ELSE IF Len(run[p].members) = 1 THEN {<<"anchor.json", AnchorDoc(run[p].input)>>}
  ELSE IF left # {} THEN left
  ELSE {<<"pack.json", PackDoc(Book[run[p].input], Entries(p))>>}

\* The file the run writes next; the order of the proofs is the order of the
\* salts, unpredictable.  None is left when build_pack refuses the members.
Pending(p) ==
  LET left == Proofs(run[p].input) \ Written(p) IN
  IF Len(run[p].members) = 0 THEN {<<"report.json", ReportDoc(Book[run[p].input])>>}
  ELSE IF Len(run[p].members) = 1 THEN {<<"anchor.json", AnchorDoc(run[p].input)>>}
  ELSE IF left # {} THEN left
  ELSE IF DistinctNames(p)
       THEN {<<"pack.json", PackDoc(Book[run[p].input], Entries(p))>>}
  ELSE {}

\* std::fs::write opens and truncates.  The index is signed by then.
OpenFile(p) ==
  /\ run[p].input # None /\ run[p].open = None
  /\ \E file \in Pending(p) :
       /\ dir' = Put(file[1], Torn)
       /\ run' = [run EXCEPT ![p].open = file]
       /\ finished' = IF file[1] = "pack.json" THEN finished \cup {run[p].input} ELSE finished
  /\ still' = FALSE
  /\ UNCHANGED <<runs, byHand, tampers, audit>>

\* ... and fills.  A file that was removed meanwhile stays removed; one that
\* somebody else filled meanwhile can end up with the tail of theirs.
FillFile(p) ==
  /\ run[p].open # None
  /\ LET name == run[p].open[1]
         content == run[p].open[2]
     IN /\ \/ name \notin DOMAIN dir /\ UNCHANGED dir
           \/ name \in DOMAIN dir /\ dir' = Put(name, content)
           \/ /\ name \in DOMAIN dir /\ dir[name] \notin {Torn, content}
              /\ dir' = Put(name, Torn)
        /\ run' = [run EXCEPT ![p] =
                     IF name = "pack.json" THEN NotRunning
                     ELSE [run[p] EXCEPT !.members = Append(run[p].members, <<name, content>>),
                                         !.open = None]]
  /\ still' = FALSE
  /\ UNCHANGED <<runs, finished, byHand, tampers, audit>>

\* build_pack returns DuplicateEntry and main returns the error.
RefusePack(p) ==
  /\ run[p].input # None /\ run[p].open = None /\ Pending(p) = {}
  /\ run' = [run EXCEPT ![p] = NotRunning]
  /\ UNCHANGED <<dir, runs, finished, byHand, tampers, audit, still>>

\* The process is killed, or a write fails: what is on disk stays.
Die(p) ==
  /\ run[p].input # None
  /\ run' = [run EXCEPT ![p] = NotRunning]
  /\ UNCHANGED <<dir, runs, finished, byHand, tampers, audit, still>>

-----------------------------------------------------------------------------
(***************************************************************************)
(* Everybody else who touches the directory.                               *)
(***************************************************************************)
Drop(n) ==
  /\ MayMeddle
  /\ dir' = [m \in DOMAIN dir \ {n} |-> dir[m]]
  /\ tampers' = tampers + 1
  /\ still' = FALSE
  /\ UNCHANGED <<publisher, audit>>

\* A member is swapped for another document, another run's included, or edited.
Swap(n, content) ==
  /\ MayMeddle
  /\ dir' = Put(n, content)
  /\ tampers' = tampers + 1
  /\ still' = FALSE
  /\ UNCHANGED <<publisher, audit>>

\* An index rewritten to fit the files present, without the publisher's key.
Reindex(key, signedBy) ==
  /\ MayMeddle
  /\ signedBy # "publisher"
  /\ dir' = Put("pack.json",
               [PackDoc(CHOOSE b \in Books : TRUE,
                        {e \in Graph(dir) : e[1] # "pack.json"})
                  EXCEPT !.key = key, !.signedBy = signedBy])
  /\ tampers' = tampers + 1
  /\ still' = FALSE
  /\ UNCHANGED <<publisher, audit>>

\* The holder of the key calls the library: build_pack over some of the files,
\* with a report_digest that is whatever the caller passes.
PackByHand(b, names) ==
  /\ MayMeddle
  /\ \A n \in names : dir[n] # Torn
  /\ LET members == {<<n, dir[n]>> : n \in names} IN
       /\ dir' = Put("pack.json", PackDoc(b, members))
       /\ byHand' = byHand \cup {members}
  /\ still' = FALSE
  /\ UNCHANGED <<runs, run, finished, tampers, audit>>

-----------------------------------------------------------------------------
(***************************************************************************)
(* The auditor: verify-pack, and plain verify over the directory.          *)
(***************************************************************************)
Answers ==
  {"passed", "failed", "error", "UnknownSigner", "BadSignature", "Missing",
   "Altered", "Unlisted"}

Answer(a) ==
  /\ phase' = a
  /\ UNCHANGED <<dir, publisher, tampers, index, listed, got, report, todo, outcomes, still>>

\* run_pack reads and parses pack.json, then opens the directory.
ReadIndex ==
  /\ phase = "idle"
  /\ still' = TRUE
  /\ IF "pack.json" \in DOMAIN dir /\ dir["pack.json"].kind = "pack"
     THEN /\ phase' = "reading"
          /\ index' = dir["pack.json"]
          /\ listed' = DOMAIN dir \ {"pack.json"}
     ELSE /\ phase' = "error"
          /\ UNCHANGED <<index, listed>>
  /\ UNCHANGED <<dir, publisher, tampers, got, report, todo, outcomes>>

\* Mutant of ReadMember: the index is taken for a member of itself.
ReadMemberOrIndex(n) ==
  /\ phase = "reading"
  /\ n \in DOMAIN dir \ DOMAIN got
  /\ got' = [m \in DOMAIN got \cup {n} |-> IF m = n THEN dir[n] ELSE got[m]]
  /\ UNCHANGED <<dir, publisher, tampers, phase, index, listed, report, todo, outcomes, still>>

\* delivered(): one file.  A name that appears while the directory is being
\* read may be returned or not.
ReadMember(n) ==
  /\ phase = "reading"
  /\ n \in DOMAIN dir \ (DOMAIN got \cup {"pack.json"})
  /\ got' = [m \in DOMAIN got \cup {n} |-> IF m = n THEN dir[n] ELSE got[m]]
  /\ UNCHANGED <<dir, publisher, tampers, phase, index, listed, report, todo, outcomes, still>>

\* A name that is gone again is skipped, or fails if it went between is_file
\* and read.
MemberVanished ==
  /\ phase = "reading"
  /\ ~(listed \subseteq DOMAIN got \cup DOMAIN dir)
  /\ Answer("error")

AllRead == listed \cap DOMAIN dir \subseteq DOMAIN got

\* Mutant of IndexFailures: any signature will do.
IgnoresSignature(pack, members) ==
  IF pack.key # "publisher" THEN {"UnknownSigner"}
  ELSE IF pack.entries = Graph(members) THEN {} ELSE {"Altered"}

\* verify_pack.  Which of several bad entries is named first is the order of
\* the names, left open here.
IndexFailures(pack, members) ==
  LET named  == {e[1] : e \in pack.entries}
      absent == named \ DOMAIN members
      altered == {e \in pack.entries : e[1] \in DOMAIN members /\ members[e[1]] # e[2]}
  IN IF pack.key # "publisher"           THEN {"UnknownSigner"}
     ELSE IF pack.signedBy # "publisher" THEN {"BadSignature"}
     ELSE IF absent \cup altered # {}
          THEN   (IF absent # {} THEN {"Missing"} ELSE {})
            \cup (IF altered # {} THEN {"Altered"} ELSE {})
     ELSE IF DOMAIN members \ named # {} THEN {"Unlisted"}
     ELSE {}

IndexFails ==
  /\ phase = "reading" /\ AllRead
  /\ \E f \in IndexFailures(index, got) : Answer(f)

\* Only a delivery known to be whole has its contents verified.
IndexHolds ==
  /\ phase = "reading" /\ AllRead
  /\ IndexFailures(index, got) = {}
  /\ Answer("loading")

\* `verify --report dir/report.json --proofs dir`: the contents alone.
StartVerify ==
  /\ phase = "idle"
  /\ phase' = "loading"
  /\ still' = TRUE
  /\ UNCHANGED <<dir, publisher, tampers, index, listed, got, report, todo, outcomes>>

\* run(Verify): the report is read, again, and the directory listed, again.
LoadReport ==
  /\ phase = "loading"
  /\ IF "report.json" \in DOMAIN dir /\ dir["report.json"].kind = "report"
     THEN /\ phase' = "sweeping"
          /\ report' = dir["report.json"]
          /\ todo' = DOMAIN dir
     ELSE /\ phase' = "error"
          /\ UNCHANGED <<report, todo>>
  /\ UNCHANGED <<dir, publisher, tampers, index, listed, got, outcomes, still>>

\* verify: the report carries the trusted key's signature and the proof
\* folds to its root.
Verifies(proof) == report.intact /\ proof.intact /\ proof.of = report.of

\* Mutants of IsSibling: only reports are siblings; everything is.
OnlyReportIsSibling(content) == content.kind = "report"
AnythingIsSibling(content)   == TRUE

\* is_sibling_document: what a sweep passes over.
IsSibling(content) == content.kind \in {"report", "anchor", "pack"}

SweepProof(n) ==
  /\ phase = "sweeping" /\ n \in todo \cap DOMAIN dir
  /\ dir[n].kind = "proof"
  /\ outcomes' = outcomes \cup {<<n, dir[n], Verifies(dir[n])>>}
  /\ todo' = todo \ {n}
  /\ UNCHANGED <<dir, publisher, tampers, phase, index, listed, got, report, still>>

SkipSibling(n) ==
  /\ phase = "sweeping" /\ n \in todo \cap DOMAIN dir
  /\ IsSibling(dir[n])
  /\ todo' = todo \ {n}
  /\ UNCHANGED <<dir, publisher, tampers, phase, index, listed, got, report, outcomes, still>>

SweepFails(n) ==
  /\ phase = "sweeping" /\ n \in todo
  /\ n \in DOMAIN dir => dir[n].kind # "proof" /\ ~IsSibling(dir[n])
  /\ Answer("error")

\* Summary::all_passed.
Conclude ==
  /\ phase = "sweeping" /\ todo = {}
  /\ Answer(IF \A o \in outcomes : o[3] THEN "passed" ELSE "failed")

\* The answer is printed and the process ends.
Exit ==
  /\ phase \in Answers
  /\ phase' = "idle"
  /\ index' = None /\ listed' = {} /\ got' = << >>
  /\ report' = None /\ todo' = {} /\ outcomes' = {}
  /\ UNCHANGED <<dir, publisher, tampers, still>>

AuditStep ==
  \/ MemberVanished \/ IndexFails \/ IndexHolds \/ LoadReport \/ Conclude
  \/ \E n \in DOMAIN dir : ReadMember(n)
  \/ \E n \in todo : SweepProof(n) \/ SkipSibling(n) \/ SweepFails(n)

-----------------------------------------------------------------------------
Init ==
  /\ dir = << >>
  /\ runs = 0 /\ run = [p \in Procs |-> NotRunning]
  /\ finished = {} /\ byHand = {} /\ tampers = 0
  /\ phase = "idle" /\ index = None /\ listed = {} /\ got = << >>
  /\ report = None /\ todo = {} /\ outcomes = {}
  /\ still = TRUE

Next ==
  \/ \E p \in Procs :
       \/ \E i \in Inputs : Start(p, i)
       \/ OpenFile(p) \/ FillFile(p) \/ RefusePack(p) \/ Die(p)
  \/ \E n \in DOMAIN dir : Drop(n)
  \/ \E n \in (DOMAIN dir \ {"pack.json"}) \cup {Spare} :
       \/ \E d \in Documents \cup {Torn, Other} : Swap(n, d)
       \/ n \in DOMAIN dir /\ dir[n] \in Documents /\ Swap(n, [dir[n] EXCEPT !.intact = FALSE])
  \/ Reindex("publisher", None) \/ Reindex("other", "other")
  \/ \E b \in Books, names \in SUBSET (DOMAIN dir \ {"pack.json"}) : PackByHand(b, names)
  \/ ReadIndex \/ StartVerify \/ AuditStep \/ Exit

Spec == Init /\ [][Next]_vars

-----------------------------------------------------------------------------
Names == {"report.json", "anchor.json", "pack.json", Spare} \cup {ProofName[u] : u \in Users}

AnyDocument == Documents \cup {[d EXCEPT !.intact = FALSE] : d \in Documents}
Members     == (Names \ {"pack.json"}) \X (AnyDocument \cup {Torn, Other})

Index ==
  [kind : {"pack"}, report : Books, entries : SUBSET Members,
   key : {"publisher", "other"}, signedBy : {"publisher", "other", None}]

\* Nor is it an index.
ASSUME NoIndexAssumption == None \notin Index

TypeOK ==
  /\ DOMAIN dir \subseteq Names
  /\ \A e \in Graph(dir) : e \in Members \/ (e[1] = "pack.json" /\ (e[2] = Torn \/ e[2] \in Index))
  /\ runs \in 0..MaxEvents
  /\ \A p \in Procs :
       /\ run[p].input \in Inputs \cup {None}
       /\ run[p].members = << >> \/ run[p].members \in Seq(Output(run[p].input))
       /\ run[p].open = None \/ run[p].open[1] \in Names
       /\ run[p].alone \in BOOLEAN
  /\ finished \subseteq Inputs
  /\ byHand \subseteq SUBSET Members
  /\ tampers \in 0..MaxEvents
  /\ phase \in {"idle", "reading", "loading", "sweeping"} \cup Answers
  /\ index \in Index \cup {None}
  /\ listed \subseteq Names /\ DOMAIN got \subseteq Names /\ Graph(got) \subseteq Members
  /\ report \in AnyDocument \cup {None}
  /\ todo \subseteq Names
  /\ outcomes \subseteq Names \X AnyDocument \X BOOLEAN
  /\ still \in BOOLEAN

(***************************************************************************)
(* When verify-pack finds the index good, what it read is to the byte the  *)
(* whole output of one publishing run that got as far as its index, or one *)
(* set the holder of the key packed: whatever died, overlapped, was left   *)
(* over from an earlier run, or was changed while the files were read.     *)
(***************************************************************************)
IndexGood == index # None /\ phase \in {"loading", "sweeping", "passed", "failed"}

AcceptedDeliveryIsOneRuns ==
  IndexGood => Graph(got) \in {Output(i) : i \in finished} \cup byHand

(***************************************************************************)
(* If nothing changed meanwhile, a pass means that every proof the index   *)
(* names was verified against the report the index names: the second       *)
(* reading of the directory passes over nothing the first one pinned.      *)
(***************************************************************************)
PassedSawEveryProof ==
  phase = "passed" /\ index # None /\ still =>
    /\ <<"report.json", report>> \in index.entries
    /\ {<<o[1], o[2]>> : o \in outcomes} = {e \in index.entries : e[2].kind = "proof"}

(***************************************************************************)
(* The output of a run that ended, alone in its directory and left alone   *)
(* while it is read, is never refused: not by the index, not by the sweep. *)
(***************************************************************************)
WholeDelivery(i) ==
  Graph(dir) = Output(i) \cup {<<"pack.json", PackDoc(Book[i], Output(i))>>}

CompleteDeliveryPasses ==
  still /\ phase \in Answers \ {"passed"} => \A i \in Inputs : ~WholeDelivery(i)

(***************************************************************************)
(* Whatever dead runs left behind, a run nobody else interferes with that  *)
(* gets to fill in its index leaves its whole output on disk: a retry      *)
(* repairs a directory.                                                    *)
(***************************************************************************)
Undisturbed(p) == run[p].alone /\ tampers = 0 /\ byHand = {}

CompletedRunDelivers ==
  [][\A p \in Procs :
       Undisturbed(p) /\ run[p].open # None /\ run'[p] = NotRunning /\ dir' # dir =>
         LET i == run[p].input IN
         Output(i) \cup {<<"pack.json", PackDoc(Book[i], Output(i))>>} \subseteq Graph(dir')
    ]_vars

(***************************************************************************)
(* What the documentation says and the code does not do.                   *)
(* cli/src/pack.rs: contents are verified only once the delivery is known  *)
(* to be the intended one.  The files are read a second time.              *)
(***************************************************************************)
PassedIsAboutTheDelivery ==
  phase = "passed" /\ index # None =>
    {<<o[1], o[2]>> : o \in outcomes} \subseteq index.entries

\* The CLI's design: "0 checked, all passed" is not reported.
PassedVerifiedAProof == phase = "passed" => outcomes # {}

\* SPEC 15.1: a pack cannot be lifted onto a different report.
PassedPackIsOfItsReport ==
  phase = "passed" /\ index # None => index.report = report.of
=============================================================================
