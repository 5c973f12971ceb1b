---------------------------- MODULE AtomicCustody ----------------------------
(***************************************************************************)
(* What rust/reserve-attest promises to whoever relies on custody reports  *)
(* (lib.rs:1-18, SPEC 11): each is the state of the ledger at one offset,  *)
(* taken whole and in one step, and dated to a time when that was the      *)
(* state.  CustodyCoverage has the steps it really takes: two calls, rows  *)
(* in any order, some twice, failures and retries while the ledger moves.  *)
(***************************************************************************)
EXTENDS Integers, Sequences, FiniteSets, Functions

CONSTANTS
  Worth,    \* what each contract holds: contract -> [asset, amount]
  Opening   \* the ledger's first state

VARIABLES
  ledger,   \* its states, in the order of their offsets: [held, owed, time]
  now,
  reports   \* what was signed: [offset, time, count, totals]

vars == <<ledger, now, reports>>

HeldAssets == {Worth[c].asset : c \in DOMAIN Worth}

\* totals
Totals(held) ==
  [a \in HeldAssets |->
     SumFunction([c \in held |-> IF Worth[c].asset = a THEN Worth[c].amount ELSE 0])]

\* The state at this offset was the state at this time.
WasState(offset, time) ==
  /\ offset \in DOMAIN ledger
  /\ ledger[offset].time <= time /\ time <= now
  /\ offset + 1 \in DOMAIN ledger => time <= ledger[offset + 1].time

Snapshot(offset, time) ==
  [offset |-> offset, time |-> time, count |-> Cardinality(ledger[offset].held),
   totals |-> Totals(ledger[offset].held)]

Move ==
  /\ \E next \in {ledger'[Len(ledger')]} :
       next.time = now /\ ledger' = Append(ledger, next)
  /\ UNCHANGED <<now, reports>>

Wait ==
  /\ now' > now
  /\ UNCHANGED <<ledger, reports>>

\* Of something that is held, and of nothing but the state that was.
SignSnapshot ==
  /\ \E s \in reports' :
       /\ reports' = reports \cup {s}
       /\ WasState(s.offset, s.time)
       /\ s = Snapshot(s.offset, s.time)
       /\ s.count > 0
  /\ UNCHANGED <<ledger, now>>

Init ==
  /\ ledger = <<Opening>>
  /\ now = Opening.time
  /\ reports = {}

Next == Move \/ Wait \/ SignSnapshot

Spec == Init /\ [][Next]_vars
=============================================================================
