---------------------------- MODULE MCConformance ----------------------------
(***************************************************************************)
(* Every set of features, claimed as it is or as everything and reported   *)
(* in every way, and verifiers of everything that omit any one check or    *)
(* any two.                                                                *)
(***************************************************************************)
EXTENDS Conformance

KeySet ==
  {"", "collateral", "exposure", "units", "entitlement", "delivered", "paid", "attested", "held"}
    \X {"USDA", "CBTC", "FF01", "U10000", "CLASS_A", "BOND", "accredited"}

\* Checks inside a condition, which have no failure of their own.
Demanded ==
  {"withheld: declared", "withheld: not carried", "anchors: format_version", "anchors: digest",
   "anchors: root", "anchors: time", "anchors: offset", "anchors: publisher",
   "attestation: format_version", "attestation: field", "attestation: digest",
   "attestation: trusted key", "attestation: role", "attestation: algorithm",
   "attestation: signature", "verified: committed field", "verified: proof verifies",
   "ledger: anchored", "ledger: derived"}

AllChecks ==
  UNION {{check.name : check \in Range(ChecksOf(c, {}))} : c \in Range(Cases)} \cup Demanded

\* Verifiers of everything, less one check or two.
Omitting(checks) ==
  [knows : {SUPPORTED}, claims : {SUPPORTED}, omits : {{c, d} : c \in checks, d \in checks},
   reports : {"by rule"}]
    \cup [knows : {SUPPORTED}, claims : {SUPPORTED}, omits : {{c} : c \in checks},
          reports : {"flattering"}]

SomeImplementations ==
  [knows : SUBSET SUPPORTED, claims : {SUPPORTED}, omits : {{}},
   reports : {"by rule", "flattering"}]
    \cup {[knows |-> known, claims |-> known, omits |-> {}, reports |-> r] :
            known \in SUBSET SUPPORTED, r \in {"by rule", "everything"}}
    \cup Omitting(AllChecks)

\* A case of a manifest, and the last one.
SomeRevisable == {6, Len(Cases)}
=============================================================================
