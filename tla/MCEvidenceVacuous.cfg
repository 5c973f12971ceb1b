SPECIFICATION Spec
CONSTANTS
  Procs = {p}
  Users = {"alice", "bob"}
  Books = {"monday"}
  Inputs = {"monday"}
  Customers <- MCCustomers
  Book <- MCBook
  ProofName <- MCProofName
  Spare = "notes.json"
  None = None
  MaxEvents = 1
  MaxOthers = 0
INVARIANT PassedVerifiedAProof
