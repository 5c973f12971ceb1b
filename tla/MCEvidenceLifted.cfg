SPECIFICATION Spec
CONSTANTS
  Procs = {p}
  Users = {"alice", "bob"}
  Books = {"monday", "tuesday"}
  Inputs = {"tuesday"}
  Customers <- MCCustomers
  Book <- MCBook
  ProofName <- MCProofName
  Spare = "notes.json"
  None = None
  MaxEvents = 2
  MaxOthers = 1
INVARIANT PassedPackIsOfItsReport
