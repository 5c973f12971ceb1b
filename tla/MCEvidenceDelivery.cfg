SPECIFICATION Spec
CONSTANTS
  Procs = {p, q}
  Users = {"alice", "bob", "rob"}
  Books = {"monday", "tuesday", "clash"}
  Inputs = {"monday", "tuesday", "clash"}
  Customers <- MCCustomers
  Book <- MCBook
  ProofName <- MCProofName
  Spare = "notes.json"
  None = None
  MaxEvents = 2
  MaxOthers = 2
SYMMETRY MCSymmetry
INVARIANTS TypeOK AcceptedDeliveryIsOneRuns CompleteDeliveryPasses PassedSawEveryProof
PROPERTY CompletedRunDelivers
