------------------------ MODULE MCEvidenceDelivery ------------------------
EXTENDS EvidenceDelivery, TLC

\* Nothing tells one publishing process from another.
MCSymmetry == Permutations(Procs)

\* Three books: two customers, one of them alone the next day, and two
\* customers whose proofs would go to one file name.
MCCustomers == [b \in Books |-> CASE b = "monday"  -> {"alice", "bob"}
                                  [] b = "tuesday" -> {"alice"}
                                  [] OTHER         -> {"bob", "rob"}]
MCBook == [i \in Inputs |-> CASE i = "monday" -> "monday"
                              [] i = "clash" -> "clash"
                              [] OTHER -> "tuesday"]
MCProofName ==
  [u \in Users |-> IF u = "alice" THEN "proof-alice.json" ELSE "proof-b.json"]
===========================================================================
