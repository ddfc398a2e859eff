\* Violated: a message pushed off the page before it has a row is never relayed.
CONSTANTS
  Seqs = {1, 2}
  Kinds = {"ntt"}
  MaxInFlight = 1
  MaxAttempts = 2
  PageSize = 1
  Faults <- Backlog
SPECIFICATION FairSpec
PROPERTY EveryMessageSettles
