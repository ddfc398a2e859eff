CONSTANTS
  Seqs = {1, 2}
  Kinds = {"ntt", "malformed"}
  MaxInFlight = 1
  MaxAttempts = 2
  PageSize = 2
  Faults <- PassingFaults
SPECIFICATION FairSpec
PROPERTY EveryMessageSettles
PROPERTY MintedOrFailed
