\* Three messages listed in order on pages of two, the faults under which the table is right.
CONSTANTS
  Seqs = {1, 2, 3}
  Kinds = {"ntt"}
  MaxInFlight = 1
  MaxAttempts = 2
  PageSize = 2
  Faults <- BenignFaults
SPECIFICATION Spec
INVARIANT StrictlyInOrder
INVARIANT NoneForgotten
INVARIANT AttestedIsOnChain
INVARIANT CompleteIsMinted
PROPERTY KeepsPromise
