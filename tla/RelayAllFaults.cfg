\* Two messages of any kind, every fault.
CONSTANTS
  Seqs = {1, 2}
  Kinds = {"ntt", "alien", "malformed"}
  MaxInFlight = 2
  MaxAttempts = 2
  PageSize = 1
  Faults <- AllFaults
SPECIFICATION Spec
INVARIANT TypeOK
INVARIANT RetryBudget
INVARIANT HeadOfLine
PROPERTY RowsOnlyAdvance
