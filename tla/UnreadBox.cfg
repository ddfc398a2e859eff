\* Violated: an unread box makes preflight fail and the row complete.
CONSTANTS
  Seqs = {1}
  Kinds = {"ntt"}
  MaxInFlight = 1
  MaxAttempts = 2
  PageSize = 1
  Faults <- UnreadBoxes
SPECIFICATION Spec
INVARIANT CompleteIsMinted
