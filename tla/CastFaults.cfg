\* Three messages of any kind, every fault, but for pauses next to a cast that does
\* not report reverts.
CONSTANTS
  Seqs = {1, 2, 3}
  NoSeq = NoSeq
  Kinds = {"ntt", "rejected", "unusable"}
  PageSize = 3
  MaxInFlight = 1
  CastFaultSets <- UpToRevertsOrPauses
SPECIFICATION FairSpec
INVARIANT TypeOK
INVARIANT RelayedIsReceived
PROPERTY RelayedForGood
PROPERTY EveryTransferReceived
