\* A migration with some and with all precautions, its script failing at will.
CONSTANTS
  Seqs = {0, 1}
  MaxAttempts = 2
  MaxInFlight = 1
  Sent <- OneThenTwo
  Targets = {"new"}
  Settings <- DocumentedToCareful
SPECIFICATION FairSpec
INVARIANT TypeOK
INVARIANT PeersMatch
INVARIANT CarefulCompleteIsMinted
PROPERTY KeepsBothPromises
PROPERTY MigrationEnds
PROPERTY CarefulMintedOrFailed
