\* Violated: the new emitter's messages are below the old one's last complete.
CONSTANTS
  Seqs = {0, 1}
  MaxAttempts = 1
  MaxInFlight = 1
  Sent <- OneThenTwo
  Targets = {"new"}
  Settings <- SameTable
SPECIFICATION FairSpec
PROPERTY NewMintedOrFailed
