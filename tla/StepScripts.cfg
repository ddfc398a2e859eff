\* The service and an operator run both steps for messages of two pages, one of
\* them for another manager.
CONSTANTS
  Chain <- Base
  Handler <- Manager
  Procs = {service, operator}
  Service = service
  MaxAttempts = 2
  Messages = {"last", "first", "elsewhere"}
  Vaa <- Vaas
  Guardians = 19
  Emitter <- EmitterId
  CoreApp = 842125965
  CoreAddress <- Address
  FaultSets <- FaultsTogether
SPECIFICATION FairSpec
INVARIANT TypeOK
INVARIANT GroupIsAccepted
INVARIANT RowsAreTrue
INVARIANT LookupsAgree
INVARIANT MessageIsAccepted
PROPERTY EventuallyMinted
CHECK_DEADLOCK FALSE
