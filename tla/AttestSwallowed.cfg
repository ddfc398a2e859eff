\* Violated: a group that is refused, here for the empty program of a cache another
\* process is writing, still marks the row attested.
CONSTANTS
  Chain <- Base
  Handler <- Manager
  Procs = {service, operator}
  Service = service
  MaxAttempts = 2
  Messages = {"last"}
  Vaa <- Vaas
  Guardians = 19
  Emitter <- EmitterId
  CoreApp = 842125965
  CoreAddress <- Address
  FaultSets <- OnlyTheCache
SPECIFICATION Spec
INVARIANT AttestedIsConsumed
CHECK_DEADLOCK FALSE
