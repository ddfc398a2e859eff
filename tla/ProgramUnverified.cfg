\* Violated: a cached program is taken without a look at vphash.
CONSTANTS
  Chain <- Base
  Handler <- Manager
  Procs = {service}
  Service = service
  MaxAttempts = 2
  Messages = {"last", "first"}
  Vaa <- Vaas
  Guardians = 19
  Emitter <- EmitterId
  CoreApp = 842125965
  CoreAddress <- Address
  FaultSets <- OnlyUpgrade
SPECIFICATION Spec
PROPERTY LoadedIsVerified
CHECK_DEADLOCK FALSE
