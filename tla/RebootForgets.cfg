\* Violated: the source of the program is looked for in /tmp only.
CONSTANTS
  Chain <- Base
  Handler <- Manager
  Procs = {service}
  Service = service
  MaxAttempts = 2
  Messages = {"last"}
  Vaa <- Vaas
  Guardians = 19
  Emitter <- EmitterId
  CoreApp = 842125965
  CoreAddress <- Address
  FaultSets <- OnlyReboot
SPECIFICATION FairSpec
PROPERTY MintedAfterReboot
CHECK_DEADLOCK FALSE
