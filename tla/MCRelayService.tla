--------------------------- MODULE MCRelayService ---------------------------
(***************************************************************************)
(* Instances of RelayService for TLC.                                      *)
(***************************************************************************)
EXTENDS RelayService

AllFaults == FaultKinds

\* What ReliableBoxes and OrderlyListing leave to the environment.
BenignFaults ==
  FaultKinds \ { "late", "backlog", "ledger", "guardian", "attestSend", "attestTimeout",
                 "boxRead" }

\* What the service is promised to get over: "setup" would have to end.
PassingFaults ==
  BenignFaults \ {"setup", "operator", "executeSend"}

\* One fault at a time, for what it alone breaks.
UnreadBoxes == {"boxRead"}
Backlog == {"backlog"}
=============================================================================
