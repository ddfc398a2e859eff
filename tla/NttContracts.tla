---------------------------- MODULE NttContracts ----------------------------
(***************************************************************************)
(* The Algorand contracts (Wormhole transceiver, transceiver manager, NTT  *)
(* manager) as the relayer uses them.  Their source is not in this         *)
(* repository: the module states what the scripts rely on.  A message is   *)
(* attested at most once (box vaas_consumed_) and executed at most once    *)
(* (box messages_executed_), and only after it was attested (box           *)
(* num_attestations_).  Executing a message mints its tokens.              *)
(*                                                                         *)
(* A transaction group that was broadcast and not seen to confirm stays in *)
(* flight: it may still be included, or be dropped when it is rejected or  *)
(* its validity window closes.                                             *)
(***************************************************************************)
EXTENDS Naturals

CONSTANTS
  Seqs,          \* the Wormhole sequence numbers of the Base emitter
  Kinds,         \* the kinds of message the emitter publishes
  MaxInFlight    \* bound: unconfirmed groups per message and step

ASSUME SeqsAssumption == Seqs \subseteq Nat
ASSUME KindsAssumption == Kinds \subseteq {"ntt", "alien", "malformed"}
ASSUME MaxInFlightAssumption == MaxInFlight \in Nat

VARIABLES
  kind,             \* "ntt": a transfer to this NTT manager, "alien": another
                    \* message, "malformed": a payload the parsers raise on
  attested,         \* messages with a recorded attestation
  executed,         \* messages whose tokens are minted
  attestInFlight,   \* number of unconfirmed attest groups per message
  executeInFlight   \* number of unconfirmed execute groups per message

chainVars == <<kind, attested, executed, attestInFlight, executeInFlight>>

ChainTypeOK ==
  /\ kind \in [Seqs -> Kinds]
  /\ attested \subseteq Seqs
  /\ executed \subseteq Seqs
  /\ attestInFlight \in [Seqs -> Nat]
  /\ executeInFlight \in [Seqs -> Nat]

ChainInit ==
  /\ kind \in [Seqs -> Kinds]
  /\ attested = {}
  /\ executed = {}
  /\ attestInFlight = [s \in Seqs |-> 0]
  /\ executeInFlight = [s \in Seqs |-> 0]

\* receive_message accepts a transfer to this manager, once.
AcceptsAttest(s) == kind[s] = "ntt" /\ s \notin attested

\* execute_message accepts an attested message, once.
AcceptsExecute(s) == s \in attested /\ s \notin executed

\* The group is included in a block and its sender sees it.
ConfirmAttest(s) ==
  /\ AcceptsAttest(s)
  /\ attested' = attested \union {s}
  /\ UNCHANGED <<kind, executed, attestInFlight, executeInFlight>>

ConfirmExecute(s) ==
  /\ AcceptsExecute(s)
  /\ executed' = executed \union {s}
  /\ UNCHANGED <<kind, attested, attestInFlight, executeInFlight>>

\* The group leaves its sender and its fate is unknown to it.
BroadcastAttest(s) ==
  /\ attestInFlight[s] < MaxInFlight
  /\ attestInFlight' = [attestInFlight EXCEPT ![s] = @ + 1]
  /\ UNCHANGED <<kind, attested, executed, executeInFlight>>

BroadcastExecute(s) ==
  /\ executeInFlight[s] < MaxInFlight
  /\ executeInFlight' = [executeInFlight EXCEPT ![s] = @ + 1]
  /\ UNCHANGED <<kind, attested, executed, attestInFlight>>

\* A group in flight is included after all.
LandAttest(s) ==
  /\ attestInFlight[s] > 0
  /\ AcceptsAttest(s)
  /\ attestInFlight' = [attestInFlight EXCEPT ![s] = @ - 1]
  /\ attested' = attested \union {s}
  /\ UNCHANGED <<kind, executed, executeInFlight>>

LandExecute(s) ==
  /\ executeInFlight[s] > 0
  /\ AcceptsExecute(s)
  /\ executeInFlight' = [executeInFlight EXCEPT ![s] = @ - 1]
  /\ executed' = executed \union {s}
  /\ UNCHANGED <<kind, attested, attestInFlight>>

\* A group in flight is rejected by the contract or outlives its last round.
DropAttest(s) ==
  /\ attestInFlight[s] > 0
  /\ attestInFlight' = [attestInFlight EXCEPT ![s] = @ - 1]
  /\ UNCHANGED <<kind, attested, executed, executeInFlight>>

DropExecute(s) ==
  /\ executeInFlight[s] > 0
  /\ executeInFlight' = [executeInFlight EXCEPT ![s] = @ - 1]
  /\ UNCHANGED <<kind, attested, executed, attestInFlight>>

ChainNext ==
  \E s \in Seqs :
    LandAttest(s) \/ LandExecute(s) \/ DropAttest(s) \/ DropExecute(s)
=============================================================================
