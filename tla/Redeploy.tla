------------------------------ MODULE Redeploy ------------------------------
(***************************************************************************)
(* The NTT contracts on Base are deployed anew (README.md, "Contract       *)
(* migration"): update_ntt_addresses.sh puts the new addresses into .env,  *)
(* update_algorand_peers.py points the two Algorand contracts at them, and *)
(* relay_service.py is restarted to follow the new emitter.                *)
(*                                                                         *)
(* The peers are set by two transactions that are not one group.  The      *)
(* service goes on while they are changed, reads the emitter once, when it *)
(* starts, and keeps one table for both deployments, by sequence number.   *)
(* Its steps fail as they do in RelayService; messages that are no         *)
(* transfers, pages and a missing mnemonic are left to that module.        *)
(***************************************************************************)
EXTENDS Naturals, FiniteSets

CONSTANTS
  Seqs,          \* sequence numbers: each deployment's emitter starts at 0
  MaxAttempts,   \* 5 in the code
  Sent,          \* bound: the messages, <<deployment, sequence>>, that are ever sent
  MaxInFlight,   \* bound: groups, and peer updates, of unknown fate at a time
  Targets,       \* deployments whose addresses the script is run with
  Settings       \* what the operator does and what fails, in one behaviour:
                 \* [procedure, faults], of Precautions and of StepFaults

Deployments == {"old", "new"}

\* What an operator may do beyond the documented procedure.
Precautions ==
  { "drain",    \* pause the old contracts until every message is settled
    "stop",     \* keep the service down until the peers are updated
    "table" }   \* give it a DB_FILE of its own for the new emitter

StepFaults ==
  { "scan",            \* the listing fails
    "fetch",           \* the VAA of one message is not served
    "raise",           \* a step raises before it sends its group
    "attestSend",      \* step 1 sends nothing the node takes, and says nothing
    "attestTimeout",   \* the attest group is not seen to confirm
    "boxRead",         \* a box that is there cannot be read
    "executeSend",     \* the execute group is refused by the node
    "executeTimeout" } \* the execute group is not seen to confirm

ASSUME RedeploySeqsAssumption == Seqs \subseteq Nat
ASSUME RedeployAttemptsAssumption == MaxAttempts \in Nat \ {0}
ASSUME InFlightAssumption == MaxInFlight \in Nat
ASSUME SentAssumption == Sent \subseteq Deployments \X Seqs
ASSUME TargetsAssumption == Targets \subseteq Deployments
ASSUME SettingsAssumption ==
  Settings \subseteq [procedure : SUBSET Precautions, faults : SUBSET StepFaults]

VARIABLES
  setting,           \* what is done and what fails in this behaviour
  signed,            \* messages listed per deployment
  attested,          \* messages, <<deployment, sequence>>, with an attestation
  executed,          \* messages whose tokens are minted
  groups,            \* groups of the steps whose fate the service does not know
  managerPeer,       \* the NTT manager's peer, box ntt_manager_peer_
  transceiverPeer,   \* the transceiver's peer, box wormhole_peer_
  inFlight,          \* peer updates whose fate the script does not know
  script,            \* where update_algorand_peers.py is
  target,            \* the addresses it was given
  updated,           \* what it last reported: "Both peers updated", or "none"
  config,            \* BASE_EMITTER in .env
  emitter,           \* EMITTER of the service, read when it was started
  archive,           \* column status of the DB_FILE left behind
  status,            \* column status, "none" when the sequence has no row
  attempts,          \* column attempts
  pc,                \* where the service is
  work               \* sequences ahead of the loop

chainVars == <<attested, executed, groups>>
peerVars == <<managerPeer, transceiverPeer, inFlight>>
scriptVars == <<script, target, updated>>
startVars == <<emitter, archive>>
tableVars == <<status, attempts>>
serviceVars == <<startVars, tableVars, pc, work>>
vars == <<setting, signed, chainVars, peerVars, scriptVars, config, serviceVars>>

Statuses == {"none", "pending", "attested", "complete", "failed"}
Final == {"complete", "failed"}
Messages == Deployments \X Seqs
StepPoints == {"attest", "attestOk", "execute", "executing", "executeOk"}
Groups == {"attest", "execute"} \X Messages
Updates == {"manager", "transceiver"} \X Deployments

TypeOK ==
  /\ setting \in Settings
  /\ signed \in [Deployments -> SUBSET Seqs]
  /\ attested \subseteq Messages
  /\ executed \subseteq Messages
  /\ groups \subseteq Groups
  /\ managerPeer \in Deployments
  /\ transceiverPeer \in Deployments
  /\ inFlight \subseteq Updates
  /\ script \in {"idle", "manager", "transceiver"}
  /\ target \in Deployments
  /\ updated \in Deployments \union {"none"}
  /\ config \in Deployments
  /\ emitter \in Deployments
  /\ archive \in [Seqs -> Statuses]
  /\ status \in [Seqs -> Statuses]
  /\ attempts \in [Seqs -> 0..MaxAttempts]
  /\ pc \in {"down", "idle", "scan"} \union StepPoints
  /\ work \subseteq Seqs

Init ==
  /\ setting \in Settings
  /\ signed = [d \in Deployments |-> {}]
  /\ attested = {} /\ executed = {} /\ groups = {}
  /\ managerPeer = "old" /\ transceiverPeer = "old" /\ inFlight = {}
  /\ script = "idle" /\ target = "old" /\ updated = "none"
  /\ config = "old" /\ emitter = "old"
  /\ archive = [s \in Seqs |-> "none"]
  /\ status = archive /\ attempts = [s \in Seqs |-> 0]
  /\ pc = "down" /\ work = {}

Takes(precaution) == precaution \in setting.procedure
Fails(fault) == fault \in setting.faults

\* A step's group is broadcast, and its sender does not learn its fate.
Broadcast(step, message) ==
  /\ Cardinality(groups) < MaxInFlight
  /\ groups' = groups \union {<<step, message>>}
-----------------------------------------------------------------------------
\* update_algorand_peers.py.

\* The operator runs it, or runs it again, until it reports success.
RunScript(t) ==
  /\ script = "idle" /\ updated = "none"
  /\ config = "new"
  /\ script' = "manager"
  /\ target' = t
  /\ UNCHANGED <<setting, signed, chainVars, peerVars, updated, config, serviceVars>>

SetManagerPeer ==
  /\ script = "manager"
  /\ managerPeer' = target
  /\ script' = "transceiver"
  /\ UNCHANGED <<setting, signed, chainVars, transceiverPeer, inFlight,
                 target, updated, config, serviceVars>>

SetTransceiverPeer ==
  /\ script = "transceiver"
  /\ transceiverPeer' = target
  /\ script' = "idle"
  /\ updated' = target
  /\ UNCHANGED <<setting, signed, chainVars, managerPeer, inFlight,
                 target, config, serviceVars>>

\* Mutant: a failure is printed and the script goes on.
PrintsAndGoesOn == script' = IF script = "manager" THEN "transceiver" ELSE "idle"

\* Either transaction fails: "Fix and re-run", and the script exits.
Exits == script' = "idle"

\* The node refuses the transaction.
UpdateFails ==
  /\ script \in {"manager", "transceiver"}
  /\ Exits
  /\ UNCHANGED <<setting, signed, chainVars, peerVars, target, updated,
                 config, serviceVars>>

\* It is not seen to confirm within 12 rounds, and stays valid for longer.
UpdateTimesOut ==
  /\ script \in {"manager", "transceiver"}
  /\ Cardinality(inFlight) < MaxInFlight
  /\ inFlight' = inFlight \union {<<script, target>>}
  /\ Exits
  /\ UNCHANGED <<setting, signed, chainVars, managerPeer, transceiverPeer,
                 target, updated, config, serviceVars>>

UpdateLands(u) ==
  /\ u \in inFlight
  /\ inFlight' = inFlight \ {u}
  /\ managerPeer' = IF u[1] = "manager" THEN u[2] ELSE managerPeer
  /\ transceiverPeer' = IF u[1] = "transceiver" THEN u[2] ELSE transceiverPeer
  /\ UNCHANGED <<setting, signed, chainVars, scriptVars, config, serviceVars>>

UpdateExpires(u) ==
  /\ u \in inFlight
  /\ inFlight' = inFlight \ {u}
  /\ UNCHANGED <<setting, signed, chainVars, managerPeer, transceiverPeer,
                 scriptVars, config, serviceVars>>

Script ==
  \/ SetManagerPeer \/ SetTransceiverPeer \/ UpdateFails \/ UpdateTimesOut
  \/ \E t \in Targets : RunScript(t)
-----------------------------------------------------------------------------
\* The service, as in RelayService.

Retryable(s) == status[s] \in {"pending", "attested"} /\ attempts[s] < MaxAttempts

\* Mutant: without a complete row, the last complete sequence is 0, not -1.
BeyondZero(s) == s > 0 /\ \A c \in Seqs : status[c] = "complete" => c < s

BeyondLastComplete(s) == \A c \in Seqs : status[c] = "complete" => c < s

IsNext(s) == s \in work /\ \A t \in work : s <= t

Settled(s) == status[s] = "complete" \/ attempts[s] >= MaxAttempts

\* Mutant: one past it, a sequence counted as if it were the next one to read.
FollowingMessage(s) == <<emitter, s + 1>>

\* The VAA the service fetches for sequence s, of the emitter it knows.
Message(s) == <<emitter, s>>

\* It reads EMITTER and DB_FILE once, here.
Start ==
  /\ pc = "down"
  /\ Takes("stop") /\ config = "new" => updated = "new"
  /\ pc' = "idle"
  /\ emitter' = config
  /\ IF Takes("table") /\ emitter # config
     THEN /\ archive' = status
          /\ status' = [s \in Seqs |-> "none"] /\ attempts' = [s \in Seqs |-> 0]
     ELSE UNCHANGED <<archive, tableVars>>
  /\ UNCHANGED <<setting, signed, chainVars, peerVars, scriptVars, config, work>>

\* systemctl restart, or a crash: between any two steps.
Goes ==
  /\ pc # "down"
  /\ pc' = "down"
  /\ work' = {}
  /\ UNCHANGED <<setting, signed, attested, executed, peerVars, scriptVars, config,
                 startVars, tableVars>>

Stop == Goes /\ UNCHANGED groups

\* It dies with its group broadcast.
StopSending(s) ==
  /\ IsNext(s)
  /\ \/ pc = "attest" /\ Broadcast("attest", Message(s))
     \/ pc = "executing" /\ Broadcast("execute", Message(s))
  /\ Goes

Stopped == Stop \/ \E s \in Seqs : StopSending(s)

Poll ==
  /\ pc = "idle"
  /\ work' = {s \in Seqs : Retryable(s)}
               \union {s \in signed[emitter] : BeyondLastComplete(s)}
  /\ pc' = "scan"
  /\ UNCHANGED <<setting, signed, chainVars, peerVars, scriptVars, config,
                 startVars, tableVars>>

\* Without a listing only retries are left.
PollUnlisted ==
  /\ Fails("scan")
  /\ pc = "idle"
  /\ work' = {s \in Seqs : Retryable(s)}
  /\ pc' = "scan"
  /\ UNCHANGED <<setting, signed, chainVars, peerVars, scriptVars, config,
                 startVars, tableVars>>

EndPoll ==
  /\ pc = "scan" /\ work = {}
  /\ pc' = "idle"
  /\ UNCHANGED <<setting, signed, chainVars, peerVars, scriptVars, config,
                 startVars, tableVars, work>>

PassOver(s) ==
  /\ pc = "scan" /\ IsNext(s) /\ Settled(s)
  /\ status' = [status EXCEPT ![s] = IF @ = "complete" THEN @ ELSE "failed"]
  /\ work' = work \ {s}
  /\ UNCHANGED <<setting, signed, chainVars, peerVars, scriptVars, config,
                 startVars, attempts, pc>>

\* The break on a failure.
Abandon == pc' = "idle" /\ work' = {}

\* The VAA is not served, or the emitter the service knows has none of that number.
FetchFails(s) ==
  /\ pc = "scan" /\ IsNext(s) /\ ~Settled(s)
  /\ s \notin signed[emitter] \/ Fails("fetch")
  /\ Abandon
  /\ UNCHANGED <<setting, signed, chainVars, peerVars, scriptVars, config,
                 startVars, tableVars>>

Fetch(s) ==
  /\ pc = "scan" /\ IsNext(s) /\ ~Settled(s)
  /\ s \in signed[emitter]
  /\ status' = [status EXCEPT ![s] = IF @ = "none" THEN "pending" ELSE @]
  /\ pc' = IF status[s] = "attested" THEN "execute" ELSE "attest"
  /\ UNCHANGED <<setting, signed, chainVars, peerVars, scriptVars, config,
                 startVars, attempts, work>>

\* Either step raises: attempts + 1, and the loop breaks.
AttemptFails(s) ==
  /\ attempts' = [attempts EXCEPT ![s] = @ + 1]
  /\ Abandon
  /\ UNCHANGED <<setting, signed, attested, executed, peerVars, scriptVars, config,
                 startVars, status>>

StepRaises(s) ==
  /\ Fails("raise")
  /\ pc \in {"attest", "execute"} /\ IsNext(s)
  /\ AttemptFails(s)
  /\ UNCHANGED groups

\* Step 1: the transceiver accepts messages of its peer, once.  Consumed or
\* rejected, relay_vaa returns and step 1 answers True all the same.
Attest(s) ==
  /\ pc = "attest" /\ IsNext(s)
  /\ attested' = IF transceiverPeer = emitter THEN attested \union {Message(s)}
                                              ELSE attested
  /\ pc' = "attestOk"
  /\ UNCHANGED <<setting, signed, executed, groups, peerVars, scriptVars, config,
                 startVars, tableVars, work>>

\* It does so too when it sends nothing, or gives up on what it has sent.
AttestSwallowed(s) ==
  /\ pc = "attest" /\ IsNext(s)
  /\ \/ Fails("attestSend") /\ UNCHANGED groups
     \/ Fails("attestTimeout") /\ Broadcast("attest", Message(s))
  /\ pc' = "attestOk"
  /\ UNCHANGED <<setting, signed, attested, executed, peerVars, scriptVars, config,
                 startVars, tableVars, work>>

MarkAttested(s) ==
  /\ pc = "attestOk" /\ IsNext(s)
  /\ status' = [status EXCEPT ![s] = "attested"]
  /\ pc' = "execute"
  /\ UNCHANGED <<setting, signed, chainVars, peerVars, scriptVars, config,
                 startVars, attempts, work>>

\* Step 2: src_ntt against the manager's peer, attested, not yet executed.
PreflightOk(s) ==
  /\ managerPeer = emitter
  /\ Message(s) \in attested \ executed

\* A box that cannot be read counts as absent: preflight fails, or takes a message
\* that is executed for one that is not.
ExecuteSkipped(s) ==
  /\ pc = "execute" /\ IsNext(s)
  /\ ~PreflightOk(s) \/ Fails("boxRead")
  /\ pc' = "executeOk"
  /\ UNCHANGED <<setting, signed, chainVars, peerVars, scriptVars, config,
                 startVars, tableVars, work>>

ExecuteBuilt(s) ==
  /\ pc = "execute" /\ IsNext(s)
  /\ PreflightOk(s) \/ (Message(s) \in executed /\ Fails("boxRead"))
  /\ pc' = "executing"
  /\ UNCHANGED <<setting, signed, chainVars, peerVars, scriptVars, config,
                 startVars, tableVars, work>>

ExecuteConfirmed(s) ==
  /\ pc = "executing" /\ IsNext(s)
  /\ PreflightOk(s)
  /\ executed' = executed \union {Message(s)}
  /\ pc' = "executeOk"
  /\ UNCHANGED <<setting, signed, attested, groups, peerVars, scriptVars, config,
                 startVars, tableVars, work>>

\* The node refuses the group, or the contract does: the peer has changed since
\* preflight, or an earlier group has landed.
ExecuteRefused(s) ==
  /\ pc = "executing" /\ IsNext(s)
  /\ ~PreflightOk(s) \/ Fails("executeSend")
  /\ AttemptFails(s)
  /\ UNCHANGED groups

ExecuteTimesOut(s) ==
  /\ Fails("executeTimeout")
  /\ pc = "executing" /\ IsNext(s)
  /\ Broadcast("execute", Message(s))
  /\ AttemptFails(s)

MarkComplete(s) ==
  /\ pc = "executeOk" /\ IsNext(s)
  /\ status' = [status EXCEPT ![s] = "complete"]
  /\ pc' = "scan"
  /\ work' = work \ {s}
  /\ UNCHANGED <<setting, signed, chainVars, peerVars, scriptVars, config,
                 startVars, attempts>>

Process(s) ==
  \/ PassOver(s) \/ FetchFails(s) \/ Fetch(s) \/ StepRaises(s)
  \/ Attest(s) \/ AttestSwallowed(s) \/ MarkAttested(s)
  \/ ExecuteSkipped(s) \/ ExecuteBuilt(s) \/ ExecuteConfirmed(s)
  \/ ExecuteRefused(s) \/ ExecuteTimesOut(s) \/ MarkComplete(s)

Service == Start \/ Poll \/ PollUnlisted \/ EndPoll \/ \E s \in Seqs : Process(s)
-----------------------------------------------------------------------------
\* The environment.

\* Each emitter numbers its messages from its own first one.
Sign(d, s) ==
  /\ <<d, s>> \in Sent
  /\ s \notin signed[d]
  /\ \A t \in Seqs : t < s => t \in signed[d]
  /\ d = "old" /\ Takes("drain") => config = "old"
  /\ signed' = [signed EXCEPT ![d] = @ \union {s}]
  /\ UNCHANGED <<setting, chainVars, peerVars, scriptVars, config, serviceVars>>

\* A group in flight is included, if the contract's peer is its sender's
\* deployment, or it is dropped.
GroupLands(g) ==
  LET message == g[2] IN
  /\ g \in groups
  /\ groups' = groups \ {g}
  /\ \/ /\ g[1] = "attest" /\ transceiverPeer = message[1]
        /\ attested' = attested \union {message}
        /\ UNCHANGED executed
     \/ /\ g[1] = "execute" /\ managerPeer = message[1]
        /\ message \in attested \ executed
        /\ executed' = executed \union {message}
        /\ UNCHANGED attested
  /\ UNCHANGED <<setting, signed, peerVars, scriptVars, config, serviceVars>>

GroupExpires(g) ==
  /\ g \in groups
  /\ groups' = groups \ {g}
  /\ UNCHANGED <<setting, signed, attested, executed, peerVars, scriptVars, config,
                 serviceVars>>

\* The first step of the procedure: the service's .env has the new addresses
\* ("Contract migration"; update_ntt_addresses.sh edits two others).
UpdateEnv ==
  /\ config = "old"
  /\ Takes("drain") => \A s \in signed["old"] : status[s] \in Final
  /\ Takes("stop") => pc = "down"
  /\ config' = "new"
  /\ UNCHANGED <<setting, signed, chainVars, peerVars, scriptVars, serviceVars>>

Next ==
  \/ Script \/ Service \/ Stopped \/ UpdateEnv
  \/ \E g \in Groups : GroupLands(g) \/ GroupExpires(g)
  \/ \E u \in Updates : UpdateLands(u) \/ UpdateExpires(u)
  \/ \E d \in Deployments, s \in Seqs : Sign(d, s)

Spec == Init /\ [][Next]_vars

\* The operator runs the script until it has succeeded, and its transactions do
\* not fail for ever.  The service never rests and is stopped finitely often, and
\* neither its listing nor a VAA fails for ever.
Fairness ==
  /\ \A t \in Targets : WF_vars(RunScript(t))
  /\ WF_vars(Script) /\ SF_vars(SetManagerPeer) /\ SF_vars(SetTransceiverPeer)
  /\ WF_vars(Service) /\ SF_vars(Poll) /\ \A s \in Seqs : SF_vars(Fetch(s))
  /\ <>[][~Stopped]_vars

FairSpec == Spec /\ Fairness
-----------------------------------------------------------------------------
\* Every run is given the same addresses ("Fix and re-run").
OneTarget == Targets \subseteq {"new"}

\* Under OneTarget: once the script has reported both peers updated, they stay
\* so, whichever of its earlier runs failed half way (update_algorand_peers.py:
\* 218, 228), and whichever of their transactions lands after the report.
PeersMatch ==
  updated # "none" => managerPeer = updated /\ transceiverPeer = updated

\* An interrupted migration is ended by running the script again: when it has
\* begun, the peers of both contracts are the new ones for good.
MigrationEnds == config = "new" ~> [](managerPeer = "new" /\ transceiverPeer = "new")

AllPrecautions == setting.procedure = Precautions

\* What a careful operator cannot do anything about: a step that answers True for
\* something it has not seen done (AttestedIsOnChain, CompleteIsMinted).
ReliableSteps ==
  setting.faults \intersect {"attestSend", "attestTimeout", "boxRead"} = {}

Careful == AllPrecautions /\ ReliableSteps

\* The rows of a deployment: the table's while the service follows its emitter,
\* and those of the DB_FILE left behind afterwards.
Rows(d) ==
  IF d = emitter THEN status
  ELSE IF d = "old" THEN archive ELSE [s \in Seqs |-> "none"]

\* With every precaution taken, a complete row means tokens minted for the
\* message it was written for (docs/db.md:69), before, during and after a
\* migration that may fail half way, however steps are refused, time out and are
\* retried on either side of it.
CarefulCompleteIsMinted ==
  Careful =>
    \A d \in Deployments, s \in Seqs :
      Rows(d)[s] = "complete" => <<d, s>> \in executed

\* With every precaution taken, no message is lost between the deployments: it is
\* minted, or the table of its deployment says that it failed.  A message of the
\* new one is waited for once its addresses are in .env.
CarefulMintedOrFailed ==
  \A d \in Deployments, s \in Seqs :
    Careful /\ s \in signed[d] /\ (d = "new" => config = "new")
      ~> <<d, s>> \in executed \/ Rows(d)[s] = "failed"

(***************************************************************************)
(* The promise: OrderedRelay, kept to the senders of either deployment.    *)
(***************************************************************************)

Minted(d) == {s \in Seqs : <<d, s>> \in executed}

Outcomes(d) ==
  [s \in Seqs |-> IF Rows(d)[s] \in Final THEN Rows(d)[s] ELSE "open"]

OldPromise == INSTANCE OrderedRelay
                WITH listed <- signed["old"], minted <- Minted("old"),
                     outcome <- Outcomes("old")

NewPromise == INSTANCE OrderedRelay
                WITH listed <- signed["new"], minted <- Minted("new"),
                     outcome <- Outcomes("new")

\* With every precaution taken, the one service with its one table keeps the
\* promise of OrderedRelay to both deployments across the migration: each
\* emitter's messages are settled in its own order, as complete or failed, once
\* and for good, though both count from 0 and groups of the one may land after the
\* service has turned to the other.
KeepsBothPromises ==
  /\ OldPromise!Init /\ NewPromise!Init
  /\ [][Careful => /\ [OldPromise!Next]_(OldPromise!vars)
                  /\ [NewPromise!Next]_(NewPromise!vars)]_vars

\* Every message of the new deployment is relayed once its addresses are in
\* .env (docs/base_to_algo.md:21), or its row says failed.
NewMintedOrFailed ==
  \A s \in Seqs :
    config = "new" /\ s \in signed["new"]
      ~> <<"new", s>> \in executed \/ Rows("new")[s] = "failed"
-----------------------------------------------------------------------------
(***************************************************************************)
(* What makes the safety properties inductive.                             *)
(***************************************************************************)

\* A sequence the service is at has attempts left.
AttemptsLeft ==
  \A s \in Seqs :
    pc \in StepPoints /\ IsNext(s) => attempts[s] < MaxAttempts

TypeInv == TypeOK /\ AttemptsLeft

\* Under OneTarget: nothing but the new deployment is ever set, and the second
\* transaction is sent when the first is in.
PeersOnWay ==
  /\ updated \in {"none", "new"}
  /\ script # "idle" => target = "new"
  /\ \A u \in inFlight : u[2] = "new"
  /\ script = "transceiver" => managerPeer = "new"

PeersInv == PeersMatch /\ PeersOnWay

\* Until .env is changed nothing has begun.
NotBegun ==
  config = "old" =>
    /\ emitter = "old" /\ managerPeer = "old" /\ transceiverPeer = "old"
    /\ inFlight = {} /\ script = "idle" /\ updated = "none"

\* A running service has the emitter of .env, and the new one only when the
\* peers are updated.
ServiceAgrees ==
  pc # "down" => /\ emitter = config
                 /\ config = "new" => updated = "new"

\* What the rows say of the message the service would fetch.
RowsAgree ==
  \A s \in Seqs :
    /\ status[s] \in {"attested", "complete"} => Message(s) \in attested
    /\ status[s] = "complete" => Message(s) \in executed
    /\ IsNext(s) /\ pc \in {"attestOk", "execute", "executing"}
         => Message(s) \in attested
    /\ IsNext(s) /\ pc = "executeOk" => Message(s) \in attested \intersect executed

\* What the rows left behind said was true, and remains so.
ArchiveAgrees == \A s \in Seqs : archive[s] = "complete" => <<"old", s>> \in executed

CarefulInv == Careful => NotBegun /\ ServiceAgrees /\ RowsAgree /\ ArchiveAgrees

\* What the loop knows of the message it is at.
LoopKnows ==
  \A s \in Seqs : IsNext(s) =>
    /\ pc \in {"attest", "attestOk"} => status[s] = "pending"
    /\ pc \in {"execute", "executing", "executeOk"} => status[s] = "attested"

\* No row is given up before its attempts are used up.
FailedIsOut == \A s \in Seqs : status[s] = "failed" => attempts[s] >= MaxAttempts

\* Messages are signed without gaps, rows and work are the emitter's, and below
\* what the loop has ahead of it everything is settled or ahead of it too.
InOrder ==
  /\ \A d \in Deployments, t \in Seqs :
       \A s \in signed[d] : t < s => t \in signed[d]
  /\ work \subseteq signed[emitter]
  /\ pc \in {"down", "idle"} => work = {}
  /\ \A s \in Seqs : status[s] # "none" => s \in signed[emitter]
  /\ \A s, t \in Seqs : t < s /\ status[s] # "none" => status[t] \in Final
  /\ \A s \in work, t \in Seqs : t < s => status[t] \in Final \/ t \in work

BothInv == Careful => LoopKnows /\ FailedIsOut /\ InOrder
=============================================================================
