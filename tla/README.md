# Formal models of the Wormhole NTT relayer

TLA+ models of the relayer that carries NTT transfers between Base and
Algorand, TLC runs that check them on small instances, and TLAPS proofs of the
main safety properties for every size of instance. Every definition is
translated from the source; `PROJECT.json` maps each one to the lines it stands
for.

## 1. The system

Two independent services and a few scripts. Tokens are burned on one chain, the
Wormhole guardians sign a message (VAA), WormholeScan lists it, and a service
brings it to the other chain.

| Component | State it keeps | Operations | Talks to |
|---|---|---|---|
| `base_to_algo/relay_service.py` | SQLite table `sequences` (`status`, `attempts`, and columns only read by people); the flag `_running`; the list of one poll | `run`: list, merge with the retries, one `process_sequence` each, break on failure; `handle_signal` | WormholeScan, steps 1 and 2 (imported and called) |
| `base_to_algo/base-relayer.py` (step 1, "attest") | accounts opted in on chain; a file with the compiled `vaa_verify` program, shared by all processes of the server | `relay_vaa`: look up consumed, load the program, opt in, build the group, send, swallow a failed send | Algorand node, contracts |
| `base_to_algo/ntt_execute.py` (step 2, "execute") | none | `execute_ntt`: parse, preflight over three boxes, opt in, send, re-raise a failed send | Algorand node, contracts |
| Algorand contracts (external) | peers, attestations, consumed VAAs, executed messages, guardian set | receive_message, execute_message, verifySigs, verifyVAA | — |
| `algo_to_base/cast_relayer.py` | SQLite table `relayed` (a row is a success) | loop: list, skip rows, `cast_redeem`, write the row | WormholeScan, `cast send`, transceiver on Base |
| `utils/relay-once.sh` | none | the same cast for one sequence, by hand | as above |
| `utils/update_algorand_peers.py` | peers of two contracts on chain | two transactions, one per contract | Algorand node |
| `utils/update_ntt_addresses.sh` | addresses in sources and in two `.env` files, neither of them the service's | text substitution | files |
| `utils/ntt_digest.py`, `ntt_debug.py`, `check_consumed.py`, `inspect_tx.py` | none | compute digests and box names, print | Algorand node |
| `setup.sh`, systemd units | installed services | install; `Restart=always` | systemd |

How they interact. `relay_service.py` runs both steps in its own process, one
message at a time, and learns only whether a step returned or raised. The two
services share no state. What changes under a service's feet is the chain
(groups that are included late, an operator who runs a step script) and the
listing.

What is hard.

* The two sources of truth, the table and the chain, are never updated
  together. Every pair of steps can be separated by a crash, a SIGTERM (Base to
  Algorand only: the other service has no handler) or a restart by systemd.
* A group that is not seen to confirm in time is still valid for hundreds of
  rounds and may land during the retry, or after the last one.
* "Returned" is not "done": both steps have ways to return with nothing on
  chain, and both depend on box reads that answer "absent" on any error.
* The listing is one page, cut at the highest complete sequence, and need not
  be in the order of the sequences.
* Failures end a poll on the Base to Algorand side and cost one message its turn
  on the other; the retry limit is tested at two places in opposite directions.
* A redeploy on Base changes the emitter, the peers of two contracts and the
  service in four steps, while messages of the old deployment are under way and
  the table goes on.
* Five scripts have a parser and digest formulas of their own for the same
  bytes. A box under another digest is simply absent.
* Everything step 1 sends is arithmetic on bytes: blocks of nine signatures, keys
  in values of 127 bytes, patches that move the ones behind them, pages of
  sequence numbers.

What makes each component correct.

* Relay service: no message skipped, none reopened, none retried too often;
  statuses that tell the truth about the chain; every listed message brought to
  an end.
* Steps 1 and 2: a message is attested and minted at most once whatever is
  retried (the contracts' promise, which the models state), and a step that
  returns has done its work or found it done.
* Cast relayer: a row stands for a received message, is never lost and never
  sent again; a message that fails holds up no other.
* Peer migration: the two contracts end up with matching peers, and the table
  tells the truth about messages of both deployments.
* Digests and group building: the scripts hash the bytes the contracts hash,
  every guardian key meets its own signature, and the patched LogicSig is the
  program the address was derived from.

`PROJECT.json` "hazards" lists each of these dangers with the line where it
bites and the properties that watch it.

## 2. The modules

| Module | Models | Used by |
|---|---|---|
| `NttContracts` | the contracts on Algorand, external: what the service relies on | `RelayService` |
| `RelayService` | `relay_service.py` with both steps, crashes, signals, an operator | `relay_*`, `unread_box`, `page_overflow` |
| `OrderedRelay` | the abstract promise: in order, once, truthfully | `RelayService!KeepsPromise`, `Redeploy!KeepsBothPromises` |
| `CastRelayer` | `cast_relayer.py`, `relay-once.sh` and the transceiver on Base | `cast_faults` |
| `Redeploy` | `update_algorand_peers.py`, the migration procedure around it, the relay service across it | `redeploy`, `redeploy_table` |
| `NttMessage` | the parsers and digests of all five scripts | `StepScripts` |
| `GuardianGroup` | signature blocks, guardian keys, the template, pages: pure functions | `StepScripts` |
| `StepScripts` | steps 1 and 2 inside, run by the service and by operators: files, accounts, groups, boxes, and the rows the service makes of them | `step_scripts`, `attest_swallowed`, `program_unverified`, `reboot_forgets` |
| `RelayServiceProofs`, `CastRelayerProofs`, `RedeployProofs`, `NttMessageProofs`, `GuardianGroupProofs`, `StepScriptsProofs` | the theorems about the module they are named after | TLAPS |
| `UvarintProofs` | the theorems about `GuardianGroup!Uvarint`, the one recursive function | TLAPS |
| `MCRelayService`, `MCCastRelayer`, `MCRedeploy`, `MCStepScripts` | instances for TLC | the configurations |

`RelayService` takes the two step scripts for steps that succeed or fail in every
way they can. `StepScripts` opens them up, leaves the node's failures out, and has
of the service what it makes of a step's end. `Redeploy` has the service of
`RelayService`, with the faults of its steps, and a second deployment; messages
that are no transfers and pages are left out there. Each hazard is looked at in the
module that has the detail it needs; together in one module, the state space would
be their product. `RelayService` and `Redeploy` implement `OrderedRelay`.

### RelayService and the code

State. `status` and `attempts` are the columns of the table, `"none"` standing
for no row. `running` is `_running`. `work` is `all_seqs` without what the loop
is done with; the loop takes its least element (`IsNext`), because the code
sorts. `pc` is where the process is: `down`, `idle` between polls, `scan` in the
loop, and three points for each step: about to run it, group built and about to
be sent, returned True with the row not yet updated. These are the points
between which the environment, a crash or another sender makes a difference.
`visible` is what WormholeScan lists.

| Action | Code |
|---|---|
| `Poll`, `PollUnlisted` | the retry query, `db_last_complete`, `fetch_new_vaas` (which answers `[]` on an error), the merge |
| `PassOver` | the early returns of `process_sequence` for a complete row and for one out of attempts |
| `Fetch`, `FetchFails` | fetching and decoding the VAA, inserting the row, choosing the step |
| `SetupMissing` | a step returns False: the poll ends, no attempt is counted |
| `StepRaises` | a step raises: the attempt is counted, the poll ends |
| `AttestSkipped`, `AttestBuilt` | step 1's returns with nothing sent, and the way to the send |
| `AttestConfirmed`, `AttestSwallowed`, `AttestTimesOut` | the send and its `except`, which prints and returns |
| `MarkAttested` | the update to `attested` |
| `ExecuteSkipped`, `ExecuteBuilt` | `execute_ntt`'s parse and preflight, with their early returns |
| `ExecuteConfirmed`, `ExecuteRefused`, `ExecuteTimesOut` | the send and its `except`, which raises again |
| `MarkComplete` | the update to `complete` |
| `EndPoll`, `Stop`, `Start`, `Sigterm` | the end of the loop, the end of `run`, systemd, `handle_signal` |
| `Crash`, `CrashAttesting`, `CrashExecuting` | the process dies, in the last two with its group broadcast |
| `OperatorAttests`, `OperatorExecutes` | the step scripts run from the command line |

What the environment may do is the constant `Faults`, a set of named faults.
Each one enables exactly the actions of the code path it triggers, so that a run
or a theorem can say which faults a property survives. The assumptions
`OrderlyListing`, `ReliableAttest` and `ReliableBoxes` name the three sets that
matter. `OrderlyListing` leaves out two: `"late"`, a message listed after one with a
higher sequence, and `"backlog"`, a page full of messages above one that is not
settled. It bounds how far the listing runs ahead of the service at any time, by a
page, and not how many messages there are: without `"backlog"`, `Publish` waits
(`KeepsUp`) until the service has settled the oldest.

Messages have a `kind`: a transfer to this manager, a message for someone else
(`alien`), or one the parsers raise on (`malformed`). Payload bytes, digests,
transaction ids and timestamps are left out: nothing in the loop reads them.

### CastRelayer and the code

`relayed` is the table, `current` the message `cast send` is running for, `work`
what is left of the listing, `pc` where the process is. `cast_redeem` ends in
one of five ways: accepted, reverted and told so, reverted and not told so, failed,
gave up on a transaction already broadcast. The code looks at the exit code and at
the hash, not at the receipt's status (99-109), so that a revert may pass for a
delivery: the fault `"revertHash"`, action `RevertUnseen`. The loop takes entries in
the order of the listing, which the code does not sort: any order is allowed. The
transceiver on Base accepts a transfer once, unless its peers are unset or it is
paused (`accepting`).

An untold revert does no harm by itself, for what the contract refuses has been
received before or never will be: `RelayedIsReceived` and `EveryTransferReceived`
cover it. Refused during a pause and not told so, a transfer is lost with a row that
says it is relayed. `RevertsAreTold` excludes the two faults together, and nothing else.

### Redeploy and the code

`config` is `BASE_EMITTER` in the service's `.env`, `emitter` the service's
`EMITTER`, which it reads at its start. `managerPeer` and `transceiverPeer` are the
peers of the two contracts, `script` where `update_algorand_peers.py` is, `updated`
what it has last reported, `inFlight` its transactions of unknown fate, `groups` those
of the steps. A message is a deployment and a sequence number; the table, as in the
code, has the number only. `archive` is the table of a `DB_FILE` left behind.

| Action | Code |
|---|---|
| `UpdateEnv` | the first step of the documented procedure (README.md, "Contract migration"): the new emitter is in the `.env` the unit names (setup.sh:34, 106). External: `update_ntt_addresses.sh`, which the procedure runs for it, edits `~/wormhole-relayer/.env` and `~/.env` (59-72), and the service's only where it is one of them |
| `RunScript` | `update_algorand_peers.py` up to its first transaction |
| `SetManagerPeer`, `SetTransceiverPeer` | the two transactions, confirmed |
| `UpdateFails`, `UpdateTimesOut` | an exception of either: message and `sys.exit(1)` |
| `UpdateLands`, `UpdateExpires` | what becomes of a transaction that timed out |
| `Start`, `Stop`, `StopSending` | the service is started and stopped, at any time, in the last with a group broadcast |
| `Poll`, `PollUnlisted`, `EndPoll`, `PassOver`, `Fetch`, `FetchFails`, `StepRaises`, `Attest`, `AttestSwallowed`, `MarkAttested`, `Execute*`, `MarkComplete` | the loop and its steps, with the failures of `RelayService`; the peers may change, and the service be stopped, between any two |
| `GroupLands`, `GroupExpires` | what becomes of a step's group that was not seen to confirm, under the peers of the day it lands |
| `Sign` | a message of either deployment is listed |

What the operator does and what fails is one variable, `setting`, that a behaviour
keeps: a set of precautions (`procedure`) and a set of step faults (`faults`). The
documented procedure is not enough for the service to tell the truth, whichever way
the script goes: a message of one deployment that reaches a step under the peers of
the other is taken for done. The three precautions are `"drain"` (old contracts are
paused and all old messages settled, as complete or as failed, before anything is
changed), `"stop"` (the service is down while the peers are changed) and `"table"`
(a `DB_FILE` of its own for the new emitter). The properties about a `Careful` operator
take all three, and steps that answer True for what they have done only
(`ReliableSteps`: the faults behind `unread_box` and the swallowed sends of step 1
make complete rows lie without any migration). All other faults are in: a listing
or a VAA that fails, a step that raises, an execute group that is refused, or times
out and lands in a later poll, after the last attempt, or after the service has turned
to the new deployment.

`Rows(d)` are the rows of a deployment: the table's while the service follows its
emitter, the left `DB_FILE`'s afterwards. A row that failed before the migration is
failed after it. `KeepsBothPromises` says for the messages of either deployment that
the service is an `OrderedRelay` with `Rows` as outcomes.

### StepScripts, NttMessage, GuardianGroup and the code

`NttMessage` has one operator for each thing a script takes from a payload: slices
with Python's bounds, the digests of step 1 (`AttestDigest`), step 2
(`LookupDigest`, `MsgDigest`), of the reference in `ntt_digest.py`
(`ReferenceDigest`, `RaisesInReference`) and of the tools (`DebugMsgDigest`,
`CheckConsumedDigest`). Keccak-256 stands for its preimage. `GuardianGroup` has the
functions of `base-relayer.py` on signatures, keys and the template, and what the
core expects to get (`AreCut`, `GuardianKey`, `CoreAccount`).

In `StepScripts` several processes run either script. A box stands for the messages
it is written for, an account for the messages of its page; a wrong digest or
program yields the empty set, which nothing on chain matches. One process is the
service: it takes the messages in order, runs each step once, takes a step that has
not raised for done (`MarkDone`), counts an attempt for one that has (`Raises`) and
gives up after `MaxAttempts`. The others are operators, who run any script at any
time and need not.

| Action | Code |
|---|---|
| `RunStep1` | `relay_vaa` up to `is_consumed`'s answer |
| `LoadCached`, `TealMissing`, `Compile` | `load_vaa_verify`, its three beginnings |
| `SaveCache` | `open(saved, "w").write(...)`, when nobody looks in between |
| `OpenCache`, `WriteCache` | the same in two steps, the file being empty in between (fault `"torn"`) |
| `Compare` | the look at `vphash`, which comes after the cache is written |
| `CheckAccount`, `OptIn` | `ensure_optin`: look, then opt in, which a second process cannot: it raises, and the answer "already in ledger" is taken for the attestation's (fault `"ledger"`, relay_service.py:157) |
| `SendGroup` | `parse_ntt`, which raises, and the group with its send, whose failure is swallowed |
| `RunStep2` | `execute_ntt` with a preflight that succeeds |
| `SendMessage` | the send of `execute_message`, whose failure is raised |
| `ServeStep1`, `ServeStep2`, `ReturnsAtOnce` | `process_sequence` runs a step: the script goes on, or returns at once because the VAA is consumed or preflight fails |
| `MarkDone`, `GiveUp` | the updates to `attested`, `complete` and `failed` |
| `Crash`, `Reboot`, `Upgrade`, `ReplaceTeal` | a script is killed; the server restarts and /tmp is empty; Wormhole changes its program; someone downloads its source again |

A service that swallows the refusal of a group tells the truth only if no group is
refused that was not second. That is what the module is about: `GroupIsAccepted` says
it of a group with the core's program in it, `RowsAreTrue` of the rows, `EventuallyMinted`
of what comes of it when scripts die. The last two are false where the cache can be
read while it is written, which is why `"torn"` is a fault of its own and
`attest_swallowed` its run.

### Mutants

Operators commented "Mutant:" are deliberately wrong variants of the definition
next to them, of the kind a plausible edit of the code would introduce: a counter
that is reset, a row updated before the send, a loop that goes on after a failure.
No specification uses them. Substituting one for its original makes TLC report
the property `PROJECT.json` pairs it with, which shows that the property depends
on that piece of the code.

## 3. The runs

Runs that pass:

| Run | Instance | What it shows |
|---|---|---|
| `relay_all_faults` | 2 messages of every kind, 16 faults at once, 2 groups in flight, page of 1; about 398,000 states | `TypeOK`; `RetryBudget`: never more than `MaxAttempts` attempts, never given up before; `HeadOfLine`: no work on a message while a lower one can still be retried; `RowsOnlyAdvance`: a row only moves along its lifecycle, across restarts |
| `relay_benign_faults` | 3 transfers listed in order, on pages of 2, 9 faults; about 323,000 states | `StrictlyInOrder`; `NoneForgotten`: what is not settled is in the retry query or the cut listing; `AttestedIsOnChain` and `CompleteIsMinted`: the status tells the truth about the chain; `KeepsPromise`: refinement of `OrderedRelay` |
| `relay_liveness` | 2 messages, one may be malformed; about 13,000 states | `EveryMessageSettles`: each listed message becomes complete or failed; `MintedOrFailed` |
| `cast_faults` | 3 messages of every kind, 6 faults, of which untold reverts and pauses in turn; about 86,000 states | `TypeOK`; `RelayedIsReceived`: a row hides no transfer still to be made; `RelayedForGood`: rows stay and are never sent again; `EveryTransferReceived` |
| `redeploy` | one old message, two new ones, 2 attempts; the documented procedure without faults, with two precautions and misleading steps, with all precautions and every other fault; about 74,000 states | `TypeOK`; `PeersMatch`: what the script reported stays true; `MigrationEnds`: running it again ends a migration, for good; `CarefulCompleteIsMinted`: with every precaution the table is true; `CarefulMintedOrFailed`: no message is lost between the deployments; `KeepsBothPromises`: refinement of `OrderedRelay` for either deployment |
| `step_scripts` | the service and an operator, 3 messages, 19 guardians, 2 attempts; four sets of faults; about 390,000 states | `TypeOK`; `GroupIsAccepted`: a group with the right program is refused only when another process was first; `RowsAreTrue`: attested rows are consumed and complete ones minted, though refusals are swallowed; `LookupsAgree`: step 1's and step 2's lookups fit together; `MessageIsAccepted`: what preflight lets through is refused only when another process was first; `EventuallyMinted`: the service has every transfer minted, whoever loses which race |

Runs that end in a counterexample, each with one property that a document of the
repository states and the code does not keep:

| Run | What happens |
|---|---|
| `attest_swallowed` | step 1 reads the cached program while another process has opened it for writing and gets none (base-relayer.py:156, 167); the node refuses the group, `relay_vaa` prints that and returns: the row says `attested` with nothing on chain (docs/db.md:68 says confirmed on-chain), and `complete` after a preflight that fails. |
| `unread_box` | a box read that fails makes preflight fail, `execute_ntt` returns, the row says `complete` with nothing minted (docs/db.md:69). |
| `page_overflow` | nothing fails: of more messages than a page holds beyond the last complete one the oldest are never seen, and cut off once a newer one completes (docs/base_to_algo.md:47). |
| `redeploy_table` | the operator is careful and the migration itself succeeds, but the table is keyed by the sequence number alone: messages of the new emitter below the old one's last complete sequence are never relayed (docs/base_to_algo.md:21). |
| `program_unverified` | a cached `vaa_verify` is used without comparing it with `vphash` (docs/base_to_algo.md:127). |
| `reboot_forgets` | after a reboot neither the cache nor the source is found, which is looked for in /tmp only (README.md:404-414 names another place first). |

Further disagreements, seen with the same models and without a run of their own:

* A message that is listed after a higher one has completed is below the cut of
  `fetch_new_vaas` (relay_service.py:126) and never gets a row. `OrderlyListing`
  excludes it where a property needs that.
* The last attempt's group can land after its timeout: step 2 waits 15 rounds
  (ntt_execute.py:380) for a group valid for 1000 (265). Tokens are minted, the row says
  `failed`, against docs/db.md:70. `FailedIsNotMinted` holds without timeouts, crashes and
  other senders, which the theorem `FailedNotMinted` shows.
* A revert that `cast` does not report by its exit code is recorded as a relay
  (cast_relayer.py:106), against docs/algo_to_base.md:51. That loses a transfer when
  the contracts were paused, or their peer not set, at the time; `RevertsAreTold`
  excludes the two together.
* A script that dies between opening the cache and writing it leaves an empty file
  that every later run takes for the program (base-relayer.py:156, 167).
  `RowsAreTrue` and `EventuallyMinted` leave that out with `"torn"`.
* "already in ledger" is what a node says to a transaction it has had. The group of
  step 1 carries random notes and never gets that answer; the opt-in before it can,
  from two processes in one round, and the service takes it for a completed
  attestation (relay_service.py:157). `RowsAreTrue` and `ReliableAttest` leave it out
  with `"ledger"`.
* `check_consumed.py` hashes the body once where the box is named by a double hash,
  and `ntt_debug.py` takes both managers from a place where they are not: both
  look for boxes that cannot exist (theorem `ToolsMiss`).

### Bounds

* `Seqs`: two messages are needed for anything about order; the third lets one be
  complete, one be in progress and one be waiting, which is all the definitions
  ever relate (they compare two messages, and one with the highest complete one).
* `MaxAttempts` 2 (5 in the code): one failure that is retried, one that is the
  last. Nothing in the code distinguishes more cases.
* `MaxInFlight` bounds groups of unknown fate per message and step; 1 is enough
  for a late landing to meet a retry, 2 lets a late landing meet another group in
  flight. It guards `Broadcast*` only: in the bounded instances a timeout that
  would exceed it does not occur.
* `PageSize` 1 with two messages makes the page overflow, and 2 with three messages
  lets one fall off a page that has room for the next two. Where liveness is promised
  it holds all messages; where order is, `OrderlyListing` keeps the listing within a
  page of the oldest unsettled message.
* `Redeploy`: two sequence numbers let an old and a new message have the same
  number and one be above the other. `Sent` says which messages are ever sent: an old
  one with number 0, new ones with 0 and 1. `MaxAttempts` 2 again; `MaxInFlight` 1
  bounds the groups, and the peer updates, of unknown fate at one time. `Settings`
  pairs procedures with faults: what holds for every operator is checked with the
  documented procedure and with misleading steps, what holds for a careful one with
  all other faults. They are three cases of one run.
* `StepScripts`: two processes for every race, one of them the service. Faults come in
  sets: crashes, for what must happen in the end; reboots with crashes, and with
  upgrades; all but reboots at once, for the safety of groups and boxes. The messages are the last of a page,
  the first of the next, whose page number takes two bytes, and one for another
  manager; 13, 18 and 19 signatures give a short last block, none, and a third
  block of one. 19 guardians are Wormhole's number and fill four values, with keys
  that run from one into the next.

The theorems remove these bounds: `Seqs` is then any set of naturals, processes,
messages and VAAs are any, and the others any number their assumptions admit. No
hypothesis of a theorem bounds the number of messages.

### Fairness

`RelayService!Fairness`: weak fairness of the service as a whole, because systemd
restarts it and neither the loop nor a step waits without a timeout; strong
fairness of `Poll` and of each `Fetch`, that is, a listing or a VAA that fails
does not fail every time; weak fairness of `Publish`, that is, a signed message
gets listed; and killings and SIGTERM that are finitely often, for a process
killed in every step makes no progress. A step that raises or times out for ever
needs no fairness: the retry limit turns it into `failed`. The run leaves out
"setup", which never ends by itself and counts no attempt.

`CastRelayer!Fairness`: the same for the loop; strong fairness of `CastAccepted`,
because there is no retry limit, so that only a `cast` that succeeds again and
again when the contract would accept ends a message; pauses that end.

The chain and the operator owe nothing: a group in flight may stay there for
ever, and liveness does not rest on its landing.

`Redeploy!Fairness`: the operator runs `update_algorand_peers.py` again until it has
reported success ("Fix and re-run", line 215), and each of its transactions
succeeds if it is sent again and again (strong fairness of the two); the service
as above, stopped finitely often. Transactions that timed out owe nothing.

`StepScripts!Fairness`: weak fairness of the service, that is, of its loop (`Serve`) and
of the script it is running, in which every call has a timeout; and killings and
changes from outside that are finitely often. Nothing is assumed of operators, who may
stop anywhere, and no step is run again because fairness wants it: a message has its
attempts, and what step 1 has swallowed is not retried. That every transfer is minted
all the same follows from `GroupIsAccepted`, `MessageIsAccepted` and the rest of the
model, crashes and lost races included.

Deadlock is checked in the runs of `RelayService`, `CastRelayer` and `Redeploy`,
where the environment or `Start` can always act. In `StepScripts` all is quiet
when every message is minted, so it is not.

## 4. The proofs

All theorems are proved from the named assumptions on the constants in
`NttContracts`, `RelayService`, `CastRelayer`, `Redeploy`, `NttMessage` and
`StepScripts` (sequence numbers are naturals, faults and kinds are among the named
ones, limits are positive, payloads are bytes, signers are guardians of a set that
fits the account). Two of them, in `StepScripts`, say what the contracts on Base do:
`SentOnceAssumption` (a manager sends a message once, under an id of its own) and
`WellFormedAssumption` (a message for this manager states its lengths rightly). TLC
evaluates them on the instances. Further hypotheses are in the statements.

`RelayServiceProofs`, from the initial states and every action of `Next`:

| Theorem | Statement | Under |
|---|---|---|
| `TypeCorrect` | `[]TypeOK` | every fault |
| `RetryLimit` | `[]RetryBudget` | every fault |
| `NoSkippingAhead` | `[]HeadOfLine` | every fault |
| `RowsAdvance` | `RowsOnlyAdvance` | every fault |
| `RelayedInOrder` | `[]StrictlyInOrder` | `OrderlyListing` |
| `NoneIsForgotten` | `[]NoneForgotten` | `OrderlyListing` |
| `AttestedOnChain` | `[]AttestedIsOnChain` | `ReliableAttest` |
| `CompleteMinted` | `[]CompleteIsMinted` | `ReliableBoxes` |
| `FailedNotMinted` | `[]FailedIsNotMinted` | `ReliableExecute`: no crash, no operator, no timeout of step 2 |
| `Implements` | `KeepsPromise` | `OrderlyListing`, `ReliableBoxes` |

The argument is a tower of inductive invariants.

1. `TableInv`. `RetryBudget` alone is not inductive: a step that counts an
   attempt does not look at the counter. `LoopKnows` says that a message being
   processed has an attempt left and the status its step expects, because
   `process_sequence` checked it when it took the message and only the loop
   writes the table. `HeadOfLine` follows from `RetriesAhead`: whatever can be
   retried is still in `work`, of which the loop takes the least.
2. `OrderInv` adds, when messages are listed without gaps and no page is full above an
   open one, that below everything the loop has ahead all is settled or ahead too
   (`NothingLeftBelow`), and that what is not settled is on the page (`KeepsUp`). The
   step that needs care is `Poll`: below a message beyond the last complete one every
   message is listed, and what of them is not settled is on the page, has no complete
   row above it and is taken by the same poll. `KeepsUp` is kept because a row once
   settled stays so, and `Publish` waits for it. `NoneForgotten` follows: a complete
   row above an unsettled message would be out of order.
3. `AttestInv` adds what step 1 has achieved when it has returned True, and that
   only transfers are attested, so that a message at the send is one the contract
   either accepts or has accepted.
4. `MintInv` adds the same for step 2: preflight fails on an attested transfer
   only when it is executed already. A crash between mint and update is covered by
   this case.
5. `FateInv` stands apart, on `TableInv`: with nothing in flight, what is minted is
   complete or about to be, so that no attempt is ever charged to a minted message.
   One timeout of the last attempt breaks it.

`Implements` maps `visible` to `listed`, `executed` to `minted` and a row that is
not final to `open`; `MarkComplete` becomes `Complete`, the `PassOver` of a row
out of attempts `Fail`, a confirmed or late execution `Mint`, and all else a
stutter.

The assumptions are needed: `unread_box` and `page_overflow` each violate one of them
by a single fault and break a property that depends on it, and `attest_swallowed`
shows a way to a swallowed send that needs no failing node.

`CastRelayerProofs` has `TypeCorrect`, `RowsAreReceived` (`[]RelayedIsReceived`) and
`RowsAreForGood` (`RelayedForGood`), for every set of faults. The hypothesis of
`RelayedIsReceived`, that untold reverts and pauses do not come together, is part of
the property; under it the argument is by cases. Where reverts are told, a hash
stands for an accepted transaction. Where they are not, nothing is ever paused, so
that a revert means that the message was received before or is one the contract
rejects for ever.

`RedeployProofs`:

| Theorem | Statement | Under |
|---|---|---|
| `TypeCorrect` | `[]TypeOK` | — |
| `PeersStayMatched` | `[]PeersMatch` | `OneTarget`: every run of the script is given the same addresses |
| `CarefulComplete` | `[]CarefulCompleteIsMinted` | `OneTarget` |
| `PromisesKept` | `KeepsBothPromises`, which speaks of `Careful` migrations, as the theorem before | `OneTarget` |

`PeersMatch` needs `PeersOnWay`: only new addresses are ever under way, and the
second transaction is sent when the first is confirmed. That is why a transaction
that lands after the report does no harm, and why `OneTarget` is needed: one with
other addresses would. `CarefulInv` adds that nothing has begun while `.env` is old,
that a running service and the peers agree, that rows speak of the message the
service would fetch now, and that the rows left behind speak of the old ones; the step
that needs care is `Start`, which changes the meaning of every row and sets the table
aside when it does. `PromisesKept` adds `BothInv`: the status of the message the loop
is at (`LoopKnows`), failed rows out of attempts (`FailedIsOut`), and a table settled
from below (`InOrder`), with any steps failing in between. A step that serves the
emitter of one deployment stutters for the other. So does `Start` under the new
emitter for both: the old rows are the archive's, with complete and failed ones as
they were, and the new ones are open. A group of either step that lands late, whichever
emitter the service follows by then, is a `Mint` of its own deployment or nothing:
the contracts take it only under that deployment's peers.

`NttMessageProofs`, for every payload (`WellFormed`: the lengths it states are
right, as the contracts on Base make them):

| Theorem | Statement |
|---|---|
| `DigestsAgree` | steps 1 and 2 compute the reference digest |
| `ExecutedBoxesAreDeclared` | the digest the contract computes from `execute_message`'s argument, whose length it puts back in front, is `msg_digest`, and for this manager the attested one |
| `RecipientsAgree` | both parsers find the same recipient, and step 1 does not raise |
| `OneBoxPerMessage`, `OneBoxPerAttestation` | messages step 2 looks up under one box have the same id, sender, source manager and transfer, for every payload that parses: fields of fixed width make the concatenation unambiguous |
| `OneMintPerMessage` | the same for the box the contract uses, whose length field is the transfer's own length |
| `ToolsMiss` | the digests of the two tools are never those of the contracts |

`GuardianGroupProofs`, for every number of signatures and guardians:

| Theorem | Statement |
|---|---|
| `BlocksFit` | a block has between one and nine signatures |
| `ChunksAreCut` | the blocks are the VAA's signatures, in order, none missing or double |
| `KeysAreCut` | the key cut out of the joined values is the guardian's, also when it runs from one value into the next |
| `TemplateIsFilled` | patching at moving offsets yields the core's program |
| `AccountsApart` | different pages have different programs, and so accounts |

The last two rest on `UvarintProofs`. `encode_uvarint` is recursive, and what it
computes is shown by well-founded induction on a set of numbers: `UvarintIsBytes`
(bytes, at least one) and `UvarintUnambiguous` (the high bit ends an encoding, so none
begins another: what follows a number in the template cannot be taken for part
of it).

`StepScriptsProofs`, for any processes, messages and interleaving:

| Theorem | Statement |
|---|---|
| `TypeCorrect` | `[]TypeOK`; in it, that no account is opted in but the core's |
| `LookupsStayTogether` | `[]LookupsAgree` |
| `GroupsAreAccepted` | `[]GroupIsAccepted` |
| `MessagesAreAccepted` | `[]MessageIsAccepted` |
| `RowsStayTrue` | `[]RowsAreTrue` |
| `OneAccountPerPage` | two messages share an account exactly when they share a page |

They rest on the modules before: what the scripts compute is what the contracts
compute, for every message, so that a refusal can only come from what other
processes have done. `LookupsAgree` is inductive because the two digests of an
attestation both tell the message (`OneVaa`: `OneBoxPerAttestation` and
`SentOnceAssumption`). `GroupIsAccepted` then needs it (a message not consumed has no
attestation either) and `BuildInv` (an account once opted in stays so);
`MessageIsAccepted` needs `ExecuteInv` (what preflight has seen stays).

`RowsStayTrue` puts them together. `RowsInv` says of a row and of the service about
to write it that the message is consumed, or minted. With the cache seen whole and
no upgrade, whatever a script takes for the program is the core's (`FilesInv`), so that
by `GroupIsAccepted` a group is accepted or its message consumed already: step 1 has
told the truth either way, though it did not look. A step 2 that returns early
means, for a message that is consumed, by `LookupsAgree` that the attestation is there
and so that the mint is (`PreflightKnows`); one that does not return raises. Boxes
are never deleted (`BoxesStay`), so that no other process and no crash makes a row
false afterwards.

Only model-checked: the liveness properties `EveryMessageSettles`,
`MintedOrFailed`, `EveryTransferReceived`, `MigrationEnds`, `CarefulMintedOrFailed` and
`EventuallyMinted`; proofs of temporal properties under fairness, and of `ENABLED`,
are beyond the prover used, as is induction over data. Counterexamples are TLC's.
Every invariant and every safety property of a passing run is proved.

## 5. What is not modelled

* `inspect_tx.py` prints a transaction. `setup.sh` copies files and installs
  packages; that it downloads `vaa_verify.teal` to /tmp is where `StepScripts`
  starts. Of the systemd units only `Restart=always` matters here, as `Start`.
* Of step 1's and 2's groups: fees, the payments that fund accounts and boxes, the
  accounts and foreign apps they name, and the boxes whose names do not depend on
  the message (peers, rate limits, roles). They can make a group fail as a whole,
  which is a fault of `RelayService`.
* Keccak-256 and SHA-512/256. `ntt_digest.py` has a Keccak of its own; a hash stands
  for what is hashed.
* A change of the guardian set: the set index picks the account whose keys are
  read, and an expired set makes the core refuse the group.
* `update_ntt_addresses.sh` in source files: they hold no addresses any more.
* Logging, the columns `last_error`, `*_txid`, `digest` and the timestamps.
* Reads of `sequences` while a writer is active: there is one process with one
  connection.

## 6. Plan

All hazards of `PROJECT.json` that a state can show have a property, except those
whose note says why not. What could still be added:

1. An abstract specification for `CastRelayer` (each message received once, rows
   only for received messages) with a refinement run and proof.
2. `StepScripts` with failing nodes, implementing the steps of `RelayService`: the ways
   a step fails would have to be told apart in both.
3. The guardian set as state, with a change between the reading of the keys and
   the send.
