---------------------------- MODULE RelayService ----------------------------
(***************************************************************************)
(* The Base -> Algorand relay service: relay_service.py, the poll loop     *)
(* over the SQLite table "sequences", with the two steps it runs for each  *)
(* message, relay_vaa of base-relayer.py (attest) and execute_ntt of       *)
(* ntt_execute.py (execute), against the contracts of NttContracts.        *)
(*                                                                         *)
(* One process writes the table and every statement commits at once, so    *)
(* the interleavings are those of the process with its environment: the    *)
(* listing that grows, groups that land late, an operator who runs the     *)
(* step scripts by hand, a crash or a SIGTERM between any two steps.       *)
(***************************************************************************)
EXTENDS NttContracts, FiniteSets

CONSTANTS
  MaxAttempts,   \* 5 in the code
  PageSize,      \* messages one listing returns, 50 in the code
  Faults         \* what the environment may do, a subset of FaultKinds

FaultKinds ==
  { "crash",           \* the process dies between two steps
    "sigterm",         \* SIGTERM or SIGINT
    "scan",            \* the WormholeScan listing fails
    "late",            \* a message shows up after one with a higher sequence
    "backlog",         \* a page of messages is listed above an unsettled one
    "fetch",           \* the VAA of one message is not served or not base64
    "setup",           \* ALGO_MNEMONIC is not set
    "raise",           \* a step raises before it sends its group
    "ledger",          \* the opt-in raises "already in ledger"
    "guardian",        \* the guardian account cannot be read
    "boxRead",         \* a box read is answered with something else than 200
    "attestSend",      \* the attest group is refused by the node
    "attestTimeout",   \* the attest group is not seen to confirm
    "executeSend",     \* the execute group is refused by the node
    "executeTimeout",  \* the execute group is not seen to confirm
    "operator" }       \* someone runs the step scripts by hand

ASSUME MaxAttemptsAssumption == MaxAttempts \in Nat \ {0}
ASSUME PageSizeAssumption == PageSize \in Nat \ {0}
ASSUME FaultsAssumption == Faults \subseteq FaultKinds

VARIABLES
  visible,    \* messages WormholeScan lists
  status,     \* column status, "none" when the sequence has no row
  attempts,   \* column attempts
  pc,         \* where the process is
  running,    \* the flag _running
  work        \* all_seqs without the sequences the loop is done with

serviceVars == <<status, attempts, pc, running, work>>
vars == <<chainVars, visible, serviceVars>>

Statuses == {"none", "pending", "attested", "complete", "failed"}
Final == {"complete", "failed"}

\* "attest" and "execute": about to run the step.  "attesting", "executing":
\* its group is built and about to be sent.  "attestOk", "executeOk": the step
\* returned True and the row is not yet updated.
AttestPoints == {"attest", "attesting", "attestOk"}
ExecutePoints == {"execute", "executing", "executeOk"}
Points == {"down", "idle", "scan"} \union AttestPoints \union ExecutePoints

TypeOK ==
  /\ ChainTypeOK
  /\ visible \subseteq Seqs
  /\ status \in [Seqs -> Statuses]
  /\ attempts \in [Seqs -> Nat]
  /\ pc \in Points
  /\ running \in BOOLEAN
  /\ work \subseteq Seqs

Init ==
  /\ ChainInit
  /\ visible = {}
  /\ status = [s \in Seqs |-> "none"]
  /\ attempts = [s \in Seqs |-> 0]
  /\ pc = "down"
  /\ running = TRUE
  /\ work = {}
-----------------------------------------------------------------------------
\* WHERE status IN ('pending','attested') AND attempts < 5
Retryable(s) == status[s] \in {"pending", "attested"} /\ attempts[s] < MaxAttempts

\* db_last_complete: above every complete sequence, all of them when none is.
BeyondLastComplete(s) == \A c \in Seqs : status[c] = "complete" => c < s

\* A page of a listing holds the newest messages.
OnPage(listing, s) == Cardinality({t \in listing : t > s}) < PageSize

Listed == {s \in visible : OnPage(visible, s)}

NewSeqs == {s \in Listed : BeyondLastComplete(s)}

\* Mutant: the listing's order, newest first, is kept.
NewestIsNext(s) == s \in work /\ \A t \in work : t <= s

\* The loop takes all_seqs in ascending order.
IsNext(s) == s \in work /\ \A t \in work : s <= t

At(point, s) == pc = point /\ IsNext(s)

\* process_sequence is running one of the two steps.
Processing(s) == pc \in AttestPoints \union ExecutePoints /\ IsNext(s)

\* Mutant: one attempt too many.
SettledTooLate(s) == status[s] = "complete" \/ attempts[s] > MaxAttempts

\* process_sequence answers without running a step.
Settled(s) == status[s] = "complete" \/ attempts[s] >= MaxAttempts

\* The break on a failure, and the exception that ends a poll.
Abandon == pc' = "idle" /\ work' = {}

Goto(point) == pc' = point /\ UNCHANGED work

CountAttempt(s) == attempts' = [attempts EXCEPT ![s] = @ + 1]
-----------------------------------------------------------------------------
\* The process.

\* systemd starts the service, the first time or again (Restart=always).
Start ==
  /\ pc = "down"
  /\ pc' = "idle"
  /\ running' = TRUE
  /\ UNCHANGED <<chainVars, visible, status, attempts, work>>

\* One poll: what is left to retry, and what the listing has beyond the last
\* complete sequence.
Poll ==
  /\ pc = "idle" /\ running
  /\ work' = {s \in Seqs : Retryable(s)} \union NewSeqs
  /\ pc' = "scan"
  /\ UNCHANGED <<chainVars, visible, status, attempts, running>>

\* fetch_new_vaas answers [] when the request fails: only retries are left.
PollUnlisted ==
  /\ "scan" \in Faults
  /\ pc = "idle" /\ running
  /\ work' = {s \in Seqs : Retryable(s)}
  /\ pc' = "scan"
  /\ UNCHANGED <<chainVars, visible, status, attempts, running>>

\* The loop over all_seqs ends, or sees that it has to stop.
EndPoll ==
  /\ pc = "scan"
  /\ work = {} \/ ~running
  /\ Abandon
  /\ UNCHANGED <<chainVars, visible, status, attempts, running>>

Stop ==
  /\ pc = "idle" /\ ~running
  /\ Goto("down")
  /\ UNCHANGED <<chainVars, visible, status, attempts, running>>

\* The handler sets a flag: whatever is in progress goes on.
Sigterm ==
  /\ "sigterm" \in Faults
  /\ pc # "down" /\ running
  /\ running' = FALSE
  /\ UNCHANGED <<chainVars, visible, status, attempts, pc, work>>
-----------------------------------------------------------------------------
\* process_sequence up to step 1.

Takes(s) == At("scan", s) /\ running

\* Mutant: a row out of attempts is passed over as if it were complete.
PassOverAsComplete(s) ==
  /\ Takes(s) /\ Settled(s)
  /\ status' = [status EXCEPT ![s] = "complete"]
  /\ work' = work \ {s}
  /\ UNCHANGED <<chainVars, visible, attempts, pc, running>>

\* A complete row is skipped, a row out of attempts is marked failed.
PassOver(s) ==
  /\ Takes(s) /\ Settled(s)
  /\ status' = [status EXCEPT ![s] = IF @ = "complete" THEN @ ELSE "failed"]
  /\ work' = work \ {s}
  /\ UNCHANGED <<chainVars, visible, attempts, pc, running>>

\* The VAA is not served, or is not base64: no attempt is counted.
FetchFails(s) ==
  /\ "fetch" \in Faults
  /\ Takes(s) /\ ~Settled(s)
  /\ Abandon
  /\ UNCHANGED <<chainVars, visible, status, attempts, running>>

\* Mutant: the row is inserted with a status nothing else knows.
FetchAsNew(s) ==
  /\ Takes(s) /\ ~Settled(s)
  /\ status' = [status EXCEPT ![s] = IF @ = "none" THEN "new" ELSE @]
  /\ Goto(IF status[s] = "attested" THEN "execute" ELSE "attest")
  /\ UNCHANGED <<chainVars, visible, attempts, running>>

\* The VAA is there: the row is inserted when new, and an attested row goes
\* straight to step 2.
Fetch(s) ==
  /\ Takes(s) /\ ~Settled(s)
  /\ status' = [status EXCEPT ![s] = IF @ = "none" THEN "pending" ELSE @]
  /\ Goto(IF status[s] = "attested" THEN "execute" ELSE "attest")
  /\ UNCHANGED <<chainVars, visible, attempts, running>>

\* Either step: without a mnemonic it returns False and counts no attempt.
SetupMissing(s) ==
  /\ "setup" \in Faults
  /\ At("attest", s) \/ At("execute", s)
  /\ Abandon
  /\ UNCHANGED <<chainVars, visible, status, attempts, running>>

\* Mutant: the loop goes on with the next sequence.
StepRaisesAndGoesOn(s) ==
  /\ At("attest", s) \/ At("execute", s)
  /\ "raise" \in Faults \/ (pc = "attest" /\ kind[s] = "malformed")
  /\ CountAttempt(s)
  /\ pc' = "scan"
  /\ work' = work \ {s}
  /\ UNCHANGED <<chainVars, visible, status, running>>

\* Mutant: the attempt is not counted.
StepRaisesUncounted(s) ==
  /\ At("attest", s) \/ At("execute", s)
  /\ "raise" \in Faults \/ (pc = "attest" /\ kind[s] = "malformed")
  /\ Abandon
  /\ UNCHANGED <<chainVars, visible, status, attempts, running>>

\* Either step raises before it sends: attempts + 1, and the loop breaks.  The
\* parsers of step 1 raise on a malformed message.
StepRaises(s) ==
  /\ At("attest", s) \/ At("execute", s)
  /\ "raise" \in Faults \/ (pc = "attest" /\ kind[s] = "malformed")
  /\ CountAttempt(s)
  /\ Abandon
  /\ UNCHANGED <<chainVars, visible, status, running>>
-----------------------------------------------------------------------------
\* Step 1.

\* What makes relay_vaa return, and step 1 answer True, with nothing sent: the
\* message is consumed, the guardian account is missing, or the opt-in raises
\* "already in ledger".
NothingToAttest(s) ==
  \/ s \in attested
  \/ Faults \intersect {"guardian", "ledger"} # {}

AttestSkipped(s) ==
  /\ At("attest", s)
  /\ NothingToAttest(s)
  /\ Goto("attestOk")
  /\ UNCHANGED <<chainVars, visible, status, attempts, running>>

\* Mutant: the row is updated before the group is sent.
AttestBuiltAndMarked(s) ==
  /\ At("attest", s)
  /\ kind[s] # "malformed"
  /\ s \notin attested \/ "boxRead" \in Faults
  /\ status' = [status EXCEPT ![s] = "attested"]
  /\ Goto("attesting")
  /\ UNCHANGED <<chainVars, visible, attempts, running>>

\* is_consumed answers False, also when the read fails: the group is built.
AttestBuilt(s) ==
  /\ At("attest", s)
  /\ kind[s] # "malformed"
  /\ s \notin attested \/ "boxRead" \in Faults
  /\ Goto("attesting")
  /\ UNCHANGED <<chainVars, visible, status, attempts, running>>

AttestConfirmed(s) ==
  /\ At("attesting", s)
  /\ ConfirmAttest(s)
  /\ Goto("attestOk")
  /\ UNCHANGED <<visible, status, attempts, running>>

\* relay_vaa prints a send that fails and returns, so step 1 answers True: the
\* contracts reject the group or the node refuses it.
AttestSwallowed(s) ==
  /\ At("attesting", s)
  /\ ~AcceptsAttest(s) \/ "attestSend" \in Faults
  /\ Goto("attestOk")
  /\ UNCHANGED <<chainVars, visible, status, attempts, running>>

\* As much when it is broadcast and does not confirm within wait_rounds.
AttestTimesOut(s) ==
  /\ "attestTimeout" \in Faults
  /\ At("attesting", s)
  /\ BroadcastAttest(s)
  /\ Goto("attestOk")
  /\ UNCHANGED <<visible, status, attempts, running>>

\* Mutant: the row is replaced, its counter with it.
MarkAttestedAnew(s) ==
  /\ At("attestOk", s)
  /\ status' = [status EXCEPT ![s] = "attested"]
  /\ attempts' = [attempts EXCEPT ![s] = 0]
  /\ Goto("execute")
  /\ UNCHANGED <<chainVars, visible, running>>

MarkAttested(s) ==
  /\ At("attestOk", s)
  /\ status' = [status EXCEPT ![s] = "attested"]
  /\ Goto("execute")
  /\ UNCHANGED <<chainVars, visible, attempts, running>>
-----------------------------------------------------------------------------
\* Step 2.

\* preflight, when every box is read.
PreflightOk(s) == kind[s] = "ntt" /\ AcceptsExecute(s)

\* A message for someone else or a preflight that fails: execute_ntt returns,
\* so step 2 answers True.  A box that is there and cannot be read counts as
\* absent.
ExecuteSkipped(s) ==
  /\ At("execute", s)
  /\ ~PreflightOk(s) \/ "boxRead" \in Faults
  /\ Goto("executeOk")
  /\ UNCHANGED <<chainVars, visible, status, attempts, running>>

\* Preflight passes.  Unread, messages_executed counts as absent too.
ExecuteBuilt(s) ==
  /\ At("execute", s)
  /\ PreflightOk(s) \/ (s \in executed /\ "boxRead" \in Faults)
  /\ Goto("executing")
  /\ UNCHANGED <<chainVars, visible, status, attempts, running>>

ExecuteConfirmed(s) ==
  /\ At("executing", s)
  /\ ConfirmExecute(s)
  /\ Goto("executeOk")
  /\ UNCHANGED <<visible, status, attempts, running>>

\* execute_ntt re-raises a send that fails: attempts + 1, and the loop breaks.
ExecuteRefused(s) ==
  /\ At("executing", s)
  /\ ~AcceptsExecute(s) \/ "executeSend" \in Faults
  /\ CountAttempt(s)
  /\ Abandon
  /\ UNCHANGED <<chainVars, visible, status, running>>

\* Mutant: as in step 1, a send that is not seen to confirm is swallowed.
ExecuteTimeoutSwallowed(s) ==
  /\ "executeTimeout" \in Faults
  /\ At("executing", s)
  /\ BroadcastExecute(s)
  /\ Goto("executeOk")
  /\ UNCHANGED <<visible, status, attempts, running>>

ExecuteTimesOut(s) ==
  /\ "executeTimeout" \in Faults
  /\ At("executing", s)
  /\ BroadcastExecute(s)
  /\ CountAttempt(s)
  /\ Abandon
  /\ UNCHANGED <<visible, status, running>>

MarkComplete(s) ==
  /\ At("executeOk", s)
  /\ status' = [status EXCEPT ![s] = "complete"]
  /\ pc' = "scan"
  /\ work' = work \ {s}
  /\ UNCHANGED <<chainVars, visible, attempts, running>>
-----------------------------------------------------------------------------
\* The environment.

\* No page is full of messages above one that is not settled.
KeepsUp(listing) == \A s \in listing : status[s] \in Final \/ OnPage(listing, s)

\* The guardians sign, and WormholeScan lists, one more message.
Publish(s) ==
  /\ s \notin visible
  /\ "late" \in Faults \/ \A t \in Seqs : t < s => t \in visible
  /\ "backlog" \in Faults \/ KeepsUp(visible \union {s})
  /\ visible' = visible \union {s}
  /\ UNCHANGED <<chainVars, serviceVars>>

\* The process dies: the table stays, the loop's variables are lost.
Dies ==
  /\ "crash" \in Faults
  /\ pc # "down"
  /\ pc' = "down"
  /\ work' = {}
  /\ UNCHANGED <<visible, status, attempts, running>>

Crash == Dies /\ UNCHANGED chainVars

\* It dies with its group broadcast.
CrashAttesting(s) == At("attesting", s) /\ BroadcastAttest(s) /\ Dies
CrashExecuting(s) == At("executing", s) /\ BroadcastExecute(s) /\ Dies

\* base-relayer.py or ntt_execute.py from the command line.
OperatorAttests(s) ==
  /\ "operator" \in Faults
  /\ s \in visible \ attested
  /\ BroadcastAttest(s)
  /\ UNCHANGED <<visible, serviceVars>>

OperatorExecutes(s) ==
  /\ "operator" \in Faults
  /\ s \in visible
  /\ PreflightOk(s)
  /\ BroadcastExecute(s)
  /\ UNCHANGED <<visible, serviceVars>>
-----------------------------------------------------------------------------
Process(s) ==
  \/ PassOver(s) \/ FetchFails(s) \/ Fetch(s)
  \/ SetupMissing(s) \/ StepRaises(s)
  \/ AttestSkipped(s) \/ AttestBuilt(s) \/ AttestConfirmed(s)
  \/ AttestSwallowed(s) \/ AttestTimesOut(s) \/ MarkAttested(s)
  \/ ExecuteSkipped(s) \/ ExecuteBuilt(s) \/ ExecuteConfirmed(s)
  \/ ExecuteRefused(s) \/ ExecuteTimesOut(s) \/ MarkComplete(s)

Service ==
  \/ Start \/ Poll \/ PollUnlisted \/ EndPoll \/ Stop
  \/ \E s \in Seqs : Process(s)

Killed == Crash \/ \E s \in Seqs : CrashAttesting(s) \/ CrashExecuting(s)

Environment ==
  \/ Sigterm \/ Killed
  \/ \E s \in Seqs : Publish(s) \/ OperatorAttests(s) \/ OperatorExecutes(s)
  \/ ChainNext /\ UNCHANGED <<visible, serviceVars>>

Next == Service \/ Environment

Spec == Init /\ [][Next]_vars

\* What the scheduling and the environment owe the service: the process never
\* rests (systemd restarts it, the loop has no wait without an end), a listing
\* or a VAA that fails does not fail for ever, a signed message is listed, and
\* the process is killed or told to stop finitely often.
Fairness ==
  /\ WF_vars(Service)
  /\ SF_vars(Poll)
  /\ \A s \in Seqs : SF_vars(Fetch(s)) /\ WF_vars(Publish(s))
  /\ <>[][~Killed /\ ~Sigterm]_vars

FairSpec == Spec /\ Fairness
-----------------------------------------------------------------------------
(***************************************************************************)
(* Safety, whatever the environment does.                                  *)
(***************************************************************************)

\* The retry limit holds across polls, restarts and both steps: no sequence is
\* charged more than MaxAttempts attempts ("Don't retry more than 5 times",
\* relay_service.py:189) and none is given up before it is charged them all.
RetryBudget ==
  \A s \in Seqs :
    /\ attempts[s] <= MaxAttempts
    /\ status[s] = "failed" => attempts[s] = MaxAttempts

\* No skipping ahead (relay_service.py:278): while a sequence is processed, no
\* lower one is left with a row that can still be retried.
HeadOfLine ==
  \A s \in Seqs :
    Processing(s) => \A t \in Seqs : t < s => ~Retryable(t)

\* The lifecycle of a row.
RowSteps ==
  { <<"none", "pending">>, <<"pending", "attested">>,
    <<"attested", "complete">>,
    <<"pending", "failed">>, <<"attested", "failed">> }
    \union {<<x, x>> : x \in Statuses}

RowAdvances(s) ==
  /\ <<status[s], status'[s]>> \in RowSteps
  /\ attempts'[s] >= attempts[s]
  /\ status[s] \in Final => attempts'[s] = attempts[s]

TableAdvances == \A s \in Seqs : RowAdvances(s)

\* Every step of every restart moves a row along the lifecycle of the table
\* (docs/db.md:61) and never back: a complete or failed row is never reopened
\* nor charged again, an attested one is never pending again, an attempt is
\* never forgotten.
RowsOnlyAdvance == [][TableAdvances]_vars

(***************************************************************************)
(* Safety that rests on what the environment does not do.                  *)
(***************************************************************************)

\* Messages are listed in order, and the service keeps up with them: however many
\* there are in all, a page holds those beyond the first that is not settled.
OrderlyListing == Faults \intersect {"late", "backlog"} = {}

\* A send of step 1 is seen to confirm and all messages are for this manager.
ReliableAttest ==
  /\ Faults \intersect
       {"ledger", "guardian", "attestSend", "attestTimeout"} = {}
  /\ Kinds \subseteq {"ntt", "malformed"}

\* Moreover every box that is there can be read.
ReliableBoxes == ReliableAttest /\ "boxRead" \notin Faults

\* Under OrderlyListing, messages are relayed strictly one after the other
\* (docs/base_to_algo.md:71): a row is opened only when every lower sequence is
\* complete or failed, however polls, failed listings and crashes interleave.
StrictlyInOrder ==
  \A s, t \in Seqs :
    t < s /\ status[s] # "none" => status[t] \in Final

\* Under OrderlyListing, no listed message is forgotten between the two queries:
\* the retries leave out rows that are out of attempts (relay_service.py:249-256)
\* and the listing is cut at the last complete sequence (102-107), but what is not
\* settled is in one of them, so that the next poll takes it.
NoneForgotten ==
  \A s \in visible : status[s] \in Final \/ Retryable(s) \/ s \in NewSeqs

\* Under ReliableAttest, "attested" means attested on chain (docs/db.md:68).
AttestedIsOnChain ==
  \A s \in Seqs : status[s] \in {"attested", "complete"} => s \in attested

\* Under ReliableBoxes, "complete" means tokens minted (docs/db.md:69), also
\* when a crash or a timeout separates the mint from the update of its row.
CompleteIsMinted == \A s \in Seqs : status[s] = "complete" => s \in executed

\* The service learns the fate of every execute group: it outlives them, none
\* confirms behind its back, and nobody else sends one.
ReliableExecute ==
  Faults \intersect {"crash", "executeTimeout", "operator"} = {}

\* Under ReliableExecute, "failed" means reached "without success"
\* (docs/db.md:70): the tokens of a failed row were not minted, and are not
\* minted later, whichever boxes cannot be read and whatever is listed late.
FailedIsNotMinted == \A s \in Seqs : status[s] = "failed" => s \notin executed

(***************************************************************************)
(* The promise: OrderedRelay, with the rows read as outcomes.              *)
(***************************************************************************)

Outcome == [s \in Seqs |-> IF status[s] \in Final THEN status[s] ELSE "open"]

Promise == INSTANCE OrderedRelay
             WITH listed <- visible, minted <- executed, outcome <- Outcome

\* Under OrderlyListing and ReliableBoxes, the service with its table, its
\* retries and its restarts implements the promise.
KeepsPromise == Promise!Spec

(***************************************************************************)
(* Liveness.                                                               *)
(***************************************************************************)

\* Under OrderlyListing, every message that is listed is driven to the end of
\* the pipeline (docs/base_to_algo.md:21): its row becomes complete or failed.
EveryMessageSettles ==
  \A s \in Seqs : s \in visible ~> status[s] \in Final

\* Under OrderlyListing and ReliableBoxes, every listed transfer is minted or
\* its row says failed.
MintedOrFailed ==
  \A s \in Seqs : s \in visible /\ kind[s] = "ntt"
                    ~> s \in executed \/ status[s] = "failed"
-----------------------------------------------------------------------------
(***************************************************************************)
(* What makes the safety properties inductive.                             *)
(***************************************************************************)

\* What the loop knows of the message it is processing.
LoopKnows ==
  \A s \in Seqs : Processing(s) =>
    /\ attempts[s] < MaxAttempts
    /\ status[s] = IF pc \in AttestPoints THEN "pending" ELSE "attested"

\* A poll in progress has everything that can be retried ahead of it.
RetriesAhead ==
  pc \in {"scan"} \union AttestPoints \union ExecutePoints
    => \A s \in Seqs : Retryable(s) => s \in work

\* Attempts are charged to rows only.
NoRowNoAttempt == \A s \in Seqs : status[s] = "none" => attempts[s] = 0

TableInv == TypeOK /\ RetryBudget /\ NoRowNoAttempt /\ LoopKnows /\ RetriesAhead

\* Under OrderlyListing: messages are listed without gaps, and below what the
\* loop has ahead of it everything is settled or ahead of it too.
ListedInOrder ==
  /\ \A s, t \in Seqs : s \in visible /\ t < s => t \in visible
  /\ work \subseteq visible
  /\ \A s \in Seqs : status[s] # "none" => s \in visible

NothingLeftBelow ==
  \A s \in work, t \in Seqs : t < s => status[t] \in Final \/ t \in work

BelowInv == StrictlyInOrder /\ ListedInOrder /\ NothingLeftBelow

\* Moreover what is not settled is on the page.
OrderInv == BelowInv /\ KeepsUp(visible)

\* Under ReliableAttest, and ReliableBoxes: what a step that answered True has
\* achieved on chain.
OnlyTransfersAttested == \A s \in attested : kind[s] = "ntt"

AttestDone ==
  \A s \in Seqs : IsNext(s) =>
    /\ pc = "attesting" => kind[s] = "ntt"
    /\ pc = "attestOk" => s \in attested

AttestInv == AttestedIsOnChain /\ OnlyTransfersAttested /\ AttestDone

ExecuteDone == \A s \in Seqs : At("executeOk", s) => s \in executed

MintInv == CompleteIsMinted /\ ExecuteDone

\* Under ReliableExecute: nothing is on its way to the chain, and what is minted
\* is complete or about to be.
FateInv ==
  /\ \A s \in Seqs : executeInFlight[s] = 0
  /\ \A s \in executed : status[s] = "complete" \/ At("executeOk", s)
=============================================================================
