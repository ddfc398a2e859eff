----------------------------- MODULE CastRelayer -----------------------------
(***************************************************************************)
(* The Algorand -> Base relayer: cast_relayer.py, a poll loop over the     *)
(* SQLite table "relayed" that runs Foundry's "cast send" once for every   *)
(* listed message without a row, against the transceiver contract on Base. *)
(*                                                                         *)
(* There is one step per message and no row before it has succeeded.  A    *)
(* failure costs the message its turn in this poll and nothing else.  The  *)
(* process has no signal handler: SIGTERM kills it as a crash does.        *)
(***************************************************************************)
EXTENDS Naturals, FiniteSets

CONSTANTS
  Seqs,           \* the Wormhole sequence numbers of the Algorand emitter
  NoSeq,          \* no message
  Kinds,          \* the kinds of message the listing shows
  PageSize,       \* messages one listing returns
  MaxInFlight,    \* bound: transactions of unknown fate per message
  CastFaultSets   \* what the environment may do, in one behaviour

CastFaultKinds ==
  { "crash",      \* the process dies between two steps
    "send",       \* cast sends nothing, or prints no transaction hash
    "timeout",    \* cast gives up on a transaction it has broadcast
    "revertHash", \* cast exits 0 and prints the hash of one that reverted
    "pause",      \* the contracts on Base do not accept messages for a while
    "operator" }  \* someone runs relay-once.sh

ASSUME CastSeqsAssumption == Seqs \subseteq Nat /\ NoSeq \notin Seqs
ASSUME CastKindsAssumption == Kinds \subseteq {"ntt", "rejected", "unusable"}
ASSUME CastBoundsAssumption == PageSize \in Nat \ {0} /\ MaxInFlight \in Nat
ASSUME CastFaultsAssumption == CastFaultSets \subseteq SUBSET CastFaultKinds

VARIABLES
  faults,     \* what the environment may do in this behaviour
  kind,       \* "ntt": a transfer the transceiver accepts once, "rejected":
              \* one it never accepts, "unusable": an entry with no VAA, or
              \* one that is not base64 or of version 1
  accepting,  \* the transceiver's peer is set and nothing is paused
  received,   \* messages the transceiver has accepted
  inFlight,   \* number of transactions of unknown fate per message
  listed,     \* messages WormholeScan lists
  relayed,    \* sequences with a row in the table
  pc,         \* where the process is
  work,       \* entries of the listing the loop has not come to
  current     \* the message cast is run for

given == <<faults, kind>>
baseVars == <<given, accepting, received, inFlight>>
castVars == <<relayed, pc, work, current>>
vars == <<baseVars, listed, castVars>>

TypeOK ==
  /\ faults \in CastFaultSets
  /\ kind \in [Seqs -> Kinds]
  /\ accepting \in BOOLEAN
  /\ received \subseteq Seqs
  /\ inFlight \in [Seqs -> Nat]
  /\ listed \subseteq Seqs
  /\ relayed \subseteq Seqs
  /\ pc \in {"down", "idle", "scan", "casting", "sent"}
  /\ work \subseteq Seqs
  /\ current \in Seqs \union {NoSeq}
  /\ pc \in {"casting", "sent"} <=> current # NoSeq

Init ==
  /\ faults \in CastFaultSets
  /\ kind \in [Seqs -> Kinds]
  /\ accepting = TRUE
  /\ received = {}
  /\ inFlight = [s \in Seqs |-> 0]
  /\ listed = {}
  /\ relayed = {}
  /\ pc = "down"
  /\ work = {}
  /\ current = NoSeq
-----------------------------------------------------------------------------
\* The transceiver on Base: receiveMessage accepts a message once.
Accepts(s) == accepting /\ kind[s] = "ntt" /\ s \notin received

\* A transaction is sent, and its sender does not learn its fate.
Broadcast(s) ==
  /\ inFlight[s] < MaxInFlight
  /\ inFlight' = [inFlight EXCEPT ![s] = @ + 1]
  /\ UNCHANGED <<given, accepting, received>>

\* It is included and accepted, or it reverts or is dropped.
Land(s) ==
  /\ inFlight[s] > 0 /\ Accepts(s)
  /\ inFlight' = [inFlight EXCEPT ![s] = @ - 1]
  /\ received' = received \union {s}
  /\ UNCHANGED <<given, accepting, listed, castVars>>

Drop(s) ==
  /\ inFlight[s] > 0
  /\ inFlight' = [inFlight EXCEPT ![s] = @ - 1]
  /\ UNCHANGED <<given, accepting, received, listed, castVars>>

Pause ==
  /\ "pause" \in faults /\ accepting
  /\ accepting' = FALSE
  /\ UNCHANGED <<given, received, inFlight, listed, castVars>>

Resume ==
  /\ ~accepting
  /\ accepting' = TRUE
  /\ UNCHANGED <<given, received, inFlight, listed, castVars>>
-----------------------------------------------------------------------------
\* The poll loop.  A listing that fails ends the poll before it began.

\* The newest messages, one page of them.
Page == {s \in listed : Cardinality({t \in listed : t > s}) < PageSize}

Start ==
  /\ pc = "down"
  /\ pc' = "idle"
  /\ UNCHANGED <<baseVars, listed, relayed, work, current>>

Poll ==
  /\ pc = "idle"
  /\ pc' = "scan"
  /\ work' = Page
  /\ UNCHANGED <<baseVars, listed, relayed, current>>

EndPoll ==
  /\ pc = "scan" /\ work = {}
  /\ pc' = "idle"
  /\ UNCHANGED <<baseVars, listed, relayed, work, current>>

\* Mutant: the table is not looked at.
OnlyUnusable(s) == kind[s] = "unusable"

\* The loop comes to an entry it has nothing to do for.
NothingToCast(s) == s \in relayed \/ kind[s] = "unusable"

Skip(s) ==
  /\ pc = "scan" /\ s \in work
  /\ NothingToCast(s)
  /\ work' = work \ {s}
  /\ UNCHANGED <<baseVars, listed, relayed, pc, current>>

\* Mutant: the row is written before cast is run.
CastAndMark(s) ==
  /\ pc = "scan" /\ s \in work
  /\ ~NothingToCast(s)
  /\ pc' = "casting"
  /\ current' = s
  /\ work' = work \ {s}
  /\ relayed' = relayed \union {s}
  /\ UNCHANGED <<baseVars, listed>>

Cast(s) ==
  /\ pc = "scan" /\ s \in work
  /\ ~NothingToCast(s)
  /\ pc' = "casting"
  /\ current' = s
  /\ work' = work \ {s}
  /\ UNCHANGED <<baseVars, listed, relayed>>
-----------------------------------------------------------------------------
\* How cast send ends for the current message s.

Casting(s) == pc = "casting" /\ current = s

\* Mutant: the first failure ends the poll.
Breaks == pc' = "scan" /\ current' = NoSeq /\ work' = {} /\ UNCHANGED relayed

\* Mutant: the message stays the current one.
StaysOn == pc' = "scan" /\ UNCHANGED <<relayed, work, current>>

\* cast_redeem raises: the loop goes on with the next entry.
GoesOn == pc' = "scan" /\ current' = NoSeq /\ UNCHANGED <<relayed, work>>

\* cast_redeem returns a transaction hash.
HasHash == pc' = "sent" /\ UNCHANGED <<relayed, work, current>>

CastAccepted(s) ==
  /\ Casting(s)
  /\ Accepts(s)
  /\ received' = received \union {s}
  /\ HasHash
  /\ UNCHANGED <<given, accepting, inFlight, listed>>

\* The transaction is included and reverts: cast says so.
CastReverted(s) ==
  /\ Casting(s)
  /\ ~Accepts(s)
  /\ GoesOn
  /\ UNCHANGED <<baseVars, listed>>

\* Or it does not: the exit code and the hash are looked at, the status in the
\* receipt is not.
RevertUnseen(s) ==
  /\ "revertHash" \in faults
  /\ Casting(s)
  /\ ~Accepts(s)
  /\ HasHash
  /\ UNCHANGED <<baseVars, listed>>

CastFails(s) ==
  /\ "send" \in faults
  /\ Casting(s)
  /\ GoesOn
  /\ UNCHANGED <<baseVars, listed>>

CastTimesOut(s) ==
  /\ "timeout" \in faults
  /\ Casting(s)
  /\ Broadcast(s)
  /\ GoesOn
  /\ UNCHANGED listed

MarkRelayed(s) ==
  /\ pc = "sent" /\ current = s
  /\ relayed' = relayed \union {s}
  /\ pc' = "scan"
  /\ current' = NoSeq
  /\ UNCHANGED <<baseVars, listed, work>>
-----------------------------------------------------------------------------
\* The environment.

Publish(s) ==
  /\ s \notin listed
  /\ listed' = listed \union {s}
  /\ UNCHANGED <<baseVars, castVars>>

Dies ==
  /\ "crash" \in faults
  /\ pc # "down"
  /\ pc' = "down"
  /\ work' = {}
  /\ current' = NoSeq
  /\ UNCHANGED <<listed, relayed>>

Crash == Dies /\ UNCHANGED baseVars

\* It dies while cast has its transaction on the way.
CrashCasting(s) == Casting(s) /\ Broadcast(s) /\ Dies

\* relay-once.sh sends the same call and does not know of the table.
OperatorCasts(s) ==
  /\ "operator" \in faults
  /\ s \in listed /\ kind[s] # "unusable"
  /\ Broadcast(s)
  /\ UNCHANGED <<listed, castVars>>
-----------------------------------------------------------------------------
RelayOnce(s) ==
  \/ Skip(s) \/ Cast(s)
  \/ CastAccepted(s) \/ CastReverted(s) \/ RevertUnseen(s) \/ CastFails(s)
  \/ CastTimesOut(s)
  \/ MarkRelayed(s)

Service == Start \/ Poll \/ EndPoll \/ \E s \in Seqs : RelayOnce(s)

Killed == Crash \/ \E s \in Seqs : CrashCasting(s)

Environment ==
  \/ Killed \/ Pause \/ Resume
  \/ \E s \in Seqs : Publish(s) \/ OperatorCasts(s) \/ Land(s) \/ Drop(s)

Next == Service \/ Environment

Spec == Init /\ [][Next]_vars

\* What the scheduling and the environment owe the relayer: the process never
\* rests (systemd restarts it, cast returns), a listing does not fail for ever,
\* neither does cast for a message the contract would accept, and killings and
\* pauses come to an end.
Fairness ==
  /\ WF_vars(Service)
  /\ \A s \in Seqs : SF_vars(CastAccepted(s)) /\ WF_vars(Publish(s))
  /\ WF_vars(Resume)
  /\ <>[][~Killed /\ ~Pause]_vars

FairSpec == Spec /\ Fairness
-----------------------------------------------------------------------------
\* A revert is only mistaken for a delivery when the contract would have accepted
\* the message at another time: the two faults together lose it.
RevertsAreTold == ~({"revertHash", "pause"} \subseteq faults)

\* The transceiver has accepted it, or never will and cast does not say so.
IsDone(s) == s \in received \/ (kind[s] = "rejected" /\ "revertHash" \in faults)

\* A row means that the transceiver has accepted the message
\* (docs/algo_to_base.md:51), or will never accept it and cast did not say so,
\* whoever got it there and whatever crash, timeout, pause or lost race came in
\* between: a revert that cast takes for a delivery hides no transfer that is
\* still to be made.
RelayedIsReceived == RevertsAreTold => \A s \in relayed : IsDone(s)

\* The table prevents sending again what has a row (docs/db.md:25), and a row
\* is never lost.
MarkedForGood ==
  /\ relayed \subseteq relayed'
  /\ \A s \in Seqs : Casting(s)' => s \notin relayed'

RelayedForGood == [][MarkedForGood]_vars

\* No message waits for another: when a page holds them all, every transfer
\* that is listed is received, next to messages that are rejected for ever and
\* whether cast tells reverts or not.
EveryTransferReceived ==
  RevertsAreTold =>
    \A s \in Seqs : s \in listed /\ kind[s] = "ntt" ~> s \in received
=============================================================================
