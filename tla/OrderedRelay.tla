---------------------------- MODULE OrderedRelay ----------------------------
(***************************************************************************)
(* What the Base -> Algorand service promises, without its table, its      *)
(* steps or its failures: listed messages are settled one at a time in the *)
(* order of their sequences, each once and for good, and one that is       *)
(* settled as complete has its tokens minted.                              *)
(***************************************************************************)
EXTENDS Naturals

CONSTANT Seqs   \* sequence numbers, a subset of Nat

VARIABLES
  listed,    \* the messages on WormholeScan
  minted,    \* the messages whose tokens are minted
  outcome    \* "open", "complete" or "failed" for every message

vars == <<listed, minted, outcome>>

Init ==
  /\ listed = {}
  /\ minted = {}
  /\ outcome = [s \in Seqs |-> "open"]

List(s) ==
  /\ s \notin listed
  /\ listed' = listed \union {s}
  /\ UNCHANGED <<minted, outcome>>

\* A mint is the chain's doing: the relay makes it happen, or someone else.
Mint(s) ==
  /\ s \notin minted
  /\ minted' = minted \union {s}
  /\ UNCHANGED <<listed, outcome>>

\* A message's turn has come: it is open, and the last open one downwards.
Turn(s) ==
  /\ s \in listed
  /\ outcome[s] = "open"
  /\ \A t \in Seqs : t < s => outcome[t] # "open"

Complete(s) ==
  /\ Turn(s) /\ s \in minted
  /\ outcome' = [outcome EXCEPT ![s] = "complete"]
  /\ UNCHANGED <<listed, minted>>

Fail(s) ==
  /\ Turn(s)
  /\ outcome' = [outcome EXCEPT ![s] = "failed"]
  /\ UNCHANGED <<listed, minted>>

Next == \E s \in Seqs : List(s) \/ Mint(s) \/ Complete(s) \/ Fail(s)

Spec == Init /\ [][Next]_vars
=============================================================================
