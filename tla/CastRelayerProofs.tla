-------------------------- MODULE CastRelayerProofs --------------------------
(***************************************************************************)
(* Safety of the Algorand -> Base relayer for every set of messages and    *)
(* every set of faults.                                                    *)
(***************************************************************************)
EXTENDS CastRelayer, TLAPS

\* The contract accepts whatever it is going to, unless it is paused; cast is run
\* for what can be sent; and a cast that answered with a transaction hash has, as
\* each row has, got its message accepted or could not have.
ReceivedInv ==
  /\ "pause" \in faults \/ accepting
  /\ pc = "casting" => kind[current] \in {"ntt", "rejected"}
  /\ RevertsAreTold /\ pc = "sent" => IsDone(current)
  /\ RelayedIsReceived

\* The loop casts for what has no row, and has no row before it is done.
UnmarkedInv == pc \in {"casting", "sent"} => current \notin relayed

\* Every variable keeps its type, and a message is current exactly while cast
\* runs or has answered for it.
THEOREM TypeCorrect == Spec => []TypeOK
<1>1. Init => TypeOK
  BY DEF Init, TypeOK
<1>2. TypeOK /\ [Next]_vars => TypeOK'
  <2> SUFFICES ASSUME TypeOK, [Next]_vars PROVE TypeOK'
    OBVIOUS
  <2> USE CastSeqsAssumption DEF TypeOK, given, baseVars, castVars
  <2>1. CASE Start \/ Poll \/ EndPoll \/ Crash \/ Pause \/ Resume
    BY <2>1 DEF Start, Poll, Page, EndPoll, Crash, Dies, Pause, Resume
  <2>2. ASSUME NEW s \in Seqs, RelayOnce(s) PROVE TypeOK'
    <3>1. CASE Skip(s)         BY <3>1 DEF Skip
    <3>2. CASE Cast(s)         BY <3>2 DEF Cast
    <3>3. CASE CastAccepted(s) BY <3>3 DEF CastAccepted, Casting, HasHash
    <3>4. CASE CastReverted(s) \/ RevertUnseen(s)
      BY <3>4 DEF CastReverted, RevertUnseen, Casting, GoesOn, HasHash
    <3>5. CASE CastFails(s)    BY <3>5 DEF CastFails, GoesOn
    <3>6. CASE CastTimesOut(s) BY <3>6 DEF CastTimesOut, Broadcast, GoesOn
    <3>7. CASE MarkRelayed(s)  BY <3>7 DEF MarkRelayed
    <3> QED
      BY <2>2, <3>1, <3>2, <3>3, <3>4, <3>5, <3>6, <3>7 DEF RelayOnce
  <2>3. ASSUME NEW s \in Seqs,
               \/ CrashCasting(s) \/ Publish(s) \/ OperatorCasts(s)
               \/ Land(s) \/ Drop(s)
        PROVE  TypeOK'
    <3>1. CASE CrashCasting(s)
      BY <3>1 DEF CrashCasting, Dies, Broadcast
    <3>2. CASE Publish(s)
      BY <3>2 DEF Publish
    <3>3. CASE OperatorCasts(s)
      BY <3>3 DEF OperatorCasts, Broadcast
    <3>4. CASE Land(s)
      BY <3>4 DEF Land
    <3>5. CASE Drop(s)
      BY <3>5 DEF Drop
    <3> QED
      BY <2>3, <3>1, <3>2, <3>3, <3>4, <3>5
  <2>4. CASE UNCHANGED vars
    BY <2>4 DEF vars
  <2> QED
    BY <2>1, <2>2, <2>3, <2>4 DEF Next, Service, Environment, Killed
<1> QED
  BY <1>1, <1>2, PTL DEF Spec

\* The work on a message keeps what a row and an answer stand for.
LEMMA RelayKeepsReceived ==
  ASSUME TypeOK, ReceivedInv, NEW s \in Seqs, RelayOnce(s)
  PROVE  ReceivedInv'
<1> USE DEF TypeOK, ReceivedInv, RelayedIsReceived, RevertsAreTold, IsDone, given,
            baseVars
<1>1. CASE Skip(s)
  BY <1>1 DEF Skip
<1>2. CASE Cast(s)
  BY <1>2, CastKindsAssumption DEF Cast, NothingToCast
<1>3. CASE CastAccepted(s)
  BY <1>3 DEF CastAccepted, Casting, HasHash
<1>4. CASE CastReverted(s) \/ CastFails(s)
  BY <1>4 DEF CastReverted, CastFails, GoesOn
<1>5. CASE RevertUnseen(s)
  \* Without pauses, a transfer that reverts is one that somebody else delivered.
  <2>1. RevertsAreTold => IsDone(s)
    BY <1>5 DEF RevertUnseen, Casting, Accepts
  <2> QED
    BY <1>5, <2>1 DEF RevertUnseen, Casting, HasHash
<1>6. CASE CastTimesOut(s)
  BY <1>6 DEF CastTimesOut, Broadcast, GoesOn
<1>7. CASE MarkRelayed(s)
  BY <1>7 DEF MarkRelayed
<1> QED
  BY <1>1, <1>2, <1>3, <1>4, <1>5, <1>6, <1>7 DEF RelayOnce

\* The table never runs ahead of the contract (docs/algo_to_base.md:51): every row
\* stands for a received message or for one that can never be received, whether
\* cast tells reverts or not.
THEOREM RowsAreReceived == Spec => []RelayedIsReceived
<1>1. Init => ReceivedInv
  BY DEF Init, ReceivedInv, RelayedIsReceived
<1>2. TypeOK /\ ReceivedInv /\ [Next]_vars => ReceivedInv'
  <2> SUFFICES ASSUME TypeOK, ReceivedInv, [Next]_vars PROVE ReceivedInv'
    OBVIOUS
  <2> USE DEF ReceivedInv, RelayedIsReceived, RevertsAreTold, IsDone, given,
              baseVars, castVars
  <2>1. CASE Start \/ Poll \/ EndPoll \/ Crash \/ Pause \/ Resume
    BY <2>1 DEF Start, Poll, EndPoll, Crash, Dies, Pause, Resume
  <2>2. ASSUME NEW s \in Seqs,
               \/ CrashCasting(s) \/ Publish(s) \/ OperatorCasts(s)
               \/ Land(s) \/ Drop(s)
        PROVE  ReceivedInv'
    BY <2>2 DEF CrashCasting, Dies, Publish, OperatorCasts, Broadcast, Land,
                Drop
  <2>3. CASE UNCHANGED vars
    BY <2>3 DEF vars
  <2> QED
    BY <2>1, <2>2, <2>3, RelayKeepsReceived
    DEF Next, Service, Environment, Killed
<1>3. ReceivedInv => RelayedIsReceived
  BY DEF ReceivedInv
<1> QED
  BY <1>1, <1>2, <1>3, TypeCorrect, PTL DEF Spec

\* What has a row keeps it and is never sent again (docs/db.md:25).
THEOREM RowsAreForGood == Spec => RelayedForGood
<1> USE DEF UnmarkedInv
<1>1. Init => UnmarkedInv
  BY DEF Init
<1>2. /\ UnmarkedInv /\ [Next]_vars => UnmarkedInv'
      /\ UnmarkedInv /\ [Next]_vars => [MarkedForGood]_vars
  <2> SUFFICES ASSUME UnmarkedInv, [Next]_vars
               PROVE  UnmarkedInv' /\ MarkedForGood
    OBVIOUS
  <2> USE DEF MarkedForGood, given, baseVars, castVars, Casting
  <2>1. CASE Start \/ Poll \/ EndPoll \/ Crash \/ Pause \/ Resume
    BY <2>1 DEF Start, Poll, EndPoll, Crash, Dies, Pause, Resume
  <2>2. ASSUME NEW s \in Seqs, RelayOnce(s)
        PROVE  UnmarkedInv' /\ MarkedForGood
    BY <2>2 DEF RelayOnce, Skip, Cast, NothingToCast, CastAccepted,
                CastReverted, RevertUnseen, CastFails, CastTimesOut, MarkRelayed,
                Broadcast, GoesOn, HasHash
  <2>3. ASSUME NEW s \in Seqs,
               \/ CrashCasting(s) \/ Publish(s) \/ OperatorCasts(s)
               \/ Land(s) \/ Drop(s)
        PROVE  UnmarkedInv' /\ MarkedForGood
    BY <2>3 DEF CrashCasting, Dies, Publish, OperatorCasts, Broadcast, Land,
                Drop
  <2>4. CASE UNCHANGED vars
    BY <2>4 DEF vars
  <2> QED
    BY <2>1, <2>2, <2>3, <2>4 DEF Next, Service, Environment, Killed
<1> QED
  BY <1>1, <1>2, PTL DEF Spec, RelayedForGood
=============================================================================
