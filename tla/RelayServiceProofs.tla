------------------------- MODULE RelayServiceProofs -------------------------
(***************************************************************************)
(* Safety of the relay service for every set of messages, retry limit,     *)
(* page size and set of faults.                                            *)
(***************************************************************************)
EXTENDS RelayService, FiniteSetTheorems, TLAPS

(***************************************************************************)
(* Type correctness.                                                       *)
(***************************************************************************)

\* The contracts' variables keep their types, whoever moves them.
LEMMA ChainTyping ==
  ASSUME NEW s \in Seqs, ChainTypeOK,
         \/ ConfirmAttest(s) \/ ConfirmExecute(s)
         \/ BroadcastAttest(s) \/ BroadcastExecute(s)
         \/ LandAttest(s) \/ LandExecute(s)
         \/ DropAttest(s) \/ DropExecute(s)
         \/ UNCHANGED chainVars
  PROVE  ChainTypeOK'
<1> USE DEF ChainTypeOK
<1>1. CASE ConfirmAttest(s)    BY <1>1 DEF ConfirmAttest
<1>2. CASE ConfirmExecute(s)   BY <1>2 DEF ConfirmExecute
<1>3. CASE BroadcastAttest(s)  BY <1>3 DEF BroadcastAttest
<1>4. CASE BroadcastExecute(s) BY <1>4 DEF BroadcastExecute
<1>5. CASE LandAttest(s)       BY <1>5 DEF LandAttest
<1>6. CASE LandExecute(s)      BY <1>6 DEF LandExecute
<1>7. CASE DropAttest(s)       BY <1>7 DEF DropAttest
<1>8. CASE DropExecute(s)      BY <1>8 DEF DropExecute
<1>9. CASE UNCHANGED chainVars BY <1>9 DEF chainVars
<1> QED
  BY <1>1, <1>2, <1>3, <1>4, <1>5, <1>6, <1>7, <1>8, <1>9

\* What a step of process_sequence does to the table and to the loop.
LEMMA ProcessTyping ==
  ASSUME TypeOK, NEW s \in Seqs, Process(s)
  PROVE  TypeOK'
<1> USE DEF TypeOK, Points, AttestPoints, ExecutePoints, Statuses
<1>1. CASE PassOver(s)
  BY <1>1, ChainTyping DEF PassOver
<1>2. CASE FetchFails(s)
  BY <1>2, ChainTyping DEF FetchFails, Abandon
<1>3. CASE Fetch(s)
  BY <1>3, ChainTyping DEF Fetch, Goto
<1>4. CASE SetupMissing(s)
  BY <1>4, ChainTyping DEF SetupMissing, Abandon
<1>5. CASE StepRaises(s)
  BY <1>5, ChainTyping DEF StepRaises, CountAttempt, Abandon
<1>6. CASE AttestSkipped(s)
  BY <1>6, ChainTyping DEF AttestSkipped, Goto
<1>7. CASE AttestBuilt(s)
  BY <1>7, ChainTyping DEF AttestBuilt, Goto
<1>8. CASE AttestConfirmed(s)
  BY <1>8, ChainTyping DEF AttestConfirmed, Goto
<1>9. CASE AttestSwallowed(s)
  BY <1>9, ChainTyping DEF AttestSwallowed, Goto
<1>10. CASE AttestTimesOut(s)
  BY <1>10, ChainTyping DEF AttestTimesOut, Goto
<1>11. CASE MarkAttested(s)
  BY <1>11, ChainTyping DEF MarkAttested, Goto
<1>12. CASE ExecuteSkipped(s)
  BY <1>12, ChainTyping DEF ExecuteSkipped, Goto
<1>13. CASE ExecuteBuilt(s)
  BY <1>13, ChainTyping DEF ExecuteBuilt, Goto
<1>14. CASE ExecuteConfirmed(s)
  BY <1>14, ChainTyping DEF ExecuteConfirmed, Goto
<1>15. CASE ExecuteRefused(s)
  BY <1>15, ChainTyping DEF ExecuteRefused, CountAttempt, Abandon
<1>16. CASE ExecuteTimesOut(s)
  BY <1>16, ChainTyping DEF ExecuteTimesOut, CountAttempt, Abandon
<1>17. CASE MarkComplete(s)
  BY <1>17, ChainTyping DEF MarkComplete
<1> QED
  BY <1>1, <1>2, <1>3, <1>4, <1>5, <1>6, <1>7, <1>8, <1>9, <1>10, <1>11,
     <1>12, <1>13, <1>14, <1>15, <1>16, <1>17 DEF Process

\* What any other step does.
LEMMA LoopTyping ==
  ASSUME TypeOK,
         \/ Start \/ Poll \/ PollUnlisted \/ EndPoll \/ Stop
         \/ Sigterm \/ Crash
  PROVE  TypeOK'
<1> USE DEF TypeOK, ChainTypeOK, chainVars, Points
<1>1. CASE Start        BY <1>1 DEF Start
<1>2. CASE Poll         BY <1>2 DEF Poll, NewSeqs, Listed
<1>3. CASE PollUnlisted BY <1>3 DEF PollUnlisted
<1>4. CASE EndPoll      BY <1>4 DEF EndPoll, Abandon
<1>5. CASE Stop         BY <1>5 DEF Stop, Goto
<1>6. CASE Sigterm      BY <1>6 DEF Sigterm
<1>7. CASE Crash        BY <1>7 DEF Crash, Dies
<1> QED
  BY <1>1, <1>2, <1>3, <1>4, <1>5, <1>6, <1>7

\* What happens outside the process, and its death in a send, keep the types.
LEMMA EnvironmentTyping ==
  ASSUME TypeOK, NEW s \in Seqs,
         \/ CrashAttesting(s) \/ CrashExecuting(s)
         \/ Publish(s) \/ OperatorAttests(s) \/ OperatorExecutes(s)
         \/ LandAttest(s) /\ UNCHANGED <<visible, serviceVars>>
         \/ LandExecute(s) /\ UNCHANGED <<visible, serviceVars>>
         \/ DropAttest(s) /\ UNCHANGED <<visible, serviceVars>>
         \/ DropExecute(s) /\ UNCHANGED <<visible, serviceVars>>
  PROVE  TypeOK'
<1> USE ChainTyping DEF TypeOK, Points, serviceVars
<1>1. CASE CrashAttesting(s)   BY <1>1 DEF CrashAttesting, Dies
<1>2. CASE CrashExecuting(s)   BY <1>2 DEF CrashExecuting, Dies
<1>3. CASE Publish(s)          BY <1>3 DEF Publish
<1>4. CASE OperatorAttests(s)  BY <1>4 DEF OperatorAttests
<1>5. CASE OperatorExecutes(s) BY <1>5 DEF OperatorExecutes
<1> QED
  BY <1>1, <1>2, <1>3, <1>4, <1>5

\* Every variable keeps its type: the table, the loop and the contracts.
THEOREM TypeCorrect == Spec => []TypeOK
<1>1. Init => TypeOK
  BY DEF Init, ChainInit, TypeOK, ChainTypeOK, Statuses, Points
<1>2. TypeOK /\ [Next]_vars => TypeOK'
  <2> SUFFICES ASSUME TypeOK, [Next]_vars PROVE TypeOK'
    OBVIOUS
  <2>1. CASE Service
    BY <2>1, LoopTyping, ProcessTyping DEF Service
  <2>2. CASE Environment
    <3>1. CASE Sigterm \/ Crash
      BY <3>1, LoopTyping
    <3>2. ASSUME NEW s \in Seqs,
                 \/ CrashAttesting(s) \/ CrashExecuting(s) \/ Publish(s)
                 \/ OperatorAttests(s) \/ OperatorExecutes(s)
          PROVE  TypeOK'
      BY <3>2, EnvironmentTyping
    <3>3. CASE ChainNext /\ UNCHANGED <<visible, serviceVars>>
      BY <3>3, EnvironmentTyping DEF ChainNext
    <3> QED
      BY <2>2, <3>1, <3>2, <3>3 DEF Environment, Killed
  <2>3. CASE UNCHANGED vars
    BY <2>3 DEF vars, chainVars, serviceVars, TypeOK, ChainTypeOK
  <2> QED
    BY <2>1, <2>2, <2>3 DEF Next
<1> QED
  BY <1>1, <1>2, PTL DEF Spec
(***************************************************************************)
(* The table: the retry limit, the order of processing, the lifecycle of a *)
(* row, whatever the faults.                                               *)
(***************************************************************************)

\* At most one message is next.
LEMMA NextIsUnique ==
  ASSUME NEW s \in Seqs, NEW t \in Seqs, IsNext(s), IsNext(t)
  PROVE  s = t
BY SeqsAssumption DEF IsNext

\* The work on a message keeps the counters and the order of the loop.
LEMMA ProcessKeepsTable ==
  ASSUME TableInv, NEW s \in Seqs, Process(s)
  PROVE  (RetryBudget /\ NoRowNoAttempt /\ LoopKnows /\ RetriesAhead)'
<1> USE MaxAttemptsAssumption, SeqsAssumption, NextIsUnique
    DEF TableInv, TypeOK, RetryBudget, NoRowNoAttempt, LoopKnows, RetriesAhead,
        Processing, Retryable, Settled, At, Takes, IsNext,
        AttestPoints, ExecutePoints, Statuses
<1>1. CASE PassOver(s)
  BY <1>1 DEF PassOver, Goto, Abandon, CountAttempt
<1>2. CASE FetchFails(s)
  BY <1>2 DEF FetchFails, Goto, Abandon, CountAttempt
<1>3. CASE Fetch(s)
  BY <1>3 DEF Fetch, Goto, Abandon, CountAttempt
<1>4. CASE SetupMissing(s)
  BY <1>4 DEF SetupMissing, Goto, Abandon, CountAttempt
<1>5. CASE StepRaises(s)
  BY <1>5 DEF StepRaises, Goto, Abandon, CountAttempt
<1>6. CASE AttestSkipped(s)
  BY <1>6 DEF AttestSkipped, Goto, Abandon, CountAttempt
<1>7. CASE AttestBuilt(s)
  BY <1>7 DEF AttestBuilt, Goto, Abandon, CountAttempt
<1>8. CASE AttestConfirmed(s)
  BY <1>8 DEF AttestConfirmed, Goto, Abandon, CountAttempt
<1>9. CASE AttestSwallowed(s)
  BY <1>9 DEF AttestSwallowed, Goto, Abandon, CountAttempt
<1>10. CASE AttestTimesOut(s)
  BY <1>10 DEF AttestTimesOut, Goto, Abandon, CountAttempt
<1>11. CASE MarkAttested(s)
  BY <1>11 DEF MarkAttested, Goto, Abandon, CountAttempt
<1>12. CASE ExecuteSkipped(s)
  BY <1>12 DEF ExecuteSkipped, Goto, Abandon, CountAttempt
<1>13. CASE ExecuteBuilt(s)
  BY <1>13 DEF ExecuteBuilt, Goto, Abandon, CountAttempt
<1>14. CASE ExecuteConfirmed(s)
  BY <1>14 DEF ExecuteConfirmed, Goto, Abandon, CountAttempt
<1>15. CASE ExecuteRefused(s)
  BY <1>15 DEF ExecuteRefused, Goto, Abandon, CountAttempt
<1>16. CASE ExecuteTimesOut(s)
  BY <1>16 DEF ExecuteTimesOut, Goto, Abandon, CountAttempt
<1>17. CASE MarkComplete(s)
  BY <1>17 DEF MarkComplete, Goto, Abandon, CountAttempt
<1> QED
  BY <1>1, <1>2, <1>3, <1>4, <1>5, <1>6, <1>7, <1>8, <1>9, <1>10, <1>11, <1>12, <1>13, <1>14, <1>15, <1>16, <1>17 DEF Process
\* The poll loop, a signal and a crash leave the table alone; a poll starts with
\* everything that can be retried.
LEMMA LoopKeepsTable ==
  ASSUME TableInv,
         \/ Start \/ Poll \/ PollUnlisted \/ EndPoll \/ Stop
         \/ Sigterm \/ Crash
  PROVE  (RetryBudget /\ NoRowNoAttempt /\ LoopKnows /\ RetriesAhead)'
<1> USE DEF TableInv, TypeOK, RetryBudget, NoRowNoAttempt, LoopKnows,
            RetriesAhead, Processing, Retryable, IsNext,
            AttestPoints, ExecutePoints
<1>1. CASE Start        BY <1>1 DEF Start
<1>2. CASE Poll         BY <1>2 DEF Poll
<1>3. CASE PollUnlisted BY <1>3 DEF PollUnlisted
<1>4. CASE EndPoll      BY <1>4 DEF EndPoll, Abandon
<1>5. CASE Stop         BY <1>5 DEF Stop, Goto
<1>6. CASE Sigterm      BY <1>6 DEF Sigterm
<1>7. CASE Crash        BY <1>7 DEF Crash, Dies
<1> QED
  BY <1>1, <1>2, <1>3, <1>4, <1>5, <1>6, <1>7

\* The steps of the environment that change no more than the contracts, the
\* listing and whether the process is alive.
LEMMA EnvironmentFrame ==
  ASSUME NEW s \in Seqs,
         \/ CrashAttesting(s) \/ CrashExecuting(s)
         \/ Publish(s) \/ OperatorAttests(s) \/ OperatorExecutes(s)
         \/ ChainNext /\ UNCHANGED <<visible, serviceVars>>
  PROVE  /\ UNCHANGED <<status, attempts, running>>
         /\ \/ pc' = "down" /\ work' = {}
            \/ UNCHANGED <<pc, work>>
BY DEF CrashAttesting, CrashExecuting, Dies, Publish, OperatorAttests,
       OperatorExecutes, serviceVars

\* The table, under every fault.
LEMMA TableInvariant == Spec => []TableInv
<1>1. Init => TableInv
  <2> SUFFICES ASSUME Init PROVE TableInv
    OBVIOUS
  <2>1. TypeOK
    BY DEF Init, ChainInit, TypeOK, ChainTypeOK, Statuses, Points
  <2> QED
    BY <2>1, MaxAttemptsAssumption
    DEF Init, TableInv, RetryBudget, NoRowNoAttempt, LoopKnows, RetriesAhead,
        Processing, AttestPoints, ExecutePoints
<1>2. TableInv /\ TypeOK' /\ [Next]_vars => TableInv'
  <2> SUFFICES ASSUME TableInv, TypeOK', [Next]_vars PROVE TableInv'
    OBVIOUS
  <2>1. CASE Service
    BY <2>1, LoopKeepsTable, ProcessKeepsTable DEF Service, TableInv
  <2>2. CASE Sigterm \/ Crash
    BY <2>2, LoopKeepsTable DEF TableInv
  <2>3. ASSUME UNCHANGED <<status, attempts, running>>,
               (pc' = "down" /\ work' = {}) \/ UNCHANGED <<pc, work>>
        PROVE  TableInv'
    BY <2>3 DEF TableInv, RetryBudget, NoRowNoAttempt, LoopKnows, RetriesAhead,
                Processing, Retryable, IsNext, AttestPoints, ExecutePoints
  <2>4. CASE Environment
    BY <2>2, <2>3, <2>4, EnvironmentFrame DEF Environment, Killed, ChainNext
  <2>5. CASE UNCHANGED vars
    BY <2>3, <2>5 DEF vars, serviceVars
  <2> QED
    BY <2>1, <2>4, <2>5 DEF Next
<1> QED
  BY <1>1, <1>2, TypeCorrect, PTL DEF Spec

\* No sequence is charged more than MaxAttempts attempts, and none is marked
\* failed with an attempt left (relay_service.py:189-193).
THEOREM RetryLimit == Spec => []RetryBudget
BY TableInvariant, PTL DEF TableInv

\* The loop never works on a sequence above one that can be retried
\* (relay_service.py:278), whatever the listing returns and in what order.
THEOREM NoSkippingAhead == Spec => []HeadOfLine
<1>1. TableInv => HeadOfLine
  BY SeqsAssumption
  DEF TableInv, RetriesAhead, HeadOfLine, Processing, IsNext
<1> QED
  BY <1>1, TableInvariant, PTL

\* In every step of the service and of its environment, rows move along their
\* lifecycle.
LEMMA StepAdvances ==
  ASSUME TableInv, [Next]_vars
  PROVE  TableAdvances
<1> SUFFICES ASSUME NEW r \in Seqs PROVE RowAdvances(r)
  BY DEF TableAdvances
<1>1. ASSUME UNCHANGED <<status, attempts>> PROVE RowAdvances(r)
  BY <1>1 DEF RowAdvances, RowSteps, TableInv, TypeOK, Statuses
<1>2. ASSUME NEW s \in Seqs, Process(s) PROVE RowAdvances(r)
  <2> USE MaxAttemptsAssumption
      DEF RowAdvances, RowSteps, TableInv, TypeOK, Statuses, Final,
          RetryBudget, NoRowNoAttempt
  <2>1. CASE PassOver(s)
    BY <2>1 DEF PassOver, Takes, At, Settled
  <2>2. CASE Fetch(s)
    BY <2>2 DEF Fetch
  <2>3. CASE StepRaises(s) \/ ExecuteRefused(s) \/ ExecuteTimesOut(s)
    BY <2>3 DEF StepRaises, ExecuteRefused, ExecuteTimesOut, CountAttempt,
                LoopKnows, Processing, At, AttestPoints, ExecutePoints
  <2>4. CASE MarkAttested(s) \/ MarkComplete(s)
    BY <2>4 DEF MarkAttested, MarkComplete, LoopKnows, Processing, At,
                AttestPoints, ExecutePoints
  <2>5. CASE \/ FetchFails(s) \/ SetupMissing(s)
             \/ AttestSkipped(s) \/ AttestBuilt(s) \/ AttestConfirmed(s)
             \/ AttestSwallowed(s) \/ AttestTimesOut(s)
             \/ ExecuteSkipped(s) \/ ExecuteBuilt(s) \/ ExecuteConfirmed(s)
    BY <1>1, <2>5
    DEF FetchFails, SetupMissing, AttestSkipped, AttestBuilt,
        AttestConfirmed, AttestSwallowed, AttestTimesOut, ExecuteSkipped,
        ExecuteBuilt, ExecuteConfirmed
  <2> QED
    BY <1>2, <2>1, <2>2, <2>3, <2>4, <2>5 DEF Process
<1>3. CASE \/ Start \/ Poll \/ PollUnlisted \/ EndPoll \/ Stop
           \/ Sigterm \/ Crash
  BY <1>1, <1>3 DEF Start, Poll, PollUnlisted, EndPoll, Stop, Sigterm,
                    Crash, Dies
<1>4. CASE Environment
  BY <1>1, <1>3, <1>4, EnvironmentFrame DEF Environment, Killed, ChainNext
<1>5. CASE UNCHANGED vars
  BY <1>1, <1>5 DEF vars, serviceVars
<1> QED
  BY <1>2, <1>3, <1>4, <1>5 DEF Next, Service

\* A row only moves along its lifecycle, in every step of the service and of
\* its environment (docs/db.md:61).
THEOREM RowsAdvance == Spec => RowsOnlyAdvance
<1>1. TableInv /\ [Next]_vars => [TableAdvances]_vars
  BY StepAdvances
<1> QED
  BY <1>1, TableInvariant, PTL DEF Spec, RowsOnlyAdvance

(***************************************************************************)
(* The order of messages, when they are listed in order and the service    *)
(* keeps up with them.                                                     *)
(***************************************************************************)

\* What is not settled is then on the page a poll is shown.
LEMMA PageHoldsOpen ==
  ASSUME KeepsUp(visible), NEW s \in visible, status[s] \notin Final
  PROVE  s \in Listed
BY DEF KeepsUp, Listed

\* It stays so: no row is reopened, and no message is listed on top of a full
\* page of others above an open one.
LEMMA StepKeepsUp ==
  ASSUME TableInv, OrderlyListing, KeepsUp(visible), [Next]_vars
  PROVE  KeepsUp(visible)'
<1>1. ASSUME UNCHANGED visible PROVE KeepsUp(visible)'
  <2>1. \A s \in visible : status[s] \in Final => status'[s] \in Final
    BY StepAdvances
    DEF TableAdvances, RowAdvances, RowSteps, Final, TableInv, TypeOK
  <2> QED
    BY <1>1, <2>1 DEF KeepsUp, OnPage
<1>2. ASSUME NEW s \in Seqs, Publish(s) PROVE KeepsUp(visible)'
  BY <1>2 DEF Publish, OrderlyListing, serviceVars, KeepsUp, OnPage
<1>3. ASSUME NEW s \in Seqs, Process(s) PROVE UNCHANGED visible
  BY <1>3 DEF Process, PassOver, FetchFails, Fetch, SetupMissing, StepRaises,
    AttestSkipped, AttestBuilt, AttestConfirmed, AttestSwallowed, AttestTimesOut,
    MarkAttested, ExecuteSkipped, ExecuteBuilt, ExecuteConfirmed, ExecuteRefused,
    ExecuteTimesOut, MarkComplete
<1>4. CASE Service
  BY <1>1, <1>3, <1>4 DEF Service, Start, Poll, PollUnlisted, EndPoll, Stop
<1>5. CASE Environment
  BY <1>1, <1>2, <1>5
  DEF Environment, Sigterm, Killed, Crash, CrashAttesting, CrashExecuting, Dies,
      OperatorAttests, OperatorExecutes
<1>6. CASE UNCHANGED vars
  BY <1>1, <1>6 DEF vars
<1> QED
  BY <1>4, <1>5, <1>6 DEF Next

\* The work on a message takes the lowest, so that order is kept.
LEMMA ProcessKeepsOrder ==
  ASSUME TableInv, OrderInv, NEW s \in Seqs, Process(s)
  PROVE  BelowInv'
<1> USE SeqsAssumption
    DEF TypeOK, OrderInv, BelowInv, StrictlyInOrder, ListedInOrder, NothingLeftBelow,
        Final
<1>1. CASE PassOver(s)
  BY <1>1, MaxAttemptsAssumption
  DEF PassOver, Takes, At, IsNext, Settled, TableInv, NoRowNoAttempt
<1>2. CASE Fetch(s)
  \* Below the lowest of work, nothing is left to settle.
  <2>1. \A t \in Seqs : t < s => status[t] \in Final
    BY <1>2 DEF Fetch, Takes, At, IsNext
  <2>2. s \in visible
    BY <1>2 DEF Fetch, Takes, At, IsNext
  <2> QED
    BY <1>2, <2>1, <2>2 DEF Fetch, Goto, TableInv
<1>3. CASE \/ FetchFails(s) \/ SetupMissing(s) \/ StepRaises(s)
           \/ ExecuteRefused(s) \/ ExecuteTimesOut(s)
  BY <1>3 DEF FetchFails, SetupMissing, StepRaises, ExecuteRefused,
              ExecuteTimesOut, Abandon
<1>4. CASE \/ AttestSkipped(s) \/ AttestBuilt(s) \/ AttestConfirmed(s)
           \/ AttestSwallowed(s) \/ AttestTimesOut(s)
           \/ ExecuteSkipped(s) \/ ExecuteBuilt(s) \/ ExecuteConfirmed(s)
  BY <1>4 DEF AttestSkipped, AttestBuilt, AttestConfirmed, AttestSwallowed,
              AttestTimesOut, ExecuteSkipped, ExecuteBuilt, ExecuteConfirmed,
              Goto
<1>5. CASE MarkAttested(s)
  <2>1. s \in work /\ status[s] = "pending"
    BY <1>5 DEF MarkAttested, At, IsNext, TableInv, LoopKnows, Processing,
                AttestPoints
  <2> QED
    BY <1>5, <2>1 DEF MarkAttested, Goto, TableInv
<1>6. CASE MarkComplete(s)
  <2>1. s \in work /\ status[s] = "attested"
    BY <1>6 DEF MarkComplete, At, IsNext, TableInv, LoopKnows, Processing,
                AttestPoints, ExecutePoints
  <2> QED
    BY <1>6, <2>1 DEF MarkComplete, TableInv
<1> QED
  BY <1>1, <1>2, <1>3, <1>4, <1>5, <1>6 DEF Process

\* A poll takes all there is to do above the cut, and all retries below it.
LEMMA PollKeepsOrder ==
  ASSUME TableInv, OrderlyListing, OrderInv, Poll \/ PollUnlisted
  PROVE  BelowInv'
<1> USE DEF OrderInv, BelowInv, TypeOK, TableInv
<1>1. (StrictlyInOrder /\ ListedInOrder)'
  BY DEF Poll, PollUnlisted, StrictlyInOrder, ListedInOrder, Final, Retryable,
         NewSeqs, Listed
<1>2. ASSUME NEW s \in work', NEW t \in Seqs, t < s, status[t] \notin Final
      PROVE  t \in work'
  <2>1. CASE Retryable(s)
    <3>1. s \in Seqs
      BY <1>2 DEF Poll, PollUnlisted, NewSeqs, Listed
    <3> QED
      \* A row is open only above settled ones.
      BY <1>2, <2>1, <3>1 DEF Retryable, StrictlyInOrder
  <2>2. CASE ~Retryable(s)
    <3>1. Poll /\ s \in visible /\ BeyondLastComplete(s)
      BY <1>2, <2>2 DEF Poll, PollUnlisted, NewSeqs, Listed
    <3>2. t \in visible
      BY <1>2, <3>1 DEF ListedInOrder
    <3>3. BeyondLastComplete(t)
      \* Below a complete sequence everything is settled.
      BY <1>2, SeqsAssumption DEF BeyondLastComplete, StrictlyInOrder, Final
    <3> QED
      BY <1>2, <3>1, <3>2, <3>3, PageHoldsOpen DEF Poll, NewSeqs
  <2> QED
    BY <2>1, <2>2
<1>3. NothingLeftBelow'
  BY <1>2 DEF NothingLeftBelow, Poll, PollUnlisted, Final
<1> QED
  BY <1>1, <1>3

\* A message is listed after the lower ones.
LEMMA PublishKeepsOrder ==
  ASSUME TableInv, OrderlyListing, OrderInv, NEW s \in Seqs, Publish(s)
  PROVE  BelowInv'
BY DEF Publish, OrderlyListing, serviceVars, OrderInv, BelowInv, StrictlyInOrder,
       ListedInOrder, NothingLeftBelow, Final, TableInv, TypeOK

\* Nothing is left below, when messages are listed in order and kept up with.
LEMMA OrderInvariant == OrderlyListing => (Spec => []OrderInv)
<1> SUFFICES ASSUME OrderlyListing PROVE Spec => []OrderInv
  OBVIOUS
<1>1. Init => OrderInv
  BY DEF Init, OrderInv, BelowInv, StrictlyInOrder, ListedInOrder,
         NothingLeftBelow, KeepsUp
<1>2. TableInv /\ OrderInv /\ [Next]_vars => OrderInv'
  <2> SUFFICES ASSUME TableInv, OrderInv, [Next]_vars PROVE BelowInv'
    BY StepKeepsUp DEF OrderInv
  <2>1. ASSUME UNCHANGED <<status, visible>>, work' = {} \/ UNCHANGED work
        PROVE  BelowInv'
    BY <2>1 DEF OrderInv, BelowInv, StrictlyInOrder, ListedInOrder, NothingLeftBelow,
                Final
  <2>2. CASE Start \/ EndPoll \/ Stop \/ Sigterm \/ Crash
    BY <2>1, <2>2 DEF Start, EndPoll, Abandon, Stop, Goto, Sigterm, Crash, Dies
  <2>3. CASE Service
    BY <2>2, <2>3, PollKeepsOrder, ProcessKeepsOrder DEF Service
  <2>4. ASSUME NEW s \in Seqs,
               \/ CrashAttesting(s) \/ CrashExecuting(s)
               \/ OperatorAttests(s) \/ OperatorExecutes(s)
        PROVE  BelowInv'
    BY <2>1, <2>4 DEF CrashAttesting, CrashExecuting, Dies, OperatorAttests,
                      OperatorExecutes, serviceVars
  <2>5. CASE ChainNext /\ UNCHANGED <<visible, serviceVars>>
    BY <2>1, <2>5 DEF serviceVars
  <2>6. CASE Environment
    BY <2>2, <2>4, <2>5, <2>6, PublishKeepsOrder DEF Environment, Killed
  <2>7. CASE UNCHANGED vars
    BY <2>1, <2>7 DEF vars, serviceVars
  <2> QED
    BY <2>3, <2>6, <2>7 DEF Next
<1> QED
  BY <1>1, <1>2, TableInvariant, PTL DEF Spec

\* Messages are relayed strictly one after the other: a row is opened only when
\* every lower sequence is complete or failed (docs/base_to_algo.md:71).
THEOREM RelayedInOrder == OrderlyListing => (Spec => []StrictlyInOrder)
<1>1. OrderInv => StrictlyInOrder
  BY DEF OrderInv, BelowInv
<1> QED
  BY <1>1, OrderInvariant, PTL

\* Nothing is forgotten: a message that is out of attempts is not below a complete
\* one before it is marked failed, so the listing still shows it
\* (relay_service.py:102-107, 190, 249-256).
THEOREM NoneIsForgotten == OrderlyListing => (Spec => []NoneForgotten)
<1> SUFFICES ASSUME OrderlyListing PROVE Spec => []NoneForgotten
  OBVIOUS
<1>1. TypeOK /\ OrderInv => NoneForgotten
  <2> SUFFICES ASSUME TypeOK, OrderInv,
                      NEW s \in visible, status[s] \notin Final
               PROVE  s \in NewSeqs
    BY DEF NoneForgotten
  <2>1. s \in Seqs /\ Seqs \subseteq Nat
    BY SeqsAssumption DEF TypeOK
  <2>2. ASSUME NEW c \in Seqs, status[c] = "complete" PROVE c < s
    <3>1. c # s /\ ~(s < c)
      BY <2>1, <2>2 DEF OrderInv, BelowInv, StrictlyInOrder, Final
    <3> QED
      BY <2>1, <3>1
  <2>3. s \in Listed
    BY PageHoldsOpen DEF OrderInv
  <2> QED
    BY <2>2, <2>3 DEF NewSeqs, BeyondLastComplete
<1> QED
  BY <1>1, TypeCorrect, OrderInvariant, PTL

(***************************************************************************)
(* The table and the chain, when step 1 is not misled.                     *)
(***************************************************************************)

\* Attestations are never lost, and only of messages that get one.
LEMMA AttestedGrows ==
  ASSUME Next, OnlyTransfersAttested
  PROVE  attested \subseteq attested' /\ OnlyTransfersAttested'
<1> USE DEF OnlyTransfersAttested, chainVars
<1>1. ASSUME UNCHANGED <<kind, attested>>
      PROVE  attested \subseteq attested' /\ OnlyTransfersAttested'
  BY <1>1
<1>2. ASSUME NEW s \in Seqs, ConfirmAttest(s) \/ LandAttest(s)
      PROVE  attested \subseteq attested' /\ OnlyTransfersAttested'
  BY <1>2 DEF ConfirmAttest, LandAttest, AcceptsAttest
<1>3. CASE Service
  <2>1. ASSUME NEW s \in Seqs, Process(s), ~AttestConfirmed(s)
        PROVE  UNCHANGED <<kind, attested>>
    BY <2>1
    DEF Process, PassOver, FetchFails, Fetch, SetupMissing, StepRaises,
        AttestSkipped, AttestBuilt, AttestSwallowed, AttestTimesOut,
        MarkAttested, ExecuteSkipped, ExecuteBuilt, ExecuteConfirmed,
        ExecuteRefused, ExecuteTimesOut, MarkComplete, BroadcastAttest,
        BroadcastExecute, ConfirmExecute
  <2>2. ASSUME Start \/ Poll \/ PollUnlisted \/ EndPoll \/ Stop
        PROVE  UNCHANGED <<kind, attested>>
    BY <2>2 DEF Start, Poll, PollUnlisted, EndPoll, Stop
  <2>3. ASSUME NEW s \in Seqs, AttestConfirmed(s)
        PROVE  ConfirmAttest(s)
    BY <2>3 DEF AttestConfirmed
  <2> QED
    BY <1>1, <1>2, <1>3, <2>1, <2>2, <2>3 DEF Service
<1>4. CASE Environment
  <2>1. ASSUME NEW s \in Seqs,
               \/ CrashAttesting(s) \/ CrashExecuting(s) \/ Publish(s)
               \/ OperatorAttests(s) \/ OperatorExecutes(s)
               \/ LandExecute(s) \/ DropAttest(s) \/ DropExecute(s)
        PROVE  UNCHANGED <<kind, attested>>
    BY <2>1 DEF CrashAttesting, CrashExecuting, Publish, OperatorAttests,
                OperatorExecutes, BroadcastAttest, BroadcastExecute,
                LandExecute, DropAttest, DropExecute
  <2>2. ASSUME Sigterm \/ Crash
        PROVE  UNCHANGED <<kind, attested>>
    BY <2>2 DEF Sigterm, Crash
  <2> QED
    BY <1>1, <1>2, <1>4, <2>1, <2>2 DEF Environment, Killed, ChainNext
<1> QED
  BY <1>3, <1>4 DEF Next

\* A row says attested only after an attestation that is on chain.
LEMMA ProcessKeepsAttest ==
  ASSUME TableInv, AttestInv, ReliableAttest, attested \subseteq attested',
         NEW s \in Seqs, Process(s)
  PROVE  (AttestedIsOnChain /\ AttestDone)'
<1> USE DEF TableInv, TypeOK, AttestInv, AttestedIsOnChain, AttestDone, At
<1>0. kind \in [Seqs -> {"ntt", "malformed"}]
  BY DEF ChainTypeOK, ReliableAttest
<1>1. CASE PassOver(s)
  BY <1>1 DEF PassOver, chainVars, Takes
<1>2. CASE Fetch(s)
  BY <1>2 DEF Fetch, Goto, Takes
<1>3. CASE \/ FetchFails(s) \/ SetupMissing(s) \/ StepRaises(s)
           \/ ExecuteRefused(s) \/ ExecuteTimesOut(s)
  BY <1>3 DEF FetchFails, SetupMissing, StepRaises, ExecuteRefused,
              ExecuteTimesOut, Abandon
<1>4. CASE AttestSkipped(s)
  BY <1>4, NextIsUnique
  DEF AttestSkipped, NothingToAttest, Goto, IsNext, ReliableAttest
<1>5. CASE AttestBuilt(s)
  BY <1>0, <1>5, NextIsUnique DEF AttestBuilt, Goto, IsNext, chainVars
<1>6. CASE AttestConfirmed(s)
  BY <1>6, NextIsUnique DEF AttestConfirmed, ConfirmAttest, Goto, IsNext
<1>7. CASE AttestSwallowed(s)
  BY <1>7, NextIsUnique
  DEF AttestSwallowed, AcceptsAttest, Goto, IsNext, ReliableAttest
<1>8. CASE AttestTimesOut(s)
  BY <1>8 DEF AttestTimesOut, ReliableAttest
<1>9. CASE MarkAttested(s)
  BY <1>9 DEF MarkAttested, Goto
<1>10. CASE \/ ExecuteSkipped(s) \/ ExecuteBuilt(s) \/ ExecuteConfirmed(s)
  BY <1>10 DEF ExecuteSkipped, ExecuteBuilt, ExecuteConfirmed, Goto
<1>11. CASE MarkComplete(s)
  \* The row was attested.
  <2>1. status[s] = "attested"
    BY <1>11 DEF MarkComplete, LoopKnows, Processing, AttestPoints,
                 ExecutePoints
  <2> QED
    BY <1>11, <2>1 DEF MarkComplete
<1> QED
  BY <1>1, <1>2, <1>3, <1>4, <1>5, <1>6, <1>7, <1>8, <1>9, <1>10, <1>11
  DEF Process

\* Step 1 has done what the table says.
LEMMA AttestInvariant == ReliableAttest => (Spec => []AttestInv)
<1> SUFFICES ASSUME ReliableAttest PROVE Spec => []AttestInv
  OBVIOUS
<1>1. Init => AttestInv
  BY DEF Init, ChainInit, AttestInv, AttestedIsOnChain, AttestDone,
         OnlyTransfersAttested
<1>2. TableInv /\ AttestInv /\ [Next]_vars => AttestInv'
  <2> SUFFICES ASSUME TableInv, AttestInv, [Next]_vars PROVE AttestInv'
    OBVIOUS
  <2>1. attested \subseteq attested' /\ OnlyTransfersAttested'
    BY AttestedGrows DEF AttestInv, vars, chainVars, OnlyTransfersAttested
  <2>2. ASSUME UNCHANGED <<kind, status>>,
               work' = {} \/ pc' \in {"down", "idle", "scan"}
                 \/ UNCHANGED <<pc, work>>
        PROVE  AttestInv'
    BY <2>1, <2>2 DEF AttestInv, AttestedIsOnChain, AttestDone, IsNext
  <2>3. CASE \/ Start \/ Poll \/ PollUnlisted \/ EndPoll \/ Stop
             \/ Sigterm \/ Crash
    BY <2>2, <2>3 DEF Start, Poll, PollUnlisted, EndPoll, Abandon, Stop, Goto,
                      Sigterm, Crash, Dies, chainVars
  <2>4. CASE Service
    BY <2>1, <2>3, <2>4, ProcessKeepsAttest DEF Service, AttestInv
  <2>5. CASE Environment
    <3>1. ASSUME NEW s \in Seqs,
                 \/ CrashAttesting(s) \/ CrashExecuting(s) \/ Publish(s)
                 \/ OperatorAttests(s) \/ OperatorExecutes(s)
                 \/ LandAttest(s) \/ LandExecute(s)
                 \/ DropAttest(s) \/ DropExecute(s)
          PROVE  UNCHANGED kind
      BY <3>1 DEF CrashAttesting, CrashExecuting, Publish, OperatorAttests,
                  OperatorExecutes, BroadcastAttest, BroadcastExecute,
                  LandAttest, LandExecute, DropAttest, DropExecute, chainVars
    <3> QED
      BY <2>2, <2>3, <2>5, <3>1, EnvironmentFrame
      DEF Environment, Killed, ChainNext
  <2>6. CASE UNCHANGED vars
    BY <2>2, <2>6 DEF vars, chainVars, serviceVars
  <2> QED
    BY <2>4, <2>5, <2>6 DEF Next
<1> QED
  BY <1>1, <1>2, TableInvariant, PTL DEF Spec

\* An attested row is attested on chain (docs/db.md:68), as long as no send of
\* step 1 fails unnoticed.
THEOREM AttestedOnChain == ReliableAttest => (Spec => []AttestedIsOnChain)
<1>1. AttestInv => AttestedIsOnChain
  BY DEF AttestInv
<1> QED
  BY <1>1, AttestInvariant, PTL
(***************************************************************************)
(* The table and the mint, when moreover the boxes can be read.            *)
(***************************************************************************)

\* A row says complete only after a mint, or when preflight has seen one.
LEMMA ProcessKeepsMint ==
  ASSUME TableInv, AttestInv, MintInv, ReliableBoxes, NEW s \in Seqs, Process(s)
  PROVE  MintInv'
<1> USE DEF TableInv, TypeOK, MintInv, CompleteIsMinted, ExecuteDone, At
<1>1. CASE PassOver(s)
  BY <1>1 DEF PassOver, chainVars, Takes
<1>2. CASE Fetch(s)
  BY <1>2 DEF Fetch, Goto, Takes, chainVars
<1>3. CASE FetchFails(s) \/ SetupMissing(s) \/ StepRaises(s)
  BY <1>3 DEF FetchFails, SetupMissing, StepRaises, Abandon, chainVars
<1>4. CASE \/ AttestSkipped(s) \/ AttestBuilt(s) \/ AttestConfirmed(s)
           \/ AttestSwallowed(s) \/ AttestTimesOut(s)
  BY <1>4 DEF AttestSkipped, AttestBuilt, AttestConfirmed, AttestSwallowed,
              AttestTimesOut, ConfirmAttest, BroadcastAttest, Goto, chainVars
<1>5. CASE MarkAttested(s)
  BY <1>5 DEF MarkAttested, Goto, chainVars
<1>6. CASE ExecuteSkipped(s)
  \* An attested row is attested on chain, so what preflight finds is that the
  \* message was executed: by an earlier run, or by someone else.
  <2>1. s \in executed
    BY <1>6 DEF ExecuteSkipped, ReliableBoxes, PreflightOk, AcceptsExecute,
                LoopKnows, Processing, AttestPoints, ExecutePoints,
                AttestInv, AttestedIsOnChain, OnlyTransfersAttested
  <2> QED
    BY <1>6, <2>1, NextIsUnique
    DEF ExecuteSkipped, Goto, IsNext, chainVars
<1>7. CASE ExecuteBuilt(s)
  BY <1>7 DEF ExecuteBuilt, Goto, chainVars
<1>8. CASE ExecuteConfirmed(s)
  BY <1>8, NextIsUnique DEF ExecuteConfirmed, ConfirmExecute, Goto, IsNext
<1>9. CASE ExecuteRefused(s) \/ ExecuteTimesOut(s)
  BY <1>9 DEF ExecuteRefused, ExecuteTimesOut, BroadcastExecute, Abandon,
              chainVars
<1>10. CASE MarkComplete(s)
  BY <1>10 DEF MarkComplete, chainVars
<1> QED
  BY <1>1, <1>2, <1>3, <1>4, <1>5, <1>6, <1>7, <1>8, <1>9, <1>10 DEF Process

\* Step 2 has done what the table says.
LEMMA MintInvariant == ReliableBoxes => (Spec => []MintInv)
<1> SUFFICES ASSUME ReliableBoxes PROVE Spec => []MintInv
  OBVIOUS
<1>0. Spec => []AttestInv
  BY AttestInvariant DEF ReliableBoxes
<1>1. Init => MintInv
  BY DEF Init, MintInv, CompleteIsMinted, ExecuteDone, At
<1>2. TableInv /\ AttestInv /\ MintInv /\ [Next]_vars => MintInv'
  <2> SUFFICES ASSUME TableInv, AttestInv, MintInv, [Next]_vars PROVE MintInv'
    OBVIOUS
  <2>1. ASSUME executed \subseteq executed', UNCHANGED status,
               pc' \in {"down", "idle", "scan"} \/ UNCHANGED <<pc, work>>
        PROVE  MintInv'
    BY <2>1 DEF MintInv, CompleteIsMinted, ExecuteDone, At, IsNext
  <2>2. CASE \/ Start \/ Poll \/ PollUnlisted \/ EndPoll \/ Stop
             \/ Sigterm \/ Crash
    BY <2>1, <2>2 DEF Start, Poll, PollUnlisted, EndPoll, Abandon, Stop, Goto,
                      Sigterm, Crash, Dies, chainVars
  <2>3. CASE Service
    BY <2>2, <2>3, ProcessKeepsMint DEF Service
  <2>4. CASE Environment
    <3>1. ASSUME NEW s \in Seqs,
                 \/ CrashAttesting(s) \/ CrashExecuting(s) \/ Publish(s)
                 \/ OperatorAttests(s) \/ OperatorExecutes(s)
                 \/ LandAttest(s) \/ LandExecute(s)
                 \/ DropAttest(s) \/ DropExecute(s)
          PROVE  executed \subseteq executed'
      BY <3>1 DEF CrashAttesting, CrashExecuting, Publish, OperatorAttests,
                  OperatorExecutes, BroadcastAttest, BroadcastExecute,
                  LandAttest, LandExecute, DropAttest, DropExecute, chainVars
    <3> QED
      BY <2>1, <2>2, <2>4, <3>1, EnvironmentFrame
      DEF Environment, Killed, ChainNext
  <2>5. CASE UNCHANGED vars
    BY <2>1, <2>5 DEF vars, chainVars, serviceVars
  <2> QED
    BY <2>3, <2>4, <2>5 DEF Next
<1> QED
  BY <1>0, <1>1, <1>2, TableInvariant, PTL DEF Spec

\* A complete row is minted (docs/db.md:69), whatever crash or timeout came
\* between the mint and the row.
THEOREM CompleteMinted == ReliableBoxes => (Spec => []CompleteIsMinted)
<1>1. MintInv => CompleteIsMinted
  BY DEF MintInv
<1> QED
  BY <1>1, MintInvariant, PTL
(***************************************************************************)
(* Failed rows, when the service learns the fate of what it sends.         *)
(***************************************************************************)

\* No attempt is charged to a message that has been minted.
LEMMA ProcessKeepsFate ==
  ASSUME TableInv, FateInv, ReliableExecute, NEW s \in Seqs, Process(s)
  PROVE  FateInv'
<1> USE DEF TableInv, TypeOK, ChainTypeOK, FateInv, At
<1>1. ASSUME pc \notin {"executing", "executeOk"},
             UNCHANGED <<executed, executeInFlight>>,
             \A t \in executed : status[t] = "complete" => status'[t] = "complete"
      PROVE  FateInv'
  BY <1>1
<1>2. CASE PassOver(s)
  BY <1>1, <1>2 DEF PassOver, Takes, chainVars
<1>3. CASE Fetch(s)
  BY <1>1, <1>3 DEF Fetch, Takes, chainVars
<1>4. CASE \/ FetchFails(s) \/ SetupMissing(s) \/ StepRaises(s)
           \/ AttestSkipped(s) \/ AttestBuilt(s)
  BY <1>1, <1>4 DEF FetchFails, Takes, SetupMissing, StepRaises, AttestSkipped,
                    AttestBuilt, chainVars
<1>5. CASE AttestConfirmed(s) \/ AttestSwallowed(s) \/ AttestTimesOut(s)
  BY <1>1, <1>5 DEF AttestConfirmed, AttestSwallowed, AttestTimesOut,
                    ConfirmAttest, BroadcastAttest, chainVars
<1>6. CASE MarkAttested(s)
  \* The loop knows its row to be pending, hence not complete.
  <2>1. status[s] = "pending"
    BY <1>6 DEF MarkAttested, LoopKnows, Processing, AttestPoints
  <2> QED
    BY <1>1, <1>6, <2>1 DEF MarkAttested, chainVars
<1>7. CASE ExecuteSkipped(s) \/ ExecuteBuilt(s)
  BY <1>1, <1>7 DEF ExecuteSkipped, ExecuteBuilt, chainVars
<1>8. CASE ExecuteConfirmed(s)
  BY <1>8 DEF ExecuteConfirmed, ConfirmExecute, Goto, IsNext
<1>9. CASE ExecuteRefused(s)
  \* Nothing is about to be updated: what is minted is complete.
  BY <1>9 DEF ExecuteRefused, Abandon, chainVars
<1>10. CASE ExecuteTimesOut(s)
  BY <1>10 DEF ExecuteTimesOut, ReliableExecute
<1>11. CASE MarkComplete(s)
  BY <1>11, NextIsUnique DEF MarkComplete, chainVars
<1> QED
  BY <1>2, <1>3, <1>4, <1>5, <1>6, <1>7, <1>8, <1>9, <1>10, <1>11 DEF Process

\* The service knows the fate of all it has sent.
LEMMA FateInvariant == ReliableExecute => (Spec => []FateInv)
<1> SUFFICES ASSUME ReliableExecute PROVE Spec => []FateInv
  OBVIOUS
<1>1. Init => FateInv
  BY DEF Init, ChainInit, FateInv
<1>2. TableInv /\ FateInv /\ [Next]_vars => FateInv'
  <2> SUFFICES ASSUME TableInv, FateInv, [Next]_vars PROVE FateInv'
    OBVIOUS
  <2> USE DEF TableInv, TypeOK, ChainTypeOK
  <2>1. ASSUME UNCHANGED <<executed, executeInFlight, status>>,
               pc # "executeOk" \/ UNCHANGED <<pc, work>>
        PROVE  FateInv'
    BY <2>1 DEF FateInv, At, IsNext
  <2>2. CASE Start \/ Poll \/ PollUnlisted \/ EndPoll \/ Stop \/ Sigterm
    BY <2>1, <2>2 DEF Start, Poll, PollUnlisted, EndPoll, Stop, Sigterm,
                      chainVars
  <2>3. CASE Service
    BY <2>2, <2>3, ProcessKeepsFate DEF Service
  <2>4. CASE Environment
    <3>1. ~Crash
      BY DEF Crash, Dies, ReliableExecute
    <3>2. ASSUME NEW s \in Seqs
          PROVE  /\ ~CrashAttesting(s) /\ ~CrashExecuting(s)
                 /\ ~OperatorAttests(s) /\ ~OperatorExecutes(s)
                 /\ ~LandExecute(s) /\ ~DropExecute(s)
      BY DEF CrashAttesting, CrashExecuting, Dies, OperatorAttests,
             OperatorExecutes, LandExecute, DropExecute, ReliableExecute,
             FateInv
    <3>3. ASSUME NEW s \in Seqs, Publish(s)
          PROVE  FateInv'
      BY <2>1, <3>3 DEF Publish, chainVars, serviceVars
    <3>4. ASSUME NEW s \in Seqs, LandAttest(s) \/ DropAttest(s),
                 UNCHANGED <<visible, serviceVars>>
          PROVE  FateInv'
      BY <2>1, <3>4 DEF LandAttest, DropAttest, serviceVars
    <3> QED
      BY <2>2, <2>4, <3>1, <3>2, <3>3, <3>4 DEF Environment, Killed, ChainNext
  <2>5. CASE UNCHANGED vars
    BY <2>1, <2>5 DEF vars, chainVars, serviceVars
  <2> QED
    BY <2>3, <2>4, <2>5 DEF Next
<1> QED
  BY <1>1, <1>2, TableInvariant, PTL DEF Spec

\* A failed row is not minted, then or later (docs/db.md:70), as long as no
\* execute group confirms behind the service's back: whatever boxes it cannot
\* read, and however often it is refused, listed late or told to stop.
THEOREM FailedNotMinted == ReliableExecute => (Spec => []FailedIsNotMinted)
<1>1. TableInv /\ FateInv => FailedIsNotMinted
  BY DEF FateInv, FailedIsNotMinted, At, TableInv, LoopKnows, Processing,
         AttestPoints, ExecutePoints
<1> QED
  BY <1>1, TableInvariant, FateInvariant, PTL
(***************************************************************************)
(* The promise.                                                            *)
(***************************************************************************)

\* The work on a message is a step of the promise or none.
LEMMA ProcessKeepsPromise ==
  ASSUME TableInv, OrderInv, MintInv, NEW s \in Seqs, Process(s)
  PROVE  [Promise!Next]_(Promise!vars)
<1> USE DEF TableInv, TypeOK, Promise!Next, Promise!vars
<1>1. CASE PassOver(s)
  <2>1. s \in visible /\ \A t \in Seqs : t < s => status[t] \in Final
    \* Nothing out of attempts is without a row, so its row was opened in order.
    BY <1>1, MaxAttemptsAssumption
    DEF PassOver, Takes, At, IsNext, Settled, NoRowNoAttempt, OrderInv, BelowInv,
        ListedInOrder, StrictlyInOrder
  <2>2. CASE status[s] \in Final
    BY <1>1, <2>2, MaxAttemptsAssumption
    DEF PassOver, Settled, Takes, Final, Outcome, chainVars
  <2>3. CASE status[s] \notin Final
    <3>1. Promise!Turn(s)
      BY <2>1, <2>3 DEF Promise!Turn, Outcome, Final
    <3>2. Outcome' = [Outcome EXCEPT ![s] = "failed"]
      BY <1>1, <2>3 DEF PassOver, Outcome, Final
    <3>3. Promise!Fail(s)
      BY <1>1, <3>1, <3>2 DEF Promise!Fail, PassOver, chainVars
    <3> QED
      BY <3>3
  <2> QED
    BY <2>2, <2>3
<1>2. CASE MarkComplete(s)
  <2>1. status[s] = "attested" /\ s \in executed /\ s \in work
    BY <1>2 DEF MarkComplete, LoopKnows, Processing, At, IsNext, AttestPoints,
                ExecutePoints, MintInv, ExecuteDone
  <2>2. Promise!Turn(s)
    BY <2>1 DEF Promise!Turn, Outcome, Final, OrderInv, BelowInv, ListedInOrder,
                StrictlyInOrder
  <2>3. Outcome' = [Outcome EXCEPT ![s] = "complete"]
    BY <1>2 DEF MarkComplete, Outcome, Final
  <2>4. Promise!Complete(s)
    BY <1>2, <2>1, <2>2, <2>3 DEF Promise!Complete, MarkComplete, chainVars
  <2> QED
    BY <2>4
<1>3. CASE ExecuteConfirmed(s)
  <2>1. Outcome' = Outcome
    BY <1>3 DEF ExecuteConfirmed, Outcome
  <2> QED
    BY <1>3, <2>1 DEF ExecuteConfirmed, ConfirmExecute, AcceptsExecute,
                      Promise!Mint
<1>4. CASE Fetch(s) \/ MarkAttested(s)
  \* A row that is opened or attested was open before and is open after.
  <2>1. status[s] \notin Final
    BY <1>4, MaxAttemptsAssumption
    DEF Fetch, MarkAttested, Takes, At, Settled, Final, RetryBudget, LoopKnows,
        Processing, AttestPoints
  <2>2. Outcome' = Outcome
    BY <1>4, <2>1 DEF Fetch, MarkAttested, Outcome, Final
  <2> QED
    BY <1>4, <2>2 DEF Fetch, MarkAttested, chainVars
<1>5. ASSUME UNCHANGED <<status, visible, executed>>
      PROVE  [Promise!Next]_(Promise!vars)
  BY <1>5 DEF Outcome
<1>6. CASE \/ FetchFails(s) \/ SetupMissing(s) \/ StepRaises(s)
           \/ AttestSkipped(s) \/ AttestBuilt(s) \/ AttestConfirmed(s)
           \/ AttestSwallowed(s) \/ AttestTimesOut(s)
           \/ ExecuteSkipped(s) \/ ExecuteBuilt(s)
           \/ ExecuteRefused(s) \/ ExecuteTimesOut(s)
  BY <1>5, <1>6
  DEF FetchFails, SetupMissing, StepRaises, AttestSkipped, AttestBuilt,
      AttestConfirmed, AttestSwallowed, AttestTimesOut, ExecuteSkipped,
      ExecuteBuilt, ExecuteRefused, ExecuteTimesOut, ConfirmAttest,
      BroadcastAttest, BroadcastExecute, chainVars
<1> QED
  BY <1>1, <1>2, <1>3, <1>4, <1>6 DEF Process

\* The service implements its promise: whatever crashes, retries, failed
\* listings and late groups come in between, a reader of the table sees messages
\* settled in order, once, and complete only when minted.
THEOREM Implements ==
  OrderlyListing /\ ReliableBoxes => (Spec => KeepsPromise)
<1> SUFFICES ASSUME OrderlyListing, ReliableBoxes PROVE Spec => KeepsPromise
  OBVIOUS
<1>1. Init => Promise!Init
  BY DEF Init, ChainInit, Promise!Init, Outcome, Final
<1>2. TableInv /\ OrderInv /\ MintInv /\ [Next]_vars
        => [Promise!Next]_(Promise!vars)
  <2> SUFFICES ASSUME TableInv, OrderInv, MintInv, [Next]_vars
               PROVE  [Promise!Next]_(Promise!vars)
    OBVIOUS
  <2>1. ASSUME UNCHANGED <<status, visible, executed>>
        PROVE  [Promise!Next]_(Promise!vars)
    BY <2>1 DEF Promise!vars, Outcome
  <2>2. CASE \/ Start \/ Poll \/ PollUnlisted \/ EndPoll \/ Stop
             \/ Sigterm \/ Crash
    BY <2>1, <2>2 DEF Start, Poll, PollUnlisted, EndPoll, Stop, Sigterm, Crash,
                      Dies, chainVars
  <2>3. CASE Service
    BY <2>2, <2>3, ProcessKeepsPromise DEF Service
  <2>4. ASSUME NEW s \in Seqs, Publish(s)
        PROVE  [Promise!Next]_(Promise!vars)
    BY <2>4 DEF Publish, serviceVars, chainVars, Outcome, Promise!List,
                Promise!Next
  <2>5. ASSUME NEW s \in Seqs, LandExecute(s), UNCHANGED <<visible, serviceVars>>
        PROVE  [Promise!Next]_(Promise!vars)
    BY <2>5 DEF LandExecute, AcceptsExecute, serviceVars, Outcome,
                Promise!Mint, Promise!Next
  <2>6. ASSUME NEW s \in Seqs,
               \/ CrashAttesting(s) \/ CrashExecuting(s)
               \/ OperatorAttests(s) \/ OperatorExecutes(s)
               \/ /\ LandAttest(s) \/ DropAttest(s) \/ DropExecute(s)
                  /\ UNCHANGED <<visible, serviceVars>>
        PROVE  [Promise!Next]_(Promise!vars)
    BY <2>1, <2>6
    DEF CrashAttesting, CrashExecuting, Dies, OperatorAttests,
        OperatorExecutes, BroadcastAttest, BroadcastExecute, LandAttest,
        DropAttest, DropExecute, serviceVars
  <2>7. CASE Environment
    BY <2>2, <2>4, <2>5, <2>6, <2>7 DEF Environment, Killed, ChainNext
  <2>8. CASE UNCHANGED vars
    BY <2>1, <2>8 DEF vars, chainVars, serviceVars
  <2> QED
    BY <2>3, <2>7, <2>8 DEF Next
<1>3. Spec => [](TableInv /\ OrderInv /\ MintInv)
  BY TableInvariant, OrderInvariant, MintInvariant, PTL
<1> QED
  BY <1>1, <1>2, <1>3, PTL DEF Spec, KeepsPromise, Promise!Spec
=============================================================================
