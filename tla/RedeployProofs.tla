--------------------------- MODULE RedeployProofs ---------------------------
(***************************************************************************)
(* Safety of the migration for every set of sequences, however often its   *)
(* script fails half way.                                                  *)
(***************************************************************************)
EXTENDS Redeploy, TLAPS

Assumptions == /\ Seqs \subseteq Nat
               /\ MaxAttempts \in Nat \ {0}
               /\ Targets \subseteq Deployments

\* The assumptions of the module, under one name.
LEMMA Parameters == Assumptions
  BY RedeploySeqsAssumption, RedeployAttemptsAssumption, TargetsAssumption
  DEF Assumptions

\* The bound on attempts needs that the service is never at a sequence that has
\* used them up.
LEMMA TypeInductive == Spec => []TypeInv
<1>1. Init => TypeInv
  BY Parameters DEF Assumptions, Init, TypeInv, TypeOK, AttemptsLeft, Deployments,
                    Statuses, StepPoints
<1>2. TypeInv /\ [Next]_vars => TypeInv'
  <2> SUFFICES ASSUME TypeInv, [Next]_vars PROVE TypeInv'
    OBVIOUS
  <2> USE Parameters DEF Assumptions, TypeInv, TypeOK, AttemptsLeft, IsNext,
          StepPoints, chainVars, peerVars, scriptVars, startVars, tableVars,
          serviceVars
  <2>1. CASE Script
    <3>1. CASE SetManagerPeer \/ SetTransceiverPeer
      BY <3>1 DEF SetManagerPeer, SetTransceiverPeer
    <3>2. CASE UpdateFails \/ UpdateTimesOut
      <4>1. script \in {"manager", "transceiver"} => <<script, target>> \in Updates
        BY DEF Updates
      <4> QED
        BY <3>2, <4>1 DEF UpdateFails, UpdateTimesOut, Exits
    <3>3. ASSUME NEW t \in Targets, RunScript(t) PROVE TypeInv'
      BY <3>3 DEF RunScript
    <3> QED
      BY <2>1, <3>1, <3>2, <3>3 DEF Script
  <2>2. ASSUME NEW u \in Updates, UpdateLands(u) \/ UpdateExpires(u) PROVE TypeInv'
    BY <2>2 DEF UpdateLands, UpdateExpires, Updates
  \* A group in flight is one of a message of either deployment.
  <2>a. \A s \in Seqs : /\ <<"attest", Message(s)>> \in Groups
                       /\ <<"execute", Message(s)>> \in Groups
    BY DEF Groups, Messages, Message
  <2>b. ASSUME NEW s \in Seqs, NEW step \in {"attest", "execute"},
               Broadcast(step, Message(s))
        PROVE  groups' \subseteq Groups
    <3>1. <<step, Message(s)>> \in Groups
      BY <2>a
    <3>2. groups' = groups \union {<<step, Message(s)>>}
      BY <2>b, Zenon DEF Broadcast
    <3> QED
      BY <3>1, <3>2
  <2>3. CASE Start \/ Stopped \/ Poll \/ PollUnlisted \/ EndPoll
    <3>1. CASE Start
      <4>1. /\ status' \in [Seqs -> Statuses]
            /\ archive' \in [Seqs -> Statuses]
            /\ attempts' \in [Seqs -> 0..MaxAttempts]
        BY <3>1 DEF Start, Statuses
      <4>2. emitter' \in Deployments /\ pc' = "idle"
        BY <3>1 DEF Start
      <4>3. UNCHANGED <<setting, signed, chainVars, peerVars, scriptVars, config, work>>
        BY <3>1, Zenon DEF Start
      <4>4. AttemptsLeft'
        BY <4>2
      <4>5. TypeOK'
        BY <4>1, <4>2, <4>3
      <4> QED
        BY <4>4, <4>5
    <3>2. CASE Stopped
      <4>1. groups' \subseteq Groups
        BY <2>b, <3>2 DEF Stopped, Stop, StopSending
      <4>2. Goes
        BY <3>2 DEF Stopped, Stop, StopSending
      <4> QED
        BY <4>1, <4>2 DEF Goes
    <3>3. CASE Poll \/ PollUnlisted
      <4>1. work' \subseteq Seqs /\ pc' = "scan"
        BY <3>3 DEF Poll, PollUnlisted, Deployments
      <4>2. AttemptsLeft'
        BY <4>1
      <4>3. TypeOK'
        BY <3>3, <4>1 DEF Poll, PollUnlisted
      <4> QED
        BY <4>2, <4>3
    <3>4. CASE EndPoll
      BY <3>4 DEF EndPoll
    <3> QED
      BY <2>3, <3>1, <3>2, <3>3, <3>4
  <2>4. ASSUME NEW s \in Seqs, Process(s) PROVE TypeInv'
    <3> USE DEF Statuses
    <3>1. CASE PassOver(s)
      BY <3>1 DEF PassOver
    <3>2. CASE FetchFails(s)
      BY <3>2 DEF FetchFails, Abandon
    <3>3. CASE Fetch(s)
      BY <3>3 DEF Fetch, Settled
    <3>4. CASE Attest(s)
      BY <3>4 DEF Attest, Messages, Message
    <3>5. CASE MarkAttested(s) \/ ExecuteSkipped(s) \/ ExecuteBuilt(s)
      BY <3>5 DEF MarkAttested, ExecuteSkipped, ExecuteBuilt
    <3>6. CASE ExecuteConfirmed(s)
      BY <3>6 DEF ExecuteConfirmed, PreflightOk
    <3>7. CASE StepRaises(s) \/ ExecuteRefused(s) \/ ExecuteTimesOut(s)
      <4>1. groups' \subseteq Groups
        BY <2>b, <3>7 DEF StepRaises, ExecuteRefused, ExecuteTimesOut
      <4>2. AttemptFails(s) /\ pc \in StepPoints /\ IsNext(s)
        BY <3>7 DEF StepRaises, ExecuteRefused, ExecuteTimesOut
      <4> QED
        BY <4>1, <4>2 DEF AttemptFails, Abandon
    <3>8. CASE AttestSwallowed(s)
      <4>1. groups' \subseteq Groups
        BY <2>b, <3>8 DEF AttestSwallowed
      <4> QED
        BY <3>8, <4>1 DEF AttestSwallowed
    <3>9. CASE MarkComplete(s)
      BY <3>9 DEF MarkComplete
    <3> QED
      BY <2>4, <3>1, <3>2, <3>3, <3>4, <3>5, <3>6, <3>7, <3>8, <3>9 DEF Process
  <2>5. CASE UpdateEnv
    BY <2>5 DEF UpdateEnv, Deployments
  <2>6. ASSUME NEW d \in Deployments, NEW s \in Seqs, Sign(d, s) PROVE TypeInv'
    BY <2>6 DEF Sign
  <2>7. ASSUME NEW g \in Groups, GroupLands(g) \/ GroupExpires(g) PROVE TypeInv'
    <3>1. attested' \subseteq Messages /\ executed' \subseteq Messages
      BY <2>7 DEF GroupLands, GroupExpires, Groups
    <3> QED
      BY <2>7, <3>1 DEF GroupLands, GroupExpires
  <2>8. CASE UNCHANGED vars
    BY <2>8 DEF vars
  <2> QED
    BY <2>1, <2>2, <2>3, <2>4, <2>5, <2>6, <2>7, <2>8 DEF Next, Service
<1> QED
  BY <1>1, <1>2, PTL DEF Spec

\* Every variable keeps its type, and no row counts more than MaxAttempts.
THEOREM TypeCorrect == Spec => []TypeOK
<1>1. TypeInv => TypeOK
  BY DEF TypeInv
<1> QED
  BY <1>1, TypeInductive, PTL

\* The work on a message goes on in a running service, and is nothing to the
\* procedure, the emitter or the peers.
LEMMA ProcessFrame ==
  ASSUME NEW s \in Seqs, Process(s)
  PROVE  /\ pc # "down"
         /\ UNCHANGED <<setting, signed, peerVars, scriptVars, config, startVars>>
BY DEF Process, PassOver, FetchFails, Fetch, StepRaises, AttemptFails, Attest,
       AttestSwallowed, MarkAttested, ExecuteSkipped, ExecuteBuilt,
       ExecuteConfirmed, ExecuteRefused, ExecuteTimesOut, MarkComplete

\* Nor is anything else the service does.
LEMMA ServiceFrame ==
  ASSUME Service \/ Stopped
  PROVE  UNCHANGED <<setting, signed, peerVars, scriptVars, config>>
BY ProcessFrame DEF Service, Start, Stopped, Stop, StopSending, Goes, Poll,
                    PollUnlisted, EndPoll

\* What the script does to the peers, whatever else happens.
LEMMA PeersInductive == OneTarget => (Spec => []PeersInv)
<1> SUFFICES ASSUME OneTarget PROVE Spec => []PeersInv
  OBVIOUS
<1> USE DEF PeersInv, PeersMatch, PeersOnWay
<1>1. Init => PeersInv
  BY DEF Init
<1>2. PeersInv /\ [Next]_vars => PeersInv'
  <2> SUFFICES ASSUME PeersInv, [Next]_vars PROVE PeersInv'
    OBVIOUS
  <2> USE DEF chainVars, peerVars, scriptVars, tableVars, serviceVars
  <2>1. CASE SetManagerPeer \/ SetTransceiverPeer
    BY <2>1 DEF SetManagerPeer, SetTransceiverPeer
  <2>2. CASE UpdateFails \/ UpdateTimesOut
    BY <2>2 DEF UpdateFails, UpdateTimesOut, Exits
  <2>3. ASSUME NEW t \in Targets, RunScript(t) PROVE PeersInv'
    BY <2>3 DEF RunScript, OneTarget
  <2>4. ASSUME NEW u \in Updates, UpdateLands(u) \/ UpdateExpires(u) PROVE PeersInv'
    BY <2>4 DEF UpdateLands, UpdateExpires
  <2>5. CASE Service \/ Stopped \/ UpdateEnv
    BY <2>5, ServiceFrame DEF UpdateEnv
  <2>6. ASSUME NEW d \in Deployments, NEW s \in Seqs, Sign(d, s) PROVE PeersInv'
    BY <2>6 DEF Sign
  <2>7. ASSUME NEW g \in Groups, GroupLands(g) \/ GroupExpires(g) PROVE PeersInv'
    BY <2>7 DEF GroupLands, GroupExpires
  <2>8. CASE UNCHANGED vars
    BY <2>8 DEF vars
  <2> QED
    BY <2>1, <2>2, <2>3, <2>4, <2>5, <2>6, <2>7, <2>8 DEF Next, Script
<1> QED
  BY <1>1, <1>2, PTL DEF Spec

\* "Both peers updated" (update_algorand_peers.py:230) stays true, whichever
\* earlier runs failed half way and whichever of their transactions land later,
\* as long as every run was given the same addresses.
THEOREM PeersStayMatched == OneTarget => (Spec => []PeersMatch)
<1>1. PeersInv => PeersMatch
  BY DEF PeersInv
<1> QED
  BY <1>1, PeersInductive, PTL

\* With every precaution, a service that is up has the emitter of both peers.
LEMMA RunningAgrees ==
  ASSUME TypeOK, PeersInv, NotBegun, ServiceAgrees, pc # "down"
  PROVE  managerPeer = emitter /\ transceiverPeer = emitter
BY DEF TypeOK, PeersInv, PeersMatch, NotBegun, ServiceAgrees, Deployments

\* At most one sequence is next.
LEMMA NextIsUnique ==
  \A s, t \in Seqs : IsNext(s) /\ IsNext(t) => t = s
BY Parameters DEF Assumptions, IsNext

\* What is done, and what fails, in a behaviour is settled when it begins.
LEMMA SettingFixed == ASSUME [Next]_vars PROVE setting' = setting
<1>1. CASE Script
  BY <1>1 DEF Script, SetManagerPeer, SetTransceiverPeer, UpdateFails,
              UpdateTimesOut, RunScript
<1>2. CASE Service \/ Stopped
  BY <1>2, ServiceFrame
<1>3. CASE UpdateEnv
  BY <1>3 DEF UpdateEnv
<1>4. ASSUME NEW u \in Updates, UpdateLands(u) \/ UpdateExpires(u)
      PROVE  setting' = setting
  BY <1>4 DEF UpdateLands, UpdateExpires
<1>5. ASSUME NEW d \in Deployments, NEW s \in Seqs, Sign(d, s)
      PROVE  setting' = setting
  BY <1>5 DEF Sign
<1>6. ASSUME NEW g \in Groups, GroupLands(g) \/ GroupExpires(g)
      PROVE  setting' = setting
  BY <1>6 DEF GroupLands, GroupExpires
<1>7. CASE UNCHANGED vars
  BY <1>7 DEF vars
<1> QED
  BY <1>1, <1>2, <1>3, <1>4, <1>5, <1>6, <1>7 DEF Next

\* What a careful operator can count on.
LEMMA CarefulMeans ==
  ASSUME Careful
  PROVE  /\ Takes("drain") /\ Takes("stop") /\ Takes("table")
         /\ ~Fails("attestSend") /\ ~Fails("attestTimeout") /\ ~Fails("boxRead")
BY DEF Careful, AllPrecautions, ReliableSteps, Takes, Fails, Precautions

CarefulFacts == NotBegun /\ ServiceAgrees /\ RowsAgree /\ ArchiveAgrees

\* The work on a message keeps its row true: a service that is up has the emitter
\* of both peers.
LEMMA ProcessKeepsRows ==
  ASSUME Careful, TypeOK, PeersInv, CarefulFacts, NEW s \in Seqs, Process(s)
  PROVE  CarefulFacts'
<1>1. /\ pc # "down"
      /\ UNCHANGED <<setting, signed, peerVars, scriptVars, config, startVars>>
  BY ProcessFrame
<1>2. managerPeer = emitter /\ transceiverPeer = emitter
  BY <1>1, RunningAgrees DEF CarefulFacts
<1>3. NotBegun' /\ ServiceAgrees'
  BY <1>1 DEF CarefulFacts, NotBegun, ServiceAgrees, peerVars, scriptVars, startVars
<1>4. executed \subseteq executed' /\ attested \subseteq attested'
  BY DEF Process, PassOver, FetchFails, Fetch, StepRaises, AttemptFails, Attest,
         AttestSwallowed, MarkAttested, ExecuteSkipped, ExecuteBuilt,
         ExecuteConfirmed, ExecuteRefused, ExecuteTimesOut, MarkComplete, chainVars
<1>5. ArchiveAgrees'
  BY <1>1, <1>4 DEF CarefulFacts, ArchiveAgrees, startVars
<1>6. RowsAgree'
  <2>1. \A t \in Seqs : IsNext(s) /\ IsNext(t) => t = s
    BY NextIsUnique
  <2> USE <1>1 DEF CarefulFacts, RowsAgree, TypeOK, IsNext, Message, chainVars,
                   startVars, tableVars
  <2>2. CASE PassOver(s)
    BY <2>2 DEF PassOver
  <2>3. CASE FetchFails(s)
    BY <2>3 DEF FetchFails, Abandon
  <2>4. CASE Fetch(s)
    BY <2>4, <2>1 DEF Fetch, Statuses
  <2>5. CASE StepRaises(s) \/ ExecuteRefused(s) \/ ExecuteTimesOut(s)
    BY <2>5 DEF StepRaises, ExecuteRefused, ExecuteTimesOut, AttemptFails, Abandon
  <2>6. CASE Attest(s)
    BY <2>6, <1>2, <2>1 DEF Attest
  <2>7. CASE AttestSwallowed(s)
    BY <2>7, CarefulMeans DEF AttestSwallowed
  <2>8. CASE MarkAttested(s)
    BY <2>8, <2>1 DEF MarkAttested
  \* The peers agree, so what preflight refuses is minted already.
  <2>9. CASE ExecuteSkipped(s)
    BY <2>9, <1>2, <2>1, CarefulMeans DEF ExecuteSkipped, PreflightOk
  <2>10. CASE ExecuteBuilt(s)
    BY <2>10, <2>1 DEF ExecuteBuilt
  <2>11. CASE ExecuteConfirmed(s)
    BY <2>11, <2>1 DEF ExecuteConfirmed, PreflightOk
  <2>12. CASE MarkComplete(s)
    BY <2>12 DEF MarkComplete
  <2> QED
    BY <2>2, <2>3, <2>4, <2>5, <2>6, <2>7, <2>8, <2>9, <2>10, <2>11, <2>12
    DEF Process
<1> QED
  BY <1>3, <1>5, <1>6 DEF CarefulFacts

\* With every precaution, rows speak of the messages the service would fetch now.
LEMMA CarefulInductive == OneTarget => (Spec => []CarefulInv)
<1> SUFFICES ASSUME OneTarget PROVE Spec => []CarefulInv
  OBVIOUS
<1>1. Init => CarefulInv
  BY DEF Init, CarefulInv, NotBegun, ServiceAgrees, RowsAgree, ArchiveAgrees
<1>2. TypeOK /\ PeersInv /\ CarefulInv /\ [Next]_vars => CarefulInv'
  <2> SUFFICES ASSUME TypeOK, PeersInv, CarefulInv, [Next]_vars, Careful
               PROVE  CarefulFacts'
    BY SettingFixed DEF CarefulInv, CarefulFacts, Careful, AllPrecautions,
                        ReliableSteps
  <2>0. CarefulFacts
    BY DEF CarefulInv, CarefulFacts
  <2>a. Takes("drain") /\ Takes("stop") /\ Takes("table")
    BY CarefulMeans
  <2> USE <2>0 DEF chainVars, peerVars, scriptVars, startVars, tableVars, serviceVars,
          CarefulFacts, NotBegun, ServiceAgrees, RowsAgree, ArchiveAgrees, IsNext,
          Message
  <2>1. CASE SetManagerPeer \/ SetTransceiverPeer \/ UpdateFails \/ UpdateTimesOut
    <3> USE DEF PeersInv, PeersMatch, PeersOnWay, TypeOK, Deployments
    <3>1. CASE SetManagerPeer
      BY <3>1 DEF SetManagerPeer
    <3>2. CASE SetTransceiverPeer
      BY <3>2 DEF SetTransceiverPeer
    <3>3. CASE UpdateFails \/ UpdateTimesOut
      BY <3>3 DEF UpdateFails, UpdateTimesOut, Exits
    <3> QED
      BY <2>1, <3>1, <3>2, <3>3
  <2>2. ASSUME NEW t \in Targets, RunScript(t) PROVE CarefulFacts'
    BY <2>2 DEF RunScript
  <2>3. ASSUME NEW u \in Updates, UpdateLands(u) \/ UpdateExpires(u)
        PROVE  CarefulFacts'
    BY <2>3 DEF UpdateLands, UpdateExpires
  <2>4. CASE Start
    <3>1. emitter' = config /\ pc' = "idle"
             /\ UNCHANGED <<setting, chainVars, peerVars, scriptVars, config>>
      BY <2>4 DEF Start
    <3>2. CASE emitter = config
      BY <2>4, <2>a, <3>1, <3>2 DEF Start
    \* It turns to the new emitter, and what it leaves behind spoke of the old one.
    <3>3. CASE emitter # config
      <4>1. emitter = "old"
        BY <3>3 DEF TypeOK, Deployments
      <4>2. archive' = status /\ status' = [s \in Seqs |-> "none"]
        BY <2>4, <2>a, <3>3 DEF Start
      <4>3. ArchiveAgrees'
        BY <3>1, <4>1, <4>2
      <4>4. RowsAgree'
        BY <3>1, <4>2
      <4>5. NotBegun' /\ ServiceAgrees'
        BY <2>4, <2>a, <3>1, <3>3 DEF Start
      <4> QED
        BY <4>3, <4>4, <4>5
    <3> QED
      BY <3>2, <3>3
  <2>5. CASE Stopped
    BY <2>5 DEF Stopped, Stop, StopSending, Goes
  <2>6. CASE Poll \/ PollUnlisted \/ EndPoll
    BY <2>6 DEF Poll, PollUnlisted, EndPoll
  <2>7. ASSUME NEW s \in Seqs, Process(s) PROVE CarefulFacts'
    BY <2>7, ProcessKeepsRows
  <2>8. CASE UpdateEnv
    BY <2>8, <2>a DEF UpdateEnv
  <2>9. ASSUME NEW d \in Deployments, NEW s \in Seqs, Sign(d, s)
        PROVE  CarefulFacts'
    BY <2>9 DEF Sign
  <2>10. ASSUME NEW g \in Groups, GroupLands(g) \/ GroupExpires(g)
         PROVE  CarefulFacts'
    <3>1. executed \subseteq executed' /\ attested \subseteq attested'
      BY <2>10 DEF GroupLands, GroupExpires
    <3>2. UNCHANGED <<peerVars, scriptVars, config, serviceVars>>
      BY <2>10 DEF GroupLands, GroupExpires
    <3> QED
      BY <3>1, <3>2
  <2>11. CASE UNCHANGED vars
    BY <2>11 DEF vars
  <2> QED
    BY <2>1, <2>2, <2>3, <2>4, <2>5, <2>6, <2>7, <2>8, <2>9, <2>10, <2>11
    DEF Next, Script, Service
<1>3. TypeInv => TypeOK
  BY DEF TypeInv
<1> QED
  BY <1>1, <1>2, <1>3, TypeInductive, PeersInductive, PTL DEF Spec

\* With every precaution taken, the same addresses given to every run of the
\* script and steps that answer True only for what they have seen done, complete
\* means minted (docs/db.md:69) on both sides of a migration: in the table the
\* service keeps and in the one it has left behind.
THEOREM CarefulComplete == OneTarget => (Spec => []CarefulCompleteIsMinted)
<1>1. TypeOK /\ CarefulInv => CarefulCompleteIsMinted
  <2> SUFFICES ASSUME TypeOK, CarefulInv, Careful, NEW d \in Deployments,
                      NEW s \in Seqs, Rows(d)[s] = "complete"
               PROVE  <<d, s>> \in executed
    BY DEF CarefulCompleteIsMinted
  <2>1. CASE d = emitter
    BY <2>1 DEF CarefulInv, RowsAgree, Rows, Message
  <2>2. CASE d # emitter
    <3>1. d = "old" /\ archive[s] = "complete"
      BY <2>2 DEF Rows
    <3> QED
      BY <3>1 DEF CarefulInv, ArchiveAgrees
  <2> QED
    BY <2>1, <2>2
<1>2. TypeInv => TypeOK
  BY DEF TypeInv
<1> QED
  BY <1>1, <1>2, TypeInductive, CarefulInductive, PTL
(***************************************************************************)
(* The promise to the senders of both deployments.                         *)
(***************************************************************************)

\* A careful operator, and everything known so far.
CarefulState == Careful /\ TypeOK /\ PeersInv /\ CarefulFacts

BothFacts == LoopKnows /\ FailedIsOut /\ InOrder

\* Who gives up on a message for this poll leaves its row, and the loop, behind.
LEMMA AbandonKeepsBoth ==
  ASSUME TypeOK, BothFacts, NEW s \in Seqs, AttemptFails(s)
  PROVE  BothFacts'
<1> USE Parameters DEF Assumptions, TypeOK, BothFacts, AttemptFails, Abandon,
                       startVars
<1>1. LoopKnows'
  BY DEF LoopKnows, IsNext
<1>2. \A t \in Seqs : attempts[t] >= MaxAttempts => attempts'[t] >= MaxAttempts
  OBVIOUS
<1>3. FailedIsOut'
  BY <1>2 DEF FailedIsOut
<1>4. InOrder'
  BY DEF InOrder
<1> QED
  BY <1>1, <1>3, <1>4

\* A message that is passed over is complete, or fails for having no attempts left.
LEMMA PassOverKeepsBoth ==
  ASSUME TypeOK, BothFacts, NEW s \in Seqs, PassOver(s)
  PROVE  BothFacts'
<1> USE Parameters DEF Assumptions, TypeOK, BothFacts, PassOver
<1>1. s \in signed[emitter] /\ \A t \in Seqs : t < s => status[t] \in Final
  BY DEF IsNext, InOrder
<1>2. status'[s] \in Final /\ \A t \in Seqs \ {s} : status'[t] = status[t]
  BY DEF Final
<1>3. LoopKnows'
  BY DEF LoopKnows
<1>4. FailedIsOut'
  BY DEF FailedIsOut, Settled
<1>5. InOrder'
  <2>1. UNCHANGED <<signed, emitter>> /\ pc = "scan" /\ pc' = "scan"
             /\ work' = work \ {s}
    BY DEF startVars
  <2>2. \A t \in Seqs : status[t] \in Final => status'[t] \in Final
    BY <1>2
  <2>3. ASSUME NEW u \in Seqs, NEW t \in Seqs, t < u, status'[u] # "none"
        PROVE  status'[t] \in Final
    BY <1>1, <1>2, <2>2, <2>3 DEF InOrder
  <2>4. ASSUME NEW u \in work', NEW t \in Seqs, t < u
        PROVE  status'[t] \in Final \/ t \in work'
    BY <1>2, <2>1, <2>2, <2>4 DEF InOrder
  <2>5. \A t \in Seqs : status'[t] # "none" => t \in signed[emitter]
    BY <1>1, <1>2 DEF InOrder
  <2> QED
    BY <2>1, <2>3, <2>4, <2>5 DEF InOrder
<1> QED
  BY <1>3, <1>4, <1>5

\* The work on a message keeps the table settled from below.
LEMMA ProcessKeepsBoth ==
  ASSUME CarefulState, BothFacts, NEW s \in Seqs, Process(s)
  PROVE  BothFacts'
<1> USE Parameters DEF Assumptions, CarefulState, TypeOK, BothFacts
<1>1. UNCHANGED <<signed, emitter>>
  BY ProcessFrame DEF startVars
\* What is below the sequence the loop is at is settled.
<1>2. IsNext(s) => \A t \in Seqs : t < s => status[t] \in Final
  BY DEF IsNext, InOrder
<1> USE DEF tableVars
<1>3. CASE PassOver(s)
  BY <1>3, PassOverKeepsBoth
<1>4. CASE FetchFails(s)
  <2>1. pc' = "idle" /\ work' = {} /\ UNCHANGED <<status, attempts>>
    BY <1>4 DEF FetchFails, Abandon
  <2>2. LoopKnows' /\ FailedIsOut'
    BY <2>1 DEF LoopKnows, FailedIsOut
  <2>3. InOrder'
    BY <1>1, <2>1 DEF InOrder
  <2> QED
    BY <2>2, <2>3
<1>5. CASE Fetch(s)
  \* A row without attempts left is passed over, so this one has not failed.
  <2>1. status[s] \notin Final
    BY <1>5 DEF Fetch, Settled, FailedIsOut, Final
  <2>2. LoopKnows'
    BY <1>5, <2>1, NextIsUnique DEF Fetch, LoopKnows, IsNext, Statuses, Final
  <2>3. FailedIsOut'
    BY <1>5, <2>1 DEF Fetch, FailedIsOut, Final
  <2>4. InOrder'
    BY <1>1, <1>2, <1>5, <2>1 DEF Fetch, InOrder, Final
  <2> QED
    BY <2>2, <2>3, <2>4
<1>6. CASE Attest(s) \/ AttestSwallowed(s)
  <2>1. LoopKnows'
    BY <1>6, NextIsUnique DEF Attest, AttestSwallowed, LoopKnows, IsNext
  <2>2. FailedIsOut' /\ InOrder'
    BY <1>1, <1>6 DEF Attest, AttestSwallowed, FailedIsOut, InOrder
  <2> QED
    BY <2>1, <2>2
<1>7. CASE MarkAttested(s)
  <2>1. LoopKnows'
    BY <1>7, NextIsUnique DEF MarkAttested, LoopKnows, IsNext
  <2>2. status[s] = "pending" /\ IsNext(s)
    BY <1>7 DEF MarkAttested, LoopKnows
  <2>3. FailedIsOut'
    BY <1>7 DEF MarkAttested, FailedIsOut
  <2>4. InOrder'
    BY <1>1, <1>7, <2>2 DEF MarkAttested, InOrder, Final, IsNext
  <2> QED
    BY <2>1, <2>3, <2>4
<1>8. CASE ExecuteSkipped(s) \/ ExecuteBuilt(s) \/ ExecuteConfirmed(s)
  <2>1. LoopKnows'
    BY <1>8, NextIsUnique
    DEF ExecuteSkipped, ExecuteBuilt, ExecuteConfirmed, LoopKnows, IsNext
  <2>2. FailedIsOut' /\ InOrder'
    BY <1>1, <1>8 DEF ExecuteSkipped, ExecuteBuilt, ExecuteConfirmed, FailedIsOut,
                      InOrder
  <2> QED
    BY <2>1, <2>2
<1>9. CASE StepRaises(s) \/ ExecuteRefused(s) \/ ExecuteTimesOut(s)
  <2>1. AttemptFails(s)
    BY <1>9 DEF StepRaises, ExecuteRefused, ExecuteTimesOut
  <2> QED
    BY <2>1, AbandonKeepsBoth
<1>10. CASE MarkComplete(s)
  <2>1. LoopKnows' /\ FailedIsOut'
    BY <1>10 DEF MarkComplete, LoopKnows, FailedIsOut
  <2>2. InOrder'
    BY <1>1, <1>2, <1>10 DEF MarkComplete, InOrder, Final, IsNext
  <2> QED
    BY <2>1, <2>2
<1> QED
  BY <1>3, <1>4, <1>5, <1>6, <1>7, <1>8, <1>9, <1>10 DEF Process

\* A poll takes up everything that is signed and not settled, so below what it
\* takes up there is nothing else; without a listing it takes up rows, and below
\* a row everything is settled.
LEMMA PollKeepsBoth ==
  ASSUME CarefulState, BothFacts, Poll \/ PollUnlisted
  PROVE  BothFacts'
<1> USE Parameters DEF Assumptions, CarefulState, TypeOK, BothFacts, startVars,
                       tableVars
<1>1. UNCHANGED <<signed, emitter, status, attempts>> /\ pc' = "scan"
  BY DEF Poll, PollUnlisted
<1>2. LoopKnows' /\ FailedIsOut'
  BY <1>1 DEF LoopKnows, FailedIsOut
<1>3. work' \subseteq signed[emitter]
  BY DEF InOrder, Retryable, Poll, PollUnlisted
<1>4. ASSUME NEW s \in work', NEW t \in Seqs, t < s, status[t] \notin Final
      PROVE  t \in work'
  <2>1. s \in signed[emitter] /\ s \in Seqs
    BY <1>3 DEF Deployments
  <2>2. t \in signed[emitter]
    BY <1>4, <2>1 DEF InOrder
  <2>3. status[s] = "none"
    BY <1>4, <2>1 DEF InOrder
  <2>4. s \notin {r \in Seqs : Retryable(r)}
    BY <2>3 DEF Retryable
  <2>5. work' = {r \in Seqs : Retryable(r)}
                  \union {r \in signed[emitter] : BeyondLastComplete(r)}
    BY <1>4, <2>4 DEF Poll, PollUnlisted
  <2>6. \A c \in Seqs : status[c] = "complete" => c < t
    BY <1>4 DEF InOrder, Final
  <2> QED
    BY <2>2, <2>5, <2>6 DEF BeyondLastComplete
<1>5. InOrder'
  BY <1>1, <1>3, <1>4 DEF InOrder
<1> QED
  BY <1>2, <1>5

\* Every step does.
LEMMA BothInductive == OneTarget => (Spec => []BothInv)
<1> SUFFICES ASSUME OneTarget PROVE Spec => []BothInv
  OBVIOUS
<1>1. Init => BothInv
  BY DEF Init, BothInv, LoopKnows, FailedIsOut, InOrder, IsNext
<1>2. TypeOK /\ PeersInv /\ CarefulInv /\ BothInv /\ [Next]_vars => BothInv'
  <2> SUFFICES ASSUME TypeOK, PeersInv, CarefulInv, BothInv, [Next]_vars, Careful
               PROVE  BothFacts'
    BY SettingFixed DEF BothInv, BothFacts, Careful, AllPrecautions, ReliableSteps
  <2>0. CarefulState /\ BothFacts
    BY DEF CarefulState, CarefulInv, CarefulFacts, BothFacts, BothInv
  <2>b. ASSUME UNCHANGED <<signed, startVars, tableVars, pc, work>> PROVE BothFacts'
    BY <2>0, <2>b DEF BothFacts, LoopKnows, FailedIsOut, InOrder, IsNext, startVars,
                      tableVars
  <2>1. CASE Script
    BY <2>1, <2>b DEF Script, SetManagerPeer, SetTransceiverPeer, UpdateFails,
                      UpdateTimesOut, RunScript, serviceVars
  <2>2. ASSUME NEW u \in Updates, UpdateLands(u) \/ UpdateExpires(u)
        PROVE  BothFacts'
    BY <2>2, <2>b DEF UpdateLands, UpdateExpires, serviceVars
  <2>3. CASE Start
    <3>1. work' = {} /\ pc' = "idle" /\ UNCHANGED signed /\ emitter' = config
      BY <2>0, <2>3 DEF Start, BothFacts, InOrder
    \* It starts on the old rows or with an empty table.
    <3>2. \/ emitter' = emitter /\ UNCHANGED <<status, attempts>>
          \/ /\ status' = [s \in Seqs |-> "none"]
             /\ attempts' = [s \in Seqs |-> 0]
      BY <2>3, CarefulMeans DEF Start, tableVars
    <3>3. LoopKnows' /\ FailedIsOut'
      BY <2>0, <3>1, <3>2 DEF BothFacts, LoopKnows, FailedIsOut, IsNext
    <3>4. InOrder'
      BY <2>0, <3>1, <3>2 DEF BothFacts, InOrder
    <3> QED
      BY <3>3, <3>4 DEF BothFacts
  <2>4. CASE Stopped \/ EndPoll
    <3>1. work' = {} /\ pc' \in {"down", "idle"}
               /\ UNCHANGED <<signed, emitter, status, attempts>>
      BY <2>4 DEF Stopped, Stop, StopSending, Goes, EndPoll, startVars, tableVars
    <3> QED
      BY <2>0, <3>1 DEF BothFacts, LoopKnows, FailedIsOut, InOrder, IsNext
  <2>5. CASE Service
    BY <2>0, <2>3, <2>4, <2>5, PollKeepsBoth, ProcessKeepsBoth DEF Service
  <2>6. CASE UpdateEnv
    BY <2>6, <2>b DEF UpdateEnv, serviceVars
  <2>7. ASSUME NEW d \in Deployments, NEW s \in Seqs, Sign(d, s)
        PROVE  BothFacts'
    <3>1. /\ signed' = [signed EXCEPT ![d] = @ \union {s}]
          /\ \A t \in Seqs : t < s => t \in signed[d]
          /\ UNCHANGED <<emitter, status, attempts, pc, work>>
      BY <2>7 DEF Sign, serviceVars, startVars, tableVars
    <3>2. LoopKnows' /\ FailedIsOut'
      BY <2>0, <3>1 DEF BothFacts, LoopKnows, FailedIsOut, IsNext
    <3>3. InOrder'
      BY <2>0, <3>1 DEF BothFacts, InOrder, TypeOK, CarefulState
    <3> QED
      BY <3>2, <3>3 DEF BothFacts
  <2>8. ASSUME NEW g \in Groups, GroupLands(g) \/ GroupExpires(g) PROVE BothFacts'
    BY <2>8, <2>b DEF GroupLands, GroupExpires, serviceVars
  <2>9. CASE UNCHANGED vars
    BY <2>9, <2>b DEF vars, serviceVars
  <2> QED
    BY <2>1, <2>2, <2>4, <2>5, <2>6, <2>7, <2>8, <2>9 DEF Next
<1>3. TypeInv => TypeOK
  BY DEF TypeInv
<1> QED
  BY <1>1, <1>2, <1>3, TypeInductive, PeersInductive, CarefulInductive, PTL
  DEF Spec

\* Both promises at once.
Promise(d) == INSTANCE OrderedRelay
                WITH listed <- signed[d], minted <- Minted(d),
                     outcome <- Outcomes(d)

PromiseStep(d) == [Promise(d)!Next]_(Promise(d)!vars)

\* A step that concerns neither messages, mints nor rows.
LEMMA NothingForEither ==
  ASSUME UNCHANGED <<signed, executed, emitter, archive, status>>,
         NEW d \in Deployments
  PROVE  PromiseStep(d)
BY DEF PromiseStep, Promise!vars, Minted, Outcomes, Rows

\* A mint is one of its deployment's messages and is nothing to the other.
LEMMA MintKeepsPromises ==
  ASSUME NEW e \in Deployments, NEW s \in Seqs, <<e, s>> \notin executed,
         executed' = executed \union {<<e, s>>},
         UNCHANGED <<signed, emitter, archive, status>>,
         NEW d \in Deployments
  PROVE  PromiseStep(d)
<1>1. Outcomes(d)' = Outcomes(d)
  BY DEF Outcomes, Rows
<1>2. CASE d = e
  <2>1. s \notin Minted(d) /\ Minted(d)' = Minted(d) \union {s}
    BY <1>2 DEF Minted
  <2>2. Promise(d)!Mint(s)
    BY <1>1, <2>1 DEF Promise!Mint
  <2> QED
    BY <2>2 DEF PromiseStep, Promise!Next
<1>3. CASE d # e
  <2>1. Minted(d)' = Minted(d)
    BY <1>3 DEF Minted
  <2> QED
    BY <1>1, <2>1 DEF PromiseStep, Promise!vars
<1> QED
  BY <1>2, <1>3

\* A row that becomes final is the next one of the emitter the service knows.
LEMMA RowKeepsPromises ==
  ASSUME CarefulState, BothFacts, NEW s \in Seqs, NEW to \in Final,
         IsNext(s), status[s] \notin Final,
         status' = [status EXCEPT ![s] = to],
         to = "complete" => Message(s) \in executed,
         UNCHANGED <<signed, executed, emitter, archive>>,
         NEW d \in Deployments
  PROVE  PromiseStep(d)
<1> USE Parameters DEF Assumptions, CarefulState, TypeOK, BothFacts
<1>1. Minted(d)' = Minted(d)
  BY DEF Minted
<1>2. CASE d = emitter
  <2>1. s \in signed[d] /\ \A t \in Seqs : t < s => status[t] \in Final
    BY <1>2 DEF InOrder, IsNext
  <2>2. Promise(d)!Turn(s)
    BY <1>2, <2>1 DEF Promise!Turn, Outcomes, Rows, Final
  <2>3. Outcomes(d)' = [Outcomes(d) EXCEPT ![s] = to]
    BY <1>2 DEF Outcomes, Rows
  <2>4. to = "complete" => s \in Minted(d)
    BY <1>2 DEF Minted, Message
  <2>5. Promise(d)!Complete(s) \/ Promise(d)!Fail(s)
    BY <1>1, <2>2, <2>3, <2>4 DEF Promise!Complete, Promise!Fail, Final
  <2> QED
    BY <2>5 DEF PromiseStep, Promise!Next
<1>3. CASE d # emitter
  <2>1. Outcomes(d)' = Outcomes(d)
    BY <1>3 DEF Outcomes, Rows
  <2> QED
    BY <1>1, <2>1 DEF PromiseStep, Promise!vars
<1> QED
  BY <1>2, <1>3

\* A step of the loop serves the emitter's messages and leaves the other's alone.
LEMMA ProcessKeepsPromises ==
  ASSUME CarefulState, BothFacts, NEW s \in Seqs, Process(s),
         NEW d \in Deployments
  PROVE  PromiseStep(d)
<1> USE Parameters DEF Assumptions, CarefulState, TypeOK, BothFacts, tableVars
<1>1. UNCHANGED <<signed, emitter, archive>>
  BY ProcessFrame DEF startVars
<1>2. CASE PassOver(s)
  <2>1. IsNext(s) /\ executed' = executed
    BY <1>2 DEF PassOver, chainVars
  <2>2. CASE status[s] \in Final
    <3>1. status' = status
      BY <1>2, <2>2 DEF PassOver, Settled, Final
    <3> QED
      BY <1>1, <2>1, <3>1, NothingForEither
  <2>3. CASE status[s] \notin Final
    <3>1. status' = [status EXCEPT ![s] = "failed"]
      BY <1>2, <2>3 DEF PassOver, Final
    <3> QED
      BY <1>1, <2>1, <2>3, <3>1, RowKeepsPromises DEF Final
  <2> QED
    BY <2>2, <2>3
<1>3. CASE Fetch(s) \/ MarkAttested(s)
  \* A row that is opened or attested was open before and is open after.
  <2>1. status[s] \notin Final
    BY <1>3 DEF Fetch, Settled, FailedIsOut, MarkAttested, LoopKnows, Final
  <2>2. status'[s] \notin Final /\ \A t \in Seqs \ {s} : status'[t] = status[t]
    BY <1>3, <2>1 DEF Fetch, MarkAttested, Final
  <2>3. \A t \in Seqs : (status'[t] \in Final <=> status[t] \in Final)
                           /\ (status[t] \in Final => status'[t] = status[t])
    BY <2>1, <2>2
  <2>4. Outcomes(d)' = Outcomes(d)
    BY <1>1, <2>3 DEF Outcomes, Rows
  <2>5. Minted(d)' = Minted(d)
    BY <1>3 DEF Fetch, MarkAttested, Minted, chainVars
  <2> QED
    BY <1>1, <2>4, <2>5 DEF PromiseStep, Promise!vars
<1>4. CASE \/ FetchFails(s) \/ StepRaises(s) \/ Attest(s) \/ AttestSwallowed(s)
           \/ ExecuteSkipped(s) \/ ExecuteBuilt(s) \/ ExecuteRefused(s)
           \/ ExecuteTimesOut(s)
  <2>1. UNCHANGED <<executed, status>>
    BY <1>4 DEF FetchFails, StepRaises, Attest, AttestSwallowed, ExecuteSkipped,
                ExecuteBuilt, ExecuteRefused, ExecuteTimesOut, AttemptFails,
                chainVars
  <2> QED
    BY <1>1, <2>1, NothingForEither
<1>5. CASE ExecuteConfirmed(s)
  <2>1. Message(s) \notin executed /\ executed' = executed \union {Message(s)}
             /\ UNCHANGED status
    BY <1>5 DEF ExecuteConfirmed, PreflightOk
  <2> QED
    BY <1>1, <2>1, MintKeepsPromises DEF Message
<1>6. CASE MarkComplete(s)
  <2>1. /\ status[s] = "attested" /\ Message(s) \in executed
        /\ IsNext(s)
        /\ status' = [status EXCEPT ![s] = "complete"]
        /\ UNCHANGED executed
    BY <1>6 DEF MarkComplete, LoopKnows, RowsAgree, CarefulFacts, chainVars
  <2> QED
    BY <1>1, <2>1, RowKeepsPromises DEF Final
<1> QED
  BY <1>2, <1>3, <1>4, <1>5, <1>6 DEF Process

\* The service changes sides with an empty table, and the rows it leaves behind
\* answer for the old deployment: nobody's outcome changes.
LEMMA StartKeepsPromises ==
  ASSUME CarefulState, BothFacts, Start, NEW d \in Deployments
  PROVE  PromiseStep(d)
<1> USE DEF CarefulState, CarefulFacts, TypeOK
<1>1. UNCHANGED <<signed, executed>> /\ emitter' = config
  BY DEF Start, chainVars
<1>2. CASE emitter = config
  <2>1. UNCHANGED <<emitter, archive, status>>
    BY <1>1, <1>2 DEF Start, tableVars
  <2> QED
    BY <1>1, <2>1, NothingForEither
<1>3. CASE emitter # config
  <2>1. emitter = "old" /\ config = "new"
    BY <1>3 DEF NotBegun, Deployments
  <2>2. archive' = status /\ status' = [s \in Seqs |-> "none"]
    BY <1>3, CarefulMeans DEF Start
  <2>3. Rows(d)' = Rows(d)
    BY <1>1, <2>1, <2>2 DEF Rows, Deployments
  <2>4. Outcomes(d)' = Outcomes(d) /\ Minted(d)' = Minted(d)
    BY <1>1, <2>3 DEF Outcomes, Minted
  <2> QED
    BY <1>1, <2>4 DEF PromiseStep, Promise!vars
<1> QED
  BY <1>2, <1>3

\* A signed message is listed for its deployment and is nothing to the other.
LEMMA SignKeepsPromises ==
  ASSUME CarefulState, NEW e \in Deployments, NEW s \in Seqs, Sign(e, s),
         NEW d \in Deployments
  PROVE  PromiseStep(d)
<1> USE DEF CarefulState, TypeOK
<1>1. /\ s \notin signed[e]
      /\ signed' = [signed EXCEPT ![e] = @ \union {s}]
      /\ UNCHANGED <<executed, emitter, archive, status>>
  BY DEF Sign, chainVars, serviceVars, startVars, tableVars
<1>2. Minted(d)' = Minted(d) /\ Outcomes(d)' = Outcomes(d)
  BY <1>1 DEF Minted, Outcomes, Rows
<1>3. CASE d = e
  <2>1. Promise(d)!List(s)
    BY <1>1, <1>2, <1>3 DEF Promise!List
  <2> QED
    BY <2>1 DEF PromiseStep, Promise!Next
<1>4. CASE d # e
  BY <1>1, <1>2, <1>4 DEF PromiseStep, Promise!vars
<1> QED
  BY <1>3, <1>4

\* A group that lands mints what its message has not been given yet.
LEMMA LandingKeepsPromises ==
  ASSUME CarefulState, NEW g \in Groups, GroupLands(g) \/ GroupExpires(g),
         NEW d \in Deployments
  PROVE  PromiseStep(d)
<1>1. UNCHANGED <<signed, emitter, archive, status>>
  BY DEF GroupLands, GroupExpires, serviceVars, startVars, tableVars
<1>2. CASE UNCHANGED executed
  BY <1>1, <1>2, NothingForEither
<1>3. CASE executed' # executed
  <2>1. g[2] \notin executed /\ executed' = executed \union {g[2]}
    BY <1>3 DEF GroupLands, GroupExpires
  <2>2. PICK e \in Deployments, s \in Seqs : g[2] = <<e, s>>
    BY DEF Groups, Messages
  <2> QED
    BY <1>1, <2>1, <2>2, MintKeepsPromises
<1> QED
  BY <1>2, <1>3

\* Each step is, for either deployment, a step of the promise or none.
LEMMA StepsKeepPromises ==
  ASSUME CarefulState, BothFacts, [Next]_vars, NEW d \in Deployments
  PROVE  PromiseStep(d)
<1> USE DEF chainVars, serviceVars, startVars, tableVars
<1>1. CASE Script
  BY <1>1, NothingForEither
  DEF Script, SetManagerPeer, SetTransceiverPeer, UpdateFails, UpdateTimesOut,
      RunScript
<1>2. ASSUME NEW u \in Updates, UpdateLands(u) \/ UpdateExpires(u)
      PROVE  PromiseStep(d)
  BY <1>2, NothingForEither DEF UpdateLands, UpdateExpires
<1>3. CASE Stopped
  BY <1>3, NothingForEither DEF Stopped, Stop, StopSending, Goes
<1>4. CASE Poll \/ PollUnlisted \/ EndPoll \/ UpdateEnv
  BY <1>4, NothingForEither DEF Poll, PollUnlisted, EndPoll, UpdateEnv
<1>5. CASE Service
  BY <1>4, <1>5, StartKeepsPromises, ProcessKeepsPromises DEF Service
<1>6. ASSUME NEW e \in Deployments, NEW s \in Seqs, Sign(e, s)
      PROVE  PromiseStep(d)
  BY <1>6, SignKeepsPromises
<1>7. ASSUME NEW g \in Groups, GroupLands(g) \/ GroupExpires(g)
      PROVE  PromiseStep(d)
  BY <1>7, LandingKeepsPromises
<1>8. CASE UNCHANGED vars
  BY <1>8, NothingForEither DEF vars
<1> QED
  BY <1>1, <1>2, <1>3, <1>4, <1>5, <1>6, <1>7, <1>8 DEF Next

\* A careful migration keeps the promise to the senders of both deployments: each
\* emitter's messages are settled in its own order, once, for good and minted when
\* complete, though both count from 0, steps are refused, raise, time out and land
\* late, rows run out of attempts, and the service is stopped, and the script
\* fails, at any point.
THEOREM PromisesKept == OneTarget => (Spec => KeepsBothPromises)
<1> SUFFICES ASSUME OneTarget PROVE Spec => KeepsBothPromises
  OBVIOUS
<1>1. Init => OldPromise!Init /\ NewPromise!Init
  BY DEF Init, OldPromise!Init, NewPromise!Init, Minted, Outcomes, Rows, Final,
         Deployments
<1>2. TypeInv /\ PeersInv /\ CarefulInv /\ BothInv /\ [Next]_vars
        => [Careful => /\ [OldPromise!Next]_(OldPromise!vars)
                      /\ [NewPromise!Next]_(NewPromise!vars)]_vars
  <2> SUFFICES ASSUME Careful, TypeInv, PeersInv, CarefulInv, BothInv, [Next]_vars
               PROVE  /\ [OldPromise!Next]_(OldPromise!vars)
                      /\ [NewPromise!Next]_(NewPromise!vars)
    OBVIOUS
  <2>1. CarefulState /\ BothFacts
    BY DEF CarefulState, CarefulFacts, TypeInv, CarefulInv, BothInv, BothFacts
  <2>2. PromiseStep("old") /\ PromiseStep("new")
    BY <2>1, StepsKeepPromises DEF Deployments
  <2>3. [OldPromise!Next]_(OldPromise!vars)
    BY <2>2 DEF PromiseStep, Promise!Next, Promise!vars, Promise!List,
                Promise!Mint, Promise!Turn, Promise!Complete, Promise!Fail,
                OldPromise!Next, OldPromise!vars, OldPromise!List,
                OldPromise!Mint, OldPromise!Turn, OldPromise!Complete,
                OldPromise!Fail
  <2>4. [NewPromise!Next]_(NewPromise!vars)
    BY <2>2 DEF PromiseStep, Promise!Next, Promise!vars, Promise!List,
                Promise!Mint, Promise!Turn, Promise!Complete, Promise!Fail,
                NewPromise!Next, NewPromise!vars, NewPromise!List,
                NewPromise!Mint, NewPromise!Turn, NewPromise!Complete,
                NewPromise!Fail
  <2> QED
    BY <2>3, <2>4
<1> QED
  BY <1>1, <1>2, TypeInductive, PeersInductive, CarefulInductive,
     BothInductive, PTL
  DEF Spec, KeepsBothPromises
=============================================================================
