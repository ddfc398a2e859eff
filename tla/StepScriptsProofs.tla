-------------------------- MODULE StepScriptsProofs --------------------------
(***************************************************************************)
(* Safety of the two step scripts for any number of processes and messages *)
(* and in every interleaving, from what NttMessageProofs and               *)
(* GuardianGroupProofs show of the values they compute.                    *)
(***************************************************************************)
EXTENDS StepScripts, NttMessageProofs, GuardianGroupProofs
-----------------------------------------------------------------------------
\* Payloads are sequences of numbers, of which the Uvarint theorems speak.
LEMMA BytesAreNumbers == \A s \in Seq(Byte) : s \in Seq(Int)
<1>1. Byte \subseteq Int
  BY ByteIsNumber
<1> QED
  BY <1>1, SeqMonotonic

\* The account step 1 opts in is the one the core wants.
LEMMA AccountsAgree == SeqAccount = PageAccount
<1>1. \A s \in Seq(Byte) : s \in Seq(Int)
  BY BytesAreNumbers
<1>2. Emitter \in Seq(Int) /\ CoreApp \in Nat /\ CoreAddress \in Seq(Int)
  BY <1>1, CoreAssumption
<1>3. ASSUME NEW m \in Messages PROVE SeqAccount[m] = PageAccount[m]
  <2> DEFINE page == SeqPage(Vaa[m].sequence)
  <2>1. page \in Nat
    BY VaaAssumption DEF SeqPage, MaxBits, BytesPerKey, MaxKeys
  <2> HIDE DEF page
  <2>2. Populate(page, Emitter, CoreApp, CoreAddress)
          = CoreAccount(page, Emitter, CoreApp, CoreAddress)
    BY <1>2, <2>1, TemplateIsFilled
  <2> QED
    BY <2>2, Zenon DEF SeqAccount, PageAccount, PageProgram, page
<1> QED
  BY <1>3, Zenon DEF SeqAccount, PageAccount

\* Messages share an account exactly when they share a page, so that no two VAAs
\* share the bit the core marks one of them with (base-relayer.py:92-116, 358-360).
THEOREM OneAccountPerPage ==
  ASSUME NEW m \in Messages, NEW n \in Messages
  PROVE  SeqAccount[m] = SeqAccount[n] <=> SeqPage(Vaa[m].sequence) = SeqPage(Vaa[n].sequence)
<1> DEFINE page(k) == SeqPage(Vaa[k].sequence)
           core(i) == CoreAccount(i, Emitter, CoreApp, CoreAddress)
<1>1. page(m) \in Nat /\ page(n) \in Nat
  BY VaaAssumption DEF SeqPage, MaxBits, BytesPerKey, MaxKeys
<1>2. Emitter \in Seq(Int) /\ CoreApp \in Nat /\ CoreAddress \in Seq(Int)
  BY BytesAreNumbers, CoreAssumption
<1>3. \A k \in Messages : SeqAccount[k] = Account(core(page(k)))
  BY AccountsAgree, Zenon DEF PageAccount, PageProgram
<1>4. PageProgram[m] = core(page(m)) /\ PageProgram[n] = core(page(n))
  BY Zenon DEF PageProgram
<1> HIDE DEF page
<1>5. core(page(m)) = core(page(n)) => page(m) = page(n)
  BY <1>1, <1>2, AccountsApart
<1> HIDE DEF core
<1>6. Account(core(page(m))) = Account(core(page(n))) => core(page(m)) = core(page(n))
  BY <1>4 DEF Account
<1>7. SeqAccount[m] = SeqAccount[n] <=> page(m) = page(n)
  BY <1>3, <1>5, <1>6, Zenon
<1> QED
  BY <1>7 DEF page

\* The boxes of two messages are the same when their digests are.
LEMMA SameBox ==
  ASSUME NEW name \in DOMAIN Written, NEW m \in Messages, NEW n \in Messages,
         Box(name, Written[name][m]) = Box(name, Written[name][n])
  PROVE  Written[name][m] = Written[name][n]
<1> DEFINE same(k) == {l \in Messages : Written[name][l] = Written[name][k]}
<1>1. same(m) = same(n)
  BY DEF Box
<1> QED
  BY <1>1

\* The two boxes that an attestation writes.
LEMMA WrittenBoxes ==
  ASSUME NEW m \in Messages
  PROVE  /\ AttestWrites[m] = {ConsumedBox[m], AttestationsBox[m]}
         /\ ConsumedBox[m] = Box("vaas_consumed_", Written["vaas_consumed_"][m])
         /\ AttestationsBox[m] = Box("num_attestations_", Written["num_attestations_"][m])
<1>1. /\ Written["vaas_consumed_"][m] = VaaDigest(Body(m))
      /\ Written["num_attestations_"][m] = ReferenceDigest(Vaa[m].payload)
  BY DEF Written
<1>2. LookupDigest(Vaa[m].payload) = ReferenceDigest(Vaa[m].payload)
  BY DigestsAgree
<1>3. /\ ConsumedBox[m] = Box("vaas_consumed_", Written["vaas_consumed_"][m])
      /\ AttestationsBox[m] = Box("num_attestations_", Written["num_attestations_"][m])
  BY <1>1, <1>2, Zenon DEF ConsumedBox, AttestationsBox
<1>4. AttestWrites[m] = {Box("vaas_consumed_", Written["vaas_consumed_"][m]),
                         Box("num_attestations_", Written["num_attestations_"][m])}
  BY DEF AttestWrites
<1> QED
  BY <1>3, <1>4

\* A transfer is long enough for the parsers.
LEMMA ParsesTransfer ==
  ASSUME NEW m \in Messages, IsTransfer(m) PROVE Parses(Vaa[m].payload)
<1>1. Len(ManagerPayload(Vaa[m].payload)) \in Nat
  BY VaaAssumption, ManagerPayloadOf, LenProperties
<1> QED
  BY <1>1 DEF IsTransfer, RaisesInReference, Parses

\* A transfer is in one VAA, and both digests tell which it is.
LEMMA OneVaa ==
  ASSUME NEW m \in Messages, IsTransfer(m), NEW n \in Messages, IsTransfer(n)
  PROVE  VaaDigest(Body(m)) = VaaDigest(Body(n))
           <=> ReferenceDigest(Vaa[m].payload) = ReferenceDigest(Vaa[n].payload)
<1> DEFINE p == Vaa[m].payload
           q == Vaa[n].payload
<1>1. /\ p \in Seq(Byte) /\ q \in Seq(Byte)
      /\ Vaa[m].sequence \in Int /\ Vaa[n].sequence \in Int
  BY VaaAssumption
<1>2. ASSUME VaaDigest(Body(m)) = VaaDigest(Body(n))
      PROVE  ReferenceDigest(p) = ReferenceDigest(q)
  <2>1. <<Vaa[m].sequence>> \o p = <<Vaa[n].sequence>> \o q
    BY <1>2 DEF VaaDigest, Keccak, Body
  <2>2. p \in Seq(Int) /\ q \in Seq(Int)
    BY <1>1, BytesAreNumbers
  <2> HIDE DEF p, q
  <2>3. p = q
    <3>1. \A c \in Int : \A s, t \in Seq(Int) :
            <<Vaa[m].sequence>> \o s = <<c>> \o t => Vaa[m].sequence = c /\ s = t
      BY <1>1, FirstByte, Zenon
    <3>2. \A s, t \in Seq(Int) :
            <<Vaa[m].sequence>> \o s = <<Vaa[n].sequence>> \o t => s = t
      BY <1>1, <3>1, Zenon
    <3> QED
      BY <2>1, <2>2, <3>2, Zenon
  <2> QED
    BY <2>3
<1>3. ASSUME ReferenceDigest(p) = ReferenceDigest(q)
      PROVE  VaaDigest(Body(m)) = VaaDigest(Body(n))
  <2>1. LookupDigest(p) = LookupDigest(q)
    BY <1>3, DigestsAgree
  <2>2. Parses(p) /\ Parses(q)
    BY ParsesTransfer
  <2>3. Id(p) = Id(q) /\ SrcNtt(p) = SrcNtt(q)
    BY <1>1, <2>1, <2>2, OneBoxPerAttestation
  <2>4. SameMessage(m, n)
    BY <2>3 DEF SameMessage, Id
  <2>5. Body(m) = Body(n)
    BY <2>4, SentOnceAssumption
  <2> QED
    BY <2>5
<1> QED
  BY <1>2, <1>3

\* So both boxes of an attestation go together.
LEMMA BoxesGoTogether ==
  ASSUME NEW m \in Messages, IsTransfer(m), NEW n \in Messages, IsTransfer(n)
  PROVE  AttestationsBox[m] \in AttestWrites[n] <=> ConsumedBox[m] \in AttestWrites[n]
<1> DEFINE vc == "vaas_consumed_"
           na == "num_attestations_"
<1>1. vc \in DOMAIN Written /\ na \in DOMAIN Written
  BY DEF Written
<1>2. \A k \in Messages : /\ Written[vc][k] = VaaDigest(Body(k))
                          /\ Written[na][k] = ReferenceDigest(Vaa[k].payload)
  BY DEF Written
<1>3. Written[vc][m] = Written[vc][n] <=> Written[na][m] = Written[na][n]
  <2>1. VaaDigest(Body(m)) = VaaDigest(Body(n))
          <=> ReferenceDigest(Vaa[m].payload) = ReferenceDigest(Vaa[n].payload)
    BY OneVaa
  <2>2. /\ Written[vc][m] = VaaDigest(Body(m)) /\ Written[vc][n] = VaaDigest(Body(n))
        /\ Written[na][m] = ReferenceDigest(Vaa[m].payload)
        /\ Written[na][n] = ReferenceDigest(Vaa[n].payload)
    BY <1>2, Zenon
  <2> QED
    BY <2>1, <2>2, Zenon
<1>4. ConsumedBox[m] = ConsumedBox[n] => AttestationsBox[m] = AttestationsBox[n]
  <2> SUFFICES ASSUME ConsumedBox[m] = ConsumedBox[n]
               PROVE  AttestationsBox[m] = AttestationsBox[n]
    OBVIOUS
  <2>1. Written[vc][m] = Written[vc][n]
    <3>1. Box(vc, Written[vc][m]) = Box(vc, Written[vc][n])
      BY WrittenBoxes, Zenon
    <3> QED
      BY <1>1, <3>1, SameBox
  <2>2. Written[na][m] = Written[na][n]
    BY <1>3, <2>1, Zenon
  <2> QED
    BY <2>2, WrittenBoxes, Zenon
<1>5. AttestationsBox[m] = AttestationsBox[n] => ConsumedBox[m] = ConsumedBox[n]
  <2> SUFFICES ASSUME AttestationsBox[m] = AttestationsBox[n]
               PROVE  ConsumedBox[m] = ConsumedBox[n]
    OBVIOUS
  <2>1. Written[na][m] = Written[na][n]
    <3>1. Box(na, Written[na][m]) = Box(na, Written[na][n])
      BY WrittenBoxes, Zenon
    <3> QED
      BY <1>1, <3>1, SameBox
  <2>2. Written[vc][m] = Written[vc][n]
    BY <1>3, <2>1, Zenon
  <2> QED
    BY <2>2, WrittenBoxes, Zenon
<1>6. ConsumedBox[m] # AttestationsBox[n] /\ AttestationsBox[m] # ConsumedBox[n]
  BY WrittenBoxes DEF Box
<1> QED
  BY <1>4, <1>5, <1>6, WrittenBoxes, Zenon

\* A mint writes neither.
LEMMA ExecuteWritesOther ==
  ASSUME NEW m \in Messages, NEW n \in Messages
  PROVE  /\ AttestationsBox[m] # ExecuteWrites[n]
         /\ ConsumedBox[m] # ExecuteWrites[n]
BY WrittenBoxes DEF Box, ExecuteWrites

-----------------------------------------------------------------------------
\* A process starts a script; the service does so while attempts are left.
Starts(p, m) ==
  /\ RunStep1(p, m) \/ RunStep2(p, m)
  /\ p = Service => attempts[m] < MaxAttempts

\* The service goes on without a script, at one of its own points.
OwnPoints == {"idle", "attestOk", "executeOk"}

SkipsStep1(m) ==
  /\ attempts[m] < MaxAttempts
  /\ ConsumedBox[m] \in boxes
  /\ ReturnsAtOnce(m, "attestOk")

SkipsStep2(m) ==
  /\ attempts[m] < MaxAttempts
  /\ row[m] = "attested" /\ ~Preflight(m)
  /\ ReturnsAtOnce(m, "executeOk")

OwnStep == MarkDone \/ \E m \in Messages : SkipsStep1(m) \/ SkipsStep2(m) \/ GiveUp(m)

\* A script moves, is started or the service moves, or the world does.
LEMMA StepKinds ==
  ASSUME [Next]_vars
  PROVE  \/ \E p \in Procs : Script(p)
         \/ \E p \in Procs, m \in Messages : Starts(p, m)
         \/ OwnStep
         \/ \E p \in Procs : Crash(p)
         \/ Reboot \/ Upgrade \/ ReplaceTeal
         \/ UNCHANGED vars
<1>1. ASSUME NEW p \in Procs \ {Service}, NEW m \in Messages,
             RunStep1(p, m) \/ RunStep2(p, m)
      PROVE  Starts(p, m)
  BY <1>1 DEF Starts
<1>2. ASSUME NEW m \in Messages, ServeStep1(m)
      PROVE  Starts(Service, m) \/ SkipsStep1(m)
  BY <1>2 DEF ServeStep1, Starts, SkipsStep1
<1>3. ASSUME NEW m \in Messages, ServeStep2(m)
      PROVE  Starts(Service, m) \/ SkipsStep2(m)
  BY <1>3 DEF ServeStep2, Starts, SkipsStep2
<1> QED
  BY <1>1, <1>2, <1>3, ServiceAssumption, Zenon DEF Next, Serve, OwnStep, Environment

\* The service's own moves are nothing to the files, the accounts and the boxes.
LEMMA OwnStepFrame ==
  ASSUME OwnStep, pc \in [Procs -> Points], msg \in [Procs -> Messages]
  PROVE  /\ UNCHANGED <<faults, coreProgram, optedIn, boxes, teal, cache, attempts,
                        program>>
         /\ \/ UNCHANGED <<pc, msg>>
            \/ \E m \in Messages, point \in OwnPoints :
                 /\ pc' = [pc EXCEPT ![Service] = point]
                 /\ msg' = [msg EXCEPT ![Service] = m]
                 /\ point = "idle" \/ attempts[m] < MaxAttempts
<1> USE DEF chainVars, fileVars, tableVars, procVars, Goto, OwnPoints
<1>1. CASE MarkDone
  <2>1. msg[Service] \in Messages /\ msg' = [msg EXCEPT ![Service] = msg[Service]]
    BY <1>1, ServiceAssumption DEF MarkDone
  <2> QED
    BY <1>1, <2>1 DEF MarkDone
<1>2. ASSUME NEW m \in Messages, SkipsStep1(m) \/ SkipsStep2(m)
      PROVE  /\ UNCHANGED <<faults, chainVars, fileVars, attempts, program>>
             /\ \E point \in OwnPoints :
                 /\ pc' = [pc EXCEPT ![Service] = point]
                 /\ msg' = [msg EXCEPT ![Service] = m]
                 /\ attempts[m] < MaxAttempts
  BY <1>2 DEF SkipsStep1, SkipsStep2, ReturnsAtOnce
<1>3. ASSUME NEW m \in Messages, GiveUp(m)
      PROVE  UNCHANGED <<faults, chainVars, fileVars, attempts, procVars>>
  BY <1>3 DEF GiveUp
<1> QED
  BY <1>1, <1>2, <1>3 DEF OwnStep

AttestsNow(n) ==
  AttestWrites[n] \intersect boxes = {} /\ boxes' = boxes \union AttestWrites[n]

MintsNow(n) ==
  /\ AttestationsBox[n] \in boxes /\ ExecuteWrites[n] \notin boxes
  /\ boxes' = boxes \union {ExecuteWrites[n]}

\* The boxes change in two steps only.
LEMMA BoxSteps ==
  ASSUME [Next]_vars, pc \in [Procs -> Points], msg \in [Procs -> Messages]
  PROVE  \/ boxes' = boxes
         \/ \E n \in Attestable : AttestsNow(n)
         \/ \E n \in Executable : MintsNow(n)
<1> USE DEF chainVars, fileVars, procVars
<1>1. ASSUME NEW p \in Procs, Script(p) PROVE
        \/ boxes' = boxes
        \/ \E n \in Attestable : AttestsNow(n)
        \/ \E n \in Executable : MintsNow(n)
  <2>1. msg[p] \in Messages
    OBVIOUS
  <2>2. CASE SendGroup(p)
    <3>1. boxes' = boxes \/ (/\ AcceptsGroup(msg[p], program[p])
                             /\ boxes' = boxes \union AttestWrites[msg[p]])
      BY <2>2, Zenon DEF SendGroup
    <3> QED
      BY <2>1, <3>1 DEF AcceptsGroup, AttestsNow
  <2>3. CASE SendMessage(p)
    <3>1. boxes' = boxes \/ (AcceptsMessage(msg[p]) /\ boxes' = boxes \union {ExecuteWrites[msg[p]]})
      BY <2>3, Zenon DEF SendMessage
    <3>2. \A n \in Executable : ExecutedBox[n] = ExecuteWrites[n]
      BY DEF Executable
    <3> QED
      BY <2>1, <3>1, <3>2, Zenon DEF AcceptsMessage, MintsNow
  <2> QED
    BY <1>1, <2>2, <2>3, Zenon
       DEF Script, Step1, LoadCached, TealMissing, Compile, SaveCache, OpenCache,
           WriteCache, Compare, CheckAccount, OptIn
<1>2. ASSUME NEW p \in Procs, NEW m \in Messages, Starts(p, m)
      PROVE  boxes' = boxes
  BY <1>2, Zenon DEF Starts, RunStep1, RunStep2
<1>3. (\E p \in Procs : Crash(p)) \/ Reboot \/ Upgrade \/ ReplaceTeal => boxes' = boxes
  BY Zenon DEF Crash, Reboot, Upgrade, ReplaceTeal
<1>4. UNCHANGED vars => boxes' = boxes
  BY Zenon DEF vars
<1>5. OwnStep => boxes' = boxes
  BY OwnStepFrame
<1> QED
  BY <1>1, <1>2, <1>3, <1>4, <1>5, StepKinds, Zenon
-----------------------------------------------------------------------------
\* The type invariant needs that only a compiled program is ever written, and that
\* the service is at no message without attempts left.
TypeInv ==
  /\ TypeOK
  /\ \A p \in Procs : At(p, "compile") \/ At(p, "write") => program[p] \in Programs
  /\ ~IsIdle(Service) => attempts[msg[Service]] < MaxAttempts

\* How a script ends: without a program, and perhaps an attempt later.
LEMMA Endings ==
  ASSUME TypeInv, NEW p \in Procs, ~IsIdle(p), NEW point \in OwnPoints,
         Returns(p, point) \/ Raises(p)
  PROVE  /\ \E to \in OwnPoints : pc' = [pc EXCEPT ![p] = to]
         /\ program' = [program EXCEPT ![p] = "none"]
         /\ attempts' \in [Messages -> 0..MaxAttempts]
         /\ IsIdle(Service)' \/ attempts'[msg[Service]] < MaxAttempts
<1> USE ServiceAssumption, AttemptsAssumption
    DEF TypeInv, TypeOK, Ends, Goto, IsIdle, OwnPoints
<1>1. CASE Returns(p, point)
  BY <1>1 DEF Returns, Points
<1>2. CASE Raises(p)
  <2>1. pc' = [pc EXCEPT ![p] = "idle"] /\ program' = [program EXCEPT ![p] = "none"]
    BY <1>2 DEF Raises
  <2>2. CASE p = Service
    <3>1. attempts' = [attempts EXCEPT ![msg[p]] = @ + 1]
             /\ attempts[msg[p]] < MaxAttempts /\ msg[p] \in Messages
      BY <1>2, <2>2 DEF Raises
    <3>2. attempts' \in [Messages -> 0..MaxAttempts]
      BY <3>1
    <3> QED
      BY <2>1, <2>2, <3>2
  <2>3. CASE p # Service
    BY <1>2, <2>1, <2>3 DEF Raises
  <2> QED
    BY <2>2, <2>3
<1> QED
  BY <1>1, <1>2

\* TypeInv is inductive.
LEMMA TypeInductive == Spec => []TypeInv
<1>1. Init => TypeInv
  BY MessagesAssumption, AttemptsAssumption, ServiceAssumption
  DEF Init, TypeInv, TypeOK, Programs, Points, At, IsIdle
<1>2. TypeInv /\ [Next]_vars => TypeInv'
  <2> SUFFICES ASSUME TypeInv, [Next]_vars PROVE TypeInv'
    OBVIOUS
  <2>1. boxes' \subseteq AllBoxes
    <3>1. \A n \in Messages : AttestWrites[n] \subseteq AllBoxes
                                /\ ExecuteWrites[n] \in AllBoxes
      BY Zenon DEF AllBoxes
    <3> QED
      BY <3>1, BoxSteps DEF TypeInv, TypeOK, Attestable, Executable, AttestsNow, MintsNow
  <2>2. \A m \in Messages : SeqAccount[m] \in AllAccounts
    BY AccountsAgree, Zenon DEF AllAccounts
  <2> HIDE DEF AllBoxes, AllAccounts
  <2> USE ServiceAssumption DEF TypeInv, TypeOK, Points, At, Goto, IsIdle, chainVars,
          fileVars, tableVars, procVars, Programs
  <2>3. ASSUME NEW p \in Procs, Script(p) PROVE TypeInv'
    <3>1. CASE LoadCached(p)
      BY <2>1, <3>1 DEF LoadCached
    <3>2. CASE TealMissing(p)
      <4>1. /\ \E to \in OwnPoints : pc' = [pc EXCEPT ![p] = to]
            /\ program' = [program EXCEPT ![p] = "none"]
            /\ attempts' \in [Messages -> 0..MaxAttempts]
            /\ IsIdle(Service)' \/ attempts'[msg[Service]] < MaxAttempts
        BY <3>2, Endings DEF TealMissing, OwnPoints
      <4> QED
        BY <2>1, <3>2, <4>1 DEF TealMissing, OwnPoints
    <3>3. CASE Compile(p)
      BY <2>1, <3>3 DEF Compile
    <3>4. CASE SaveCache(p) \/ OpenCache(p) \/ WriteCache(p)
      BY <2>1, <3>4 DEF SaveCache, OpenCache, WriteCache
    <3>5. CASE Compare(p)
      <4>1. CASE program[p] = coreProgram
        BY <2>1, <3>5, <4>1 DEF Compare
      <4>2. CASE program[p] # coreProgram
        <5>1. /\ \E to \in OwnPoints : pc' = [pc EXCEPT ![p] = to]
              /\ program' = [program EXCEPT ![p] = "none"]
              /\ attempts' \in [Messages -> 0..MaxAttempts]
              /\ IsIdle(Service)' \/ attempts'[msg[Service]] < MaxAttempts
          BY <3>5, <4>2, Endings DEF Compare, OwnPoints
        <5> QED
          BY <2>1, <3>5, <5>1 DEF Compare, OwnPoints
      <4> QED
        BY <4>1, <4>2
    <3>6. CASE CheckAccount(p)
      BY <2>1, <3>6 DEF CheckAccount
    <3>7. CASE OptIn(p)
      <4>1. optedIn' \subseteq AllAccounts
        BY <2>2, <3>7 DEF OptIn
      <4>2. CASE SeqAccount[msg[p]] \in optedIn
        <5>1. /\ \E to \in OwnPoints : pc' = [pc EXCEPT ![p] = to]
              /\ program' = [program EXCEPT ![p] = "none"]
              /\ attempts' \in [Messages -> 0..MaxAttempts]
              /\ IsIdle(Service)' \/ attempts'[msg[Service]] < MaxAttempts
          BY <3>7, <4>2, Endings DEF OptIn, OwnPoints
        <5> QED
          BY <2>1, <3>7, <4>1, <5>1 DEF OptIn, OwnPoints
      <4>3. CASE SeqAccount[msg[p]] \notin optedIn
        BY <2>1, <3>7, <4>1, <4>3 DEF OptIn
      <4> QED
        BY <4>2, <4>3
    <3>8. CASE SendGroup(p) \/ SendMessage(p)
      <4>1. /\ Raises(p) \/ Returns(p, "attestOk") \/ Returns(p, "executeOk")
            /\ ~IsIdle(p)
            /\ UNCHANGED <<faults, coreProgram, optedIn, teal, cache, row, msg>>
        BY <3>8, Zenon DEF SendGroup, SendMessage
      <4>2. /\ \E to \in OwnPoints : pc' = [pc EXCEPT ![p] = to]
            /\ program' = [program EXCEPT ![p] = "none"]
            /\ attempts' \in [Messages -> 0..MaxAttempts]
            /\ IsIdle(Service)' \/ attempts'[msg[Service]] < MaxAttempts
        BY <4>1, Endings DEF OwnPoints
      <4> QED
        BY <2>1, <4>1, <4>2 DEF OwnPoints
    <3> QED
      BY <2>3, <3>1, <3>2, <3>3, <3>4, <3>5, <3>6, <3>7, <3>8, Zenon
         DEF Script, Step1
  <2>4. ASSUME NEW p \in Procs, NEW m \in Messages, Starts(p, m) PROVE TypeInv'
    BY <2>1, <2>4 DEF Starts, RunStep1, RunStep2
  <2>5. CASE OwnStep
    <3>1. row' \in [Messages -> {"pending", "attested"} \union Final]
      BY <2>5 DEF OwnStep, MarkDone, SkipsStep1, SkipsStep2, ReturnsAtOnce, GiveUp, Final
    <3> QED
      BY <2>1, <2>5, <3>1, OwnStepFrame DEF OwnPoints
  <2>6. ASSUME NEW p \in Procs, Crash(p) PROVE TypeInv'
    BY <2>1, <2>6 DEF Crash, Ends
  <2>7. CASE Reboot \/ Upgrade \/ ReplaceTeal
    BY <2>1, <2>7 DEF Reboot, Upgrade, ReplaceTeal
  <2>8. CASE UNCHANGED vars
    BY <2>8 DEF vars
  <2> QED
    BY <2>3, <2>4, <2>5, <2>6, <2>7, <2>8, StepKinds, Zenon
<1> QED
  BY <1>1, <1>2, PTL DEF Spec

\* Every variable keeps its type; above all, the script opts in no other accounts
\* than the core's own (base-relayer.py:92-116, 178-200).
THEOREM TypeCorrect == Spec => []TypeOK
<1>1. TypeInv => TypeOK
  BY DEF TypeInv
<1> QED
  BY <1>1, TypeInductive, PTL
-----------------------------------------------------------------------------
\* LookupsAgree is inductive: the two boxes of a message are written in one step.
LEMMA LookupsInductive == Spec => []LookupsAgree
<1>1. Init => LookupsAgree
  BY DEF Init, LookupsAgree
<1>2. LookupsAgree /\ TypeOK /\ [Next]_vars => LookupsAgree'
  <2> SUFFICES ASSUME LookupsAgree, TypeOK, [Next]_vars PROVE LookupsAgree'
    OBVIOUS
  <2>1. \/ boxes' = boxes
        \/ \E n \in Attestable : AttestsNow(n)
        \/ \E n \in Executable : MintsNow(n)
    BY BoxSteps DEF TypeOK
  <2>2. CASE boxes' = boxes
    BY <2>2, Zenon DEF LookupsAgree
  <2>3. ASSUME NEW n \in Attestable, AttestsNow(n)
        PROVE  LookupsAgree'
    <3>1. n \in Messages /\ IsTransfer(n)
      BY DEF Attestable
    <3>2. \A m \in Messages : IsTransfer(m) =>
            (AttestationsBox[m] \in AttestWrites[n] <=> ConsumedBox[m] \in AttestWrites[n])
      BY <3>1, BoxesGoTogether
    <3> QED
      BY <2>3, <3>2 DEF LookupsAgree, AttestsNow
  <2>4. ASSUME NEW n \in Executable, MintsNow(n)
        PROVE  LookupsAgree'
    BY <2>4, ExecuteWritesOther DEF LookupsAgree, Executable, MintsNow
  <2> QED
    BY <2>1, <2>2, <2>3, <2>4, Zenon
<1>3. Spec => []TypeOK
  BY TypeCorrect
<1> QED
  BY <1>1, <1>2, <1>3, PTL DEF Spec

\* No transfer is left between the steps: step 1 takes it for consumed exactly
\* when step 2 finds its attestation, in whatever order scripts run, race and die
\* (base-relayer.py:236-246, ntt_execute.py:224-236).
THEOREM LookupsStayTogether == Spec => []LookupsAgree
BY LookupsInductive
-----------------------------------------------------------------------------
\* The calls of verifySigs have the signatures and their guardians' keys.
LEMMA AllAccepted == \A m \in Messages : CoreAccepts(m)
<1> SUFFICES ASSUME NEW m \in Messages PROVE CoreAccepts(m)
  OBVIOUS
<1> DEFINE signers == Vaa[m].signers
           blocks == Blocks(Len(signers))
           chunks == [i \in 1..blocks |-> Chunk(signers, i - 1)]
<1>1. signers \in Seq(0..Guardians - 1) /\ Len(signers) \in Nat
  BY VaaAssumption, LenProperties
<1>2. blocks \in Nat
  BY <1>1, BlockCount
<1>3. /\ Group[m].chunks = chunks
      /\ Group[m].keys = [i \in 1..blocks |-> ChunkKeys(Keys, signers, i - 1)]
  BY DEF Group
<1>4. AreCut(chunks, signers)
  BY <1>1, ChunksAreCut
<1>5. ASSUME NEW i \in 1..blocks
      PROVE  /\ Len(chunks[i]) <= SigsPerTxn
             /\ Group[m].keys[i] = [j \in DOMAIN chunks[i] |-> GuardianKey(chunks[i][j])]
  <2> DEFINE c == Chunk(signers, i - 1)
  <2>1. i - 1 \in 0..blocks - 1
    BY <1>2
  <2>2. c \in Seq(0..Guardians - 1) /\ DOMAIN c = 1..Len(c) /\ Len(c) \in Nat
    BY <1>1, <2>1, ChunkIsPiece, LenProperties
  <2>3. Len(c) <= SigsPerTxn
    <3>1. SigsIn(Len(signers), i - 1) \in 1..SigsPerTxn
      BY <1>1, <2>1, BlocksFit
    <3>2. DOMAIN c = 1..SigsIn(Len(signers), i - 1)
      BY DEF Chunk
    <3> HIDE DEF c
    <3> QED
      BY <2>2, <3>1, <3>2 DEF SigsPerTxn
  <2>4. ASSUME NEW j \in 1..Len(c) PROVE KeyAt(Keys, c[j]) = GuardianKey(c[j])
    <3>1. c[j] \in 0..Guardians - 1
      BY <2>2, ElementOfSeq
    <3> QED
      BY <3>1, GuardiansAssumption, KeysAreCut DEF Keys
  <2>5. ChunkKeys(Keys, signers, i - 1) = [j \in 1..Len(c) |-> KeyAt(Keys, c[j])]
    BY DEF ChunkKeys
  <2> HIDE DEF c
  <2>6. Group[m].keys[i] = [j \in DOMAIN c |-> GuardianKey(c[j])]
    BY <1>3, <2>2, <2>4, <2>5
  <2> QED
    BY <2>3, <2>6 DEF c
<1> HIDE DEF chunks, signers, blocks
<1>6. DOMAIN chunks = 1..blocks
  BY DEF chunks
<1>7. /\ AreCut(Group[m].chunks, Vaa[m].signers)
      /\ \A i \in DOMAIN Group[m].chunks :
           /\ Len(Group[m].chunks[i]) <= SigsPerTxn
           /\ Group[m].keys[i]
                = [j \in DOMAIN Group[m].chunks[i] |-> GuardianKey(Group[m].chunks[i][j])]
  <2>1. Group[m].chunks = chunks
    BY <1>3
  <2> QED
    BY <1>4, <1>5, <1>6, <2>1 DEF signers
<1> QED
  BY <1>7, Zenon DEF CoreAccepts

\* A message for this manager is a transfer, and its group declares its boxes.
LEMMA ForUsAttestable == ForUs \subseteq Attestable
<1> SUFFICES ASSUME NEW m \in ForUs PROVE m \in Attestable
  OBVIOUS
<1> DEFINE p == Vaa[m].payload
           mp == ManagerPayload(p)
           n == Uint16(Slice(p, 68, 70))
<1>1. m \in Messages /\ p \in Seq(Byte) /\ Len(p) \in Nat
  BY VaaAssumption, LenProperties DEF ForUs
<1>2. IsNtt(p) /\ Len(mp) >= 66 /\ DstNtt(p) = Handler
  BY DEF ForUs, IsForUs, Parses
<1>3. Len(p) >= 70
  <2> SUFFICES ASSUME Len(p) < 70 PROVE FALSE
    BY <1>1
  <2> DEFINE to == IF 70 + n < Len(p) THEN 70 + n ELSE Len(p)
  <2>1. mp = SubSeq(p, 71, to)
    BY DEF ManagerPayload, Slice
  <2>2. n \in Nat
    <3> HIDE DEF p
    <3>1. 68 \in Nat /\ 70 \in Nat /\ 68 <= 70
      OBVIOUS
    <3>2. Slice(p, 68, 70) \in Seq(Byte) /\ Len(Slice(p, 68, 70)) \in 0..70 - 68
      BY <1>1, <3>1, SliceCut, Zenon
    <3> QED
      BY <3>2, Uint16Nat
  <2> HIDE DEF n, p, mp
  <2>3. to \in Nat /\ to < 71
    BY <1>1, <2>2
  <2>4. Len(mp) = 0
    BY <2>1, <2>3
  <2> QED
    BY <1>2, <2>4
<1>4. IsTransfer(m)
  BY <1>1, <1>2, <1>3 DEF IsTransfer, RaisesInReference
<1>5. AttestWrites[m] \subseteq Group[m].boxes
  <2>1. AttestDigest(p) = LookupDigest(p)
    BY DigestsAgree
  <2>2. Group[m].boxes = {ConsumedBox[m]} \union {Box("num_attestations_", AttestDigest(p))}
    BY <1>1, <1>2 DEF Group
  <2>3. AttestationsBox[m] = Box("num_attestations_", LookupDigest(p))
    BY <1>1 DEF AttestationsBox
  <2> QED
    BY <1>1, <2>1, <2>2, <2>3, WrittenBoxes
<1>6. CoreAccepts(m)
  BY <1>1, AllAccepted
<1> QED
  BY <1>1, <1>4, <1>5, <1>6, Zenon DEF Attestable

\* A group is built for an account that is opted in.
BuildInv == \A p \in Procs : At(p, "build") => SeqAccount[msg[p]] \in optedIn

\* BuildInv is inductive: accounts do not opt out.
LEMMA BuildInductive == Spec => []BuildInv
<1>1. Init => BuildInv
  BY DEF Init, BuildInv, At
<1>2. BuildInv /\ TypeOK /\ [Next]_vars => BuildInv'
  <2> SUFFICES ASSUME BuildInv, TypeOK, [Next]_vars PROVE BuildInv'
    OBVIOUS
  <2>1. pc \in [Procs -> Points] /\ msg \in [Procs -> Messages]
    BY DEF TypeOK
  <2> USE <2>1 DEF BuildInv, At, Goto, chainVars, fileVars, procVars
  <2>2. ASSUME NEW p \in Procs, Script(p) PROVE BuildInv'
    <3>1. CASE LoadCached(p) \/ TealMissing(p) \/ Compile(p)
      BY <3>1 DEF LoadCached, TealMissing, Compile, Raises, Ends
    <3>2. CASE SaveCache(p) \/ OpenCache(p) \/ WriteCache(p)
      BY <3>2 DEF SaveCache, OpenCache, WriteCache
    <3>3. CASE Compare(p)
      BY <3>3 DEF Compare, Raises, Ends
    <3>4. CASE CheckAccount(p)
      BY <3>4 DEF CheckAccount
    <3>5. CASE OptIn(p)
      BY <3>5 DEF OptIn, Raises, Returns, Ends
    <3>6. CASE SendGroup(p) \/ SendMessage(p)
      BY <3>6 DEF SendGroup, SendMessage, Raises, Returns, Ends
    <3> QED
      BY <2>2, <3>1, <3>2, <3>3, <3>4, <3>5, <3>6, Zenon DEF Script, Step1
  <2>3. ASSUME NEW p \in Procs, NEW m \in Messages, Starts(p, m) PROVE BuildInv'
    BY <2>3 DEF Starts, RunStep1, RunStep2
  <2>4. CASE OwnStep
    BY <2>4, OwnStepFrame DEF OwnPoints
  <2>5. ASSUME NEW p \in Procs, Crash(p) PROVE BuildInv'
    BY <2>5 DEF Crash, Ends
  <2>6. CASE Reboot \/ Upgrade \/ ReplaceTeal
    BY <2>6 DEF Reboot, Upgrade, ReplaceTeal
  <2>7. CASE UNCHANGED vars
    BY <2>7 DEF vars
  <2> QED
    BY <2>2, <2>3, <2>4, <2>5, <2>6, <2>7, StepKinds, Zenon
<1>3. Spec => []TypeOK
  BY TypeCorrect
<1> QED
  BY <1>1, <1>2, <1>3, PTL DEF Spec

\* With the core's program, the group of step 1 is accepted whatever other
\* processes do meanwhile, unless the VAA has been relayed by one of them
\* (base-relayer.py:248-336, 369-413).
THEOREM GroupsAreAccepted == Spec => []GroupIsAccepted
<1>1. TypeOK /\ LookupsAgree /\ BuildInv => GroupIsAccepted
  <2> SUFFICES ASSUME TypeOK, LookupsAgree, BuildInv,
                      NEW p \in Procs, At(p, "build"), msg[p] \in ForUs,
                      program[p] = coreProgram, ConsumedBox[msg[p]] \notin boxes
               PROVE  AcceptsGroup(msg[p], program[p])
    BY DEF GroupIsAccepted
  <2> DEFINE m == msg[p]
  <2>1. m \in Messages /\ m \in Attestable /\ IsTransfer(m)
    BY ForUsAttestable DEF ForUs, Attestable
  <2>2. SeqAccount[m] = PageAccount[m] /\ SeqAccount[m] \in optedIn
    BY AccountsAgree DEF BuildInv
  <2>3. AttestationsBox[m] \notin boxes
    BY <2>1 DEF LookupsAgree
  <2>4. AttestWrites[m] \intersect boxes = {}
    BY <2>1, <2>3, WrittenBoxes
  <2> QED
    BY <2>1, <2>2, <2>4 DEF AcceptsGroup
<1> QED
  BY <1>1, TypeCorrect, LookupsStayTogether, BuildInductive, PTL
-----------------------------------------------------------------------------
\* Step 2 looks for a message at the boxes the contracts use for it.
LEMMA ForUsExecutable == ForUs \subseteq Executable
<1> SUFFICES ASSUME NEW m \in ForUs PROVE m \in Executable
  OBVIOUS
<1> DEFINE p == Vaa[m].payload
<1>1. m \in Messages /\ p \in Seq(Byte) /\ IsForUs(p) /\ WellFormed(p)
  BY VaaAssumption, WellFormedAssumption DEF ForUs
<1>2. ExecutedDigest(p) = MsgDigest(p) /\ ExecutedDigest(p) = LookupDigest(p)
  BY <1>1, ExecutedBoxesAreDeclared
<1>3. Written["messages_executed_"][m] = ExecutedDigest(p)
  BY <1>1 DEF Written
<1>4. AttestationsBox[m] = Box("num_attestations_", ExecutedDigest(p))
  BY <1>1, <1>2, Zenon DEF AttestationsBox
<1>5. ExecutedBox[m] = ExecuteWrites[m]
  BY <1>1, <1>2, <1>3, Zenon DEF ExecutedBox, ExecuteWrites
<1>6. IsTransfer(m)
  BY ForUsAttestable DEF Attestable
<1> QED
  BY <1>1, <1>4, <1>5, <1>6, Zenon DEF Executable

\* What preflight has seen stays: boxes are never deleted.
ExecuteInv ==
  \A p \in Procs : At(p, "execute") => msg[p] \in ForUs /\ AttestationsBox[msg[p]] \in boxes

\* ExecuteInv is inductive.
LEMMA ExecuteInductive == Spec => []ExecuteInv
<1>1. Init => ExecuteInv
  BY DEF Init, ExecuteInv, At
<1>2. ExecuteInv /\ TypeOK /\ [Next]_vars => ExecuteInv'
  <2> SUFFICES ASSUME ExecuteInv, TypeOK, [Next]_vars PROVE ExecuteInv'
    OBVIOUS
  <2>1. pc \in [Procs -> Points] /\ msg \in [Procs -> Messages]
    BY DEF TypeOK
  <2>2. boxes \subseteq boxes'
    BY <2>1, BoxSteps DEF AttestsNow, MintsNow
  <2> USE <2>1 DEF ExecuteInv, At, Goto, chainVars, fileVars, procVars
  <2>3. ASSUME NEW p \in Procs, Script(p) PROVE ExecuteInv'
    <3>1. CASE LoadCached(p) \/ TealMissing(p) \/ Compile(p)
      BY <2>2, <3>1 DEF LoadCached, TealMissing, Compile, Raises, Ends
    <3>2. CASE SaveCache(p) \/ OpenCache(p) \/ WriteCache(p)
      BY <2>2, <3>2 DEF SaveCache, OpenCache, WriteCache
    <3>3. CASE Compare(p)
      BY <2>2, <3>3 DEF Compare, Raises, Ends
    <3>4. CASE CheckAccount(p) \/ OptIn(p)
      BY <2>2, <3>4 DEF CheckAccount, OptIn, Raises, Returns, Ends
    <3>5. CASE SendGroup(p) \/ SendMessage(p)
      BY <2>2, <3>5 DEF SendGroup, SendMessage, Raises, Returns, Ends
    <3> QED
      BY <2>3, <3>1, <3>2, <3>3, <3>4, <3>5, Zenon DEF Script, Step1
  <2>4. ASSUME NEW p \in Procs, NEW m \in Messages, Starts(p, m) PROVE ExecuteInv'
    BY <2>2, <2>4 DEF Starts, RunStep1, RunStep2, Preflight
  <2>5. CASE OwnStep
    BY <2>5, OwnStepFrame DEF OwnPoints
  <2>6. ASSUME NEW p \in Procs, Crash(p) PROVE ExecuteInv'
    BY <2>2, <2>6 DEF Crash, Ends
  <2>7. CASE Reboot \/ Upgrade \/ ReplaceTeal
    BY <2>2, <2>7 DEF Reboot, Upgrade, ReplaceTeal
  <2>8. CASE UNCHANGED vars
    BY <2>8 DEF vars
  <2> QED
    BY <2>3, <2>4, <2>5, <2>6, <2>7, <2>8, StepKinds, Zenon
<1>3. Spec => []TypeOK
  BY TypeCorrect
<1> QED
  BY <1>1, <1>2, <1>3, PTL DEF Spec

\* What preflight lets through is minted, unless another run of step 2 has minted
\* it between the look and the send (ntt_execute.py:190-256).
THEOREM MessagesAreAccepted == Spec => []MessageIsAccepted
<1>1. TypeOK /\ ExecuteInv => MessageIsAccepted
  BY ForUsExecutable DEF TypeOK, ExecuteInv, MessageIsAccepted, AcceptsMessage
<1> QED
  BY <1>1, TypeCorrect, ExecuteInductive, PTL
-----------------------------------------------------------------------------
\* Where the programs come from: as long as no other is about and no cache is seen
\* empty, whatever program a process has is the core's.
FilesInv ==
  faults \intersect {"upgrade", "torn"} = {} =>
    /\ coreProgram = "first" /\ teal \in {"first", "absent"}
    /\ cache \in {"first", "absent"}
    /\ \A p \in Procs : program[p] \in {"none", "first"}
    /\ \A p \in Procs :
         pc[p] \in {"compile", "compare", "accounts", "optIn", "build"}
           => program[p] = "first"
    /\ \A p \in Procs : ~At(p, "write")

\* FilesInv is inductive: a process writes the program it has read.
LEMMA FilesInductive == Spec => []FilesInv
<1>1. Init => FilesInv
  BY DEF Init, FilesInv, At
<1>2. FilesInv /\ TypeOK /\ [Next]_vars => FilesInv'
  <2> SUFFICES ASSUME FilesInv, TypeOK, [Next]_vars,
                      faults' \intersect {"upgrade", "torn"} = {}
               PROVE  FilesInv'
    BY DEF FilesInv
  <2>1. /\ pc \in [Procs -> Points] /\ msg \in [Procs -> Messages]
        /\ program \in [Procs -> Programs \union {"none", "empty"}]
    BY DEF TypeOK
  <2> USE <2>1, ServiceAssumption DEF FilesInv, At, Goto, chainVars, fileVars, procVars
  <2>2. ASSUME NEW p \in Procs, Script(p) PROVE FilesInv'
    <3>1. CASE LoadCached(p)
      BY <3>1 DEF LoadCached
    <3>2. CASE TealMissing(p)
      BY <3>2 DEF TealMissing, Raises, Ends
    <3>3. CASE Compile(p)
      BY <3>3 DEF Compile
    <3>4. CASE SaveCache(p)
      BY <3>4 DEF SaveCache
    <3>5. CASE OpenCache(p) \/ WriteCache(p)
      BY <3>5 DEF OpenCache, WriteCache
    <3>6. CASE Compare(p)
      BY <3>6 DEF Compare, Raises, Ends
    <3>7. CASE CheckAccount(p)
      BY <3>7 DEF CheckAccount
    <3>8. CASE OptIn(p)
      BY <3>8 DEF OptIn, Raises, Returns, Ends
    <3>9. CASE SendGroup(p) \/ SendMessage(p)
      BY <3>9 DEF SendGroup, SendMessage, Raises, Returns, Ends
    <3> QED
      BY <2>2, <3>1, <3>2, <3>3, <3>4, <3>5, <3>6, <3>7, <3>8, <3>9, Zenon
         DEF Script, Step1
  <2>3. ASSUME NEW p \in Procs, NEW m \in Messages, Starts(p, m) PROVE FilesInv'
    BY <2>3 DEF Starts, RunStep1, RunStep2
  <2>4. CASE OwnStep
    BY <2>4, OwnStepFrame DEF OwnPoints
  <2>5. ASSUME NEW p \in Procs, Crash(p) PROVE FilesInv'
    BY <2>5 DEF Crash, Ends
  <2>6. CASE Reboot \/ Upgrade \/ ReplaceTeal
    BY <2>6 DEF Reboot, Upgrade, ReplaceTeal
  <2>7. CASE UNCHANGED vars
    BY <2>7 DEF vars
  <2> QED
    BY <2>2, <2>3, <2>4, <2>5, <2>6, <2>7, StepKinds, Zenon
<1>3. Spec => []TypeOK
  BY TypeCorrect
<1> QED
  BY <1>1, <1>2, <1>3, PTL DEF Spec

Consumed(m) == ConsumedBox[m] \in boxes
Executed(m) == ExecutedBox[m] \in boxes

\* What a step has not raised about is done: before its row says so, too.
RowsInv ==
  faults \intersect Unnoticed = {} =>
    /\ \A m \in ForUs :
         /\ row[m] \in {"attested", "complete"} => Consumed(m)
         /\ row[m] = "complete" => Executed(m)
    /\ msg[Service] \in ForUs =>
         /\ pc[Service] \in {"attestOk", "executeOk"} => Consumed(msg[Service])
         /\ At(Service, "executeOk") => Executed(msg[Service])

\* Boxes are never deleted.
LEMMA BoxesStay ==
  ASSUME TypeOK, [Next]_vars
  PROVE  \A m \in Messages : (Consumed(m) => Consumed(m)') /\ (Executed(m) => Executed(m)')
<1>1. boxes \subseteq boxes'
  BY BoxSteps DEF TypeOK, AttestsNow, MintsNow
<1> QED
  BY <1>1 DEF Consumed, Executed

\* A message for this manager that is consumed and not let through by preflight is
\* minted.
LEMMA PreflightKnows ==
  ASSUME LookupsAgree, NEW m \in ForUs, Consumed(m), ~Preflight(m)
  PROVE  Executed(m)
<1>1. m \in Messages /\ IsTransfer(m)
  BY ForUsAttestable DEF ForUs, Attestable
<1> QED
  BY <1>1 DEF Preflight, LookupsAgree, Consumed, Executed

\* The service's step 1 returns with the VAA consumed, and its step 2 with the
\* transfer minted.
LEMMA ScriptsTellTheTruth ==
  ASSUME TypeOK, LookupsAgree, GroupIsAccepted, ExecuteInv, FilesInv, RowsInv,
         NEW p \in Procs, Script(p), faults \intersect Unnoticed = {}
  PROVE  RowsInv'
<1> USE ServiceAssumption DEF TypeOK, At, Goto, chainVars, fileVars, tableVars, procVars
<1>0. msg[p] \in Messages /\ msg[Service] \in Messages
  OBVIOUS
<1>1. boxes \subseteq boxes' /\ UNCHANGED <<faults, row, msg>>
  BY Zenon DEF Script, Step1, LoadCached, TealMissing, Compile, SaveCache, OpenCache,
        WriteCache, Compare, CheckAccount, OptIn, SendGroup, SendMessage
\* Nothing is returned but by the two sends.
<1>2. ASSUME pc'[Service] \in {"attestOk", "executeOk"} => pc'[Service] = pc[Service]
      PROVE  RowsInv'
  BY <1>1, <1>2 DEF RowsInv, Consumed, Executed
<1>3. CASE \/ LoadCached(p) \/ TealMissing(p) \/ Compile(p) \/ SaveCache(p)
           \/ OpenCache(p) \/ WriteCache(p) \/ Compare(p) \/ CheckAccount(p)
  <2>1. pc'[Service] \in {"attestOk", "executeOk"} => pc'[Service] = pc[Service]
    BY <1>3 DEF LoadCached, TealMissing, Compile, SaveCache, OpenCache, WriteCache,
                Compare, CheckAccount, Raises, Ends
  <2> QED
    BY <1>2, <2>1
<1>4. CASE OptIn(p)
  <2>1. "ledger" \notin faults
    BY DEF Unnoticed
  <2>2. pc'[Service] \in {"attestOk", "executeOk"} => pc'[Service] = pc[Service]
    BY <1>4, <2>1 DEF OptIn, Raises, Ends
  <2> QED
    BY <1>2, <2>2
<1>5. CASE SendGroup(p)
  <2>1. CASE p # Service
    <3>1. pc'[Service] = pc[Service]
      BY <1>5, <2>1 DEF SendGroup, Raises, Returns, Ends
    <3> QED
      BY <1>2, <3>1
  <2>2. CASE p = Service /\ msg[p] \in ForUs
    <3>1. program[p] = coreProgram
      BY <1>5, <2>2 DEF SendGroup, FilesInv, Unnoticed
    <3>2. AcceptsGroup(msg[p], program[p]) \/ Consumed(msg[p])
      BY <1>5, <2>2, <3>1 DEF SendGroup, GroupIsAccepted, Consumed
    <3>3. ~ParseRaises(Vaa[msg[p]].payload)
      BY <2>2, VaaAssumption, WellFormedAssumption, RecipientsAgree DEF ForUs
    <3>4. msg[p] \notin Unparsed
      BY <3>3 DEF Unparsed
    <3>5. ConsumedBox[msg[p]] \in AttestWrites[msg[p]]
      BY <1>0, WrittenBoxes
    <3>6. Consumed(msg[p])' /\ pc'[Service] = "attestOk"
      BY <1>1, <1>5, <2>2, <3>2, <3>4, <3>5 DEF SendGroup, Returns, Ends, Consumed
    <3> QED
      BY <1>1, <2>2, <3>6 DEF RowsInv, Consumed, Executed
  <2>3. CASE p = Service /\ msg[p] \notin ForUs
    BY <1>1, <2>3 DEF RowsInv, Consumed, Executed
  <2> QED
    BY <2>1, <2>2, <2>3
<1>6. CASE SendMessage(p)
  <2>1. CASE p # Service
    <3>1. pc'[Service] = pc[Service]
      BY <1>6, <2>1 DEF SendMessage, Raises, Returns, Ends
    <3> QED
      BY <1>2, <3>1
  <2>2. CASE p = Service
    <3>1. msg[p] \in ForUs /\ AttestationsBox[msg[p]] \in boxes
      BY <1>6 DEF SendMessage, ExecuteInv
    <3>2. Consumed(msg[p])
      BY <1>0, <3>1, ForUsAttestable DEF LookupsAgree, Attestable, Consumed
    <3>3. CASE AcceptsMessage(msg[p])
      <4>1. ExecutedBox[msg[p]] = ExecuteWrites[msg[p]]
        BY <3>1, ForUsExecutable DEF Executable
      <4>2. Executed(msg[p])' /\ Consumed(msg[p])'
        BY <1>1, <1>6, <3>2, <3>3, <4>1 DEF SendMessage, Executed, Consumed
      <4> QED
        BY <1>1, <2>2, <4>2 DEF RowsInv, Consumed, Executed
    <3>4. CASE ~AcceptsMessage(msg[p])
      <4>1. pc'[Service] = "idle"
        BY <1>6, <2>2, <3>4 DEF SendMessage, Raises, Ends
      <4> QED
        BY <1>2, <4>1
    <3> QED
      BY <3>3, <3>4
  <2> QED
    BY <2>1, <2>2
<1> QED
  BY <1>3, <1>4, <1>5, <1>6, Zenon DEF Script, Step1

\* RowsInv is inductive.
LEMMA RowsInductive == Spec => []RowsInv
<1>1. Init => RowsInv
  BY ServiceAssumption DEF Init, RowsInv, At, ForUs
<1>2. /\ TypeOK /\ LookupsAgree /\ GroupIsAccepted /\ ExecuteInv /\ FilesInv /\ RowsInv
      /\ [Next]_vars
      => RowsInv'
  <2> SUFFICES ASSUME TypeOK, LookupsAgree, GroupIsAccepted, ExecuteInv, FilesInv,
                      RowsInv, [Next]_vars, faults' \intersect Unnoticed = {}
               PROVE  RowsInv'
    BY DEF RowsInv
  <2>1. /\ pc \in [Procs -> Points] /\ msg \in [Procs -> Messages]
        /\ row \in [Messages -> {"pending", "attested"} \union Final]
    BY DEF TypeOK
  <2>2. faults' = faults
    <3>1. \A p \in Procs : Script(p) => faults' = faults
      BY Zenon DEF Script, Step1, LoadCached, TealMissing, Compile, SaveCache, OpenCache,
            WriteCache, Compare, CheckAccount, OptIn, SendGroup, SendMessage
    <3>2. OwnStep => faults' = faults
      BY <2>1, OwnStepFrame
    <3> QED
      BY <3>1, <3>2, StepKinds, Zenon
      DEF Starts, RunStep1, RunStep2, Crash, Reboot, Upgrade, ReplaceTeal, vars
  <2>3. \A m \in Messages :
          (Consumed(m) => Consumed(m)') /\ (Executed(m) => Executed(m)')
    BY BoxesStay
  <2>4. ForUs \subseteq Messages
    BY DEF ForUs
  <2> USE <2>1, <2>2, ServiceAssumption DEF At, Goto, chainVars, fileVars, tableVars,
          procVars
  <2>5. ASSUME NEW p \in Procs, Script(p) PROVE RowsInv'
    BY <2>5, ScriptsTellTheTruth
  \* Nothing else returns but what finds its work done.
  <2>6. ASSUME UNCHANGED row,
               pc'[Service] \in {"attestOk", "executeOk"}
                 => pc'[Service] = pc[Service] /\ msg'[Service] = msg[Service]
        PROVE  RowsInv'
    BY <2>3, <2>4, <2>6 DEF RowsInv
  <2>7. ASSUME NEW p \in Procs, NEW m \in Messages, Starts(p, m) PROVE RowsInv'
    BY <2>6, <2>7 DEF Starts, RunStep1, RunStep2
  <2>8. ASSUME NEW m \in Messages, SkipsStep1(m) PROVE RowsInv'
    <3>1. /\ Consumed(m) /\ UNCHANGED row
          /\ pc'[Service] = "attestOk" /\ msg'[Service] = m
      BY <2>8 DEF SkipsStep1, ReturnsAtOnce, Consumed
    <3> QED
      BY <2>3, <2>4, <3>1 DEF RowsInv
  <2>9. ASSUME NEW m \in Messages, SkipsStep2(m) PROVE RowsInv'
    <3>1. /\ row[m] = "attested" /\ ~Preflight(m) /\ UNCHANGED row
          /\ pc'[Service] = "executeOk" /\ msg'[Service] = m
      BY <2>9 DEF SkipsStep2, ReturnsAtOnce
    <3>2. m \in ForUs => Consumed(m) /\ Executed(m)
      BY <3>1, PreflightKnows DEF RowsInv
    <3> QED
      BY <2>3, <2>4, <3>1, <3>2 DEF RowsInv
  <2>10. CASE MarkDone
    <3> DEFINE m == msg[Service]
    <3>1. /\ pc'[Service] = "idle"
          /\ \A n \in Messages \ {m} : row'[n] = row[n]
          /\ row'[m] = IF At(Service, "attestOk") THEN "attested" ELSE "complete"
          /\ pc[Service] \in {"attestOk", "executeOk"}
      BY <2>10 DEF MarkDone
    <3>2. m \in ForUs => /\ row'[m] \in {"attested", "complete"} => Consumed(m)
                         /\ row'[m] = "complete" => Executed(m)
      BY <3>1 DEF RowsInv
    <3> QED
      BY <2>3, <2>4, <3>1, <3>2 DEF RowsInv
  <2>11. ASSUME NEW m \in Messages, GiveUp(m) PROVE RowsInv'
    <3>1. /\ UNCHANGED <<pc, msg>>
          /\ row' = [row EXCEPT ![m] = "failed"]
      BY <2>11 DEF GiveUp
    <3> QED
      BY <2>3, <2>4, <3>1 DEF RowsInv
  <2>12. ASSUME NEW p \in Procs, Crash(p) PROVE RowsInv'
    BY <2>6, <2>12 DEF Crash, Ends
  <2>13. CASE Reboot \/ Upgrade \/ ReplaceTeal
    BY <2>6, <2>13 DEF Reboot, Upgrade, ReplaceTeal
  <2>14. CASE UNCHANGED vars
    BY <2>6, <2>14 DEF vars
  <2> QED
    BY <2>5, <2>7, <2>8, <2>9, <2>10, <2>11, <2>12, <2>13, <2>14, StepKinds, Zenon
    DEF OwnStep
<1> QED
  BY <1>1, <1>2, TypeCorrect, LookupsStayTogether, GroupsAreAccepted, ExecuteInductive,
     FilesInductive, PTL
  DEF Spec

\* Although step 1 swallows what the node says of its group and step 2 returns when
\* preflight fails, the service's rows are true of every message, whoever else runs
\* the scripts and whatever dies, as long as the program is the core's and the
\* opt-in's answers are not taken for the attestation's (relay_service.py:154-163,
\* 212-226, base-relayer.py:421, ntt_execute.py:370).
THEOREM RowsStayTrue == Spec => []RowsAreTrue
<1>1. RowsInv => RowsAreTrue
  BY DEF RowsInv, RowsAreTrue, Consumed, Executed
<1> QED
  BY <1>1, RowsInductive, PTL
=============================================================================
