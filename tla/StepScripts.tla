---------------------------- MODULE StepScripts ----------------------------
(***************************************************************************)
(* The two step scripts inside: relay_vaa of base-relayer.py (step 1) and  *)
(* execute_ntt of ntt_execute.py (step 2), run for the same messages by    *)
(* the service and by operators at the same time.                          *)
(*                                                                         *)
(* RelayService takes the scripts for steps that succeed or fail.  Here    *)
(* are the files and accounts they share, the group they build and the     *)
(* boxes they declare and look up, and what the service's table makes of   *)
(* how they end.  Nodes that refuse, time out or cannot be read, listings, *)
(* polls and operators' faults are RelayService's matter and left out.     *)
(***************************************************************************)
EXTENDS NttMessage, GuardianGroup

CONSTANTS
  Procs,          \* processes that run the scripts
  Service,        \* the one that is relay_service.py; the others are operators
  MaxAttempts,    \* 5 in the code
  Messages,       \* names of VAAs
  Vaa,            \* a VAA of each: [sequence, signers, payload]
  Guardians,      \* guardians of the current set
  Emitter,        \* emitter_id, 34 bytes
  CoreApp,        \* WORMHOLE_CORE
  CoreAddress,    \* its address, 32 bytes
  FaultSets       \* what may happen besides the scripts, in one behaviour

Programs == {"first", "second"}

ScriptFaults ==
  { "crash",      \* a script dies between two steps
    "torn",       \* the cache is seen between its opening and its writing
    "ledger",     \* two processes send the same opt-in in the same round
    "reboot",     \* the server is restarted
    "upgrade" }   \* Wormhole changes its program

ASSUME FaultSetsAssumption == FaultSets \subseteq SUBSET ScriptFaults
ASSUME ServiceAssumption == Service \in Procs
ASSUME AttemptsAssumption == MaxAttempts \in Nat \ {0}
ASSUME MessagesAssumption == Messages # {}
ASSUME VaaAssumption ==
  \A m \in Messages :
    /\ Vaa[m].sequence \in Nat
    /\ Vaa[m].signers \in Seq(0..Guardians - 1)
    /\ Vaa[m].payload \in Seq(Byte)
ASSUME GuardiansAssumption ==
  Guardians \in Nat /\ 1 + KeyLen * Guardians <= BytesPerKey * MaxKeys
ASSUME CoreAssumption ==
  Emitter \in Seq(Byte) /\ CoreApp \in Nat /\ CoreAddress \in Seq(Byte)

VARIABLES
  faults,        \* what may happen in this behaviour
  coreProgram,   \* the vaa_verify program whose hash is the core's vphash
  teal,          \* /tmp/wormhole/algorand/teal/vaa_verify.teal, or "absent"
  cache,         \* /tmp/vaa_verify_program.b64, or "absent", or "empty"
  optedIn,       \* accounts opted in to the core
  boxes,         \* boxes of the contracts, by name and digest
  row,           \* column status of the service's table
  attempts,      \* column attempts
  pc,            \* where each process is
  msg,           \* the VAA it was started with
  program        \* vaa_verify_program

chainVars == <<coreProgram, optedIn, boxes>>
fileVars == <<teal, cache>>
tableVars == <<row, attempts>>
procVars == <<pc, msg, program>>
vars == <<faults, chainVars, fileVars, tableVars, procVars>>

\* The bytes under the guardians' signatures: the sequence stands for the header.
Body(m) == <<Vaa[m].sequence>> \o Vaa[m].payload

ForUs == {m \in Messages : IsForUs(Vaa[m].payload)}
-----------------------------------------------------------------------------
\* The boxes the contracts write for a message, by the digest in their names.
Written ==
  [ vaas_consumed_     |-> [m \in Messages |-> VaaDigest(Body(m))],
    num_attestations_  |-> [m \in Messages |-> ReferenceDigest(Vaa[m].payload)],
    messages_executed_ |-> [m \in Messages |-> ExecutedDigest(Vaa[m].payload)] ]

\* A box stands for the messages it is written for: none under a wrong digest.
Box(name, digest) == <<name, {m \in Messages : Written[name][m] = digest}>>

\* What receive_message writes, and execute_message.
AttestWrites ==
  [m \in Messages |->
     {Box(name, Written[name][m]) : name \in {"vaas_consumed_", "num_attestations_"}}]

ExecuteWrites ==
  [m \in Messages |-> Box("messages_executed_", Written["messages_executed_"][m])]

\* The account of the page of its sequence number, for all of the page.
PageProgram ==
  [m \in Messages |->
     CoreAccount(SeqPage(Vaa[m].sequence), Emitter, CoreApp, CoreAddress)]

Account(prog) == {m \in Messages : PageProgram[m] = prog}

PageAccount == [m \in Messages |-> Account(PageProgram[m])]
-----------------------------------------------------------------------------
\* The boxes the scripts look up for a message.

ConsumedBox == [m \in Messages |-> Box("vaas_consumed_", VaaDigest(Body(m)))]

AttestationsBox ==
  [m \in Messages |-> Box("num_attestations_", LookupDigest(Vaa[m].payload))]

ExecutedBox ==
  [m \in Messages |-> Box("messages_executed_", MsgDigest(Vaa[m].payload))]

SeqAccount ==
  [m \in Messages |->
     Account(Populate(SeqPage(Vaa[m].sequence), Emitter, CoreApp, CoreAddress))]

\* Those whose payload parse_ntt raises on.
Unparsed == {m \in Messages : ParseRaises(Vaa[m].payload)}

\* What step 1 sends for it.
Keys == GuardianKeys(LocalState(Guardians))

Group ==
  [m \in Messages |->
     LET signers == Vaa[m].signers
         blocks == 1..Blocks(Len(signers))
         payload == Vaa[m].payload
     IN  [ chunks |-> [i \in blocks |-> Chunk(signers, i - 1)],
           keys   |-> [i \in blocks |-> ChunkKeys(Keys, signers, i - 1)],
           boxes  |-> {ConsumedBox[m]} \union
                        IF IsNtt(payload)
                        THEN {Box("num_attestations_", AttestDigest(payload))} ELSE {} ]]
-----------------------------------------------------------------------------
\* The contracts, as the scripts use them.

\* verifySigs takes nine signatures at most with their guardians' keys, and
\* verifyVAA wants all signatures of the VAA.
CoreAccepts(m) ==
  LET chunks == Group[m].chunks IN
  /\ AreCut(chunks, Vaa[m].signers)
  /\ \A i \in DOMAIN chunks :
       /\ Len(chunks[i]) <= SigsPerTxn
       /\ Group[m].keys[i] = [j \in DOMAIN chunks[i] |-> GuardianKey(chunks[i][j])]

IsTransfer(m) ==
  ~RaisesInReference(Vaa[m].payload) /\ DstNtt(Vaa[m].payload) = Handler

\* The contracts on Base: a manager sends each message once, under an id of its
\* own, and says its lengths rightly.
SameMessage(m, n) ==
  /\ Slice(ManagerPayload(Vaa[m].payload), 0, 32)
       = Slice(ManagerPayload(Vaa[n].payload), 0, 32)
  /\ SrcNtt(Vaa[m].payload) = SrcNtt(Vaa[n].payload)

ASSUME SentOnceAssumption ==
  \A m, n \in Messages :
    IsTransfer(m) /\ IsTransfer(n) /\ SameMessage(m, n) => Body(m) = Body(n)
ASSUME WellFormedAssumption == \A m \in ForUs : WellFormed(Vaa[m].payload)

\* The messages whose groups are right, but for the program and the accounts.
Attestable ==
  {m \in Messages :
     CoreAccepts(m) /\ IsTransfer(m) /\ AttestWrites[m] \subseteq Group[m].boxes}

\* Each message once, with a program and an account the core knows.
AcceptsGroup(m, prog) ==
  /\ m \in Attestable
  /\ prog = coreProgram
  /\ SeqAccount[m] = PageAccount[m] /\ SeqAccount[m] \in optedIn
  /\ AttestWrites[m] \intersect boxes = {}

\* The messages for which step 2 has declared the boxes execute_message needs.
Executable ==
  {m \in Messages :
     /\ IsTransfer(m)
     /\ AttestationsBox[m] = Box("num_attestations_", ExecutedDigest(Vaa[m].payload))
     /\ ExecutedBox[m] = ExecuteWrites[m]}

\* Each attested message once.
AcceptsMessage(m) ==
  /\ m \in Executable
  /\ AttestationsBox[m] \in boxes
  /\ ExecutedBox[m] \notin boxes
-----------------------------------------------------------------------------
Points ==
  {"idle", "killed", "load", "compile", "write", "compare", "accounts", "optIn", "build",
   "attestOk", "execute", "executeOk"}

Final == {"complete", "failed"}

AllBoxes == UNION {AttestWrites[m] \union {ExecuteWrites[m]} : m \in Messages}
AllAccounts == {PageAccount[m] : m \in Messages}

TypeOK ==
  /\ faults \in FaultSets
  /\ coreProgram \in Programs
  /\ teal \in Programs \union {"absent"}
  /\ cache \in Programs \union {"absent", "empty"}
  /\ optedIn \subseteq AllAccounts
  /\ boxes \subseteq AllBoxes
  /\ row \in [Messages -> {"pending", "attested"} \union Final]
  /\ attempts \in [Messages -> 0..MaxAttempts]
  /\ pc \in [Procs -> Points]
  /\ msg \in [Procs -> Messages]
  /\ program \in [Procs -> Programs \union {"none", "empty"}]

\* setup.sh has downloaded the source of the core's program.  All messages are
\* listed; one without a row is one the service has not begun with.
Init ==
  /\ faults \in FaultSets
  /\ coreProgram = "first" /\ teal = "first" /\ cache = "absent"
  /\ optedIn = {} /\ boxes = {}
  /\ row = [m \in Messages |-> "pending"] /\ attempts = [m \in Messages |-> 0]
  /\ pc = [p \in Procs |-> "idle"]
  /\ msg \in [Procs -> {CHOOSE m \in Messages : TRUE}]
  /\ program = [p \in Procs |-> "none"]

At(p, point) == pc[p] = point
IsIdle(p) == pc[p] \in {"idle", "killed"}
Goto(p, point) == pc' = [pc EXCEPT ![p] = point]

\* A script ends and leaves no program behind.
Ends(p, point) ==
  /\ Goto(p, point)
  /\ program' = [program EXCEPT ![p] = "none"]

\* It returns, and the service goes on to write its row.
Returns(p, point) ==
  /\ Ends(p, IF p = Service THEN point ELSE "idle")
  /\ UNCHANGED attempts

\* It raises, and the service counts an attempt.
Raises(p) ==
  /\ Ends(p, "idle")
  /\ attempts' = IF p = Service THEN [attempts EXCEPT ![msg[p]] = @ + 1] ELSE attempts
-----------------------------------------------------------------------------
\* Step 1.

\* Not consumed, or it returns.
RunStep1(p, m) ==
  /\ IsIdle(p)
  /\ ConsumedBox[m] \notin boxes
  /\ msg' = [msg EXCEPT ![p] = m]
  /\ Goto(p, "load")
  /\ UNCHANGED <<faults, chainVars, fileVars, tableVars, program>>

\* load_vaa_verify: a cached program is taken as it is.
LoadCached(p) ==
  /\ At(p, "load")
  /\ cache # "absent"
  /\ program' = [program EXCEPT ![p] = cache]
  /\ Goto(p, "accounts")
  /\ UNCHANGED <<faults, chainVars, fileVars, tableVars, msg>>

\* Without it the source is needed; there is one place to look for it.
TealMissing(p) ==
  /\ At(p, "load")
  /\ cache = "absent" /\ teal = "absent"
  /\ Raises(p)
  /\ UNCHANGED <<faults, chainVars, fileVars, row, msg>>

Compile(p) ==
  /\ At(p, "load")
  /\ cache = "absent" /\ teal # "absent"
  /\ program' = [program EXCEPT ![p] = teal]
  /\ Goto(p, "compile")
  /\ UNCHANGED <<faults, chainVars, fileVars, tableVars, msg>>

\* Mutant: the file is opened, and the script goes on before it is written.
OpenedOnly(p) ==
  /\ At(p, "compile")
  /\ cache' = "empty"
  /\ Goto(p, "compare")
  /\ UNCHANGED <<faults, chainVars, teal, tableVars, msg, program>>

\* open(saved, "w").write(...), when nobody looks in between.
SaveCache(p) ==
  /\ At(p, "compile")
  /\ cache' = program[p]
  /\ Goto(p, "compare")
  /\ UNCHANGED <<faults, chainVars, teal, tableVars, msg, program>>

\* When somebody does, opening has emptied the file, or made it.
OpenCache(p) ==
  /\ "torn" \in faults
  /\ At(p, "compile")
  /\ cache' = "empty"
  /\ Goto(p, "write")
  /\ UNCHANGED <<faults, chainVars, teal, tableVars, msg, program>>

WriteCache(p) ==
  /\ At(p, "write")
  /\ cache' = program[p]
  /\ Goto(p, "compare")
  /\ UNCHANGED <<faults, chainVars, teal, tableVars, msg, program>>

\* vphash is compared when the cache is written: a mismatch raises.
Compare(p) ==
  /\ At(p, "compare")
  /\ IF program[p] = coreProgram
     THEN Goto(p, "accounts") /\ UNCHANGED <<attempts, program>>
     ELSE Raises(p)
  /\ UNCHANGED <<faults, chainVars, fileVars, row, msg>>

\* ensure_optin.
CheckAccount(p) ==
  /\ At(p, "accounts")
  /\ Goto(p, IF SeqAccount[msg[p]] \in optedIn THEN "build" ELSE "optIn")
  /\ UNCHANGED <<faults, chainVars, fileVars, tableVars, msg, program>>

\* The core refuses an account that has opted in since: the send raises.  The
\* service takes "already in ledger", the answer to the same group sent twice,
\* for the attestation's.
OptIn(p) ==
  /\ At(p, "optIn")
  /\ optedIn' = optedIn \union {SeqAccount[msg[p]]}
  /\ IF SeqAccount[msg[p]] \in optedIn
     THEN Raises(p) \/ ("ledger" \in faults /\ Returns(p, "attestOk"))
     ELSE Goto(p, "build") /\ UNCHANGED <<attempts, program>>
  /\ UNCHANGED <<faults, coreProgram, boxes, fileVars, row, msg>>

\* parse_ntt, build_pre_txns, make_atc and the send.  parse_ntt raises; what goes
\* wrong from the building of the group on is printed and swallowed.
SendGroup(p) ==
  /\ At(p, "build")
  /\ IF msg[p] \in Unparsed
     THEN Raises(p) /\ UNCHANGED boxes
     ELSE /\ Returns(p, "attestOk")
          /\ boxes' = IF AcceptsGroup(msg[p], program[p])
                      THEN boxes \union AttestWrites[msg[p]] ELSE boxes
  /\ UNCHANGED <<faults, coreProgram, optedIn, fileVars, row, msg>>

Step1(p) ==
  \/ LoadCached(p) \/ TealMissing(p) \/ Compile(p)
  \/ SaveCache(p) \/ OpenCache(p) \/ WriteCache(p)
  \/ Compare(p) \/ CheckAccount(p) \/ OptIn(p) \/ SendGroup(p)
-----------------------------------------------------------------------------
\* Step 2.

\* preflight, its look at the peer aside: there is one deployment here.
Preflight(m) ==
  /\ m \in ForUs
  /\ AttestationsBox[m] \in boxes
  /\ ExecutedBox[m] \notin boxes

RunStep2(p, m) ==
  /\ IsIdle(p)
  /\ Preflight(m)
  /\ msg' = [msg EXCEPT ![p] = m]
  /\ Goto(p, "execute")
  /\ UNCHANGED <<faults, chainVars, fileVars, tableVars, program>>

SendMessage(p) ==
  /\ At(p, "execute")
  /\ IF AcceptsMessage(msg[p])
     THEN Returns(p, "executeOk") /\ boxes' = boxes \union {ExecuteWrites[msg[p]]}
     ELSE Raises(p) /\ UNCHANGED boxes
  /\ UNCHANGED <<faults, coreProgram, optedIn, fileVars, row, msg>>

Script(p) == Step1(p) \/ SendMessage(p)
-----------------------------------------------------------------------------
\* The service: process_sequence, for the first message that is not settled.

Before ==
  [m \in Messages |-> {n \in Messages : Vaa[n].sequence < Vaa[m].sequence}]

IsNext(m) == row[m] \notin Final /\ \A n \in Before[m] : row[n] \in Final

\* A script returns at once: the VAA is consumed, or preflight fails.
ReturnsAtOnce(m, point) ==
  /\ IsIdle(Service)
  /\ msg' = [msg EXCEPT ![Service] = m]
  /\ Goto(Service, point)
  /\ UNCHANGED <<faults, chainVars, fileVars, tableVars, program>>

ServeStep1(m) ==
  /\ IsNext(m) /\ row[m] = "pending" /\ attempts[m] < MaxAttempts
  /\ \/ RunStep1(Service, m)
     \/ ConsumedBox[m] \in boxes /\ ReturnsAtOnce(m, "attestOk")

ServeStep2(m) ==
  /\ IsNext(m) /\ row[m] = "attested" /\ attempts[m] < MaxAttempts
  /\ \/ RunStep2(Service, m)
     \/ ~Preflight(m) /\ ReturnsAtOnce(m, "executeOk")

\* A step that has not raised is taken for done.
MarkDone ==
  /\ pc[Service] \in {"attestOk", "executeOk"}
  /\ row' = [row EXCEPT ![msg[Service]] =
               IF At(Service, "attestOk") THEN "attested" ELSE "complete"]
  /\ Goto(Service, "idle")
  /\ UNCHANGED <<faults, chainVars, fileVars, attempts, msg, program>>

GiveUp(m) ==
  /\ IsIdle(Service)
  /\ IsNext(m) /\ attempts[m] >= MaxAttempts
  /\ row' = [row EXCEPT ![m] = "failed"]
  /\ UNCHANGED <<faults, chainVars, fileVars, attempts, procVars>>

Serve == MarkDone \/ \E m \in Messages : ServeStep1(m) \/ ServeStep2(m) \/ GiveUp(m)
-----------------------------------------------------------------------------
\* The environment.

Crash(p) ==
  /\ "crash" \in faults \/ At(p, "write")
  /\ ~IsIdle(p)
  /\ Ends(p, "killed")
  /\ UNCHANGED <<faults, chainVars, fileVars, tableVars, msg>>

\* A reboot of the server empties /tmp.
Reboot ==
  /\ "reboot" \in faults
  /\ teal' = "absent" /\ cache' = "absent"
  /\ pc' = [p \in Procs |-> "killed"] /\ program' = [p \in Procs |-> "none"]
  /\ UNCHANGED <<faults, chainVars, tableVars, msg>>

\* Wormhole changes its program, and an operator the source on the server.
Upgrade ==
  /\ "upgrade" \in faults
  /\ coreProgram' = "second"
  /\ UNCHANGED <<faults, optedIn, boxes, fileVars, tableVars, procVars>>

ReplaceTeal ==
  /\ "upgrade" \in faults
  /\ teal' = coreProgram
  /\ UNCHANGED <<faults, chainVars, cache, tableVars, procVars>>

Environment == (\E p \in Procs : Crash(p)) \/ Reboot \/ Upgrade \/ ReplaceTeal

Next ==
  \/ \E p \in Procs : Script(p)
  \/ Serve
  \/ \E p \in Procs \ {Service}, m \in Messages : RunStep1(p, m) \/ RunStep2(p, m)
  \/ Environment

Spec == Init /\ [][Next]_vars

\* The service never rests and its scripts end, one way or another; it is killed,
\* and the rest of the world changes, finitely often.  Operators need do nothing,
\* and may stop anywhere.
Fairness ==
  /\ WF_vars(Serve) /\ WF_vars(Script(Service))
  /\ <>[][~Environment]_vars

FairSpec == Spec /\ Fairness
-----------------------------------------------------------------------------
\* A group with the core's program in it is accepted: its blocks, keys, account
\* and boxes are what the contracts want, whatever other processes do with the
\* cache and the accounts.  Only one that comes second is refused.
GroupIsAccepted ==
  \A p \in Procs :
    At(p, "build") /\ msg[p] \in ForUs /\ program[p] = coreProgram
      => AcceptsGroup(msg[p], program[p]) \/ ConsumedBox[msg[p]] \in boxes

\* What may go wrong without the service's being told: the group of step 1 has
\* another program in it than the core's, or was never built.
Unnoticed == {"torn", "ledger", "upgrade"}

\* Nothing else can: although step 1 swallows whatever the node says of its group
\* (base-relayer.py:421) and step 2 whatever preflight finds (ntt_execute.py:371),
\* a row says attested only when the VAA is consumed and complete only when the
\* transfer is minted, by whichever of the processes, and whatever dies.
RowsAreTrue ==
  faults \intersect Unnoticed = {} =>
    \A m \in ForUs :
      /\ row[m] \in {"attested", "complete"} => ConsumedBox[m] \in boxes
      /\ row[m] = "complete" => ExecutedBox[m] \in boxes

\* attested: "Step 1 (base_relayer.py) confirmed on-chain" (docs/db.md:68).
AttestedIsConsumed ==
  \A m \in ForUs : row[m] = "attested" => ConsumedBox[m] \in boxes

\* Step 2 finds an attestation for exactly the transfers step 1 takes for
\* consumed, so that none is left between the two.
LookupsAgree ==
  \A m \in Messages :
    IsTransfer(m) => (AttestationsBox[m] \in boxes <=> ConsumedBox[m] \in boxes)

\* What preflight lets through is minted: the boxes step 2 has looked at are the
\* ones execute_message uses.  Only one that comes second is refused.
MessageIsAccepted ==
  \A p \in Procs :
    At(p, "execute") => AcceptsMessage(msg[p]) \/ ExecutedBox[msg[p]] \in boxes

\* Whatever scripts die, the service has every transfer to this manager minted in
\* the end, within its attempts and though it takes a message for done as soon as
\* no step raises, whoever wins the races for the opt-in, the attestation and the
\* mint and wherever he stops.
EventuallyMinted ==
  faults \subseteq {"crash"} => \A m \in ForUs : <>(ExecutedBox[m] \in boxes)

\* As much on a server that is rebooted and has vaa_verify.teal next to
\* base-relayer.py: "persistent across reboots" (README.md:406).
MintedAfterReboot ==
  faults \subseteq {"crash", "reboot"} => \A m \in ForUs : <>(ExecutedBox[m] \in boxes)

\* load_vaa_verify returns the core's program: "Verifies hash matches vphash in
\* Wormhole Core global state" (docs/base_to_algo.md:127).
LoadedIsVerified ==
  [][\A p \in Procs : pc[p] # "accounts" /\ pc'[p] = "accounts"
                        => program'[p] = coreProgram]_vars
=============================================================================
