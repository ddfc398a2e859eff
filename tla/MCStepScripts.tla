--------------------------- MODULE MCStepScripts ---------------------------
(***************************************************************************)
(* Instances of StepScripts for TLC.                                       *)
(***************************************************************************)
EXTENDS StepScripts, TLC

Base == <<0, 30>>
Manager == [i \in 1..32 |-> IF i = 32 THEN 7 ELSE 0]
EmitterId == [i \in 1..34 |-> i]
Address == [i \in 1..32 |-> 100 + i]

\* The bytes of a field all have the same value.
Field(value, n) == [i \in 1..n |-> value]

\* A transfer, its length in two bytes, with what NTT may add behind it.
Transfer(chain, extra) ==
  <<0, 79 + Len(extra)>> \o <<153, 78, 84, 84, 6>> \o Field(5, 8) \o Field(40, 32)
    \o Field(50, 32) \o <<0, chain>> \o extra

Payload(id, handler, transfer) ==
  LET mp == Field(id, 32) \o Field(60, 32) \o transfer IN
  NttPrefix \o Field(70, 32) \o handler \o <<0, Len(mp)>> \o mp \o <<0, 0>>

\* The guardians who signed, in order.
Quorum == [i \in 1..13 |-> i + (i \div 3)]
Two == [i \in 1..18 |-> i - 1]
All == [i \in 1..19 |-> i - 1]

\* The last message of a page; the first of the next, whose number takes two
\* bytes; a transfer to another manager, on Ethereum.
Vaas ==
  "last" :>
    [sequence |-> 128 * MaxBits - 1, signers |-> Quorum,
     payload |-> Payload(1, Manager, Transfer(Algorand, <<>>))]
  @@ "first" :>
    [sequence |-> 128 * MaxBits, signers |-> Two,
     payload |-> Payload(2, Manager, Transfer(Algorand, Field(80, 3)))]
  @@ "elsewhere" :>
    [sequence |-> 128 * MaxBits + 1, signers |-> All,
     payload |-> Payload(3, Field(90, 32), Transfer(1, <<>>))]

\* Crashes alone, for what must happen in the end; reboots with them, and with
\* upgrades; and everything else at once.
FaultsTogether ==
  {{"crash"}, {"crash", "reboot"}, {"upgrade", "reboot"}, ScriptFaults \ {"reboot"}}
OnlyUpgrade == {{"upgrade"}}
OnlyReboot == {{"reboot"}}
OnlyTheCache == {{"torn"}}
=============================================================================
