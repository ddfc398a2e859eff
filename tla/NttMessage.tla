----------------------------- MODULE NttMessage -----------------------------
(***************************************************************************)
(* The messages of the Base emitter, as each script cuts them up.          *)
(*                                                                         *)
(* base-relayer.py, ntt_execute.py, ntt_digest.py, ntt_debug.py and        *)
(* check_consumed.py each have a parser and a digest formula of their own. *)
(* Step 1 declares the boxes the contracts are going to write, step 2 and  *)
(* the tools look boxes up: under another digest they would declare or     *)
(* read the wrong box.                                                     *)
(*                                                                         *)
(* A string of bytes is a sequence of numbers.  Keccak-256 stands for its  *)
(* preimage: equal digests are digests of equal bytes.                     *)
(***************************************************************************)
EXTENDS Integers, Sequences

CONSTANTS
  Chain,     \* the emitter's chain as two bytes, 30 for Base
  Handler    \* NTT_MGR, the app id of this NTT manager, as 32 bytes

Byte == 0..255

ASSUME ChainAssumption == Chain \in Seq(Byte) /\ Len(Chain) = 2
ASSUME HandlerAssumption == Handler \in Seq(Byte) /\ Len(Handler) = 32

NttPrefix == <<153, 69, 255, 16>>    \* 9945ff10
Algorand == 8                        \* Wormhole's number of the chain

\* s[i:j] of Python, for 0 <= i.
Slice(s, i, j) == SubSeq(s, i + 1, IF j < Len(s) THEN j ELSE Len(s))

From(s, i) == Slice(s, i, Len(s))

\* int.from_bytes(s, "big") of at most two bytes.
Uint16(s) ==
  CASE Len(s) = 0 -> 0
    [] Len(s) = 1 -> s[1]
    [] OTHER      -> 256 * s[1] + s[2]

\* n.to_bytes(2, "big")
Bytes2(n) == <<n \div 256, n % 256>>

Keccak(bytes) == <<"keccak256", bytes>>
-----------------------------------------------------------------------------
\* What the parsers have in common, of the payload p of a VAA.

IsNtt(p) == Slice(p, 0, 4) = NttPrefix
SrcNtt(p) == Slice(p, 4, 36)
DstNtt(p) == Slice(p, 36, 68)

\* mp, the message for the NTT manager: id, sender, and the length and bytes of
\* the transfer.
ManagerPayload(p) == Slice(p, 70, 70 + Uint16(Slice(p, 68, 70)))
-----------------------------------------------------------------------------
\* base-relayer.py, parse_ntt.

\* Mutant: the manager of the message, as in msg_digest, without its chain.
AttestDigestWithoutChain(p) ==
  LET mp == ManagerPayload(p) IN
  Keccak(Slice(mp, 0, 32) \o Slice(mp, 32, 64) \o SrcNtt(p) \o Handler
           \o From(mp, 64))

\* ntt_digest, when the payload has the prefix.
AttestDigest(p) ==
  LET mp == ManagerPayload(p) IN
  Keccak(Slice(mp, 0, 32) \o Slice(mp, 32, 64) \o Chain \o SrcNtt(p)
           \o Handler \o From(mp, 64))

\* Its recipient is taken at a fixed place of mp.
AttestRecipient(p) == Slice(ManagerPayload(p), 66 + 45, 66 + 77)

\* encode_address raises on anything but 32 bytes or none.
ParseRaises(p) == IsNtt(p) /\ Len(AttestRecipient(p)) \in 1..31
-----------------------------------------------------------------------------
\* ntt_execute.py, parse_ntt_fields and preflight.

Parses(p) == IsNtt(p) /\ Len(ManagerPayload(p)) >= 66

\* inner, the transfer with the two bytes of its length, and without them.
Inner(p) == From(ManagerPayload(p), 64)
InnerBody(p) ==
  LET mp == ManagerPayload(p) IN Slice(mp, 66, 66 + Uint16(Slice(mp, 64, 66)))

\* None when the transfer is too short for it.
RecipientChain(p) ==
  IF Len(InnerBody(p)) >= 79 THEN Uint16(Slice(InnerBody(p), 77, 79)) ELSE -1

ExecuteRecipient(p) ==
  IF Len(InnerBody(p)) >= 77 THEN Slice(InnerBody(p), 45, 77) ELSE <<>>

\* The key of the attestations read by preflight.
LookupDigest(p) ==
  LET mp == ManagerPayload(p) IN
  Keccak(Slice(mp, 0, 32) \o Slice(mp, 32, 64) \o Chain \o SrcNtt(p)
           \o Handler \o From(mp, 64))

\* Mutant: the source manager is left out.
MsgDigestWithoutSource(p) ==
  LET mp == ManagerPayload(p) IN
  Keccak(Slice(mp, 0, 32) \o Slice(mp, 32, 64) \o Chain \o DstNtt(p) \o Inner(p))

\* msg_digest, the key of the executed messages.
MsgDigest(p) ==
  LET mp == ManagerPayload(p) IN
  Keccak(Slice(mp, 0, 32) \o Slice(mp, 32, 64) \o Chain \o SrcNtt(p)
           \o DstNtt(p) \o Inner(p))

\* Preflight's checks of the message itself: for this manager, on Algorand.
IsForUs(p) == Parses(p) /\ DstNtt(p) = Handler /\ RecipientChain(p) = Algorand
-----------------------------------------------------------------------------
\* ntt_digest.py, the formula of the contracts, and the digest of a VAA.

RaisesInReference(p) == Len(p) < 70 \/ ~IsNtt(p) \/ Len(ManagerPayload(p)) < 66

\* calculate_message_digest of a message with these fields.
MessageDigest(id, user, source, handler, payload) ==
  Keccak(id \o user \o Chain \o source \o handler \o payload)

\* The digest the transceiver manager counts attestations under.
ReferenceDigest(p) ==
  LET mp == ManagerPayload(p) IN
  MessageDigest(Slice(mp, 0, 32), Slice(mp, 32, 64), SrcNtt(p), Handler, From(mp, 64))

\* execute_message is given inner[2:] as a byte[], which ABI encoding prefixes
\* with its length.
ExecutedDigest(p) ==
  LET mp == ManagerPayload(p)
      transfer == From(Inner(p), 2)
  IN  MessageDigest(Slice(mp, 0, 32), Slice(mp, 32, 64), SrcNtt(p), DstNtt(p),
                    Bytes2(Len(transfer)) \o transfer)

VaaDigest(body) == Keccak(Keccak(body))
-----------------------------------------------------------------------------
\* The tools.

\* ntt_debug.py takes both managers from mp, where they are not.
DebugMsgDigest(p) ==
  LET mp == ManagerPayload(p) IN
  Keccak(Slice(mp, 0, 32) \o Slice(mp, 32, 64) \o Chain \o Slice(mp, 64, 96)
           \o Slice(mp, 96, 128) \o From(mp, 128))

\* check_consumed.py hashes the body once.
CheckConsumedDigest(body) == Keccak(body)
-----------------------------------------------------------------------------
\* A message of the NTT contracts on Base: the lengths it states are right.
WellFormed(p) ==
  /\ p \in Seq(Byte)
  /\ Parses(p)
  /\ Len(ManagerPayload(p)) = Uint16(Slice(p, 68, 70))
  /\ Len(ManagerPayload(p)) = 66 + Uint16(Slice(ManagerPayload(p), 64, 66))
=============================================================================
