--------------------------- MODULE GuardianGroup ---------------------------
(***************************************************************************)
(* What base-relayer.py computes for the group of step 1 from a VAA's      *)
(* signatures, its sequence number and the guardian set: the verifySigs    *)
(* calls, nine signatures each, with the keys of their guardians, and the  *)
(* accounts of Wormhole Core, which are hashes of a patched template.      *)
(*                                                                         *)
(* A signature is the index of its guardian, its first byte.  A key is     *)
(* twenty bytes without meaning, numbers above 1000.  An account stands    *)
(* for the program it is the hash of.                                      *)
(***************************************************************************)
EXTENDS Integers, Sequences, FiniteSets

SigsPerTxn == 9          \* SIGS_PER_TXN
SigLen == 66             \* SIG_LEN
KeyLen == 20
BytesPerKey == 127       \* MAX_BYTES_PER_KEY
MaxKeys == 15            \* MAX_KEYS
MaxBits == BytesPerKey * 8 * MaxKeys

Lesser(a, b) == IF a < b THEN a ELSE b
-----------------------------------------------------------------------------
\* build_pre_txns: the signatures of a VAA, n of them, are cut by bytes.

BlockSize == SigsPerTxn * SigLen

Blocks(n) == (n * SigLen + BlockSize - 1) \div BlockSize

Start(i) == i * BlockSize

End(n, i) == Lesser(Start(i) + BlockSize, n * SigLen)

SigsIn(n, i) == (End(n, i) - Start(i)) \div SigLen

\* The signature that begins at byte start + j * SIG_LEN, counted from 0.
SigAt(i, j) == (Start(i) + j * SigLen) \div SigLen

\* The chunk of verifySigs number i, from 0, as the guardians who signed.
Chunk(signers, i) ==
  [j \in 1..SigsIn(Len(signers), i) |-> signers[SigAt(i, j - 1) + 1]]

\* verifyVAA goes through the chunks of the group, taking each off the VAA's
\* signatures, and wants none left.
AreCut(chunks, signers) ==
  \E taken \in [0..Len(chunks) -> 0..Len(signers)] :
    /\ taken[0] = 0 /\ taken[Len(chunks)] = Len(signers)
    /\ \A i \in 1..Len(chunks) :
         /\ taken[i] = taken[i - 1] + Len(chunks[i])
         /\ chunks[i] = SubSeq(signers, taken[i - 1] + 1, taken[i])
-----------------------------------------------------------------------------
\* The keys of a guardian set are in the local state of its account, a byte for
\* their number first, cut into fifteen values filled up with zeros.

KeyByte(g, o) == 1000 + KeyLen * g + o

GuardianKey(g) == [o \in 1..KeyLen |-> KeyByte(g, o)]

\* Byte b, from 0, of a set of n guardians.
StateByte(n, b) ==
  IF b = 0 THEN n
  ELSE IF b <= n * KeyLen THEN KeyByte((b - 1) \div KeyLen, 1 + ((b - 1) % KeyLen))
  ELSE 0

LocalState(n) ==
  [k \in 0..MaxKeys - 1 |->
     [b \in 1..BytesPerKey |-> StateByte(n, BytesPerKey * k + b - 1)]]

EmptyValue == [b \in 1..BytesPerKey |-> 0]

\* get_guardian_keys joins the values that are not empty, in the order of their
\* keys.
GuardianKeys(state) ==
  LET full == {k \in DOMAIN state : state[k] # EmptyValue}
      Nth(i) == CHOOSE k \in full : Cardinality({l \in full : l < k}) = i
  IN  [b \in 1..BytesPerKey * Cardinality(full) |->
         state[Nth((b - 1) \div BytesPerKey)][1 + ((b - 1) % BytesPerKey)]]

\* Mutant: the number of guardians in front is not skipped.
KeyAtWithCount(keys, g) == SubSeq(keys, g * KeyLen + 1, (g + 1) * KeyLen)

\* guardian_keys[1 + g * 20 : 1 + (g + 1) * 20]
KeyAt(keys, g) == SubSeq(keys, 1 + g * KeyLen + 1, 1 + (g + 1) * KeyLen)

\* What verifySigs is given besides the chunk.
ChunkKeys(keys, signers, i) ==
  [j \in 1..Len(Chunk(signers, i)) |-> KeyAt(keys, Chunk(signers, i)[j])]
-----------------------------------------------------------------------------
\* The accounts: populate_tmplsig.

\* encode_uvarint, seven bits at a time.
Uvarint[val \in Nat] ==
  IF val < 128 THEN <<val>> ELSE <<128 + (val % 128)>> \o Uvarint[val \div 128]

\* TMPL_BYTECODE, a zero where a value goes: at bytes 5, 8, 24 and 30.
Code1 == <<6, 32, 1, 1, 129>>
Code2 == <<72, 128>>
Code3 == <<72, 49, 16, 129, 6, 18, 68, 49, 25, 34, 18, 68, 49, 24, 129>>
Code4 == <<18, 68, 49, 32, 128>>
Code5 == <<18, 68, 49, 1, 129, 0, 18, 68, 49, 9, 50, 3, 18, 68, 49, 21, 50, 3,
           18, 68, 34>>

Template ==
  Code1 \o <<0>> \o Code2 \o <<0>> \o Code3 \o <<0>> \o Code4 \o <<0>> \o Code5

\* contract[pos:pos+1] = value
Patch(contract, pos, value) ==
  SubSeq(contract, 1, pos) \o value \o SubSeq(contract, pos + 2, Len(contract))

WithLength(bytes) == Uvarint[Len(bytes)] \o bytes

\* Mutant: what the length itself takes is forgotten.
ShiftOfBytes(bytes) == Len(Uvarint[Len(bytes)]) - 1

\* How far a patch of bytes moves what comes after it.
Shift(bytes) == Len(Uvarint[Len(bytes)]) - 1 + Len(bytes)

\* idx and app are numbers, emitter and address bytes; shift adds up.
Populate(idx, emitter, app, address) ==
  LET c1 == Patch(Template, 5, Uvarint[idx])
      s1 == Len(Uvarint[idx]) - 1
      c2 == Patch(c1, 8 + s1, WithLength(emitter))
      s2 == s1 + Shift(emitter)
      c3 == Patch(c2, 24 + s2, Uvarint[app])
      s3 == s2 + Len(Uvarint[app]) - 1
  IN  Patch(c3, 30 + s3, WithLength(address))

\* The program Wormhole Core takes the hash of.
CoreAccount(idx, emitter, app, address) ==
  Code1 \o Uvarint[idx] \o Code2 \o WithLength(emitter) \o Code3 \o Uvarint[app]
    \o Code4 \o WithLength(address) \o Code5

\* The page of sequence numbers an account keeps.
SeqPage(sequence) == sequence \div MaxBits
=============================================================================
