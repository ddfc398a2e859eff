------------------------ MODULE GuardianGroupProofs ------------------------
(***************************************************************************)
(* The cutting of the signatures and the filling of the template, for any  *)
(* number of signatures and any values.                                    *)
(***************************************************************************)
EXTENDS UvarintProofs, FiniteSetTheorems

\* The blocks, which the script counts in bytes, counted in signatures.
LEMMA BlockCount ==
  ASSUME NEW n \in Nat
  PROVE  /\ Blocks(n) \in Nat
         /\ 9 * Blocks(n) >= n
         /\ n > 0 => 9 * (Blocks(n) - 1) < n
<1>1. Blocks(n) = (n * 66 + 593) \div 594
  BY DEF Blocks, BlockSize, SigsPerTxn, SigLen
<1> QED
  BY <1>1

\* The place of a signature in the VAA, from its block and its place there.
LEMMA SigPlace ==
  ASSUME NEW i \in Nat, NEW j \in Nat
  PROVE  SigAt(i, j) = 9 * i + j
<1>1. SigAt(i, j) = (i * 594 + j * 66) \div 66
  BY DEF SigAt, Start, BlockSize, SigsPerTxn, SigLen
<1> QED
  BY <1>1

\* A block is full, or holds what is left.
LEMMA SigsOfBlock ==
  ASSUME NEW n \in Nat, NEW i \in 0..Blocks(n) - 1
  PROVE  SigsIn(n, i) = IF 9 * i + 9 < n THEN 9 ELSE n - 9 * i
<1>1. Blocks(n) \in Nat
  BY BlockCount
<1>2. i \in Nat
  BY <1>1
<1>3. Start(i) = i * 594 /\ BlockSize = 594 /\ SigLen = 66
  BY DEF Start, BlockSize, SigsPerTxn, SigLen
<1>4. CASE 9 * i + 9 < n
  <2>1. End(n, i) = i * 594 + 594
    BY <1>2, <1>3, <1>4 DEF End, Lesser
  <2> QED
    BY <1>2, <1>3, <1>4, <2>1 DEF SigsIn
<1>5. CASE ~(9 * i + 9 < n)
  <2>1. End(n, i) = n * 66
    BY <1>2, <1>3, <1>5 DEF End, Lesser
  <2> QED
    BY <1>2, <1>3, <1>5, <2>1 DEF SigsIn
<1> QED
  BY <1>4, <1>5

\* Every verifySigs call has at least one signature and at most the nine the core
\* takes, the last of a VAA as well (base-relayer.py:257-263).
THEOREM BlocksFit ==
  ASSUME NEW n \in Nat, NEW i \in 0..Blocks(n) - 1
  PROVE  SigsIn(n, i) \in 1..SigsPerTxn
<1>1. /\ Blocks(n) \in Nat /\ 9 * Blocks(n) >= n
      /\ n > 0 => 9 * (Blocks(n) - 1) < n
  BY BlockCount
<1>2. SigsIn(n, i) = IF 9 * i + 9 < n THEN 9 ELSE n - 9 * i
  BY SigsOfBlock
<1>3. n > 0
  <2> SUFFICES ASSUME n = 0 PROVE FALSE
    OBVIOUS
  <2>1. Blocks(n) = 593 \div 594
    BY DEF Blocks, BlockSize, SigsPerTxn, SigLen
  <2> QED
    BY <2>1
<1> QED
  BY <1>1, <1>2, <1>3 DEF SigsPerTxn

\* A chunk is the piece of the signatures at its place.
LEMMA ChunkIsPiece ==
  ASSUME NEW S, NEW signers \in Seq(S), NEW i \in 0..Blocks(Len(signers)) - 1
  PROVE  LET n == Len(signers)
             to == Lesser(9 * i + 9, n)
         IN  /\ Chunk(signers, i) = SubSeq(signers, 9 * i + 1, to)
             /\ Chunk(signers, i) \in Seq(S)
             /\ Len(Chunk(signers, i)) = to - 9 * i
<1> DEFINE n == Len(signers)
           to == Lesser(9 * i + 9, n)
<1>1. n \in Nat /\ signers \in [1..n -> S]
  BY LenProperties
<1>2. i \in Nat /\ to \in Nat /\ to <= n /\ SigsIn(n, i) = to - 9 * i /\ SigsIn(n, i) \in 1..9
  <2>1. Blocks(n) \in Nat
    BY <1>1, BlockCount
  <2>2. i \in Nat
    BY <2>1
  <2>3. SigsIn(n, i) = IF 9 * i + 9 < n THEN 9 ELSE n - 9 * i
    BY <1>1, SigsOfBlock
  <2>4. SigsIn(n, i) \in 1..9
    BY <1>1, BlocksFit DEF SigsPerTxn
  <2>5. to = IF 9 * i + 9 < n THEN 9 * i + 9 ELSE n
    BY DEF Lesser
  <2> HIDE DEF n, to
  <2> QED
    BY <1>1, <2>2, <2>3, <2>4, <2>5
<1> HIDE DEF n, to
<1>3. \A j \in 1..to - 9 * i :
        Chunk(signers, i)[j] = signers[9 * i + j] /\ 9 * i + j \in 1..n
  <2> SUFFICES ASSUME NEW j \in 1..to - 9 * i
               PROVE  Chunk(signers, i)[j] = signers[9 * i + j] /\ 9 * i + j \in 1..n
    OBVIOUS
  <2>1. j - 1 \in Nat /\ 9 * i + j \in 1..n
    BY <1>1, <1>2
  <2>2. SigAt(i, j - 1) = 9 * i + (j - 1)
    BY <1>2, <2>1, SigPlace
  <2>3. Chunk(signers, i)[j] = signers[SigAt(i, j - 1) + 1]
    BY <1>2 DEF Chunk, n
  <2>4. SigAt(i, j - 1) + 1 = 9 * i + j
    BY <1>2, <2>1, <2>2
  <2> QED
    BY <2>1, <2>3, <2>4
<1>4. Chunk(signers, i) \in [1..to - 9 * i -> S]
  <2>1. Chunk(signers, i) = [j \in 1..to - 9 * i |-> signers[SigAt(i, j - 1) + 1]]
    BY <1>2 DEF Chunk, n
  <2> QED
    BY <1>1, <1>3, <2>1
<1>5. to - 9 * i \in Nat
  BY <1>2
<1>6. Chunk(signers, i) \in Seq(S) /\ Len(Chunk(signers, i)) = to - 9 * i
  <2>1. Chunk(signers, i) \in Seq(S)
    BY <1>4, <1>5, SeqDef
  <2> QED
    BY <1>4, <1>5, <2>1, LenProperties
<1>7. /\ SubSeq(signers, 9 * i + 1, to) \in Seq(S)
      /\ Len(SubSeq(signers, 9 * i + 1, to)) = to - 9 * i
      /\ \A j \in 1..to - 9 * i : SubSeq(signers, 9 * i + 1, to)[j] = signers[9 * i + j]
  <2>1. 9 * i + 1 \in Int /\ to \in Int
    BY <1>2
  <2>2. \A k \in 9 * i + 1..to : signers[k] \in S
    BY <1>1, <1>2
  <2>3. /\ SubSeq(signers, 9 * i + 1, to) \in Seq(S)
        /\ Len(SubSeq(signers, 9 * i + 1, to))
             = IF 9 * i + 1 <= to THEN to - (9 * i + 1) + 1 ELSE 0
        /\ \A j \in 1..to - (9 * i + 1) + 1 :
             SubSeq(signers, 9 * i + 1, to)[j] = signers[9 * i + 1 + j - 1]
    BY <2>1, <2>2, SubSeqProperties
  <2>4. to - (9 * i + 1) + 1 = to - 9 * i /\ 9 * i + 1 <= to
    BY <1>2
  <2>5. \A j \in 1..to - 9 * i : 9 * i + 1 + j - 1 = 9 * i + j
    BY <1>2
  <2> QED
    BY <2>3, <2>4, <2>5
<1>8. Chunk(signers, i) = SubSeq(signers, 9 * i + 1, to)
  BY <1>3, <1>6, <1>7, SeqEqual
<1> QED
  BY <1>6, <1>8 DEF to, n

\* The verifySigs calls have all signatures of the VAA, in their order, as
\* verifyVAA takes them off (base-relayer.py:257-271).
THEOREM ChunksAreCut ==
  ASSUME NEW S, NEW signers \in Seq(S)
  PROVE  AreCut([i \in 1..Blocks(Len(signers)) |-> Chunk(signers, i - 1)], signers)
<1> DEFINE n == Len(signers)
           blocks == Blocks(n)
           chunks == [i \in 1..blocks |-> Chunk(signers, i - 1)]
           taken == [i \in 0..blocks |-> Lesser(9 * i, n)]
<1>1. n \in Nat
  BY LenProperties
<1>2. blocks \in Nat /\ 9 * blocks >= n /\ (n > 0 => 9 * (blocks - 1) < n)
  BY <1>1, BlockCount
<1>3. Len(chunks) = blocks
  BY <1>2
<1>4. \A i \in 1..blocks : 9 * i - 9 <= n
  <2>1. CASE n = 0
    <3>1. blocks = 593 \div 594
      BY <2>1 DEF Blocks, BlockSize, SigsPerTxn, SigLen
    <3> QED
      BY <1>2, <3>1
  <2>2. CASE n > 0
    BY <1>1, <1>2, <2>2
  <2> QED
    BY <1>1, <2>1, <2>2
<1>5. ASSUME NEW i \in 1..blocks
      PROVE  /\ taken[i] = taken[i - 1] + Len(chunks[i])
             /\ chunks[i] = SubSeq(signers, taken[i - 1] + 1, taken[i])
  <2>1. i - 1 \in 0..blocks - 1 /\ i \in 0..blocks /\ i - 1 \in 0..blocks
    BY <1>2
  <2>2. /\ Chunk(signers, i - 1)
             = SubSeq(signers, 9 * (i - 1) + 1, Lesser(9 * (i - 1) + 9, n))
        /\ Len(Chunk(signers, i - 1)) = Lesser(9 * (i - 1) + 9, n) - 9 * (i - 1)
    BY <2>1, ChunkIsPiece
  <2>3. 9 * (i - 1) + 9 = 9 * i /\ 9 * (i - 1) <= n /\ 9 * (i - 1) \in Nat /\ 9 * i \in Nat
    BY <1>2, <1>4
  <2>4. taken[i] = Lesser(9 * i, n) /\ taken[i - 1] = 9 * (i - 1)
    BY <1>1, <2>1, <2>3 DEF Lesser
  <2>5. Lesser(9 * i, n) \in Nat
    BY <1>1, <2>3 DEF Lesser
  <2>6. chunks[i] = Chunk(signers, i - 1)
    OBVIOUS
  <2>7. /\ chunks[i] = SubSeq(signers, taken[i - 1] + 1, taken[i])
        /\ Len(chunks[i]) = taken[i] - taken[i - 1]
    <3> HIDE DEF taken, chunks
    <3> QED
      BY <2>2, <2>3, <2>4, <2>6, Zenon
  <2>8. taken[i] \in Nat /\ taken[i - 1] \in Nat
    BY <2>3, <2>4, <2>5, Zenon
  <2> HIDE DEF taken, chunks
  <2> QED
    BY <2>7, <2>8
<1>6. taken \in [0..blocks -> 0..n]
  BY <1>1, <1>2 DEF Lesser
<1>7. taken[0] = 0 /\ taken[blocks] = n
  BY <1>1, <1>2 DEF Lesser
<1> HIDE DEF taken, chunks, blocks, n
<1>8. AreCut(chunks, signers)
  BY <1>3, <1>5, <1>6, <1>7 DEF AreCut, n
<1> QED
  BY <1>8 DEF chunks, blocks, n
-----------------------------------------------------------------------------
\* Of a set of n guardians, the values up to the last used byte are not empty.
LEMMA FullValues ==
  ASSUME NEW n \in Nat \ {0}, 1 + KeyLen * n <= BytesPerKey * MaxKeys
  PROVE  LET last == (20 * n) \div 127
         IN  /\ last \in 0..14
             /\ {k \in DOMAIN LocalState(n) : LocalState(n)[k] # EmptyValue} = 0..last
<1> DEFINE last == (20 * n) \div 127
           state == LocalState(n)
<1>1. 20 * n <= 1904 /\ last \in 0..14 /\ 127 * last <= 20 * n /\ 20 * n < 127 * last + 127
  BY DEF KeyLen, BytesPerKey, MaxKeys
<1>2. DOMAIN state = 0..14
  BY DEF LocalState, MaxKeys
<1>3. \A k \in 0..14 : \A b \in 1..127 : state[k][b] = StateByte(n, 127 * k + b - 1)
  BY DEF LocalState, MaxKeys, BytesPerKey
<1>4. EmptyValue = [b \in 1..127 |-> 0]
  BY DEF EmptyValue, BytesPerKey
<1>5. ASSUME NEW k \in 0..14, k <= last PROVE state[k] # EmptyValue
  <2> DEFINE b == 127 * k
  <2>1. b \in Nat /\ b <= 20 * n /\ 127 * k + 1 - 1 = b
    BY <1>1, <1>5
  <2>2. ASSUME b = 0 PROVE StateByte(n, b) # 0
    BY <2>2 DEF StateByte
  <2>3. ASSUME b > 0 PROVE StateByte(n, b) # 0
    <3>1. StateByte(n, b) = KeyByte((b - 1) \div 20, 1 + ((b - 1) % 20))
      BY <2>1, <2>3 DEF StateByte, KeyLen
    <3>2. (b - 1) \div 20 \in Nat /\ (b - 1) % 20 \in Nat
      BY <2>1, <2>3
    <3> HIDE DEF b
    <3>3. KeyByte((b - 1) \div 20, 1 + ((b - 1) % 20)) >= 1000
      BY <3>2 DEF KeyByte, KeyLen
    <3> QED
      BY <3>1, <3>3
  <2> HIDE DEF b, state
  <2>4. StateByte(n, b) # 0
    BY <2>1, <2>2, <2>3
  <2>5. 1 \in 1..127 /\ EmptyValue[1] = 0
    BY <1>4
  <2>6. state[k][1] = StateByte(n, 127 * k + 1 - 1)
    BY <1>3, <2>5
  <2>7. state[k][1] # 0
    BY <2>1, <2>4, <2>6
  <2> QED
    BY <2>5, <2>7, Zenon
<1>6. ASSUME NEW k \in 0..14, k > last PROVE state[k] = EmptyValue
  <2>1. ASSUME NEW b \in 1..127 PROVE StateByte(n, 127 * k + b - 1) = 0
    <3>1. 127 * k + b - 1 \in Nat /\ 127 * k + b - 1 > n * 20 /\ 127 * k + b - 1 # 0
      BY <1>1, <1>6
    <3> QED
      BY <3>1 DEF StateByte, KeyLen
  <2>2. state[k] = [b \in 1..127 |-> StateByte(n, 127 * k + b - 1)]
    BY DEF LocalState, MaxKeys, BytesPerKey
  <2> QED
    BY <1>4, <2>1, <2>2
<1> HIDE DEF state, last
<1>7. {k \in DOMAIN state : state[k] # EmptyValue} = 0..last
  BY <1>1, <1>2, <1>5, <1>6
<1> QED
  BY <1>1, <1>7 DEF state, last

\* The joined values are the bytes of the set up to there, in their order.
LEMMA JoinedValues ==
  ASSUME NEW n \in Nat \ {0}, 1 + KeyLen * n <= BytesPerKey * MaxKeys
  PROVE  LET last == (20 * n) \div 127
         IN  GuardianKeys(LocalState(n))
               = [b \in 1..127 * (last + 1) |-> StateByte(n, b - 1)]
<1> DEFINE last == (20 * n) \div 127
           state == LocalState(n)
           full == {k \in DOMAIN state : state[k] # EmptyValue}
           Nth(i) == CHOOSE k \in full : Cardinality({l \in full : l < k}) = i
<1>1. last \in 0..14 /\ full = 0..last
  BY FullValues
<1>2. \A k \in 0..14 : \A b \in 1..127 : state[k][b] = StateByte(n, 127 * k + b - 1)
  BY DEF LocalState, MaxKeys, BytesPerKey
<1>3. GuardianKeys(state)
        = [b \in 1..127 * Cardinality(full) |-> state[Nth((b - 1) \div 127)][1 + ((b - 1) % 127)]]
  BY DEF GuardianKeys, BytesPerKey
<1> HIDE DEF last, state
<1> HIDE DEF full
<1>4. Cardinality(full) = last + 1
  <2>1. Cardinality(0..last) = IF 0 > last THEN 0 ELSE last - 0 + 1
    BY <1>1, FS_Interval
  <2> QED
    BY <1>1, <2>1
<1>5. ASSUME NEW k \in full PROVE Cardinality({l \in full : l < k}) = k
  <2>1. k \in 0..last /\ {l \in full : l < k} = 0..k - 1 /\ k - 1 \in Int
    BY <1>1
  <2>2. Cardinality(0..k - 1) = IF 0 > k - 1 THEN 0 ELSE k - 1 - 0 + 1
    BY <2>1, FS_Interval
  <2>3. Cardinality({l \in full : l < k}) = Cardinality(0..k - 1)
    BY <2>1, Zenon
  <2>4. Cardinality(0..k - 1) = k
    BY <2>1, <2>2
  <2> QED
    BY <2>3, <2>4, Zenon
<1>6. ASSUME NEW i \in full PROVE Nth(i) = i
  <2>1. Nth(i) \in full /\ Cardinality({l \in full : l < Nth(i)}) = i
    BY <1>5
  <2> QED
    BY <1>5, <2>1
<1> HIDE DEF Nth
<1>7. ASSUME NEW b \in 1..127 * (last + 1)
      PROVE  state[Nth((b - 1) \div 127)][1 + ((b - 1) % 127)] = StateByte(n, b - 1)
  <2> DEFINE k == (b - 1) \div 127
             r == (b - 1) % 127
  <2>1. k \in 0..last /\ k \in 0..14 /\ 1 + r \in 1..127 /\ 127 * k + (1 + r) - 1 = b - 1
    BY <1>1
  <2>2. Nth(k) = k
    BY <1>1, <1>6, <2>1
  <2> HIDE DEF k, r
  <2>3. state[Nth(k)][1 + r] = StateByte(n, 127 * k + (1 + r) - 1)
    <3>1. state[k][1 + r] = StateByte(n, 127 * k + (1 + r) - 1)
      BY <1>2, <2>1
    <3> QED
      BY <2>2, <3>1, Zenon
  <2>4. state[Nth(k)][1 + r] = StateByte(n, b - 1)
    BY <2>1, <2>3
  <2> QED
    BY <2>4 DEF k, r
<1>8. GuardianKeys(state) = [b \in 1..127 * (last + 1) |-> StateByte(n, b - 1)]
  BY <1>3, <1>4, <1>7
<1> QED
  BY <1>8 DEF state, last

\* Out of the joined values a guardian's key is cut at the right place, whichever
\* of them it begins and ends in (base-relayer.py:141-152, 272-274).
THEOREM KeysAreCut ==
  ASSUME NEW n \in Nat, 1 + KeyLen * n <= BytesPerKey * MaxKeys, NEW g \in 0..n - 1
  PROVE  KeyAt(GuardianKeys(LocalState(n)), g) = GuardianKey(g)
<1> DEFINE last == (20 * n) \div 127
           keys == GuardianKeys(LocalState(n))
<1>1. n \in Nat \ {0} /\ g \in Nat /\ 20 * g + 20 <= 20 * n
  OBVIOUS
<1>2. keys = [b \in 1..127 * (last + 1) |-> StateByte(n, b - 1)]
  BY <1>1, JoinedValues
<1>3. last \in Nat /\ 20 * n < 127 * (last + 1)
  OBVIOUS
<1> HIDE DEF keys, last
<1>4. ASSUME NEW o \in 1..20 PROVE keys[20 * g + 1 + o] = KeyByte(g, o)
  <2> DEFINE b == 20 * g + o
  <2>1. b \in Nat /\ b >= 1 /\ b <= n * 20 /\ b + 1 \in 1..127 * (last + 1)
    BY <1>1, <1>3
  <2>2. (b - 1) \div 20 = g /\ (b - 1) % 20 = o - 1
    BY <1>1
  <2>3. 20 * g + 1 + o = b + 1 /\ b + 1 - 1 = b
    BY <1>1
  <2> HIDE DEF b
  <2>4. StateByte(n, b) = KeyByte((b - 1) \div 20, 1 + ((b - 1) % 20))
    BY <2>1 DEF StateByte, KeyLen
  <2>5. 1 + (o - 1) = o
    OBVIOUS
  <2>6. keys[b + 1] = StateByte(n, b)
    BY <1>2, <2>1
  <2> QED
    BY <2>2, <2>3, <2>4, <2>5, <2>6
<1>5. KeyAt(keys, g) = SubSeq(keys, 20 * g + 2, 20 * g + 21)
  <2>1. 1 + g * 20 + 1 = 20 * g + 2 /\ 1 + (g + 1) * 20 = 20 * g + 21
    BY <1>1
  <2> QED
    BY <2>1 DEF KeyAt, KeyLen
<1>6. /\ SubSeq(keys, 20 * g + 2, 20 * g + 21) \in Seq(Int)
      /\ Len(SubSeq(keys, 20 * g + 2, 20 * g + 21)) = 20
      /\ \A o \in 1..20 :
           SubSeq(keys, 20 * g + 2, 20 * g + 21)[o] = keys[20 * g + 1 + o]
  <2>1. 20 * g + 2 \in Int /\ 20 * g + 21 \in Int
    BY <1>1
  <2>2. ASSUME NEW k \in 20 * g + 2..20 * g + 21 PROVE keys[k] \in Int
    <3> DEFINE o == k - (20 * g + 1)
    <3>1. o \in 1..20 /\ 20 * g + 1 + o = k
      BY <1>1
    <3> HIDE DEF o
    <3>2. keys[k] = KeyByte(g, o)
      BY <1>4, <3>1
    <3> QED
      BY <1>1, <3>1, <3>2 DEF KeyByte, KeyLen
  <2>3. /\ SubSeq(keys, 20 * g + 2, 20 * g + 21) \in Seq(Int)
        /\ Len(SubSeq(keys, 20 * g + 2, 20 * g + 21))
             = IF 20 * g + 2 <= 20 * g + 21 THEN 20 * g + 21 - (20 * g + 2) + 1 ELSE 0
        /\ \A o \in 1..20 * g + 21 - (20 * g + 2) + 1 :
             SubSeq(keys, 20 * g + 2, 20 * g + 21)[o] = keys[20 * g + 2 + o - 1]
    BY <2>1, <2>2, SubSeqProperties
  <2>4. 20 * g + 21 - (20 * g + 2) + 1 = 20 /\ 20 * g + 2 <= 20 * g + 21
    BY <1>1
  <2>5. \A o \in 1..20 : 20 * g + 2 + o - 1 = 20 * g + 1 + o
    BY <1>1
  <2> QED
    BY <2>3, <2>4, <2>5
<1>7. GuardianKey(g) \in Seq(Int) /\ Len(GuardianKey(g)) = 20
  <2>1. GuardianKey(g) \in [1..20 -> Int]
    BY <1>1 DEF GuardianKey, KeyByte, KeyLen
  <2>2. GuardianKey(g) \in Seq(Int)
    <3>1. 20 \in Nat
      OBVIOUS
    <3>2. [1..20 -> Int] \subseteq Seq(Int)
      BY <3>1, SeqDef
    <3> QED
      BY <2>1, <3>2
  <2> QED
    BY <2>1, <2>2, LenProperties
<1>8. \A o \in 1..20 : GuardianKey(g)[o] = KeyByte(g, o)
  BY DEF GuardianKey, KeyLen
<1>9. KeyAt(keys, g) = GuardianKey(g)
  <2>1. /\ KeyAt(keys, g) \in Seq(Int) /\ Len(KeyAt(keys, g)) = Len(GuardianKey(g))
        /\ \A o \in 1..Len(KeyAt(keys, g)) : KeyAt(keys, g)[o] = GuardianKey(g)[o]
    BY <1>4, <1>5, <1>6, <1>7, <1>8
  <2> QED
    BY <1>7, <2>1, SeqEqual
<1> QED
  BY <1>9 DEF keys
-----------------------------------------------------------------------------
\* Three strings in a row, and how long they are.
LEMMA Join ==
  ASSUME NEW a \in Seq(Int), NEW b \in Seq(Int), NEW c \in Seq(Int)
  PROVE  a \o b \o c \in Seq(Int) /\ Len(a \o b \o c) = Len(a) + Len(b) + Len(c)
<1>1. a \o b \in Seq(Int) /\ Len(a \o b) = Len(a) + Len(b)
  BY ConcatProperties, Zenon
<1>2. a \o b \o c \in Seq(Int) /\ Len(a \o b \o c) = Len(a \o b) + Len(c)
  BY <1>1, ConcatProperties, Zenon
<1> QED
  BY <1>1, <1>2, Zenon

\* A patch puts its bytes in the place of the byte it is at.
LEMMA PatchOf ==
  ASSUME NEW x \in Seq(Int), NEW y \in Seq(Int), NEW v \in Seq(Int)
  PROVE  Patch(x \o (<<0>> \o y), Len(x), v) = x \o v \o y
<1> DEFINE pos == Len(x)
           z == <<0>>
           tail == z \o y
           c == x \o tail
<1>1. x \in Seq(Int) /\ y \in Seq(Int) /\ v \in Seq(Int) /\ Len(x) \in Nat /\ Len(y) \in Nat
  BY LenProperties
<1>2. z \in Seq(Int) /\ Len(z) = 1
  OBVIOUS
<1> HIDE DEF z
<1>3. /\ tail \in Seq(Int) /\ Len(tail) = Len(z) + Len(y)
      /\ \A k \in 1..Len(z) + Len(y) : tail[k] = IF k <= Len(z) THEN z[k] ELSE y[k - Len(z)]
  BY <1>1, <1>2, ConcatProperties, Zenon
<1> HIDE DEF tail
<1>4. /\ c \in Seq(Int) /\ Len(c) = Len(x) + Len(tail)
      /\ \A k \in 1..Len(x) + Len(tail) :
           c[k] = IF k <= Len(x) THEN x[k] ELSE tail[k - Len(x)]
  <2>1. x \in Seq(Int) /\ tail \in Seq(Int)
    BY <1>1, <1>3
  <2>2. c \in Seq(Int) /\ Len(c) = Len(x) + Len(tail)
    BY <2>1, ConcatProperties, Zenon
  <2>3. \A k \in 1..Len(x) + Len(tail) :
          c[k] = IF k <= Len(x) THEN x[k] ELSE tail[k - Len(x)]
    BY <2>1, ConcatProperties, Zenon
  <2> QED
    BY <2>2, <2>3, Zenon
<1>5. Len(tail) = 1 + Len(y) /\ Len(c) = Len(x) + 1 + Len(y)
  BY <1>1, <1>2, <1>3, <1>4
<1> HIDE DEF c
<1> DEFINE before == SubSeq(c, 1, pos)
           after == SubSeq(c, pos + 2, Len(c))
<1>6. before = x
  <2>1. \A k \in 1..pos : c[k] \in Int
    BY <1>1, <1>4, <1>5, ElementOfSeq
  <2>2. /\ before \in Seq(Int)
        /\ Len(before) = IF 1 <= pos THEN pos - 1 + 1 ELSE 0
        /\ \A k \in 1..pos - 1 + 1 : before[k] = c[1 + k - 1]
    BY <1>1, <2>1, SubSeqProperties
  <2> HIDE DEF before
  <2>3. Len(before) = Len(x)
    BY <1>1, <2>2
  <2>4. ASSUME NEW k \in 1..Len(before) PROVE before[k] = x[k]
    <3>1. k \in 1..pos - 1 + 1 /\ 1 + k - 1 = k /\ k \in 1..Len(x) + Len(tail) /\ k <= Len(x)
      BY <1>1, <1>5, <2>3
    <3> QED
      BY <1>4, <2>2, <3>1, Zenon
  <2> QED
    BY <1>1, <2>2, <2>3, <2>4, SeqEqual, Zenon
<1>7. after = y
  <2>1. \A k \in pos + 2..Len(c) : c[k] \in Int
    BY <1>1, <1>4, <1>5, ElementOfSeq
  <2>2. /\ after \in Seq(Int)
        /\ Len(after) = IF pos + 2 <= Len(c) THEN Len(c) - (pos + 2) + 1 ELSE 0
        /\ \A k \in 1..Len(c) - (pos + 2) + 1 : after[k] = c[pos + 2 + k - 1]
    <3>1. pos + 2 \in Int /\ Len(c) \in Int
      BY <1>1, <1>5
    <3> QED
      BY <2>1, <3>1, SubSeqProperties
  <2> HIDE DEF after
  <2>3. Len(after) = Len(y)
    BY <1>1, <1>5, <2>2
  <2>4. ASSUME NEW k \in 1..Len(after) PROVE after[k] = y[k]
    <3> DEFINE m == pos + 2 + k - 1
    <3>1. /\ k \in 1..Len(c) - (pos + 2) + 1
          /\ m \in 1..Len(x) + Len(tail) /\ ~(m <= Len(x))
      BY <1>1, <1>5, <2>3
    <3>2. /\ m - Len(x) \in 1..Len(z) + Len(y) /\ ~(m - Len(x) <= Len(z))
          /\ (m - Len(x)) - Len(z) = k
      BY <1>1, <1>2, <2>3
    <3>3. after[k] = c[m]
      BY <2>2, <3>1, Zenon
    <3> HIDE DEF m
    <3>4. c[m] = tail[m - Len(x)]
      BY <1>4, <3>1, Zenon
    <3>5. tail[m - Len(x)] = y[(m - Len(x)) - Len(z)]
      BY <1>3, <3>2, Zenon
    <3> QED
      BY <3>2, <3>3, <3>4, <3>5, Zenon
  <2> QED
    BY <1>1, <2>2, <2>3, <2>4, SeqEqual, Zenon
<1> QED
  BY <1>6, <1>7, Zenon DEF Patch, c, tail, z

\* A patch of the hole behind x, with the next code behind it: what is left of
\* the next hole grows, what is right of it stays.
FourStrings(x, v, code, w) ==
  x \in Seq(Int) /\ v \in Seq(Int) /\ code \in Seq(Int) /\ w \in Seq(Int)

Fills(x, v, code, w) ==
  Patch(x \o (<<0>> \o (code \o w)), Len(x), v) = (x \o v \o code) \o w

\* Patching a hole of one byte puts the value between what is around it.
LEMMA FillHole ==
  \A x, v, code, w : FourStrings(x, v, code, w) => Fills(x, v, code, w)
<1> SUFFICES ASSUME NEW x, NEW v, NEW code, NEW w, FourStrings(x, v, code, w)
             PROVE  Fills(x, v, code, w)
  OBVIOUS
<1> DEFINE y == code \o w
           xv == x \o v
<1>1. x \in Seq(Int) /\ v \in Seq(Int) /\ code \in Seq(Int) /\ w \in Seq(Int)
  BY Zenon DEF FourStrings
<1>2. y \in Seq(Int) /\ xv \in Seq(Int)
  BY <1>1, ConcatProperties, Zenon
<1> HIDE DEF y, xv
<1>3. xv \o code \o w = xv \o y
  <2>1. xv \in Seq(Int) /\ code \in Seq(Int) /\ w \in Seq(Int)
    BY <1>1, <1>2, Zenon
  <2> QED
    BY <2>1, ConcatAssociates, Zenon DEF y
<1>4. Patch(x \o (<<0>> \o y), Len(x), v) = xv \o y
  BY <1>1, <1>2, PatchOf, Zenon DEF xv
<1> QED
  BY <1>3, <1>4, Zenon DEF Fills, xv, y

\* What is right of a hole of the template.
AfterThird == Code4 \o (<<0>> \o Code5)
AfterSecond == Code3 \o (<<0>> \o AfterThird)
AfterFirst == Code2 \o (<<0>> \o AfterSecond)

\* The code around the holes is bytes, of these lengths.
LEMMA Codes ==
  /\ Code1 \in Seq(Int) /\ Len(Code1) = 5 /\ Code2 \in Seq(Int) /\ Len(Code2) = 2
  /\ Code3 \in Seq(Int) /\ Len(Code3) = 15 /\ Code4 \in Seq(Int) /\ Len(Code4) = 5
  /\ Code5 \in Seq(Int) /\ <<0>> \in Seq(Int)
BY DEF Code1, Code2, Code3, Code4, Code5

\* So is each end of the template.
LEMMA Rests ==
  /\ <<0>> \o Code5 \in Seq(Int) /\ AfterThird \in Seq(Int)
  /\ <<0>> \o AfterThird \in Seq(Int) /\ AfterSecond \in Seq(Int)
  /\ <<0>> \o AfterSecond \in Seq(Int) /\ AfterFirst \in Seq(Int)
<1>1. <<0>> \o Code5 \in Seq(Int)
  BY Codes, ConcatProperties, Zenon
<1>2. AfterThird \in Seq(Int)
  BY Codes, <1>1, ConcatProperties, Zenon DEF AfterThird
<1>3. <<0>> \o AfterThird \in Seq(Int)
  BY Codes, <1>2, ConcatProperties, Zenon
<1>4. AfterSecond \in Seq(Int)
  BY Codes, <1>3, ConcatProperties, Zenon DEF AfterSecond
<1>5. <<0>> \o AfterSecond \in Seq(Int)
  BY Codes, <1>4, ConcatProperties, Zenon
<1>6. AfterFirst \in Seq(Int)
  BY Codes, <1>5, ConcatProperties, Zenon DEF AfterFirst
<1> QED
  BY <1>1, <1>2, <1>3, <1>4, <1>5, <1>6, Zenon

\* Two strings moved behind a third.
LEMMA Move ==
  ASSUME NEW t \in Seq(Int), NEW code \in Seq(Int), NEW w \in Seq(Int)
  PROVE  t \o <<0>> \o code \o w = t \o (<<0>> \o (code \o w))
<1> DEFINE z == <<0>>
           tz == t \o z
           cw == code \o w
<1>1. z \in Seq(Int)
  BY Codes, Zenon
<1> HIDE DEF z
<1>2. tz \in Seq(Int) /\ cw \in Seq(Int)
  BY <1>1, ConcatProperties, Zenon
<1> HIDE DEF tz, cw
<1>3. tz \o code \o w = tz \o cw
  BY <1>2, ConcatAssociates, Zenon DEF cw
<1>4. tz \o cw = t \o (z \o cw)
  BY <1>1, <1>2, ConcatAssociates, ZenonT(60) DEF tz
<1> QED
  BY <1>3, <1>4, Zenon DEF tz, cw, z

\* The template as its first code and what follows it.
LEMMA TemplateFromLeft == Template = Code1 \o (<<0>> \o AfterFirst)
<1> DEFINE t2 == Code1 \o <<0>> \o Code2
           t4 == t2 \o <<0>> \o Code3
           w4 == <<0>> \o Code5
           w3 == <<0>> \o AfterThird
           w2 == <<0>> \o AfterSecond
<1>1. /\ t2 \in Seq(Int)
      /\ w4 \in Seq(Int) /\ w3 \in Seq(Int) /\ w2 \in Seq(Int)
  BY Codes, Rests, Join, Zenon
<1>2. Template = t4 \o <<0>> \o Code4 \o <<0>> \o Code5
  BY Zenon DEF Template
<1> HIDE DEF t2
<1>3. t4 \in Seq(Int)
  BY <1>1, Codes, Join, Zenon
<1> HIDE DEF t4
<1>4. t4 \o <<0>> \o Code4 \in Seq(Int)
  BY <1>3, Codes, Join, Zenon
<1>5. t4 \o <<0>> \o Code4 \o <<0>> \o Code5 = t4 \o <<0>> \o Code4 \o w4
  BY <1>4, Codes, ConcatAssociates, Zenon
<1> HIDE DEF w4, w3, w2
<1>6. t4 \o <<0>> \o Code4 \o w4 = t4 \o (<<0>> \o (Code4 \o w4))
  <2>1. Code4 \in Seq(Int) /\ w4 \in Seq(Int)
    BY <1>1, Codes, Zenon
  <2> QED
    BY <1>3, <2>1, Move, Zenon
<1>7. t2 \o <<0>> \o Code3 \o w3 = t2 \o (<<0>> \o (Code3 \o w3))
  <2>1. t2 \in Seq(Int) /\ Code3 \in Seq(Int) /\ w3 \in Seq(Int)
    BY <1>1, Codes, Zenon
  <2> QED
    BY <2>1, Move, Zenon
<1>8. Code1 \o <<0>> \o Code2 \o w2 = Code1 \o (<<0>> \o (Code2 \o w2))
  <2>1. Code1 \in Seq(Int) /\ Code2 \in Seq(Int) /\ w2 \in Seq(Int)
    BY <1>1, Codes, Zenon
  <2> QED
    BY <2>1, Move, Zenon
<1>9. /\ Code4 \o w4 = AfterThird /\ Code3 \o w3 = AfterSecond
      /\ Code2 \o w2 = AfterFirst
  BY Zenon DEF w4, w3, w2, AfterThird, AfterSecond, AfterFirst
<1>10. t4 \o (<<0>> \o AfterThird) = t2 \o (<<0>> \o AfterSecond)
  BY <1>7, <1>9, Zenon DEF t4, w3
<1>11. t2 \o (<<0>> \o AfterSecond) = Code1 \o (<<0>> \o AfterFirst)
  BY <1>8, <1>9, Zenon DEF t2, w2
<1> QED
  BY <1>2, <1>5, <1>6, <1>9, <1>10, <1>11, Zenon

\* The four patches, at the places left of which the string is filled.
FillsAll(u, e, a, d) ==
  Patch(Patch(Patch(Patch(Template, 5, u), 7 + Len(u), e),
              22 + Len(u) + Len(e), a),
        27 + Len(u) + Len(e) + Len(a), d)
    = Code1 \o u \o Code2 \o e \o Code3 \o a \o Code4 \o d \o Code5

\* The four patches of the template, each hole moved by the values before it.
LEMMA FourPatches == \A u, e, a, d : FourStrings(u, e, a, d) => FillsAll(u, e, a, d)
<1> SUFFICES ASSUME NEW u, NEW e, NEW a, NEW d, FourStrings(u, e, a, d)
             PROVE  FillsAll(u, e, a, d)
  OBVIOUS
<1> DEFINE x2 == Code1 \o u \o Code2
           x3 == x2 \o e \o Code3
           x4 == x3 \o a \o Code4
           w4 == <<0>> \o Code5
           w3 == <<0>> \o AfterThird
           w2 == <<0>> \o AfterSecond
<1>1. /\ w4 \in Seq(Int) /\ w3 \in Seq(Int) /\ w2 \in Seq(Int)
      /\ Code2 \o w2 = AfterFirst /\ Code3 \o w3 = AfterSecond
      /\ Code4 \o w4 = AfterThird
  BY Rests, Zenon DEF AfterFirst, AfterSecond, AfterThird
<1> HIDE DEF w4, w3, w2
<1>2. /\ x2 \in Seq(Int) /\ Len(x2) = Len(Code1) + Len(u) + Len(Code2)
      /\ Patch(Code1 \o (<<0>> \o (Code2 \o w2)), Len(Code1), u) = x2 \o w2
  <2>1. Code1 \in Seq(Int) /\ u \in Seq(Int) /\ Code2 \in Seq(Int)
    BY Codes, Zenon DEF FourStrings
  <2>2. w2 \in Seq(Int)
    BY <1>1, Zenon
  <2>3. Fills(Code1, u, Code2, w2)
    BY <2>1, <2>2, FillHole, Zenon DEF FourStrings
  <2>4. x2 \in Seq(Int) /\ Len(x2) = Len(Code1) + Len(u) + Len(Code2)
    BY <2>1, Join, Zenon
  <2> QED
    BY <2>3, <2>4, Zenon DEF Fills
<1> HIDE DEF x2
<1>3. /\ x3 \in Seq(Int) /\ Len(x3) = Len(x2) + Len(e) + Len(Code3)
      /\ Patch(x2 \o (<<0>> \o (Code3 \o w3)), Len(x2), e) = x3 \o w3
  <2>1. x2 \in Seq(Int) /\ e \in Seq(Int) /\ Code3 \in Seq(Int)
    BY <1>2, Codes, Zenon DEF FourStrings
  <2>2. w3 \in Seq(Int)
    BY <1>1, Zenon
  <2>3. Fills(x2, e, Code3, w3)
    BY <2>1, <2>2, FillHole, Zenon DEF FourStrings
  <2>4. x3 \in Seq(Int) /\ Len(x3) = Len(x2) + Len(e) + Len(Code3)
    BY <2>1, Join, Zenon
  <2> QED
    BY <2>3, <2>4, Zenon DEF Fills
<1> HIDE DEF x3
<1>4. /\ x4 \in Seq(Int) /\ Len(x4) = Len(x3) + Len(a) + Len(Code4)
      /\ Patch(x3 \o (<<0>> \o (Code4 \o w4)), Len(x3), a) = x4 \o w4
  <2>1. x3 \in Seq(Int) /\ a \in Seq(Int) /\ Code4 \in Seq(Int)
    BY <1>3, Codes, Zenon DEF FourStrings
  <2>2. w4 \in Seq(Int)
    BY <1>1, Zenon
  <2>3. Fills(x3, a, Code4, w4)
    BY <2>1, <2>2, FillHole, Zenon DEF FourStrings
  <2>4. x4 \in Seq(Int) /\ Len(x4) = Len(x3) + Len(a) + Len(Code4)
    BY <2>1, Join, Zenon
  <2> QED
    BY <2>3, <2>4, Zenon DEF Fills
<1> HIDE DEF x4
<1>5. Patch(x4 \o w4, Len(x4), d) = x4 \o d \o Code5
  <2>1. x4 \in Seq(Int) /\ d \in Seq(Int) /\ Code5 \in Seq(Int)
    BY <1>4, Codes, Zenon DEF FourStrings
  <2> QED
    BY <2>1, PatchOf, Zenon DEF w4
<1>6. /\ Len(u) \in Nat /\ Len(e) \in Nat /\ Len(a) \in Nat
      /\ Len(Code1) = 5 /\ Len(Code2) = 2 /\ Len(Code3) = 15 /\ Len(Code4) = 5
  BY Codes, LenProperties DEF FourStrings
<1>7. /\ 7 + Len(u) = Len(x2) /\ 22 + Len(u) + Len(e) = Len(x3)
      /\ 27 + Len(u) + Len(e) + Len(a) = Len(x4)
  BY <1>2, <1>3, <1>4, <1>6
<1>8. Patch(Template, 5, u) = x2 \o w2
  BY <1>1, <1>2, <1>6, TemplateFromLeft, Zenon
<1>9. Patch(x2 \o w2, Len(x2), e) = x3 \o w3
  BY <1>1, <1>3, Zenon DEF w2
<1>10. Patch(x3 \o w3, Len(x3), a) = x4 \o w4
  BY <1>1, <1>4, Zenon DEF w3
<1> QED
  BY <1>5, <1>7, <1>8, <1>9, <1>10, Zenon DEF FillsAll, x2, x3, x4

\* populate_tmplsig makes the program whose hash the core knows as the account of
\* a page of sequence numbers: every patch lands where the template has a value,
\* however long the values before it are (base-relayer.py:92-112).
THEOREM TemplateIsFilled ==
  ASSUME NEW idx \in Nat, NEW app \in Nat, NEW emitter \in Seq(Int),
         NEW address \in Seq(Int)
  PROVE  Populate(idx, emitter, app, address) = CoreAccount(idx, emitter, app, address)
<1> DEFINE u == Uvarint[idx]
           e == WithLength(emitter)
           a == Uvarint[app]
           d == WithLength(address)
           l == Uvarint[Len(emitter)]
           s1 == Len(u) - 1
           s2 == s1 + Shift(emitter)
           s3 == s2 + Len(a) - 1
<1>1. Len(emitter) \in Nat /\ Len(address) \in Nat /\ u \in Seq(Int) /\ a \in Seq(Int)
  BY LenProperties, UvarintIsNumbers
<1>2. l \in Seq(Int) /\ Uvarint[Len(address)] \in Seq(Int)
  BY <1>1, UvarintIsNumbers
<1>3. e \in Seq(Int) /\ Len(e) = Len(l) + Len(emitter)
  BY <1>2, ConcatProperties DEF WithLength
<1>4. d \in Seq(Int)
  BY <1>2, ConcatProperties DEF WithLength
<1>5. Len(u) \in Nat /\ Len(a) \in Nat /\ Len(l) \in Nat
  BY <1>1, <1>2, LenProperties
<1>6. Shift(emitter) = Len(l) - 1 + Len(emitter)
  BY Zenon DEF Shift
<1> HIDE DEF u, e, a, d, l
<1>7. /\ 8 + s1 = 7 + Len(u) /\ 24 + s2 = 22 + Len(u) + Len(e)
      /\ 30 + s3 = 27 + Len(u) + Len(e) + Len(a)
  BY <1>1, <1>3, <1>5, <1>6
<1>8. Populate(idx, emitter, app, address)
        = Patch(Patch(Patch(Patch(Template, 5, u), 8 + s1, e), 24 + s2, a), 30 + s3, d)
  BY Zenon DEF Populate, u, e, a, d
<1> HIDE DEF s1, s2, s3
<1>9. FillsAll(u, e, a, d)
  <2>1. FourStrings(u, e, a, d)
    BY <1>1, <1>3, <1>4, Zenon DEF FourStrings
  <2> QED
    BY <2>1, FourPatches, Zenon
<1> QED
  BY <1>7, <1>8, <1>9, Zenon DEF FillsAll, CoreAccount, u, e, a, d
-----------------------------------------------------------------------------
\* What a string has behind another.
LEMMA Behind ==
  ASSUME NEW x \in Seq(Int), NEW s \in Seq(Int)
  PROVE  /\ Len(x \o s) = Len(x) + Len(s)
         /\ \A k \in 1..Len(x) : (x \o s)[k] = x[k]
         /\ \A k \in 1..Len(s) : (x \o s)[Len(x) + k] = s[k]
<1> DEFINE xs == x \o s
<1>1. /\ Len(x) \in Nat /\ Len(s) \in Nat
      /\ Len(xs) = Len(x) + Len(s)
      /\ \A k \in 1..Len(x) + Len(s) : xs[k] = IF k <= Len(x) THEN x[k] ELSE s[k - Len(x)]
  BY ConcatProperties, LenProperties
<1> HIDE DEF xs
<1>2. ASSUME NEW k \in 1..Len(x) PROVE xs[k] = x[k]
  BY <1>1
<1>3. ASSUME NEW k \in 1..Len(s) PROVE xs[Len(x) + k] = s[k]
  <2>1. Len(x) + k \in 1..Len(x) + Len(s) /\ ~(Len(x) + k <= Len(x)) /\ (Len(x) + k) - Len(x) = k
    BY <1>1
  <2> QED
    BY <1>1, <2>1, Zenon
<1> QED
  BY <1>1, <1>2, <1>3 DEF xs

\* Two strings of one length before others are found again.
LEMMA SameLength ==
  \A x, y, s, t \in Seq(Int) : Len(x) = Len(y) /\ x \o s = y \o t => x = y /\ s = t
<1> SUFFICES ASSUME NEW x \in Seq(Int), NEW y \in Seq(Int),
                    NEW s \in Seq(Int), NEW t \in Seq(Int),
                    Len(x) = Len(y), x \o s = y \o t
             PROVE  x = y /\ s = t
  OBVIOUS
<1> DEFINE xs == x \o s
           yt == y \o t
<1>1. /\ Len(xs) = Len(x) + Len(s)
      /\ \A k \in 1..Len(x) : xs[k] = x[k]
      /\ \A k \in 1..Len(s) : xs[Len(x) + k] = s[k]
  BY Behind, Zenon
<1>2. /\ Len(yt) = Len(y) + Len(t)
      /\ \A k \in 1..Len(y) : yt[k] = y[k]
      /\ \A k \in 1..Len(t) : yt[Len(y) + k] = t[k]
  BY Behind, Zenon
<1>3. xs = yt
  OBVIOUS
<1> HIDE DEF xs, yt
<1>4. Len(x) \in Nat /\ Len(s) \in Nat /\ Len(t) \in Nat
  BY LenProperties
<1>5. Len(s) = Len(t)
  BY <1>1, <1>2, <1>3, <1>4
<1>6. \A k \in 1..Len(x) : x[k] = y[k]
  BY <1>1, <1>2, <1>3
<1>7. \A k \in 1..Len(s) : s[k] = t[k]
  BY <1>1, <1>2, <1>3, <1>5
<1> QED
  BY <1>5, <1>6, <1>7, SeqEqual

\* A number behind a code is read from what it begins.
SameNumber(code, m, n, s, t) ==
  code \o (Uvarint[m] \o s) = code \o (Uvarint[n] \o t) => m = n /\ s = t

\* No number encodes to the beginning of another: UvarintUnambiguous, behind a code.
LEMMA NumberIsRead ==
  ASSUME NEW code \in Seq(Int), NEW m \in Nat, NEW n \in Nat,
         NEW s \in Seq(Int), NEW t \in Seq(Int)
  PROVE  SameNumber(code, m, n, s, t)
<1> SUFFICES ASSUME code \o (Uvarint[m] \o s) = code \o (Uvarint[n] \o t)
             PROVE  m = n /\ s = t
  BY Zenon DEF SameNumber
<1> DEFINE ms == Uvarint[m] \o s
           nt == Uvarint[n] \o t
<1>1. ms \in Seq(Int) /\ nt \in Seq(Int)
  BY UvarintIsNumbers, ConcatProperties, Zenon
<1>2. ms = nt
  <2> HIDE DEF ms, nt
  <2>1. code \o ms = code \o nt
    BY Zenon DEF ms, nt
  <2> QED
    BY <1>1, <2>1, SameLength
<1>3. \A k \in Nat : \A u, v \in Seq(Int) :
        Uvarint[m] \o u = Uvarint[k] \o v => m = k /\ u = v
  BY UvarintUnambiguous, Zenon DEF Unambiguous
<1>4. \A u, v \in Seq(Int) : Uvarint[m] \o u = Uvarint[n] \o v => m = n /\ u = v
  BY <1>3, Zenon
<1> QED
  BY <1>2, <1>4, Zenon

\* The same of bytes with their length in front.
SameBytes(code, e, f, s, t) ==
  code \o (WithLength(e) \o s) = code \o (WithLength(f) \o t) => e = f /\ s = t

\* The length in front says where the bytes end.
LEMMA BytesAreRead ==
  ASSUME NEW code \in Seq(Int), NEW e \in Seq(Int), NEW f \in Seq(Int),
         NEW s \in Seq(Int), NEW t \in Seq(Int)
  PROVE  SameBytes(code, e, f, s, t)
<1> SUFFICES ASSUME code \o (WithLength(e) \o s) = code \o (WithLength(f) \o t)
             PROVE  e = f /\ s = t
  BY Zenon DEF SameBytes
<1> DEFINE es == e \o s
           ft == f \o t
<1>1. Len(e) \in Nat /\ Len(f) \in Nat /\ es \in Seq(Int) /\ ft \in Seq(Int)
  BY LenProperties, ConcatProperties
<1>2. WithLength(e) \o s = Uvarint[Len(e)] \o es
  <2>1. Uvarint[Len(e)] \in Seq(Int)
    BY <1>1, UvarintIsNumbers, Zenon
  <2> QED
    BY <2>1, ConcatAssociates, Zenon DEF WithLength
<1>3. WithLength(f) \o t = Uvarint[Len(f)] \o ft
  <2>1. Uvarint[Len(f)] \in Seq(Int)
    BY <1>1, UvarintIsNumbers, Zenon
  <2> QED
    BY <2>1, ConcatAssociates, Zenon DEF WithLength
<1>4. Len(e) = Len(f) /\ es = ft
  <2> HIDE DEF es, ft
  <2>1. code \o (Uvarint[Len(e)] \o es) = code \o (Uvarint[Len(f)] \o ft)
    BY <1>2, <1>3, Zenon
  <2>2. SameNumber(code, Len(e), Len(f), es, ft)
    BY <1>1, NumberIsRead, Zenon
  <2> QED
    BY <2>1, <2>2, Zenon DEF SameNumber
<1> QED
  BY <1>4, SameLength

\* The program from the code before a value on.
FromAddress(address) == Code4 \o (WithLength(address) \o Code5)
FromApp(app, address) == Code3 \o (Uvarint[app] \o FromAddress(address))
FromEmitter(emitter, app, address) ==
  Code2 \o (WithLength(emitter) \o FromApp(app, address))
FromIdx(idx, emitter, app, address) ==
  Code1 \o (Uvarint[idx] \o FromEmitter(emitter, app, address))

\* Bytes with their length in front are bytes.
LEMMA WithLengthIsNumbers ==
  ASSUME NEW s \in Seq(Int)
  PROVE  WithLength(s) \in Seq(Int)
<1>1. Uvarint[Len(s)] \in Seq(Int)
  BY UvarintIsNumbers, LenProperties
<1> QED
  BY <1>1, ConcatProperties, Zenon DEF WithLength

\* So is each end of the filled template.
LEMMA PartsAreNumbers ==
  ASSUME NEW emitter \in Seq(Int), NEW app \in Nat, NEW address \in Seq(Int)
  PROVE  /\ WithLength(address) \o Code5 \in Seq(Int)
         /\ FromAddress(address) \in Seq(Int)
         /\ Uvarint[app] \o FromAddress(address) \in Seq(Int)
         /\ FromApp(app, address) \in Seq(Int)
         /\ WithLength(emitter) \o FromApp(app, address) \in Seq(Int)
         /\ FromEmitter(emitter, app, address) \in Seq(Int)
<1>1. /\ WithLength(address) \in Seq(Int) /\ WithLength(emitter) \in Seq(Int)
      /\ Uvarint[app] \in Seq(Int)
  BY WithLengthIsNumbers, UvarintIsNumbers, Zenon
<1>2. WithLength(address) \o Code5 \in Seq(Int)
  BY <1>1, Codes, ConcatProperties, Zenon
<1>3. FromAddress(address) \in Seq(Int)
  BY <1>2, Codes, ConcatProperties, Zenon DEF FromAddress
<1>4. Uvarint[app] \o FromAddress(address) \in Seq(Int)
  BY <1>1, <1>3, ConcatProperties, Zenon
<1>5. FromApp(app, address) \in Seq(Int)
  BY <1>4, Codes, ConcatProperties, Zenon DEF FromApp
<1>6. WithLength(emitter) \o FromApp(app, address) \in Seq(Int)
  BY <1>1, <1>5, ConcatProperties, Zenon
<1>7. FromEmitter(emitter, app, address) \in Seq(Int)
  BY <1>6, Codes, ConcatProperties, Zenon DEF FromEmitter
<1> QED
  BY <1>2, <1>3, <1>4, <1>5, <1>6, <1>7, Zenon

\* A value and the code behind it, moved behind what is left of them.
Regrouped(x, v, code, w) == x \o v \o code \o w = x \o (v \o (code \o w))

\* A program grouped from the left, regrouped.
LEMMA MoveTwo == \A x, v, code, w : FourStrings(x, v, code, w) => Regrouped(x, v, code, w)
<1> SUFFICES ASSUME NEW x, NEW v, NEW code, NEW w, FourStrings(x, v, code, w)
             PROVE  Regrouped(x, v, code, w)
  OBVIOUS
<1> DEFINE xv == x \o v
           cw == code \o w
<1>1. x \in Seq(Int) /\ v \in Seq(Int) /\ code \in Seq(Int) /\ w \in Seq(Int)
  BY Zenon DEF FourStrings
<1>2. xv \in Seq(Int) /\ cw \in Seq(Int)
  BY <1>1, ConcatProperties, Zenon
<1> HIDE DEF xv, cw
<1>3. xv \o code \o w = xv \o cw
  <2>1. xv \in Seq(Int) /\ code \in Seq(Int) /\ w \in Seq(Int)
    BY <1>1, <1>2, Zenon
  <2> QED
    BY <2>1, ConcatAssociates, Zenon DEF cw
<1>4. xv \o cw = x \o (v \o cw)
  <2>1. x \in Seq(Int) /\ v \in Seq(Int) /\ cw \in Seq(Int)
    BY <1>1, <1>2, Zenon
  <2> QED
    BY <2>1, ConcatAssociates, Zenon DEF xv
<1> QED
  BY <1>3, <1>4, Zenon DEF Regrouped, xv, cw

\* The program can be read from its front.
LEMMA Regroup ==
  \A idx, app \in Nat : \A emitter, address \in Seq(Int) :
    CoreAccount(idx, emitter, app, address) = FromIdx(idx, emitter, app, address)
<1> SUFFICES ASSUME NEW idx \in Nat, NEW app \in Nat,
                    NEW emitter \in Seq(Int), NEW address \in Seq(Int)
             PROVE  CoreAccount(idx, emitter, app, address)
                      = FromIdx(idx, emitter, app, address)
  OBVIOUS
<1> DEFINE u == Uvarint[idx]
           e == WithLength(emitter)
           a == Uvarint[app]
           d == WithLength(address)
           x2 == Code1 \o u \o Code2
           x3 == x2 \o e \o Code3
           w4 == FromAddress(address)
           w3 == FromApp(app, address)
           t4 == d \o Code5
           t3 == a \o w4
           t2 == e \o w3
<1>1. u \in Seq(Int) /\ e \in Seq(Int) /\ a \in Seq(Int) /\ d \in Seq(Int)
  BY WithLengthIsNumbers, UvarintIsNumbers, Zenon
<1>2. /\ w4 = Code4 \o t4 /\ w3 = Code3 \o t3
      /\ t4 \in Seq(Int) /\ t3 \in Seq(Int) /\ t2 \in Seq(Int)
  BY PartsAreNumbers, Zenon DEF FromAddress, FromApp
<1>3. /\ CoreAccount(idx, emitter, app, address) = x3 \o a \o Code4 \o d \o Code5
      /\ FromIdx(idx, emitter, app, address) = Code1 \o (u \o (Code2 \o t2))
  BY Zenon DEF CoreAccount, FromIdx, FromEmitter
<1> HIDE DEF u, e, a, d, w4, w3
<1>4. x2 \in Seq(Int)
  BY <1>1, Codes, Join, Zenon
<1>5. Code1 \o u \o Code2 \o t2 = Code1 \o (u \o (Code2 \o t2))
  <2>1. FourStrings(Code1, u, Code2, t2)
    BY <1>1, <1>2, Codes, Zenon DEF FourStrings
  <2>2. Regrouped(Code1, u, Code2, t2)
    BY <2>1, MoveTwo, Zenon
  <2> QED
    BY <2>2, Zenon DEF Regrouped
<1> HIDE DEF x2
<1>6. x3 \in Seq(Int)
  BY <1>1, <1>4, Codes, Join, Zenon
<1>7. x2 \o e \o Code3 \o t3 = x2 \o (e \o (Code3 \o t3))
  <2>1. FourStrings(x2, e, Code3, t3)
    BY <1>1, <1>2, <1>4, Codes, Zenon DEF FourStrings
  <2>2. Regrouped(x2, e, Code3, t3)
    BY <2>1, MoveTwo, Zenon
  <2> QED
    BY <2>2, Zenon DEF Regrouped
<1>8. x3 \o a \o Code4 \o t4 = x3 \o (a \o (Code4 \o t4))
  <2>1. FourStrings(x3, a, Code4, t4)
    BY <1>1, <1>2, <1>6, Codes, Zenon DEF FourStrings
  <2>2. Regrouped(x3, a, Code4, t4)
    BY <2>1, MoveTwo, Zenon
  <2> QED
    BY <2>2, Zenon DEF Regrouped
<1>9. x3 \o a \o Code4 \o d \o Code5 = x3 \o a \o Code4 \o t4
  <2> DEFINE x4 == x3 \o a \o Code4
  <2>1. x4 \in Seq(Int) /\ d \in Seq(Int) /\ Code5 \in Seq(Int)
    BY <1>1, <1>6, Codes, Join, Zenon
  <2> HIDE DEF x4
  <2>2. x4 \o d \o Code5 = x4 \o (d \o Code5)
    BY <2>1, ConcatAssociates, Zenon
  <2> QED
    BY <2>2, Zenon DEF x4
<1> HIDE DEF t4
<1>10. x3 \o a \o Code4 \o t4 = x3 \o t3
  BY <1>2, <1>8, Zenon
<1> HIDE DEF t3
<1>11. x3 \o t3 = x2 \o t2
  BY <1>2, <1>7, Zenon DEF x3
<1> QED
  BY <1>3, <1>5, <1>9, <1>10, <1>11, Zenon DEF x2

\* The program tells the values that were put into the template: every page of
\* sequence numbers of every emitter has an account of its own, so that no bit is
\* ever set for two VAAs (base-relayer.py:92-112).
THEOREM AccountsApart ==
  ASSUME NEW i \in Nat, NEW e \in Seq(Int), NEW a \in Nat, NEW d \in Seq(Int),
         NEW j \in Nat, NEW f \in Seq(Int), NEW b \in Nat, NEW c \in Seq(Int),
         CoreAccount(i, e, a, d) = CoreAccount(j, f, b, c)
  PROVE  i = j /\ e = f /\ a = b /\ d = c
<1> DEFINE ea == FromEmitter(e, a, d)
           fb == FromEmitter(f, b, c)
           ad == FromApp(a, d)
           bc == FromApp(b, c)
           dd == FromAddress(d)
           cc == FromAddress(c)
<1>1. FromIdx(i, e, a, d) = FromIdx(j, f, b, c)
  <2>1. CoreAccount(i, e, a, d) = FromIdx(i, e, a, d)
    BY Regroup
  <2>2. CoreAccount(j, f, b, c) = FromIdx(j, f, b, c)
    BY Regroup
  <2> QED
    BY <2>1, <2>2, Zenon
<1>2. /\ ea \in Seq(Int) /\ ad \in Seq(Int) /\ dd \in Seq(Int)
      /\ fb \in Seq(Int) /\ bc \in Seq(Int) /\ cc \in Seq(Int)
  BY PartsAreNumbers
<1>3. /\ Code1 \o (Uvarint[i] \o ea) = Code1 \o (Uvarint[j] \o fb)
      /\ ea = Code2 \o (WithLength(e) \o ad) /\ fb = Code2 \o (WithLength(f) \o bc)
      /\ ad = Code3 \o (Uvarint[a] \o dd) /\ bc = Code3 \o (Uvarint[b] \o cc)
      /\ dd = Code4 \o (WithLength(d) \o Code5) /\ cc = Code4 \o (WithLength(c) \o Code5)
  BY <1>1, Zenon DEF FromIdx, FromEmitter, FromApp, FromAddress
<1> HIDE DEF ea, fb, ad, bc, dd, cc
<1>4. /\ Code1 \in Seq(Int) /\ Code2 \in Seq(Int) /\ Code3 \in Seq(Int)
      /\ Code4 \in Seq(Int) /\ Code5 \in Seq(Int)
  BY Codes, Zenon
<1>5. i = j /\ ea = fb
  <2>1. SameNumber(Code1, i, j, ea, fb)
    BY <1>2, <1>4, NumberIsRead, Zenon
  <2> QED
    BY <1>3, <2>1, Zenon DEF SameNumber
<1>6. e = f /\ ad = bc
  <2>1. SameBytes(Code2, e, f, ad, bc)
    BY <1>2, <1>4, BytesAreRead, Zenon
  <2> QED
    BY <1>3, <1>5, <2>1, Zenon DEF SameBytes
<1>7. a = b /\ dd = cc
  <2>1. SameNumber(Code3, a, b, dd, cc)
    BY <1>2, <1>4, NumberIsRead, Zenon
  <2> QED
    BY <1>3, <1>6, <2>1, Zenon DEF SameNumber
<1>8. d = c
  <2>1. SameBytes(Code4, d, c, Code5, Code5)
    BY <1>4, BytesAreRead, Zenon
  <2> QED
    BY <1>3, <1>7, <2>1, Zenon DEF SameBytes
<1> QED
  BY <1>5, <1>6, <1>7, <1>8
=============================================================================
