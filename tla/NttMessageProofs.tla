-------------------------- MODULE NttMessageProofs --------------------------
(***************************************************************************)
(* The parsers and digest formulas of the scripts agree on every message,  *)
(* of any length, that states its lengths rightly; two of the tools' do    *)
(* not.                                                                    *)
(***************************************************************************)
EXTENDS NttMessage, SequenceTheorems, TLAPS

\* A slice within the string: its bytes, and how many.
LEMMA SliceWithin ==
  ASSUME NEW s \in Seq(Byte), NEW i \in Nat, NEW j \in i..Len(s)
  PROVE  /\ Slice(s, i, j) \in Seq(Byte)
         /\ Len(Slice(s, i, j)) = j - i
         /\ \A k \in 1..j - i : Slice(s, i, j)[k] = s[i + k]
<1>1. Len(s) \in Nat /\ i + 1 \in Int /\ j \in Int
  BY LenProperties
<1>2. \A k \in i + 1..j : s[k] \in Byte
  BY <1>1, ElementOfSeq
<1>3. /\ SubSeq(s, i + 1, j) \in Seq(Byte)
      /\ Len(SubSeq(s, i + 1, j)) = IF i + 1 <= j THEN j - (i + 1) + 1 ELSE 0
      /\ \A k \in 1..j - (i + 1) + 1 : SubSeq(s, i + 1, j)[k] = s[i + 1 + k - 1]
  BY <1>1, <1>2, SubSeqProperties
<1>4. \A k \in 1..j - i : SubSeq(s, i + 1, j)[k] = s[i + k]
  BY <1>1, <1>3
<1>5. Slice(s, i, j) = SubSeq(s, i + 1, j)
  BY <1>1 DEF Slice
<1> QED
  BY <1>1, <1>3, <1>4, <1>5

\* The same in two parts, with one hypothesis for the provers to match.
Within(s, i, j) == s \in Seq(Byte) /\ i \in Nat /\ j \in i..Len(s)

\* How long a slice is.
LEMMA SliceLength ==
  \A s, i, j : Within(s, i, j) => Slice(s, i, j) \in Seq(Byte) /\ Len(Slice(s, i, j)) = j - i
  BY SliceWithin DEF Within

\* What is in it.
LEMMA SliceAt ==
  \A s, i, j : Within(s, i, j) => \A k \in 1..j - i : Slice(s, i, j)[k] = s[i + k]
  BY SliceWithin DEF Within

\* Beyond it, a slice is cut off.
LEMMA SliceCut ==
  ASSUME NEW s \in Seq(Byte), NEW i \in Nat, NEW j \in Nat, i <= j
  PROVE  Slice(s, i, j) \in Seq(Byte) /\ Len(Slice(s, i, j)) \in 0..j - i
<1> DEFINE e == IF j < Len(s) THEN j ELSE Len(s)
<1>1. Len(s) \in Nat /\ i + 1 \in Int /\ e \in Int /\ e <= Len(s) /\ e <= j
  BY LenProperties
<1>2. Slice(s, i, j) = SubSeq(s, i + 1, e)
  BY DEF Slice
<1> HIDE DEF e
<1>3. \A k \in i + 1..e : s[k] \in Byte
  BY <1>1, ElementOfSeq
<1>4. /\ SubSeq(s, i + 1, e) \in Seq(Byte)
      /\ Len(SubSeq(s, i + 1, e)) = IF i + 1 <= e THEN e - (i + 1) + 1 ELSE 0
  BY <1>1, <1>3, SubSeqProperties
<1> QED
  BY <1>1, <1>2, <1>4

\* From is a slice up to the end.
LEMMA FromOf ==
  ASSUME NEW s \in Seq(Byte), NEW i \in 0..Len(s)
  PROVE  /\ From(s, i) \in Seq(Byte)
         /\ Len(From(s, i)) = Len(s) - i
         /\ \A k \in 1..Len(s) - i : From(s, i)[k] = s[i + k]
<1>1. Len(s) \in i..Len(s) /\ i \in Nat
  BY LenProperties
<1>2. /\ Slice(s, i, Len(s)) \in Seq(Byte)
      /\ Len(Slice(s, i, Len(s))) = Len(s) - i
      /\ \A k \in 1..Len(s) - i : Slice(s, i, Len(s))[k] = s[i + k]
  BY <1>1, SliceWithin
<1> QED
  BY <1>2 DEF From

\* Two bytes are a number, and the number those bytes.
LEMMA TwoBytes ==
  ASSUME NEW a \in Byte, NEW b \in Byte
  PROVE  Bytes2(256 * a + b) = <<a, b>>
<1>1. (256 * a + b) \div 256 = a /\ (256 * a + b) % 256 = b
  BY DEF Byte
<1> QED
  BY <1>1 DEF Bytes2

\* Two bytes, read as a length.
LEMMA Uint16Of ==
  ASSUME NEW s \in Seq(Byte), Len(s) = 2
  PROVE  Uint16(s) = 256 * s[1] + s[2] /\ s[1] \in Byte /\ s[2] \in Byte
  BY ElementOfSeq DEF Uint16

\* A byte is a number.
LEMMA ByteIsNumber == \A b \in Byte : b \in Nat
  BY DEF Byte

\* Fewer than two bytes, which the parsers read as well, also give a length.
LEMMA Uint16Nat ==
  ASSUME NEW s \in Seq(Byte), Len(s) \in 0..2
  PROVE  Uint16(s) \in Nat
<1>1. \A k \in 1..Len(s) : s[k] \in Nat
  <2>1. \A k \in 1..Len(s) : s[k] \in Byte
    BY ElementOfSeq, Zenon
  <2> QED
    BY <2>1, ByteIsNumber, Zenon
<1>2. CASE Len(s) = 0
  BY <1>2 DEF Uint16
<1>3. CASE Len(s) = 1
  BY <1>1, <1>3 DEF Uint16
<1>4. CASE Len(s) = 2
  <2>1. s[1] \in Nat /\ s[2] \in Nat
    BY <1>1, <1>4
  <2>2. Uint16(s) = 256 * s[1] + s[2]
    BY <1>4 DEF Uint16
  <2> QED
    BY <2>1, <2>2
<1> QED
  BY <1>2, <1>3, <1>4

\* The payload a manager is given, and its parts.
LEMMA ManagerPayloadOf ==
  ASSUME NEW p \in Seq(Byte)
  PROVE  ManagerPayload(p) \in Seq(Byte)
<1>1. Slice(p, 68, 70) \in Seq(Byte) /\ Len(Slice(p, 68, 70)) \in 0..2
  <2>1. 68 \in Nat /\ 70 \in Nat /\ 68 <= 70 /\ 70 - 68 = 2
    OBVIOUS
  <2>2. Slice(p, 68, 70) \in Seq(Byte) /\ Len(Slice(p, 68, 70)) \in 0..70 - 68
    BY <2>1, SliceCut, Zenon
  <2> QED
    BY <2>1, <2>2, Zenon
<1>2. Uint16(Slice(p, 68, 70)) \in Nat
  BY <1>1, Uint16Nat
<1>3. 70 + Uint16(Slice(p, 68, 70)) \in Nat /\ 70 <= 70 + Uint16(Slice(p, 68, 70))
  BY <1>2
<1> QED
  BY <1>3, SliceCut DEF ManagerPayload

\* The fields of a payload that parses, and how long they are.
LEMMA PartsOf ==
  ASSUME NEW p \in Seq(Byte), Parses(p)
  PROVE  LET mp == ManagerPayload(p) IN
         /\ mp \in Seq(Byte)
         /\ Len(mp) \in Nat
         /\ Len(mp) >= 66
         /\ Slice(mp, 0, 32) \in Seq(Byte) /\ Len(Slice(mp, 0, 32)) = 32
         /\ Slice(mp, 32, 64) \in Seq(Byte) /\ Len(Slice(mp, 32, 64)) = 32
         /\ Inner(p) \in Seq(Byte) /\ Len(Inner(p)) = Len(mp) - 64
         /\ Inner(p) = From(mp, 64)
<1> DEFINE mp == ManagerPayload(p)
<1>1. mp \in Seq(Byte)
  BY ManagerPayloadOf
<1>2. Len(mp) \in Nat /\ Len(mp) >= 66
  BY <1>1, LenProperties DEF Parses
<1> HIDE DEF mp
<1>3. /\ Slice(mp, 0, 32) \in Seq(Byte) /\ Len(Slice(mp, 0, 32)) = 32
      /\ Slice(mp, 32, 64) \in Seq(Byte) /\ Len(Slice(mp, 32, 64)) = 32
  <2>1. Within(mp, 0, 32) /\ Within(mp, 32, 64)
    BY <1>1, <1>2 DEF Within
  <2>2. 32 - 0 = 32 /\ 64 - 32 = 32
    OBVIOUS
  <2>3. Slice(mp, 0, 32) \in Seq(Byte) /\ Len(Slice(mp, 0, 32)) = 32 - 0
    BY <2>1, SliceLength, Zenon
  <2>4. Slice(mp, 32, 64) \in Seq(Byte) /\ Len(Slice(mp, 32, 64)) = 64 - 32
    BY <2>1, SliceLength, Zenon
  <2> QED
    BY <2>2, <2>3, <2>4, Zenon
<1>4. From(mp, 64) \in Seq(Byte) /\ Len(From(mp, 64)) = Len(mp) - 64
  <2>1. 64 \in 0..Len(mp)
    BY <1>2
  <2> QED
    BY <1>1, <2>1, FromOf
<1> QED
  BY <1>1, <1>2, <1>3, <1>4 DEF Inner, mp
-----------------------------------------------------------------------------
\* Step 1 declares, and step 2 looks up, the box the transceiver manager counts
\* attestations in: parse_ntt and parse_ntt_fields compute the contracts' digest,
\* of every payload (base-relayer.py:225-231, ntt_execute.py:151-157).
THEOREM DigestsAgree ==
  ASSUME NEW p
  PROVE  AttestDigest(p) = ReferenceDigest(p) /\ LookupDigest(p) = ReferenceDigest(p)
  BY DEF AttestDigest, LookupDigest, ReferenceDigest, MessageDigest

\* The transfer is what follows its length.
LEMMA InnerIsPrefixed ==
  ASSUME NEW p \in Seq(Byte), WellFormed(p)
  PROVE  LET transfer == From(Inner(p), 2) IN
         Inner(p) = Bytes2(Len(transfer)) \o transfer
<1> DEFINE mp == ManagerPayload(p)
           inner == Inner(p)
           transfer == From(inner, 2)
           length == Slice(mp, 64, 66)
<1>1. /\ mp \in Seq(Byte) /\ Len(mp) \in Nat /\ Len(mp) >= 66
      /\ inner \in Seq(Byte) /\ Len(inner) = Len(mp) - 64
      /\ inner = From(mp, 64)
  BY PartsOf DEF WellFormed
<1>2. Len(mp) = 66 + Uint16(length)
  BY DEF WellFormed
<1> HIDE DEF mp, inner
<1>3. /\ transfer \in Seq(Byte) /\ Len(transfer) = Len(mp) - 66
      /\ \A k \in 1..Len(mp) - 66 : transfer[k] = inner[2 + k]
  <2>1. 2 \in 0..Len(inner) /\ Len(inner) - 2 = Len(mp) - 66
    BY <1>1
  <2>2. /\ From(inner, 2) \in Seq(Byte) /\ Len(From(inner, 2)) = Len(inner) - 2
        /\ \A k \in 1..Len(inner) - 2 : From(inner, 2)[k] = inner[2 + k]
    BY <1>1, <2>1, FromOf, Zenon
  <2> QED
    BY <2>1, <2>2, Zenon
<1>4. /\ length \in Seq(Byte) /\ Len(length) = 2
      /\ \A k \in 1..2 : length[k] = mp[64 + k]
  <2>1. Within(mp, 64, 66)
    BY <1>1 DEF Within
  <2>2. 66 - 64 = 2
    BY <1>1
  <2>3. Slice(mp, 64, 66) \in Seq(Byte) /\ Len(Slice(mp, 64, 66)) = 66 - 64
    BY <2>1, SliceLength, Zenon
  <2>4. \A k \in 1..66 - 64 : Slice(mp, 64, 66)[k] = mp[64 + k]
    BY <2>1, SliceAt
  <2> QED
    BY <2>2, <2>3, <2>4, Zenon
<1>5. \A k \in 1..Len(mp) - 64 : inner[k] = mp[64 + k]
  <2>1. 64 \in 0..Len(mp)
    BY <1>1
  <2> QED
    BY <1>1, <2>1, FromOf
<1> HIDE DEF transfer, length
<1>6. /\ Len(transfer) = 256 * length[1] + length[2]
      /\ length[1] \in Byte /\ length[2] \in Byte
  <2>1. Uint16(length) = 256 * length[1] + length[2] /\ length[1] \in Byte /\ length[2] \in Byte
    BY <1>4, Uint16Of
  <2> QED
    <3>1. Len(transfer) = Uint16(length)
      <4>1. Uint16(length) \in Int
        BY <1>4, Uint16Nat
      <4> QED
        BY <1>1, <1>2, <1>3, <4>1
    <3> QED
      BY <2>1, <3>1, Zenon
<1>7. Bytes2(Len(transfer)) = <<length[1], length[2]>>
  BY <1>6, TwoBytes
<1> DEFINE two == <<length[1], length[2]>>
<1>8. two \in Seq(Byte) /\ Len(two) = 2 /\ two[1] = inner[1] /\ two[2] = inner[2]
  BY <1>1, <1>4, <1>5, <1>6
<1> HIDE DEF two
<1>9. /\ two \o transfer \in Seq(Byte)
      /\ Len(two \o transfer) = 2 + Len(transfer)
      /\ \A k \in 1..2 + Len(transfer) :
           (two \o transfer)[k] = IF k <= 2 THEN two[k] ELSE transfer[k - 2]
  <2>1. /\ two \o transfer \in Seq(Byte)
        /\ Len(two \o transfer) = Len(two) + Len(transfer)
        /\ \A k \in 1..Len(two) + Len(transfer) :
             (two \o transfer)[k] = IF k <= Len(two) THEN two[k] ELSE transfer[k - Len(two)]
    BY <1>3, <1>8, ConcatProperties, Zenon
  <2> QED
    BY <1>8, <2>1, Zenon
<1>10. \A k \in 1..Len(inner) : inner[k] = (two \o transfer)[k]
  <2> SUFFICES ASSUME NEW k \in 1..Len(inner) PROVE inner[k] = (two \o transfer)[k]
    OBVIOUS
  <2>1. CASE k <= 2
    BY <1>1, <1>3, <1>8, <1>9, <2>1
  <2>2. CASE k > 2
    <3>1. k - 2 \in 1..Len(mp) - 66 /\ 2 + (k - 2) = k /\ k \in 1..2 + Len(transfer)
      BY <1>1, <1>3, <2>2
    <3>2. transfer[k - 2] = inner[k]
      BY <1>3, <3>1
    <3> QED
      BY <1>9, <2>2, <3>1, <3>2
  <2>3. k <= 2 \/ k > 2
    BY <1>1
  <2> QED
    BY <2>1, <2>2, <2>3, Zenon
<1>11. inner = two \o transfer
  <2>1. Len(inner) = 2 + Len(transfer)
    BY <1>1, <1>3
  <2> QED
    BY <1>1, <1>9, <1>10, <2>1, SeqEqual, Zenon
<1> QED
  BY <1>7, <1>11 DEF two, transfer, inner

\* Step 2 declares the boxes execute_message reads and writes: with the length
\* that the ABI puts before the payload it is given, the manager computes the
\* digests of ntt_execute.py:152-164, for a message to it.
THEOREM ExecutedBoxesAreDeclared ==
  ASSUME NEW p \in Seq(Byte), WellFormed(p)
  PROVE  /\ ExecutedDigest(p) = MsgDigest(p)
         /\ IsForUs(p) => ExecutedDigest(p) = LookupDigest(p)
<1>1. Inner(p) = Bytes2(Len(From(Inner(p), 2))) \o From(Inner(p), 2)
  BY InnerIsPrefixed
<1>2. ExecutedDigest(p) = MsgDigest(p)
  BY <1>1 DEF ExecutedDigest, MsgDigest, MessageDigest
<1>3. IsForUs(p) => LookupDigest(p) = MsgDigest(p)
  BY DEF IsForUs, LookupDigest, MsgDigest, Inner
<1> QED
  BY <1>2, <1>3

\* The transfer of a message to this chain.
LEMMA TransferOf ==
  ASSUME NEW p \in Seq(Byte), WellFormed(p), IsForUs(p)
  PROVE  /\ ManagerPayload(p) \in Seq(Byte) /\ Len(ManagerPayload(p)) \in Nat
         /\ InnerBody(p) \in Seq(Byte) /\ Len(InnerBody(p)) \in Nat
         /\ Len(InnerBody(p)) = Len(ManagerPayload(p)) - 66
         /\ Len(InnerBody(p)) >= 79
         /\ \A k \in 1..Len(InnerBody(p)) : InnerBody(p)[k] = ManagerPayload(p)[66 + k]
<1> DEFINE mp == ManagerPayload(p)
           body == InnerBody(p)
           n == Uint16(Slice(mp, 64, 66))
<1>1. mp \in Seq(Byte) /\ Len(mp) \in Nat /\ Len(mp) >= 66
  BY PartsOf DEF WellFormed
<1>2. Len(mp) = 66 + n
  BY DEF WellFormed
<1>3. body = Slice(mp, 66, 66 + n)
  BY DEF InnerBody
<1>4. n \in Nat
  <2>1. Within(mp, 64, 66)
    BY <1>1 DEF Within
  <2>2. 66 - 64 \in 0..2
    BY <1>1
  <2>3. Slice(mp, 64, 66) \in Seq(Byte) /\ Len(Slice(mp, 64, 66)) = 66 - 64
    BY <2>1, SliceLength, Zenon
  <2>4. Len(Slice(mp, 64, 66)) \in 0..2
    BY <2>2, <2>3, Zenon
  <2> QED
    BY <2>3, <2>4, Uint16Nat, Zenon
<1>5. Len(body) >= 79
  BY DEF IsForUs, RecipientChain, Algorand
<1> HIDE DEF mp, body, n
<1>6. body \in Seq(Byte) /\ Len(body) = n /\ \A k \in 1..n : body[k] = mp[66 + k]
  <2>1. Within(mp, 66, 66 + n)
    BY <1>1, <1>2, <1>4 DEF Within
  <2>2. (66 + n) - 66 = n
    BY <1>1, <1>2, <1>4
  <2>3. /\ Slice(mp, 66, 66 + n) \in Seq(Byte)
        /\ Len(Slice(mp, 66, 66 + n)) = (66 + n) - 66
    BY <2>1, SliceLength, Zenon
  <2>4. \A k \in 1..(66 + n) - 66 : Slice(mp, 66, 66 + n)[k] = mp[66 + k]
    BY <2>1, SliceAt
  <2> QED
    BY <1>3, <2>2, <2>3, <2>4, Zenon
<1>7. n = Len(mp) - 66
  BY <1>1, <1>2, <1>4
<1>8. /\ Len(body) \in Nat /\ Len(body) = Len(mp) - 66
      /\ \A k \in 1..Len(body) : body[k] = mp[66 + k]
  BY <1>4, <1>6, <1>7, Zenon
<1> QED
  BY <1>1, <1>5, <1>6, <1>8, Zenon DEF mp, body

\* The two step scripts take the same recipient out of a message to this chain,
\* at a fixed place in one and by the message's lengths in the other, so step 1
\* prepares the account step 2 mints to; and it is a whole address, which parse_ntt
\* can encode (base-relayer.py:232, ntt_execute.py:141).
THEOREM RecipientsAgree ==
  ASSUME NEW p \in Seq(Byte), WellFormed(p), IsForUs(p)
  PROVE  AttestRecipient(p) = ExecuteRecipient(p) /\ ~ParseRaises(p)
<1> DEFINE mp == ManagerPayload(p)
           body == InnerBody(p)
<1>1. /\ mp \in Seq(Byte) /\ Len(mp) \in Nat
      /\ body \in Seq(Byte) /\ Len(body) \in Nat
      /\ Len(body) = Len(mp) - 66 /\ Len(body) >= 79
      /\ \A k \in 1..Len(body) : body[k] = mp[66 + k]
  BY TransferOf, Zenon
<1> HIDE DEF mp, body
<1> DEFINE i == 66 + 45
           j == 66 + 77
           a == Slice(mp, i, j)
           b == Slice(body, 45, 77)
<1>2. AttestRecipient(p) = a
  BY Zenon DEF AttestRecipient, mp
<1>3. i = 111 /\ j = 143
  OBVIOUS
<1> HIDE DEF i, j
<1>4. a \in Seq(Byte) /\ Len(a) = 32 /\ \A k \in 1..32 : a[k] = mp[i + k]
  <2>1. Within(mp, i, j)
    BY <1>1, <1>3 DEF Within
  <2>2. j - i = 32
    BY <1>1, <1>3
  <2>3. Slice(mp, i, j) \in Seq(Byte) /\ Len(Slice(mp, i, j)) = j - i
    BY <2>1, SliceLength, Zenon
  <2>4. \A k \in 1..j - i : Slice(mp, i, j)[k] = mp[i + k]
    BY <2>1, SliceAt
  <2> QED
    BY <2>2, <2>3, <2>4, Zenon
<1>5. b \in Seq(Byte) /\ Len(b) = 32 /\ \A k \in 1..32 : b[k] = body[45 + k]
  <2>1. Within(body, 45, 77)
    BY <1>1 DEF Within
  <2>2. 77 - 45 = 32
    BY <1>1
  <2>3. Slice(body, 45, 77) \in Seq(Byte) /\ Len(Slice(body, 45, 77)) = 77 - 45
    BY <2>1, SliceLength, Zenon
  <2>4. \A k \in 1..77 - 45 : Slice(body, 45, 77)[k] = body[45 + k]
    BY <2>1, SliceAt
  <2> QED
    BY <2>2, <2>3, <2>4, Zenon
<1> HIDE DEF a, b
<1>6. a = b
  <2>1. ASSUME NEW k \in 1..32 PROVE a[k] = b[k]
    <3>1. 45 + k \in 1..Len(body) /\ 66 + (45 + k) = i + k
      BY <1>1, <1>3
    <3>2. body[45 + k] = mp[i + k]
      BY <1>1, <3>1, Zenon
    <3> QED
      BY <1>4, <1>5, <3>2, Zenon
  <2>2. Len(a) = Len(b) /\ \A k \in 1..Len(a) : a[k] = b[k]
    BY <1>4, <1>5, <2>1, Zenon
  <2> QED
    BY <1>4, <1>5, <2>2, SeqEqual, Zenon
<1>7. ExecuteRecipient(p) = b
  <2>1. Len(body) >= 77
    BY <1>1
  <2> QED
    BY <2>1, Zenon DEF ExecuteRecipient, b, body
<1>8. Len(AttestRecipient(p)) \notin 1..31
  <2>1. 32 \notin 1..31
    OBVIOUS
  <2> QED
    BY <1>2, <1>4, <2>1, Zenon
<1> QED
  BY <1>2, <1>6, <1>7, <1>8 DEF ParseRaises
-----------------------------------------------------------------------------
\* Strings that agree on a first part of the same length agree on the rest.
SameUpTo(a, b, c, d) ==
  /\ a \in Seq(Byte) /\ b \in Seq(Byte) /\ c \in Seq(Byte) /\ d \in Seq(Byte)
  /\ Len(a) = Len(c) /\ a \o b = c \o d

\* Where fields of the same length end, their strings part.
LEMMA Cancel ==
  ASSUME NEW a, NEW b, NEW c, NEW d, SameUpTo(a, b, c, d)
  PROVE  a = c /\ b = d
<1> USE DEF SameUpTo
<1>1. Len(a) \in Nat /\ Len(b) \in Nat /\ Len(c) \in Nat /\ Len(d) \in Nat
  BY LenProperties
<1>2. /\ Len(a \o b) = Len(a) + Len(b)
      /\ \A k \in 1..Len(a) + Len(b) :
           (a \o b)[k] = IF k <= Len(a) THEN a[k] ELSE b[k - Len(a)]
  BY ConcatProperties, Zenon
<1>3. /\ Len(c \o d) = Len(c) + Len(d)
      /\ \A k \in 1..Len(c) + Len(d) :
           (c \o d)[k] = IF k <= Len(c) THEN c[k] ELSE d[k - Len(c)]
  BY ConcatProperties, Zenon
<1>4. a = c
  <2>1. ASSUME NEW k \in 1..Len(a) PROVE a[k] = c[k]
    <3>1. k \in 1..Len(a) + Len(b) /\ k \in 1..Len(c) + Len(d) /\ k <= Len(a)
      BY <1>1
    <3> QED
      BY <1>2, <1>3, <3>1, Zenon
  <2> QED
    BY <2>1, SeqEqual, Zenon
<1> QED
  BY <1>4, ConcatSimplifications

\* The six parts every digest of a message is taken of.
Strings(a, b, c, d, e, f) ==
  /\ a \in Seq(Byte) /\ b \in Seq(Byte) /\ c \in Seq(Byte)
  /\ d \in Seq(Byte) /\ e \in Seq(Byte) /\ f \in Seq(Byte)

\* The length of six strings in a row.
LEMMA SixParts ==
  ASSUME NEW a, NEW b, NEW c, NEW d, NEW e, NEW f, Strings(a, b, c, d, e, f)
  PROVE  Len(a \o b \o c \o d \o e \o f)
           = Len(a) + Len(b) + Len(c) + Len(d) + Len(e) + Len(f)
<1> USE DEF Strings
<1>1. a \o b \in Seq(Byte) /\ Len(a \o b) = Len(a) + Len(b)
  BY ConcatProperties, Zenon
<1>2. a \o b \o c \in Seq(Byte) /\ Len(a \o b \o c) = Len(a \o b) + Len(c)
  BY <1>1, ConcatProperties, Zenon
<1>3. /\ a \o b \o c \o d \in Seq(Byte)
      /\ Len(a \o b \o c \o d) = Len(a \o b \o c) + Len(d)
  BY <1>2, ConcatProperties, Zenon
<1>4. /\ a \o b \o c \o d \o e \in Seq(Byte)
      /\ Len(a \o b \o c \o d \o e) = Len(a \o b \o c \o d) + Len(e)
  BY <1>3, ConcatProperties, Zenon
<1>5. Len(a \o b \o c \o d \o e \o f) = Len(a \o b \o c \o d \o e) + Len(f)
  BY <1>4, ConcatProperties, Zenon
<1> QED
  BY <1>1, <1>2, <1>3, <1>4, <1>5, Zenon

\* Strings made of parts of the same lengths, but for the last, have the same
\* parts.
SamePartsUpTo(a, b, c, d, e, f, t, u, v, w, x, y) ==
  /\ Strings(a, b, c, d, e, f) /\ Strings(t, u, v, w, x, y)
  /\ Len(a) = Len(t) /\ Len(b) = Len(u) /\ Len(c) = Len(v) /\ Len(d) = Len(w)
  /\ Len(e) = Len(x)
  /\ a \o b \o c \o d \o e \o f = t \o u \o v \o w \o x \o y

\* Cancel, field by field.
LEMMA SameParts ==
  ASSUME NEW a, NEW b, NEW c, NEW d, NEW e, NEW f,
         NEW t, NEW u, NEW v, NEW w, NEW x, NEW y,
         SamePartsUpTo(a, b, c, d, e, f, t, u, v, w, x, y)
  PROVE  a = t /\ b = u /\ d = w /\ e = x /\ f = y
<1> USE DEF Strings, SamePartsUpTo
<1> DEFINE l2 == a \o b
           l3 == l2 \o c
           l4 == l3 \o d
           l5 == l4 \o e
           r2 == t \o u
           r3 == r2 \o v
           r4 == r3 \o w
           r5 == r4 \o x
<1>1. /\ l5 \o f = r5 \o y
      /\ l2 = a \o b /\ l3 = l2 \o c /\ l4 = l3 \o d /\ l5 = l4 \o e
      /\ r2 = t \o u /\ r3 = r2 \o v /\ r4 = r3 \o w /\ r5 = r4 \o x
  OBVIOUS
<1> HIDE DEF l2, l3, l4, l5, r2, r3, r4, r5
<1>2. l2 \in Seq(Byte) /\ r2 \in Seq(Byte) /\ Len(l2) = Len(r2)
  <2>1. l2 \in Seq(Byte) /\ Len(l2) = Len(a) + Len(b)
    BY <1>1, ConcatProperties, Zenon
  <2>2. r2 \in Seq(Byte) /\ Len(r2) = Len(t) + Len(u)
    BY <1>1, ConcatProperties, Zenon
  <2> QED
    BY <2>1, <2>2, Zenon
<1>3. l3 \in Seq(Byte) /\ r3 \in Seq(Byte) /\ Len(l3) = Len(r3)
  <2>1. l3 \in Seq(Byte) /\ Len(l3) = Len(l2) + Len(c)
    BY <1>1, <1>2, ConcatProperties, Zenon
  <2>2. r3 \in Seq(Byte) /\ Len(r3) = Len(r2) + Len(v)
    BY <1>1, <1>2, ConcatProperties, Zenon
  <2> QED
    BY <1>2, <2>1, <2>2, Zenon
<1>4. l4 \in Seq(Byte) /\ r4 \in Seq(Byte) /\ Len(l4) = Len(r4)
  <2>1. l4 \in Seq(Byte) /\ Len(l4) = Len(l3) + Len(d)
    BY <1>1, <1>3, ConcatProperties, Zenon
  <2>2. r4 \in Seq(Byte) /\ Len(r4) = Len(r3) + Len(w)
    BY <1>1, <1>3, ConcatProperties, Zenon
  <2> QED
    BY <1>3, <2>1, <2>2, Zenon
<1>5. l5 \in Seq(Byte) /\ r5 \in Seq(Byte) /\ Len(l5) = Len(r5)
  <2>1. l5 \in Seq(Byte) /\ Len(l5) = Len(l4) + Len(e)
    BY <1>1, <1>4, ConcatProperties, Zenon
  <2>2. r5 \in Seq(Byte) /\ Len(r5) = Len(r4) + Len(x)
    BY <1>1, <1>4, ConcatProperties, Zenon
  <2> QED
    BY <1>4, <2>1, <2>2, Zenon
<1>6. l5 = r5 /\ f = y
  <2>1. SameUpTo(l5, f, r5, y)
    BY <1>1, <1>5 DEF SameUpTo
  <2> QED
    BY <2>1, Cancel, Zenon
<1>7. l4 = r4 /\ e = x
  <2>1. SameUpTo(l4, e, r4, x)
    BY <1>1, <1>4, <1>6, Zenon DEF SameUpTo
  <2> QED
    BY <2>1, Cancel, Zenon
<1>8. l3 = r3 /\ d = w
  <2>1. SameUpTo(l3, d, r3, w)
    BY <1>1, <1>3, <1>7, Zenon DEF SameUpTo
  <2> QED
    BY <2>1, Cancel, Zenon
<1>9. l2 = r2
  <2>1. SameUpTo(l2, c, r2, v)
    BY <1>1, <1>2, <1>8, Zenon DEF SameUpTo
  <2> QED
    BY <2>1, Cancel, Zenon
<1>10. a = t /\ b = u
  <2>1. SameUpTo(a, b, t, u)
    BY <1>1, <1>9, Zenon DEF SameUpTo
  <2> QED
    BY <2>1, Cancel, Zenon
<1> QED
  BY <1>6, <1>7, <1>8, <1>10

\* What the message has at fixed places is there.
LEMMA HeaderOf ==
  ASSUME NEW p \in Seq(Byte), Parses(p)
  PROVE  /\ SrcNtt(p) \in Seq(Byte) /\ Len(SrcNtt(p)) = 32
         /\ DstNtt(p) \in Seq(Byte) /\ Len(DstNtt(p)) = 32
<1> DEFINE n == Uint16(Slice(p, 68, 70))
           e == IF 70 + n < Len(p) THEN 70 + n ELSE Len(p)
<1>1. Len(p) \in Nat
  BY LenProperties
<1>2. Len(p) > 70
  <2> SUFFICES ASSUME Len(p) <= 70 PROVE FALSE
    BY <1>1
  <2>1. n \in Nat
    <3>1. 68 \in Nat /\ 70 \in Nat /\ 68 <= 70 /\ 70 - 68 = 2
      OBVIOUS
    <3>2. Slice(p, 68, 70) \in Seq(Byte) /\ Len(Slice(p, 68, 70)) \in 0..70 - 68
      BY <3>1, SliceCut, Zenon
    <3> QED
      BY <3>1, <3>2, Uint16Nat, Zenon
  <2>2. e \in Int /\ e < 71
    BY <1>1, <2>1
  <2> HIDE DEF e
  <2>3. SubSeq(p, 71, e) = <<>>
    BY <2>2, SubSeqEmpty
  <2>4. ManagerPayload(p) = SubSeq(p, 70 + 1, e)
    BY Zenon DEF ManagerPayload, Slice, e
  <2>5. Len(ManagerPayload(p)) = 0
    <3>1. 70 + 1 = 71
      OBVIOUS
    <3>2. ManagerPayload(p) = <<>>
      BY <2>3, <2>4, <3>1, Zenon
    <3> QED
      BY <3>2
  <2> QED
    BY <2>5 DEF Parses
<1>3. Within(p, 4, 36) /\ Within(p, 36, 68)
  BY <1>1, <1>2 DEF Within
<1>4. 36 - 4 = 32 /\ 68 - 36 = 32
  OBVIOUS
<1>5. Slice(p, 4, 36) \in Seq(Byte) /\ Len(Slice(p, 4, 36)) = 36 - 4
  BY <1>3, SliceLength, Zenon
<1>6. Slice(p, 36, 68) \in Seq(Byte) /\ Len(Slice(p, 36, 68)) = 68 - 36
  BY <1>3, SliceLength, Zenon
<1> QED
  BY <1>4, <1>5, <1>6, Zenon DEF SrcNtt, DstNtt

\* The fields of a message, all of fixed length but the last.
Fields(id, user, source, handler, payload) ==
  /\ id \in Seq(Byte) /\ Len(id) = 32
  /\ user \in Seq(Byte) /\ Len(user) = 32
  /\ source \in Seq(Byte) /\ Len(source) = 32
  /\ handler \in Seq(Byte) /\ Len(handler) = 32
  /\ payload \in Seq(Byte)

\* The digest tells the fields: all but the last have a fixed width.
LEMMA DigestTells ==
  ASSUME NEW a, NEW b, NEW d, NEW e, NEW f, NEW t, NEW u, NEW w, NEW x, NEW y,
         Fields(a, b, d, e, f), Fields(t, u, w, x, y),
         MessageDigest(a, b, d, e, f) = MessageDigest(t, u, w, x, y)
  PROVE  a = t /\ b = u /\ d = w /\ e = x /\ f = y
<1>1. a \o b \o Chain \o d \o e \o f = t \o u \o Chain \o w \o x \o y
  BY DEF MessageDigest, Keccak
<1>2. Strings(a, b, Chain, d, e, f) /\ Strings(t, u, Chain, w, x, y)
  BY ChainAssumption, Zenon DEF Fields, Strings
<1>3. Len(a) = Len(t) /\ Len(b) = Len(u) /\ Len(d) = Len(w) /\ Len(e) = Len(x)
  BY Zenon DEF Fields
<1>4. SamePartsUpTo(a, b, Chain, d, e, f, t, u, Chain, w, x, y)
  BY <1>1, <1>2, <1>3, Zenon DEF SamePartsUpTo
<1> QED
  BY <1>4, SameParts

\* id and sender, the first two fields of the manager's message.
Id(p) == Slice(ManagerPayload(p), 0, 32)
User(p) == Slice(ManagerPayload(p), 32, 64)

\* The fields step 2 hashes are of that form, with the manager of either side.
LEMMA FieldsOf ==
  ASSUME NEW p \in Seq(Byte), Parses(p)
  PROVE  /\ Fields(Id(p), User(p), SrcNtt(p), DstNtt(p), Inner(p))
         /\ Fields(Id(p), User(p), SrcNtt(p), Handler, Inner(p))
<1>1. /\ Id(p) \in Seq(Byte) /\ Len(Id(p)) = 32
      /\ User(p) \in Seq(Byte) /\ Len(User(p)) = 32
      /\ Inner(p) \in Seq(Byte)
  BY PartsOf, Zenon DEF Id, User
<1>2. /\ SrcNtt(p) \in Seq(Byte) /\ Len(SrcNtt(p)) = 32
      /\ DstNtt(p) \in Seq(Byte) /\ Len(DstNtt(p)) = 32
  BY HeaderOf, Zenon
<1> QED
  BY <1>1, <1>2, HandlerAssumption, Zenon DEF Fields

\* The manager keeps one box for every message: messages with the same digest
\* agree in all fields, so that none is skipped as executed already for another,
\* however long the transfers (ntt_execute.py:160-164, preflight 232-236).
THEOREM OneBoxPerMessage ==
  ASSUME NEW p \in Seq(Byte), Parses(p), NEW q \in Seq(Byte), Parses(q),
         MsgDigest(p) = MsgDigest(q)
  PROVE  /\ Id(p) = Id(q) /\ User(p) = User(q)
         /\ SrcNtt(p) = SrcNtt(q) /\ DstNtt(p) = DstNtt(q) /\ Inner(p) = Inner(q)
<1>1. \A r : MsgDigest(r) = MessageDigest(Id(r), User(r), SrcNtt(r), DstNtt(r), Inner(r))
  BY Zenon DEF MsgDigest, MessageDigest, Id, User
<1>2. /\ Fields(Id(p), User(p), SrcNtt(p), DstNtt(p), Inner(p))
      /\ Fields(Id(q), User(q), SrcNtt(q), DstNtt(q), Inner(q))
  BY FieldsOf, Zenon
<1>3. MessageDigest(Id(p), User(p), SrcNtt(p), DstNtt(p), Inner(p))
        = MessageDigest(Id(q), User(q), SrcNtt(q), DstNtt(q), Inner(q))
  BY <1>1, Zenon
<1> QED
  BY <1>2, <1>3, DigestTells

\* So does the transceiver manager: messages attested under one digest agree in
\* all fields that are in it, so that no message passes step 2's preflight on the
\* attestation of another (ntt_execute.py:151-157, preflight 224-230).
THEOREM OneBoxPerAttestation ==
  ASSUME NEW p \in Seq(Byte), Parses(p), NEW q \in Seq(Byte), Parses(q),
         LookupDigest(p) = LookupDigest(q)
  PROVE  Id(p) = Id(q) /\ User(p) = User(q) /\ SrcNtt(p) = SrcNtt(q) /\ Inner(p) = Inner(q)
<1>1. \A r : LookupDigest(r) = MessageDigest(Id(r), User(r), SrcNtt(r), Handler, Inner(r))
  BY Zenon DEF LookupDigest, MessageDigest, Id, User, Inner
<1>2. /\ Fields(Id(p), User(p), SrcNtt(p), Handler, Inner(p))
      /\ Fields(Id(q), User(q), SrcNtt(q), Handler, Inner(q))
  BY FieldsOf, Zenon
<1>3. MessageDigest(Id(p), User(p), SrcNtt(p), Handler, Inner(p))
        = MessageDigest(Id(q), User(q), SrcNtt(q), Handler, Inner(q))
  BY <1>1, Zenon
<1> QED
  BY <1>2, <1>3, DigestTells

\* What a byte can hold.
LEMMA ByteIsSmall == \A b \in Byte : b \in Nat /\ b < 256
  BY DEF Byte

FitsTwoBytes(n) == n \in Nat /\ n < 65536

\* A length that fits two bytes becomes two bytes.
LEMMA Bytes2Fit == \A n : FitsTwoBytes(n) => Bytes2(n) \in Seq(Byte)
<1> SUFFICES ASSUME NEW n, FitsTwoBytes(n) PROVE Bytes2(n) \in Seq(Byte)
  OBVIOUS
<1>1. n \div 256 \in Int /\ n \div 256 >= 0 /\ n \div 256 <= 255
  BY DEF FitsTwoBytes
<1>2. n % 256 \in Int /\ n % 256 >= 0 /\ n % 256 <= 255
  BY DEF FitsTwoBytes
<1>3. \A a, b \in Byte : <<a, b>> \in Seq(Byte)
  OBVIOUS
<1>4. n \div 256 \in Byte /\ n % 256 \in Byte
  BY <1>1, <1>2 DEF Byte
<1> DEFINE high == n \div 256
           low == n % 256
<1>5. Bytes2(n) = <<high, low>>
  BY DEF Bytes2
<1>6. high \in Byte /\ low \in Byte
  BY <1>4
<1> HIDE DEF high, low
<1> QED
  BY <1>3, <1>5, <1>6, Zenon

\* A manager's message has the length its two bytes say, at most.
LEMMA ManagerPayloadFits ==
  ASSUME NEW p \in Seq(Byte)
  PROVE  FitsTwoBytes(Len(ManagerPayload(p)))
<1> DEFINE length == Slice(p, 68, 70)
<1>1. length \in Seq(Byte) /\ Len(length) \in 0..2
  <2>1. 68 \in Nat /\ 70 \in Nat /\ 68 <= 70 /\ 70 - 68 = 2
    OBVIOUS
  <2>2. Slice(p, 68, 70) \in Seq(Byte) /\ Len(Slice(p, 68, 70)) \in 0..70 - 68
    BY <2>1, SliceCut, Zenon
  <2> QED
    BY <2>1, <2>2, Zenon
<1> HIDE DEF length
<1>2. Uint16(length) \in Nat /\ Uint16(length) < 65536
  <2>1. \A k \in 1..Len(length) : length[k] \in Byte
    BY <1>1, ElementOfSeq, Zenon
  <2>2. \A k \in 1..Len(length) : length[k] \in Nat /\ length[k] < 256
    BY <2>1, ByteIsSmall, Zenon
  <2>3. CASE Len(length) = 0
    BY <2>3 DEF Uint16
  <2>4. CASE Len(length) = 1
    BY <2>2, <2>4 DEF Uint16
  <2>5. CASE Len(length) = 2
    <3>1. length[1] \in Nat /\ length[1] < 256 /\ length[2] \in Nat /\ length[2] < 256
      BY <2>2, <2>5
    <3>2. Uint16(length) = 256 * length[1] + length[2]
      BY <2>5 DEF Uint16
    <3> QED
      BY <3>1, <3>2
  <2> QED
    BY <1>1, <2>3, <2>4, <2>5
<1>3. ManagerPayload(p) = Slice(p, 70, 70 + Uint16(length))
  BY Zenon DEF ManagerPayload, length
<1> DEFINE to == 70 + Uint16(length)
<1>4. 70 \in Nat /\ to \in Nat /\ 70 <= to /\ FitsTwoBytes(to - 70)
  BY <1>2 DEF FitsTwoBytes
<1> HIDE DEF to
<1>5. Slice(p, 70, to) \in Seq(Byte) /\ Len(Slice(p, 70, to)) \in 0..to - 70
  BY <1>4, SliceCut
<1>6. Len(ManagerPayload(p)) \in 0..to - 70
  BY <1>3, <1>5, Zenon DEF to
<1> QED
  BY <1>4, <1>6 DEF FitsTwoBytes

\* The transfer as it is in the contract's digest, and the other fields there.
Sent(p) == LET transfer == From(Inner(p), 2) IN Bytes2(Len(transfer)) \o transfer

\* The fields the contract hashes are of that form too.
LEMMA ExecutedFields ==
  ASSUME NEW p \in Seq(Byte), Parses(p)
  PROVE  Fields(Id(p), User(p), SrcNtt(p), DstNtt(p), Sent(p))
<1> DEFINE inner == Inner(p)
           transfer == From(inner, 2)
<1>1. inner \in Seq(Byte) /\ Len(inner) >= 2 /\ FitsTwoBytes(Len(inner))
  <2>1. /\ Inner(p) \in Seq(Byte) /\ Len(Inner(p)) = Len(ManagerPayload(p)) - 64
        /\ Len(ManagerPayload(p)) >= 66
    BY PartsOf, Zenon
  <2> QED
    BY <2>1, ManagerPayloadFits DEF FitsTwoBytes
<1> HIDE DEF inner
<1>2. transfer \in Seq(Byte) /\ Len(transfer) = Len(inner) - 2
  BY <1>1, FromOf DEF FitsTwoBytes
<1>3. FitsTwoBytes(Len(transfer))
  BY <1>1, <1>2 DEF FitsTwoBytes
<1> HIDE DEF transfer
<1>4. Bytes2(Len(transfer)) \in Seq(Byte)
  BY <1>3, Bytes2Fit, Zenon
<1>5. Bytes2(Len(transfer)) \o transfer \in Seq(Byte)
  BY <1>2, <1>4, ConcatProperties
<1>6. Sent(p) \in Seq(Byte)
  BY <1>5, Zenon DEF Sent, transfer, inner
<1> QED
  BY <1>6, FieldsOf, Zenon DEF Fields

\* And so does the box the contract writes when it mints, also for messages that
\* state a wrong length: no mint is refused because of another message's
\* (ntt_execute.py:317-328, ntt_digest.py:144-160).
THEOREM OneMintPerMessage ==
  ASSUME NEW p \in Seq(Byte), Parses(p), NEW q \in Seq(Byte), Parses(q),
         ExecutedDigest(p) = ExecutedDigest(q)
  PROVE  /\ Id(p) = Id(q) /\ User(p) = User(q)
         /\ SrcNtt(p) = SrcNtt(q) /\ DstNtt(p) = DstNtt(q) /\ Sent(p) = Sent(q)
<1>1. \A r : ExecutedDigest(r)
               = MessageDigest(Id(r), User(r), SrcNtt(r), DstNtt(r), Sent(r))
  BY Zenon DEF ExecutedDigest, Id, User, Sent
<1>2. /\ Fields(Id(p), User(p), SrcNtt(p), DstNtt(p), Sent(p))
      /\ Fields(Id(q), User(q), SrcNtt(q), DstNtt(q), Sent(q))
  BY ExecutedFields, Zenon
<1>3. MessageDigest(Id(p), User(p), SrcNtt(p), DstNtt(p), Sent(p))
        = MessageDigest(Id(q), User(q), SrcNtt(q), DstNtt(q), Sent(q))
  BY <1>1, Zenon
<1> QED
  BY <1>2, <1>3, DigestTells
-----------------------------------------------------------------------------
\* Two tools look where nothing ever is.  ntt_debug.py takes both managers from
\* within the manager's message and so prints the digest of another string than
\* the executed message's (ntt_debug.py:133-137); check_consumed.py hashes the
\* body of the VAA once, the core twice (check_consumed.py:74).
THEOREM ToolsMiss ==
  /\ \A p \in Seq(Byte) : WellFormed(p) /\ IsForUs(p) => DebugMsgDigest(p) # MsgDigest(p)
  /\ \A body \in Seq(Byte) : Len(body) > 2 => CheckConsumedDigest(body) # VaaDigest(body)
<1>1. ASSUME NEW p \in Seq(Byte), WellFormed(p), IsForUs(p)
      PROVE  DebugMsgDigest(p) # MsgDigest(p)
  <2> DEFINE mp == ManagerPayload(p)
             id == Slice(mp, 0, 32)
             user == Slice(mp, 32, 64)
  <2>1. /\ mp \in Seq(Byte) /\ Len(mp) \in Nat /\ Len(mp) >= 145
        /\ id \in Seq(Byte) /\ Len(id) = 32 /\ user \in Seq(Byte) /\ Len(user) = 32
        /\ Inner(p) \in Seq(Byte) /\ Len(Inner(p)) = Len(mp) - 64
    <3>1. /\ Len(mp) \in Nat /\ Len(InnerBody(p)) \in Nat
          /\ Len(InnerBody(p)) = Len(mp) - 66 /\ Len(InnerBody(p)) >= 79
      BY <1>1, TransferOf, Zenon
    <3>2. Len(mp) >= 145
      BY <3>1
    <3> QED
      BY <1>1, <3>1, <3>2, PartsOf, Zenon DEF WellFormed
  <2>2. SrcNtt(p) \in Seq(Byte) /\ Len(SrcNtt(p)) = 32
        /\ DstNtt(p) \in Seq(Byte) /\ Len(DstNtt(p)) = 32
    BY <1>1, HeaderOf, Zenon DEF WellFormed
  <2> DEFINE i == 128
             s == Slice(mp, 64, 96)
             d == Slice(mp, 96, i)
             f == From(mp, i)
  <2>3. DebugMsgDigest(p) = Keccak(id \o user \o Chain \o s \o d \o f)
    BY Zenon DEF DebugMsgDigest, mp, id, user
  <2>4. i = 128
    OBVIOUS
  <2> HIDE DEF i
  <2>5. s \in Seq(Byte) /\ Len(s) = 32
    <3>1. Within(mp, 64, 96)
      BY <2>1 DEF Within
    <3>2. 96 - 64 = 32
      BY <2>1
    <3>3. s \in Seq(Byte) /\ Len(s) = 96 - 64
      BY <3>1, SliceLength, Zenon
    <3> QED
      BY <3>2, <3>3, Zenon
  <2>6. d \in Seq(Byte) /\ Len(d) = 32
    <3>1. Within(mp, 96, i)
      BY <2>1, <2>4 DEF Within
    <3>2. i - 96 = 32
      BY <2>1, <2>4
    <3>3. d \in Seq(Byte) /\ Len(d) = i - 96
      BY <3>1, SliceLength, Zenon
    <3> QED
      BY <3>2, <3>3, Zenon
  <2>7. f \in Seq(Byte) /\ Len(f) = Len(mp) - i
    <3>1. i \in 0..Len(mp)
      BY <2>1, <2>4
    <3> QED
      BY <2>1, <3>1, FromOf, Zenon
  <2> HIDE DEF s, d, f
  <2> DEFINE debug == id \o user \o Chain \o s \o d \o f
             msg == id \o user \o Chain \o SrcNtt(p) \o DstNtt(p) \o Inner(p)
  <2>8. Len(debug) = Len(id) + Len(user) + Len(Chain) + Len(s) + Len(d) + Len(f)
    <3>1. Strings(id, user, Chain, s, d, f)
      BY <2>1, <2>5, <2>6, <2>7, ChainAssumption, Zenon DEF Strings
    <3> QED
      BY <3>1, SixParts
  <2>9. Len(msg) = Len(id) + Len(user) + Len(Chain) + Len(SrcNtt(p)) + Len(DstNtt(p))
                     + Len(Inner(p))
    <3>1. Strings(id, user, Chain, SrcNtt(p), DstNtt(p), Inner(p))
      BY <2>1, <2>2, ChainAssumption, Zenon DEF Strings
    <3> QED
      BY <3>1, SixParts
  <2>10. MsgDigest(p) = Keccak(msg)
    BY Zenon DEF MsgDigest, mp, id, user
  <2> HIDE DEF debug, msg
  <2>11. Len(debug) # Len(msg)
    BY <2>1, <2>2, <2>4, <2>5, <2>6, <2>7, <2>8, <2>9, ChainAssumption
  <2>12. Keccak(debug) = Keccak(msg) => debug = msg
    BY DEF Keccak
  <2> QED
    BY <2>3, <2>10, <2>11, <2>12, Zenon DEF debug
<1>2. ASSUME NEW body \in Seq(Byte), Len(body) > 2
      PROVE  CheckConsumedDigest(body) # VaaDigest(body)
  <2> DEFINE digest == Keccak(body)
  <2>1. Len(digest) = 2
    BY DEF Keccak
  <2>2. Keccak(body) = Keccak(digest) => body = digest
    BY DEF Keccak
  <2> HIDE DEF digest
  <2>3. Len(body) # 2
    <3>1. \A n \in Nat : n > 2 => n # 2
      OBVIOUS
    <3>2. Len(body) \in Nat
      BY LenProperties, Zenon
    <3> QED
      BY <1>2, <3>1, <3>2, Zenon
  <2> QED
    BY <2>1, <2>2, <2>3, Zenon DEF CheckConsumedDigest, VaaDigest, digest
<1> QED
  BY <1>1, <1>2
=============================================================================
