--------------------------- MODULE UvarintProofs ---------------------------
(***************************************************************************)
(* What encode_uvarint computes, for every number.  It is recursive, so    *)
(* the proofs are inductions; the set of the numbers a fact holds for      *)
(* stands for the fact, and the numbers are well-founded.                  *)
(***************************************************************************)
EXTENDS GuardianGroup, WellFoundedInduction, SequenceTheorems, TLAPS

Less == {p \in Nat \X Nat : p[1] < p[2]}

\* The order of the numbers has no infinite descent: the library's fact, for the
\* set of pairs instead of the operator.
LEMMA LessIsWellFounded == IsWellFoundedOn(Less, Nat)
<1>1. OpToRel(<, Nat) = Less
  BY Zenon DEF OpToRel, Less
<1> QED
  BY <1>1, NatLessThanWellFounded, Zenon

\* Course-of-values induction: a set that has a number as soon as it has all
\* smaller ones has all numbers.
LEMMA Induction ==
  ASSUME NEW T \in SUBSET Nat,
         \A n \in Nat : (\A k \in Nat : k < n => k \in T) => n \in T
  PROVE  T = Nat
<1> SUFFICES ASSUME Nat \ T # {} PROVE FALSE
  OBVIOUS
<1>1. PICK n \in Nat \ T : \A k \in Nat \ T : ~ (<<k, n>> \in Less)
  BY LessIsWellFounded, WFMin
<1>2. \A k \in Nat : k < n => k \in T
  BY <1>1 DEF Less
<1> QED
  BY <1>1, <1>2
-----------------------------------------------------------------------------
\* One turn of its loop, the rest left to f.
Encoding(f, v) == IF v < 128 THEN <<v>> ELSE <<128 + (v % 128)>> \o f[v \div 128]

\* g has the encodings of the numbers up to n.
EncodesUpTo(n, g) == g = [v \in 0..n |-> Encoding(g, v)]

\* Two such tables agree where both have a number.
LEMMA EncodingsAgree ==
  ASSUME NEW m \in Nat, NEW n \in Nat, NEW g, NEW h,
         EncodesUpTo(m, g), EncodesUpTo(n, h)
  PROVE  \A v \in Nat : v <= m /\ v <= n => g[v] = h[v]
<1> DEFINE T == {v \in Nat : v <= m /\ v <= n => g[v] = h[v]}
<1>1. ASSUME NEW v \in Nat, \A k \in Nat : k < v => k \in T PROVE v \in T
  <2> SUFFICES ASSUME v <= m, v <= n PROVE g[v] = h[v]
    OBVIOUS
  <2>1. g[v] = Encoding(g, v) /\ h[v] = Encoding(h, v)
    <3>1. v \in 0..m /\ v \in 0..n
      OBVIOUS
    <3> QED
      BY <3>1, Zenon DEF EncodesUpTo
  <2>2. v >= 128 => v \div 128 \in Nat /\ v \div 128 < v
    OBVIOUS
  <2>3. v >= 128 => g[v \div 128] = h[v \div 128]
    <3> SUFFICES ASSUME v >= 128 PROVE g[v \div 128] = h[v \div 128]
      OBVIOUS
    <3>1. v \div 128 \in T /\ v \div 128 <= m /\ v \div 128 <= n
      BY <1>1, <2>2
    <3> QED
      BY <3>1
  <2>4. v < 128 \/ v >= 128
    OBVIOUS
  <2> QED
    BY <2>1, <2>3, <2>4, Zenon DEF Encoding
<1> HIDE DEF T
<1>2. T = Nat
  BY <1>1, Induction DEF T
<1> QED
  BY <1>2 DEF T

\* Every number is in such a table.
LEMMA EncodingsExist == \A n \in Nat : \E g : EncodesUpTo(n, g)
<1> DEFINE T == {n \in Nat : \E g : EncodesUpTo(n, g)}
<1>1. ASSUME NEW n \in Nat, \A k \in Nat : k < n => k \in T PROVE n \in T
  <2>1. CASE n = 0
    <3> DEFINE g == [v \in 0..n |-> <<v>>]
    <3>1. EncodesUpTo(n, g)
      BY <2>1 DEF EncodesUpTo, Encoding
    <3> QED
      BY <3>1, Zenon
  <2>2. CASE n > 0
    <3>1. n - 1 \in Nat /\ n - 1 < n
      BY <2>2
    <3>2. PICK g : EncodesUpTo(n - 1, g)
      BY <1>1, <3>1
    <3> DEFINE h == [v \in 0..n |-> IF v < n THEN g[v] ELSE Encoding(g, n)]
    <3>3. ASSUME NEW v \in 0..n PROVE h[v] = Encoding(h, v)
      <4>1. h[v] = Encoding(g, v)
        <5>1. CASE v < n
          <6>1. v \in 0..n - 1 /\ h[v] = g[v]
            BY <5>1
          <6> QED
            BY <3>2, <6>1, Zenon DEF EncodesUpTo
        <5>2. CASE v = n
          BY <5>2
        <5> QED
          BY <5>1, <5>2
      <4>2. v >= 128 => v \div 128 \in 0..n /\ v \div 128 < n
        OBVIOUS
      <4>3. v >= 128 => h[v \div 128] = g[v \div 128]
        BY <4>2
      <4>4. v < 128 \/ v >= 128
        OBVIOUS
      <4> HIDE DEF h
      <4> QED
        BY <4>1, <4>3, <4>4, Zenon DEF Encoding
    <3>4. EncodesUpTo(n, h)
      <4>1. h = [v \in 0..n |-> h[v]]
        OBVIOUS
      <4> HIDE DEF h
      <4>2. [v \in 0..n |-> h[v]] = [v \in 0..n |-> Encoding(h, v)]
        BY <3>3, Zenon
      <4> QED
        BY <4>1, <4>2, Zenon DEF EncodesUpTo
    <3> QED
      BY <3>4, Zenon
  <2> QED
    BY <2>1, <2>2
<1> HIDE DEF T
<1>2. T = Nat
  BY <1>1, Induction DEF T
<1> QED
  BY <1>2 DEF T

\* The recursion has a solution, so the function is what its definition says.
LEMMA UvarintEquation == Uvarint = [v \in Nat |-> Encoding(Uvarint, v)]
<1> DEFINE G(n) == CHOOSE g : EncodesUpTo(n, g)
           f == [v \in Nat |-> G(v)[v]]
<1>1. \A n \in Nat : EncodesUpTo(n, G(n))
  BY EncodingsExist, Zenon
<1> HIDE DEF G
<1>2. ASSUME NEW v \in Nat PROVE f[v] = Encoding(f, v)
  <2>1. G(v)[v] = Encoding(G(v), v)
    <3>1. v \in 0..v
      OBVIOUS
    <3> QED
      BY <1>1, <3>1, Zenon DEF EncodesUpTo
  <2>2. v \div 128 \in Nat /\ v \div 128 <= v
    OBVIOUS
  <2>3. G(v)[v \div 128] = G(v \div 128)[v \div 128]
    BY <1>1, <2>2, EncodingsAgree
  <2>4. f[v] = G(v)[v] /\ f[v \div 128] = G(v \div 128)[v \div 128]
    BY <2>2, Zenon
  <2> HIDE DEF f
  <2> QED
    BY <2>1, <2>3, <2>4, Zenon DEF Encoding
<1>3. f = [v \in Nat |-> Encoding(f, v)]
  <2>1. f = [v \in Nat |-> f[v]]
    BY Zenon
  <2> HIDE DEF f
  <2>2. [v \in Nat |-> f[v]] = [v \in Nat |-> Encoding(f, v)]
    BY <1>2, Zenon
  <2> QED
    BY <2>1, <2>2, Zenon
<1> HIDE DEF f
<1>4. \E u : u = [v \in Nat |-> Encoding(u, v)]
  BY <1>3, Zenon
<1>5. Uvarint = CHOOSE u : u = [v \in Nat |-> Encoding(u, v)]
  BY Zenon DEF Uvarint, Encoding
<1> QED
  BY <1>4, <1>5, Zenon

\* One turn of the loop of encode_uvarint (base-relayer.py:75-79).
LEMMA UvarintStep ==
  ASSUME NEW n \in Nat
  PROVE  Uvarint[n] = Encoding(Uvarint, n)
BY UvarintEquation, Zenon

\* Its last byte.
LEMMA UvarintOfLess ==
  ASSUME NEW n \in Nat, n < 128
  PROVE  Uvarint[n] = <<n>>
BY UvarintStep DEF Encoding

\* A byte with the continuation bit, before what is left of the number.
LEMMA UvarintOfMore ==
  ASSUME NEW n \in Nat, n >= 128
  PROVE  /\ n \div 128 \in Nat /\ n \div 128 < n
         /\ Uvarint[n] = <<128 + (n % 128)>> \o Uvarint[n \div 128]
<1>1. n \div 128 \in Nat /\ n \div 128 < n
  OBVIOUS
<1>2. Uvarint[n] = IF n < 128 THEN <<n>> ELSE <<128 + (n % 128)>> \o Uvarint[n \div 128]
  BY UvarintStep, Zenon DEF Encoding
<1>3. ~ (n < 128)
  OBVIOUS
<1> QED
  BY <1>1, <1>2, <1>3, Zenon
-----------------------------------------------------------------------------
\* encode_uvarint makes bytes of a number, one at least (base-relayer.py:75-79).
THEOREM UvarintIsBytes == \A n \in Nat : Uvarint[n] \in Seq(0..255) /\ Len(Uvarint[n]) >= 1
<1> DEFINE Bytes(n) == Uvarint[n] \in Seq(0..255) /\ Len(Uvarint[n]) >= 1
           T == {n \in Nat : Bytes(n)}
<1>1. ASSUME NEW n \in Nat, \A k \in Nat : k < n => k \in T PROVE n \in T
  <2> SUFFICES Bytes(n)
    OBVIOUS
  <2>1. CASE n < 128
    <3>1. <<n>> \in Seq(0..255) /\ Len(<<n>>) >= 1
      BY <2>1
    <3>2. Uvarint[n] = <<n>>
      BY <2>1, UvarintOfLess
    <3> QED
      BY <3>1, <3>2, Zenon
  <2>2. CASE n >= 128
    <3> DEFINE rest == Uvarint[n \div 128]
               b == 128 + (n % 128)
    <3>1. Uvarint[n] = <<b>> \o rest /\ n \div 128 \in T
      BY <1>1, <2>2, UvarintOfMore
    <3>2. rest \in Seq(0..255) /\ Len(rest) >= 1
      BY <3>1
    <3>3. <<b>> \in Seq(0..255) /\ Len(<<b>>) = 1
      OBVIOUS
    <3> HIDE DEF rest, b
    <3>4. <<b>> \o rest \in Seq(0..255) /\ Len(<<b>> \o rest) = 1 + Len(rest)
      BY <3>2, <3>3, ConcatProperties
    <3>5. Len(rest) \in Nat
      BY <3>2, LenProperties
    <3>6. Len(<<b>> \o rest) >= 1
      BY <3>4, <3>5
    <3> QED
      BY <3>1, <3>4, <3>6, Zenon
  <2> QED
    BY <2>1, <2>2
<1> HIDE DEF T, Bytes
<1>2. T = Nat
  BY <1>1, Induction DEF T
<1> QED
  BY <1>2 DEF T, Bytes

\* The form in which the template needs it (base-relayer.py:92-112).
COROLLARY UvarintIsNumbers == \A n \in Nat : Uvarint[n] \in Seq(Int)
<1> SUFFICES ASSUME NEW n \in Nat PROVE Uvarint[n] \in Seq(Int)
  OBVIOUS
<1>1. 0..255 \subseteq Int
  OBVIOUS
<1> QED
  BY <1>1, UvarintIsBytes, SeqMonotonic

\* A sequence gives its first byte and what follows it.
LEMMA FirstByte ==
  \A b, c \in Int : \A s, t \in Seq(Int) : <<b>> \o s = <<c>> \o t => b = c /\ s = t
<1> SUFFICES ASSUME NEW b \in Int, NEW c \in Int, NEW s \in Seq(Int), NEW t \in Seq(Int),
                    <<b>> \o s = <<c>> \o t
             PROVE  b = c /\ s = t
  OBVIOUS
<1> DEFINE bs == <<b>> \o s
           ct == <<c>> \o t
<1>1. /\ bs[1] = b /\ ct[1] = c
      /\ Len(bs) = 1 + Len(s) /\ Len(ct) = 1 + Len(t)
      /\ \A i \in 1..Len(s) : bs[i + 1] = s[i]
      /\ \A i \in 1..Len(t) : ct[i + 1] = t[i]
  OBVIOUS
<1> HIDE DEF bs, ct
<1>2. bs = ct
  BY DEF bs, ct
<1>3. b = c /\ Len(s) = Len(t) /\ Len(s) \in Nat
  BY <1>1, <1>2
<1>4. \A i \in 1..Len(s) : s[i] = t[i]
  BY <1>1, <1>2, <1>3
<1>5. s = t
  BY <1>3, <1>4, SeqEqual
<1> QED
  BY <1>3, <1>5

\* Concatenation associates, for numbers: the fact in the shape in which it is cited.
LEMMA ConcatAssociates ==
  ASSUME NEW a \in Seq(Int), NEW b \in Seq(Int), NEW c \in Seq(Int)
  PROVE  a \o b \o c = a \o (b \o c)
BY ConcatAssociative

\* The first byte of an encoding with w behind it, and what comes after it.
First(k) == IF k < 128 THEN k ELSE 128 + (k % 128)
Rest(k, w) == IF k < 128 THEN w ELSE Uvarint[k \div 128] \o w

\* They are what an encoding begins with.
LEMMA FirstAndRest ==
  ASSUME NEW k \in Nat, NEW w \in Seq(Int)
  PROVE  /\ First(k) \in Int /\ Rest(k, w) \in Seq(Int)
         /\ Uvarint[k] \o w = <<First(k)>> \o Rest(k, w)
<1>1. CASE k < 128
  <2>1. Uvarint[k] = <<k>>
    BY <1>1, UvarintOfLess
  <2>2. First(k) = k /\ Rest(k, w) = w
    BY <1>1 DEF First, Rest
  <2>3. k \in Int
    OBVIOUS
  <2> QED
    BY <2>1, <2>2, <2>3, Zenon
<1>2. CASE k >= 128
  <2> DEFINE rest == Uvarint[k \div 128]
             b == 128 + (k % 128)
             z == <<b>>
  <2>1. rest \in Seq(Int) /\ Uvarint[k] = z \o rest
    BY <1>2, UvarintOfMore, UvarintIsNumbers
  <2>2. b \in Int /\ First(k) = b /\ Rest(k, w) = rest \o w
    BY <1>2 DEF First, Rest
  <2>3. z \in Seq(Int)
    OBVIOUS
  <2>4. z = <<First(k)>>
    BY <2>2
  <2> HIDE DEF rest, b, z
  <2>5. rest \o w \in Seq(Int)
    BY <2>1, ConcatProperties
  <2>6. z \o rest \o w = z \o (rest \o w)
    BY <2>1, <2>3, ConcatAssociates, Zenon
  <2> QED
    BY <2>1, <2>2, <2>4, <2>5, <2>6
<1>3. k < 128 \/ k >= 128
  OBVIOUS
<1> QED
  BY <1>1, <1>2, <1>3, Zenon

\* Equal sequences that begin with encodings have the same first byte and rest.
LEMMA SameStart ==
  \A m, n \in Nat : \A u, v \in Seq(Int) :
    Uvarint[m] \o u = Uvarint[n] \o v => First(m) = First(n) /\ Rest(m, u) = Rest(n, v)
<1> SUFFICES ASSUME NEW m \in Nat, NEW n \in Nat, NEW u \in Seq(Int), NEW v \in Seq(Int),
                    Uvarint[m] \o u = Uvarint[n] \o v
             PROVE  First(m) = First(n) /\ Rest(m, u) = Rest(n, v)
  OBVIOUS
<1>1. /\ First(m) \in Int /\ Rest(m, u) \in Seq(Int)
      /\ First(n) \in Int /\ Rest(n, v) \in Seq(Int)
  BY FirstAndRest, Zenon
<1>2. <<First(m)>> \o Rest(m, u) = <<First(n)>> \o Rest(n, v)
  BY FirstAndRest, Zenon
<1>3. \A c \in Int : \A s, t \in Seq(Int) :
        <<First(m)>> \o s = <<c>> \o t => First(m) = c /\ s = t
  BY <1>1, FirstByte, Zenon
<1>4. \A s, t \in Seq(Int) :
        <<First(m)>> \o s = <<First(n)>> \o t => First(m) = First(n) /\ s = t
  BY <1>1, <1>3, Zenon
<1> QED
  BY <1>1, <1>2, <1>4, Zenon

\* No sequence begins with the encoding of m and with that of another number.
Unambiguous(m) ==
  \A n \in Nat : \A u, v \in Seq(Int) :
    Uvarint[m] \o u = Uvarint[n] \o v => m = n /\ u = v

\* The first bytes are equal, so both encodings end there or both go on.
LEMMA UnambiguousStep ==
  ASSUME NEW m \in Nat, \A k \in Nat : k < m => Unambiguous(k)
  PROVE  Unambiguous(m)
<1> SUFFICES ASSUME NEW n \in Nat, NEW u \in Seq(Int), NEW v \in Seq(Int),
                    Uvarint[m] \o u = Uvarint[n] \o v
             PROVE  m = n /\ u = v
  BY DEF Unambiguous
<1>1. First(m) = First(n) /\ Rest(m, u) = Rest(n, v)
  BY SameStart, Zenon
<1>2. CASE m < 128
  <2>1. m = n
    BY <1>1, <1>2 DEF First
  <2> QED
    BY <1>1, <1>2, <2>1 DEF Rest
<1>3. CASE m >= 128
  <2>1. n >= 128 /\ m % 128 = n % 128
    BY <1>1, <1>3 DEF First
  <2>2. Uvarint[m \div 128] \o u = Uvarint[n \div 128] \o v
    <3>1. ~ (m < 128) /\ ~ (n < 128)
      BY <1>3, <2>1
    <3> QED
      BY <1>1, <3>1, Zenon DEF Rest
  <2>3. m \div 128 \in Nat /\ m \div 128 < m /\ n \div 128 \in Nat
    BY <1>3
  <2>4. m \div 128 = n \div 128 /\ u = v
    <3>1. Unambiguous(m \div 128)
      BY <2>3, Zenon
    <3>2. \A x, y \in Seq(Int) :
            Uvarint[m \div 128] \o x = Uvarint[n \div 128] \o y
              => m \div 128 = n \div 128 /\ x = y
      BY <2>3, <3>1, Zenon DEF Unambiguous
    <3> QED
      BY <2>2, <3>2, Zenon
  <2> QED
    BY <2>1, <2>4
<1> QED
  BY <1>2, <1>3

\* The continuation bits tell where an encoding ends, whatever follows it: of the
\* same bytes the same number is read (base-relayer.py:75-79).
THEOREM UvarintUnambiguous == \A m \in Nat : Unambiguous(m)
<1> DEFINE T == {m \in Nat : Unambiguous(m)}
<1>1. \A m \in Nat : (\A k \in Nat : k < m => k \in T) => m \in T
  BY UnambiguousStep, Zenon
<1> HIDE DEF T
<1>2. T = Nat
  BY <1>1, Induction DEF T
<1> QED
  BY <1>2 DEF T
=============================================================================
