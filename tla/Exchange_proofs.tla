--------------------------- MODULE Exchange_proofs ---------------------------
(***************************************************************************)
(* What Exchange promises for any width of a byte and of a length, any     *)
(* sizes, requests and keys.                                               *)
(***************************************************************************)
EXTENDS Exchange, FiniteSetTheorems, SequenceTheorems, TLAPS

-----------------------------------------------------------------------------
(* Numbers.                                                                *)

\* Induction over the natural numbers, with a set in the place of a property: if
\* m were missing, n |-> n + 1 would take those of 0..m that are in the set, one
\* to one, to those of them that are not 0.
LEMMA SetInduction ==
  ASSUME NEW T, 0 \in T, \A n \in Nat : n \in T => n + 1 \in T
  PROVE  Nat \subseteq T
<1> SUFFICES ASSUME NEW m \in Nat, m \notin T PROVE FALSE
  OBVIOUS
<1> DEFINE S == {n \in 0..m : n \in T}
           f == [n \in S |-> n + 1]
<1>1. IsFiniteSet(S)
  <2>1. IsFiniteSet(0..m)
    BY FS_Interval
  <2> QED BY <2>1, FS_Subset
<1>2. IsFiniteSet(S \ {0}) /\ Cardinality(S \ {0}) < Cardinality(S)
  <2>1. 0 \in S
    OBVIOUS
  <2> HIDE DEF S
  <2>2. Cardinality(S) \in Nat
    BY <1>1, FS_CardinalityType
  <2>3. IsFiniteSet(S \ {0}) /\ Cardinality(S \ {0}) = Cardinality(S) - 1
    BY <1>1, <2>1, FS_RemoveElement
  <2> QED BY <2>2, <2>3
<1>3. f \in [S -> S \ {0}]
  OBVIOUS
<1>4. \E x, y \in S : x # y /\ f[x] = f[y]
  <2> HIDE DEF S, f
  <2> QED BY <1>1, <1>2, <1>3, FS_PigeonHole
<1> QED BY <1>4

\* Division with remainder.
LEMMA DivMod ==
  ASSUME NEW a \in Nat, NEW b \in Nat \ {0}
  PROVE  a \div b \in Nat /\ a % b \in 0..(b - 1) /\ a = b * (a \div b) + (a % b)
OBVIOUS

\* A product of positive numbers is positive.
LEMMA Product ==
  ASSUME NEW a \in Nat \ {0}, NEW b \in Nat \ {0}
  PROVE  a * b \in Nat \ {0}
OBVIOUS

\* Multiples of b that differ by less than b are the same.
LEMMA Multiples ==
  ASSUME NEW b \in Nat \ {0}, NEW p \in Nat, NEW q \in Nat,
         NEW r \in 0..(b - 1), NEW s \in 0..(b - 1), b * p + r = b * q + s
  PROVE  r = s
<1>1. ASSUME NEW x \in Nat, NEW y \in Nat, x < y, NEW u \in 0..(b - 1), NEW v \in 0..(b - 1)
      PROVE  b * x + u < b * y + v
  <2>1. b * (x + 1) <= b * y
    <3>1. PICK d \in Nat : y = x + 1 + d
      BY <1>1
    <3>2. b * y = b * (x + 1) + b * d /\ b * d \in Nat
      BY <3>1
    <3> QED BY <3>2
  <2>2. b * (x + 1) = b * x + b
    OBVIOUS
  <2> QED BY <2>1, <2>2
<1>2. ~(p < q) /\ ~(q < p)
  BY <1>1
<1>3. p = q
  BY <1>2
<1> QED BY <1>3

\* The remainder of a number by b times w, in terms of that by w.
LEMMA NextDigit ==
  ASSUME NEW n \in Nat, NEW w \in Nat \ {0}, NEW b \in Nat \ {0}
  PROVE  n % (b * w) = (n % w) + ((n \div w) % b) * w
<1> DEFINE q == n \div w
           r == n % w
           t == q \div b
           d == q % b
<1>1. q \in Nat /\ r \in 0..(w - 1) /\ n = w * q + r
  BY DivMod
<1>2. t \in Nat /\ d \in 0..(b - 1) /\ q = b * t + d
  BY <1>1, DivMod
<1>3. PICK m \in Nat \ {0} : m = b * w
  BY Product
<1>4. n \div m \in Nat /\ n % m \in 0..(m - 1) /\ n = m * (n \div m) + (n % m)
  <2>1. n \in Nat /\ m \in Nat \ {0}
    BY <1>3
  <2> QED BY ONLY <2>1, DivMod
<1> HIDE DEF q, r, t, d
<1>5. n = m * t + (r + d * w)
  <2>1. w * q = w * (b * t) + w * d
    BY <1>2
  <2>2. w * (b * t) = (b * w) * t /\ w * d = d * w
    BY <1>2
  <2> QED BY <2>1, <2>2, <1>1, <1>2, <1>3
<1>6. r + d * w \in 0..(m - 1)
  <2>1. PICK e \in Nat : b = d + 1 + e
    BY <1>2
  <2>2. b * w = d * w + w + e * w /\ e * w \in Nat /\ d * w \in Nat
    BY <2>1, <1>2
  <2> QED BY <2>2, <1>1, <1>3
<1>7. n % m = r + d * w
  <2> DEFINE u == n \div m
             v == n % m
             x == r + d * w
  <2>1. m \in Nat \ {0} /\ u \in Nat /\ v \in 0..(m - 1) /\ n = m * u + v
    BY <1>4
  <2>2. x \in 0..(m - 1) /\ n = m * t + x
    BY <1>5, <1>6
  <2> HIDE DEF u, v, x
  <2>3. v = x
    BY <2>1, <2>2, <1>2, Multiples
  <2> QED BY <2>3 DEF v, x
<1> QED BY <1>3, <1>7 DEF q, r, d

-----------------------------------------------------------------------------
(* Lengths.                                                                *)

\* The weights of bytes are the powers of the number of a byte's values.
LEMMA Weights ==
  /\ Weight \in [0..LenBytes -> Nat \ {0}]
  /\ Weight[0] = 1 /\ \A i \in 1..LenBytes : Weight[i] = Base * Weight[i - 1]
<1> USE WidthAssumption
<1> DEFINE T == {n \in Nat : \E g \in [0..n -> Nat \ {0}] :
                               g[0] = 1 /\ \A i \in 1..n : g[i] = Base * g[i - 1]}
<1>1. 0 \in T
  <2> DEFINE g == [i \in 0..0 |-> 1]
  <2>1. g \in [0..0 -> Nat \ {0}] /\ g[0] = 1 /\ \A i \in 1..0 : g[i] = Base * g[i - 1]
    OBVIOUS
  <2> HIDE DEF g
  <2> QED BY <2>1
<1>2. ASSUME NEW n \in Nat, n \in T
      PROVE  n + 1 \in T
  <2>1. PICK g \in [0..n -> Nat \ {0}] : g[0] = 1 /\ \A i \in 1..n : g[i] = Base * g[i - 1]
    BY <1>2
  <2> DEFINE h == [i \in 0..(n + 1) |-> IF i = n + 1 THEN Base * g[n] ELSE g[i]]
  <2>2. Base * g[n] \in Nat \ {0}
    BY <2>1, Product
  <2>3. h \in [0..(n + 1) -> Nat \ {0}]
    BY <2>1, <2>2
  <2>4. h[0] = 1 /\ \A i \in 1..(n + 1) : h[i] = Base * h[i - 1]
    BY <2>1
  <2>5. \E s \in [0..(n + 1) -> Nat \ {0}] :
          s[0] = 1 /\ \A i \in 1..(n + 1) : s[i] = Base * s[i - 1]
    <3> HIDE DEF h
    <3> QED BY <2>3, <2>4
  <2>6. n + 1 \in Nat
    OBVIOUS
  <2> QED BY <2>5, <2>6, Zenon
<1>3. LenBytes \in T
  <2> HIDE DEF T
  <2> QED BY <1>1, <1>2, SetInduction
<1>4. PICK g \in [0..LenBytes -> Nat \ {0}] :
        g[0] = 1 /\ \A i \in 1..LenBytes : g[i] = Base * g[i - 1]
  BY <1>3
<1>5. g = [i \in 0..LenBytes |-> IF i = 0 THEN 1 ELSE Base * g[i - 1]]
  BY <1>4
<1>6. Weight = [i \in 0..LenBytes |-> IF i = 0 THEN 1 ELSE Base * Weight[i - 1]]
  BY <1>5 DEF Weight
<1>7. Weight[0] = 1 /\ \A i \in 1..LenBytes : Weight[i] = Base * Weight[i - 1]
  BY <1>6
<1> DEFINE U == {n \in Nat : n <= LenBytes => Weight[n] \in Nat \ {0}}
<1>8. 0 \in U
  BY <1>7
<1>9. ASSUME NEW n \in Nat, n \in U
      PROVE  n + 1 \in U
  <2> SUFFICES ASSUME n + 1 <= LenBytes PROVE Weight[n + 1] \in Nat \ {0}
    OBVIOUS
  <2>1. n + 1 \in 1..LenBytes /\ n + 1 - 1 = n /\ Weight[n] \in Nat \ {0}
    BY <1>9
  <2>2. Weight[n + 1] = Base * Weight[n]
    BY <2>1, <1>7
  <2> QED BY <2>1, <2>2, Product
<1>10. Nat \subseteq U
  <2> HIDE DEF U
  <2> QED BY <1>8, <1>9, SetInduction
<1>11. \A i \in 0..LenBytes : Weight[i] \in Nat \ {0}
  BY <1>10
<1> QED BY <1>6, <1>7, <1>11

\* A length that fits its bytes comes out of them as it went in.
LEMMA LengthOfPrefix ==
  ASSUME NEW n \in Nat, n <= Limit
  PROVE  Length(Prefix(n)) = n
<1> USE WidthAssumption
<1> DEFINE L == LenBytes
           bytes == Prefix(n)
           IsSum(s) == s = [i \in 0..LenBytes |->
                              IF i = 0 THEN 0 ELSE s[i - 1] + bytes[i][1] * Weight[i - 1]]
           Sum == CHOOSE s : IsSum(s)
           rest == [i \in 0..LenBytes |-> n % Weight[i]]
<1>1. \A i \in 0..LenBytes : Weight[i] \in Nat \ {0} /\ rest[i] = n % Weight[i] /\ rest[i] \in Nat
  <2>1. \A i \in 0..LenBytes : Weight[i] \in Nat \ {0}
    BY Weights
  <2> QED BY <2>1, DivMod
<1>2. rest[0] = 0
  BY <1>1, Weights
<1>3. \A i \in 1..LenBytes : bytes[i][1] = (n \div Weight[i - 1]) % Base
  BY DEF Prefix
<1> HIDE DEF bytes
<1>4. ASSUME NEW i \in 1..LenBytes
      PROVE  rest[i] = rest[i - 1] + bytes[i][1] * Weight[i - 1]
  <2>1. i \in 0..LenBytes /\ i - 1 \in 0..LenBytes
    OBVIOUS
  <2>2. rest[i] = n % (Base * Weight[i - 1])
    BY <1>1, <2>1, Weights
  <2>3. rest[i - 1] = n % Weight[i - 1] /\ Weight[i - 1] \in Nat \ {0}
    BY <1>1, <2>1
  <2>4. bytes[i][1] = (n \div Weight[i - 1]) % Base /\ Base \in Nat \ {0}
    BY <1>3
  <2> DEFINE w == Weight[i - 1]
  <2> HIDE DEF rest, w
  <2>5. n % (Base * w) = (n % w) + ((n \div w) % Base) * w
    <3>1. w \in Nat \ {0}
      BY <2>3 DEF w
    <3> QED BY <3>1, <2>4, NextDigit
  <2> QED BY <2>2, <2>3, <2>4, <2>5 DEF w
<1>5. IsSum(rest)
  <2>1. rest = [i \in 0..LenBytes |-> rest[i]]
    OBVIOUS
  <2>2. \A i \in 0..LenBytes : rest[i] = IF i = 0 THEN 0 ELSE rest[i - 1] + bytes[i][1] * Weight[i - 1]
    <3> HIDE DEF rest
    <3> QED BY <1>2, <1>4
  <2> HIDE DEF rest
  <2> QED BY <2>1, <2>2
<1>6. IsSum(Sum)
  <2> HIDE DEF IsSum
  <2> QED BY <1>5
<1>7. Length(bytes) = Sum[LenBytes]
  BY DEF Length
<1> HIDE DEF Sum
<1> DEFINE T == {i \in Nat : i <= LenBytes => Sum[i] = rest[i]}
<1>8. 0 \in T
  BY <1>2, <1>6
<1>9. ASSUME NEW i \in Nat, i \in T
      PROVE  i + 1 \in T
  <2> SUFFICES ASSUME i + 1 <= LenBytes PROVE Sum[i + 1] = rest[i + 1]
    OBVIOUS
  <2>1. i + 1 \in 1..LenBytes /\ i + 1 \in 0..LenBytes /\ i + 1 - 1 = i /\ i + 1 # 0 /\ Sum[i] = rest[i]
    BY <1>9
  <2>2. Sum[i + 1] = Sum[i] + bytes[i + 1][1] * Weight[i]
    BY <1>6, <2>1
  <2> HIDE DEF rest
  <2>3. rest[i + 1] = rest[i] + bytes[i + 1][1] * Weight[i]
    BY <1>4, <2>1
  <2> QED BY <2>1, <2>2, <2>3
<1>10. LenBytes \in T
  <2> HIDE DEF T
  <2> QED BY <1>8, <1>9, SetInduction
<1>11. Sum[LenBytes] = n % Weight[LenBytes]
  BY <1>10
<1>12. n % Weight[LenBytes] = n
  <2>1. Weight[LenBytes] \in Nat \ {0} /\ n < Weight[LenBytes]
    BY <1>1 DEF Limit
  <2> QED BY <2>1
<1> QED BY <1>7, <1>11, <1>12 DEF bytes

-----------------------------------------------------------------------------
(* Frames.                                                                 *)

Texts == Messages \cup Answers

\* Bytes of lengths and tags, and bytes of sealed messages.
Byte ==
  {<<n>> : n \in Nat} \cup
    {<<m, k, i, size>> : m \in Texts, k \in Keys, i \in Nat, size \in Nat}

\* Sizes that a length holds.
Sizes == 1..Limit

\* Prefixes agree from their beginning.
LEMMA PrefixItems ==
  ASSUME NEW S, NEW p \in Seq(S), NEW r \in Seq(S)
  PROVE  IsPrefix(p, r) <=> Len(p) <= Len(r) /\ \A i \in 1..Len(p) : p[i] = r[i]
<1>1. Len(p) \in Nat /\ Len(r) \in Nat
  BY LenProperties
<1>2. SubSeq(p, 1, Len(p)) = p
  BY SubSeqFull
<1>3. ASSUME Len(p) <= Len(r)
      PROVE  /\ SubSeq(r, 1, Len(p)) \in Seq(S) /\ Len(SubSeq(r, 1, Len(p))) = Len(p)
             /\ \A i \in 1..Len(p) : SubSeq(r, 1, Len(p))[i] = r[i]
  <2>1. \A i \in 1..Len(p) : r[i] \in S
    BY <1>1, <1>3, ElementOfSeq
  <2> DEFINE n == Len(p)
  <2>2. n \in Int /\ 1 \in Int
    BY <1>1
  <2> HIDE DEF n
  <2>3. \A i \in 1..n : r[i] \in S
    BY <2>1 DEF n
  <2>4. /\ SubSeq(r, 1, n) \in Seq(S)
        /\ Len(SubSeq(r, 1, n)) = IF 1 <= n THEN n - 1 + 1 ELSE 0
        /\ \A i \in 1..n - 1 + 1 : SubSeq(r, 1, n)[i] = r[1 + i - 1]
    BY <2>2, <2>3, SubSeqProperties
  <2>5. n \in Nat
    BY <1>1 DEF n
  <2>6. Len(SubSeq(r, 1, n)) = n /\ \A i \in 1..n : SubSeq(r, 1, n)[i] = r[i]
    BY <2>4, <2>5
  <2> QED BY <2>4, <2>6 DEF n
<1>4. CASE Len(p) <= Len(r)
  <2>1. p = SubSeq(r, 1, Len(p)) <=> \A i \in 1..Len(p) : p[i] = r[i]
    BY <1>3, <1>4, SeqEqual
  <2> QED BY <1>2, <1>4, <2>1 DEF IsPrefix
<1>5. CASE ~(Len(p) <= Len(r))
  BY <1>5 DEF IsPrefix
<1> QED BY <1>4, <1>5

LEMMA FrameTyped ==
  ASSUME NEW m \in Texts, NEW k \in Keys, NEW size \in Sizes
  PROVE  /\ size \in Nat \ {0} /\ size <= Limit /\ LenBytes \in Nat \ {0}
         /\ <<Tag>> \in Seq(Byte) /\ Len(<<Tag>>) = 1
         /\ Prefix(size) \in Seq(Byte) /\ Len(Prefix(size)) = LenBytes
         /\ Seal(m, k, size) \in Seq(Byte) /\ Len(Seal(m, k, size)) = size
         /\ Frame(m, k, size) \in Seq(Byte)
         /\ Len(Frame(m, k, size)) = LenBytes + size
<1> USE WidthAssumption
<1>1. Limit \in Nat
  BY Weights DEF Limit
<1>2. size \in Nat \ {0} /\ size <= Limit
  BY <1>1 DEF Sizes
<1>3. <<Tag>> \in Seq(Byte) /\ Len(<<Tag>>) = 1
  <2>1. Tag \in Byte
    BY DEF Tag, Byte
  <2> QED BY <2>1
<1>4. Prefix(size) \in Seq(Byte) /\ Len(Prefix(size)) = LenBytes
  <2>1. ASSUME NEW i \in 1..LenBytes
        PROVE  <<(size \div Weight[i - 1]) % Base>> \in Byte
    <3>1. Weight[i - 1] \in Nat \ {0}
      <4>1. i - 1 \in 0..LenBytes
        OBVIOUS
      <4> QED BY <4>1, Weights
    <3>2. size \div Weight[i - 1] \in Nat
      BY <1>2, <3>1, DivMod
    <3>3. (size \div Weight[i - 1]) % Base \in Nat
      BY <3>2, DivMod
    <3> QED BY <3>3 DEF Byte
  <2>2. Prefix(size) \in [1..LenBytes -> Byte]
    BY <2>1 DEF Prefix
  <2> QED BY <2>2
<1>5. Seal(m, k, size) \in Seq(Byte) /\ Len(Seal(m, k, size)) = size
  <2>1. ASSUME NEW i \in 1..size
        PROVE  <<m, k, i, size>> \in Byte
    BY <1>2 DEF Byte
  <2>2. Seal(m, k, size) \in [1..size -> Byte]
    BY <2>1 DEF Seal
  <2> QED BY <2>2, <1>2
<1>6. Frame(m, k, size) \in Seq(Byte) /\ Len(Frame(m, k, size)) = LenBytes + size
  BY <1>4, <1>5, ConcatProperties DEF Frame
<1> QED BY <1>2, <1>3, <1>4, <1>5, <1>6

\* A sealed message opens whole, and under its key.
LEMMA SealOpens ==
  ASSUME NEW m \in Texts, NEW k \in Keys, NEW size \in Sizes, NEW key \in Keys
  PROVE  Open(Seal(m, k, size), key) = IF k = key THEN m ELSE Nothing
<1> DEFINE bytes == Seal(m, k, size)
<1>1. bytes \in Seq(Byte) /\ Len(bytes) = size /\ size \in Nat \ {0} /\ 1 \in 1..size
  BY FrameTyped
<1>2. bytes[1] = <<m, k, 1, size>>
  BY <1>1 DEF Seal
<1>3. Seal(m, key, size)[1] = <<m, key, 1, size>>
  BY <1>1 DEF Seal
<1> HIDE DEF bytes
<1>4. bytes # <<>> /\ bytes[1][1] = m
  BY <1>1, <1>2, EmptySeq
<1>5. bytes = Seal(m, key, size) <=> k = key
  BY <1>2, <1>3 DEF bytes
<1>6. Open(bytes, key) = IF bytes = Seal(m, key, size) THEN m ELSE Nothing
  BY <1>1, <1>4 DEF Open
<1> QED BY <1>5, <1>6 DEF bytes

-----------------------------------------------------------------------------
(* What has arrived and what is on its way.                                *)

\* A byte that arrives changes nothing of both together.
LEMMA OneArrives ==
  ASSUME NEW S, NEW g \in Seq(S), NEW o \in Seq(S), o # <<>>
  PROVE  /\ Append(g, Head(o)) \in Seq(S) /\ Tail(o) \in Seq(S)
         /\ Append(g, Head(o)) \o Tail(o) = g \o o
<1>1. Head(o) \in S /\ Tail(o) \in Seq(S) /\ Len(Tail(o)) = Len(o) - 1
  BY HeadTailProperties
<1>2. Append(g, Head(o)) \in Seq(S) /\ Append(g, Head(o)) = g \o <<Head(o)>>
  BY <1>1, AppendProperties, AppendIsConcat
<1>3. <<Head(o)>> \in Seq(S) /\ <<Head(o)>> \o Tail(o) = o
  BY <1>1
<1>4. (g \o <<Head(o)>>) \o Tail(o) = g \o (<<Head(o)>> \o Tail(o))
  BY <1>1, <1>3, ConcatAssociative
<1> QED BY <1>1, <1>2, <1>3, <1>4

\* The first part of what comes, once it is complete, is that part, and what is
\* left is of the rest.
LEMMA Take ==
  ASSUME NEW S, NEW g \in Seq(S), NEW o \in Seq(S), NEW p \in Seq(S), NEW r \in Seq(S),
         IsPrefix(g \o o, p \o r), Len(g) = Len(p)
  PROVE  /\ g = p /\ IsPrefix(o, r)
         /\ g \o o = p \o r => o = r
<1>1. /\ g \o o \in Seq(S) /\ Len(g \o o) = Len(g) + Len(o)
      /\ \A i \in 1..Len(g) + Len(o) :
           (g \o o)[i] = IF i <= Len(g) THEN g[i] ELSE o[i - Len(g)]
  BY ConcatProperties
<1>2. /\ p \o r \in Seq(S) /\ Len(p \o r) = Len(p) + Len(r)
      /\ \A i \in 1..Len(p) + Len(r) :
           (p \o r)[i] = IF i <= Len(p) THEN p[i] ELSE r[i - Len(p)]
  BY ConcatProperties
<1>3. Len(g) \in Nat /\ Len(o) \in Nat /\ Len(r) \in Nat
  BY LenProperties
<1>4. /\ Len(g \o o) <= Len(p \o r)
      /\ \A i \in 1..Len(g \o o) : (g \o o)[i] = (p \o r)[i]
  <2> DEFINE x == g \o o
             y == p \o r
  <2>1. x \in Seq(S) /\ y \in Seq(S) /\ IsPrefix(x, y)
    BY <1>1, <1>2
  <2> HIDE DEF x, y
  <2>2. Len(x) <= Len(y) /\ \A i \in 1..Len(x) : x[i] = y[i]
    BY <2>1, PrefixItems
  <2> QED BY <2>2 DEF x, y
<1>5. Len(o) <= Len(r)
  BY <1>1, <1>2, <1>3, <1>4
<1>6. ASSUME NEW i \in 1..Len(g)
      PROVE  g[i] = p[i]
  <2>1. i \in 1..Len(g) + Len(o) /\ i \in 1..Len(p) + Len(r) /\ i <= Len(g) /\ i <= Len(p)
    BY <1>3
  <2> QED BY <2>1, <1>1, <1>2, <1>4
<1>7. ASSUME NEW i \in 1..Len(o)
      PROVE  o[i] = r[i]
  <2> DEFINE j == Len(g) + i
  <2>1. /\ j \in 1..Len(g) + Len(o) /\ j \in 1..Len(p) + Len(r)
        /\ ~(j <= Len(g)) /\ ~(j <= Len(p)) /\ j - Len(g) = i /\ j - Len(p) = i
    BY <1>3, <1>5
  <2> HIDE DEF j
  <2>2. (g \o o)[j] = o[i]
    BY <2>1, <1>1
  <2>3. (p \o r)[j] = r[i]
    BY <2>1, <1>2
  <2> QED BY <2>1, <2>2, <2>3, <1>1, <1>4
<1>8. g = p
  BY <1>6, SeqEqual
<1>9. IsPrefix(o, r)
  BY <1>5, <1>7, PrefixItems
<1>10. ASSUME g \o o = p \o r
       PROVE  o = r
  <2>1. Len(o) = Len(r)
    BY <1>10, <1>1, <1>2, <1>3
  <2> QED BY <2>1, <1>7, SeqEqual
<1> QED BY <1>8, <1>9, <1>10

\* Likewise when nothing follows.
LEMMA TakeAll ==
  ASSUME NEW S, NEW g \in Seq(S), NEW o \in Seq(S), NEW p \in Seq(S),
         IsPrefix(g \o o, p), Len(g) = Len(p)
  PROVE  g = p
<1>1. <<>> \in Seq(S) /\ p \o <<>> = p
  BY EmptySeq, ConcatEmptySeq
<1>2. IsPrefix(g \o o, p \o <<>>)
  BY <1>1
<1> QED BY <1>1, <1>2, Take

\* What is lost of the end leaves a prefix.
LEMMA Cropped ==
  ASSUME NEW S, NEW g \in Seq(S), NEW o \in Seq(S), NEW p \in Seq(S), NEW n \in 0..Len(o),
         IsPrefix(g \o o, p)
  PROVE  IsPrefix(g \o SubSeq(o, 1, n), p)
<1> DEFINE c == SubSeq(o, 1, n)
<1>1. Len(g) \in Nat /\ Len(o) \in Nat /\ Len(p) \in Nat /\ n \in Nat /\ n <= Len(o)
  BY LenProperties
<1>2. c \in Seq(S) /\ Len(c) = n /\ \A i \in 1..n : c[i] = o[i]
  <2>1. \A i \in 1..n : o[i] \in S
    BY <1>1, ElementOfSeq
  <2>2. /\ c \in Seq(S)
        /\ Len(c) = IF 1 <= n THEN n - 1 + 1 ELSE 0
        /\ \A i \in 1..n - 1 + 1 : c[i] = o[1 + i - 1]
    BY <1>1, <2>1, SubSeqProperties
  <2> HIDE DEF c
  <2> QED BY <1>1, <2>2
<1> HIDE DEF c
<1>3. /\ g \o o \in Seq(S) /\ Len(g \o o) = Len(g) + Len(o)
      /\ \A i \in 1..Len(g) + Len(o) :
           (g \o o)[i] = IF i <= Len(g) THEN g[i] ELSE o[i - Len(g)]
  BY ConcatProperties
<1>4. /\ g \o c \in Seq(S) /\ Len(g \o c) = Len(g) + Len(c)
      /\ \A i \in 1..Len(g) + Len(c) :
           (g \o c)[i] = IF i <= Len(g) THEN g[i] ELSE c[i - Len(g)]
  BY <1>2, ConcatProperties
<1>5. /\ Len(g \o o) <= Len(p)
      /\ \A i \in 1..Len(g \o o) : (g \o o)[i] = p[i]
  BY <1>3, PrefixItems
<1>6. Len(g \o c) <= Len(p)
  BY <1>1, <1>2, <1>3, <1>4, <1>5
<1>7. ASSUME NEW i \in 1..Len(g \o c)
      PROVE  (g \o c)[i] = p[i]
  <2>1. i \in 1..Len(g) + n /\ i \in 1..Len(g) + Len(o)
    BY <1>1, <1>2, <1>4
  <2>2. (g \o c)[i] = (g \o o)[i]
    <3>1. CASE i <= Len(g)
      BY <3>1, <2>1, <1>2, <1>3, <1>4
    <3>2. CASE ~(i <= Len(g))
      <4>1. i - Len(g) \in 1..n
        BY <3>2, <2>1, <1>1
      <4> QED BY <3>2, <4>1, <2>1, <1>2, <1>3, <1>4
    <3> QED BY <3>1, <3>2
  <2> QED BY <2>1, <2>2, <1>3, <1>5
<1> QED BY <1>4, <1>6, <1>7, PrefixItems DEF c

-----------------------------------------------------------------------------
(* The invariant.                                                          *)

Ends == {"up", "down"}

\* The bytes of one direction that have not been taken out yet.
Flow(d) == got[d] \o out[d]

\* What is left of a frame, all of it unless something has gone wrong.
Left(whole) ==
  IsPrefix(Flow("down"), whole) /\ (cause = "none" => Flow("down") = whole)

Request(size) == Frame(sent.of, sent.key, size)

Answer == IF reply = "ok" THEN "ok" ELSE Code(reply)

Losses == {"UnexpectedEof", "ConnectionReset", "ConnectionAborted"}

Typed ==
  /\ sent \in [of : Messages, key : Keys]
  /\ out \in [Ends -> Seq(Byte)] /\ got \in [Ends -> Seq(Byte)] /\ need \in [Ends -> Nat]
  /\ link \in {"open", "silent", "broken"}
  /\ client \in {"idle", "length", "payload", "done"}
  /\ server \in {"tag", "length", "payload", "handle", "gone"}
  /\ dispatched \in Messages \cup {Nothing}
  /\ reply \in Outcomes \cup {"none"}
  /\ cause \in {"none", "refused", "sealed", "length", "silent", "broken", "died", "client",
                "timeout"}

\* Where the server is in the request is where it is in the bytes.
Upward ==
  /\ server = "tag" =>
       need["up"] = 1 /\ \E size \in Sizes : IsPrefix(Flow("up"), <<Tag>> \o Request(size))
  /\ server = "length" =>
       need["up"] = LenBytes /\ \E size \in Sizes : IsPrefix(Flow("up"), Request(size))
  /\ server = "payload" =>
       \E size \in Sizes :
         need["up"] = size /\ IsPrefix(Flow("up"), Seal(sent.of, sent.key, size))

\* And so for the client and the answer.
Downward ==
  /\ client \in {"idle", "length"} => need["down"] = LenBytes
  /\ client = "payload" => reply # "none"
  /\ reply = "none" => Flow("down") = <<>>
  /\ client = "length" /\ reply # "none" =>
       \E size \in Sizes : Left(Frame(Answer, ServerKey, size))
  /\ client = "payload" =>
       \E size \in Sizes : need["down"] = size /\ Left(Seal(Answer, ServerKey, size))

\* Before the client connects nothing happens, but the server may die.
Idle ==
  client = "idle" =>
    Flow("up") = <<>> /\ server \in {"tag", "gone"} /\ link = "open" /\ reply = "none"

\* A request whose length does not fit leaves the server with the tag.
TooLong ==
  result = "InvalidInput" /\ reply = "none" =>
    /\ server \in {"tag", "length", "gone"}
    /\ server = "tag" => Len(Flow("up")) <= 1
    /\ server = "length" => Flow("up") = <<>>

Dispatch ==
  /\ server \in Reading => dispatched = Nothing
  /\ server = "handle" => dispatched # Nothing
  /\ reply # "none" => server = "gone" /\ dispatched # Nothing
  /\ dispatched # Nothing => dispatched = sent.of /\ sent.key = ServerKey

Causes ==
  /\ cause = "sealed" => sent.key # ServerKey
  /\ link # "open" => cause # "none"
  /\ cause = "silent" => link = "silent"
  /\ server = "gone" /\ cause = "none" => reply # "none"

\* What send can have returned, and without an answer.
Results ==
  /\ client # "done" => result = "none"
  /\ result \in {"none", "ok", "TimedOut", "InvalidInput", "ConnectionRefused", "Other"}
                \cup Losses \cup DOMAIN CodeOfKind
  /\ result = "ok" => reply = "ok"
  /\ reply = "none" =>
       result \in {"none", "TimedOut", "InvalidInput", "ConnectionRefused"} \cup Losses
  /\ client = "done" /\ reply = "none" /\ server # "gone" =>
       cause # "none" \/ result \in {"TimedOut", "InvalidInput"}

IInv ==
  /\ Typed /\ Upward /\ Downward /\ Idle /\ TooLong /\ Dispatch /\ Causes /\ Results
  /\ ErrorTold /\ LossHasCause

-----------------------------------------------------------------------------
(* Errors.                                                                 *)

Told == IF reply \in DOMAIN CodeOfKind THEN reply ELSE "Other"

LEMMA Kinds ==
  /\ DOMAIN CodeOfKind =
       {"NotFound", "AlreadyExists", "PermissionDenied", "InvalidInput", "NotADirectory",
        "IsADirectory", "DirectoryNotEmpty", "Unsupported"}
  /\ \A j, k \in DOMAIN CodeOfKind :
       CodeOfKind[j] = CodeOfKind[k] => j = k
  /\ \A k \in DOMAIN CodeOfKind : CodeOfKind[k] \notin {"Unexpected", "ok"}
BY DEF CodeOfKind

\* An error comes back as the kind it was, or as Other.
LEMMA Back ==
  ASSUME reply \in Outcomes
  PROVE  /\ Answer \in Answers /\ Answer # Nothing
         /\ Answer = "ok" <=> reply = "ok"
         /\ Answer # "ok" => Kind(Answer) = Told
<1>1. CASE reply = "ok"
  BY <1>1, NothingAssumption DEF Answer, Answers
<1>2. CASE reply \in DOMAIN CodeOfKind
  <2>1. reply # "ok" /\ Answer = CodeOfKind[reply]
    BY <1>2, Kinds DEF Answer, Code
  <2>2. Answer \in Answers /\ Answer \notin {"Unexpected", "ok"}
    BY <1>2, <2>1, Kinds DEF Answers
  <2>3. Kind(Answer) = CHOOSE kind \in DOMAIN CodeOfKind : CodeOfKind[kind] = CodeOfKind[reply]
    BY <2>1, <2>2 DEF Kind
  <2>4. Kind(Answer) = reply
    BY <1>2, <2>3, Kinds
  <2> QED BY <1>2, <2>1, <2>2, <2>4, NothingAssumption DEF Told
<1>3. CASE reply # "ok" /\ reply \notin DOMAIN CodeOfKind
  <2>1. Answer = "Unexpected"
    BY <1>3 DEF Answer, Code
  <2> QED BY <1>3, <2>1, NothingAssumption DEF Answers, Kind, Told
<1> QED BY <1>1, <1>2, <1>3

-----------------------------------------------------------------------------
(* Reading.                                                                *)

LEMMA FlowTyped ==
  ASSUME Typed, NEW d \in Ends
  PROVE  /\ got[d] \in Seq(Byte) /\ out[d] \in Seq(Byte) /\ Flow(d) \in Seq(Byte)
         /\ Len(Flow(d)) = Len(got[d]) + Len(out[d])
         /\ Len(got[d]) \in Nat /\ Len(out[d]) \in Nat
         /\ Flow(d) = <<>> => got[d] = <<>> /\ out[d] = <<>> /\ Len(got[d]) = 0
<1>1. got[d] \in Seq(Byte) /\ out[d] \in Seq(Byte)
  BY DEF Typed
<1>2. Flow(d) \in Seq(Byte) /\ Len(Flow(d)) = Len(got[d]) + Len(out[d])
  BY <1>1, ConcatProperties DEF Flow
<1>3. Flow(d) = <<>> => got[d] = <<>> /\ out[d] = <<>>
  BY <1>1, ConcatEqualIffEmpty DEF Flow
<1>4. Len(got[d]) \in Nat /\ Len(out[d]) \in Nat
  BY <1>1, LenProperties
<1> QED BY <1>1, <1>2, <1>3, <1>4, EmptySeq

\* Bytes that are taken out leave the others as they are.
LEMMA TakenOut ==
  ASSUME Typed, NEW d \in Ends, NEW then \in Nat, ReadAll(d, then), UNCHANGED out
  PROVE  /\ got' \in [Ends -> Seq(Byte)] /\ out' \in [Ends -> Seq(Byte)]
         /\ need' \in [Ends -> Nat] /\ need'[d] = then
         /\ Flow(d)' = out[d]
         /\ \A e \in Ends \ {d} : Flow(e)' = Flow(e) /\ need'[e] = need[e]
         /\ Len(got[d]) = need[d]
<1>1. <<>> \in Seq(Byte)
  BY EmptySeq
<1>2. got' = [got EXCEPT ![d] = <<>>] /\ need' = [need EXCEPT ![d] = then] /\ Len(got[d]) = need[d]
  BY DEF ReadAll
<1>3. got' \in [Ends -> Seq(Byte)] /\ got'[d] = <<>> /\ \A e \in Ends \ {d} : got'[e] = got[e]
  BY <1>1, <1>2 DEF Typed
<1>4. need' \in [Ends -> Nat] /\ need'[d] = then /\ \A e \in Ends \ {d} : need'[e] = need[e]
  BY <1>2 DEF Typed
<1>5. out[d] \in Seq(Byte) /\ <<>> \o out[d] = out[d]
  <2>1. out[d] \in Seq(Byte)
    BY DEF Typed
  <2> QED BY <2>1, ConcatEmptySeq
<1>6. Flow(d)' = out[d]
  BY <1>3, <1>5 DEF Flow
<1>7. \A e \in Ends \ {d} : Flow(e)' = Flow(e)
  BY <1>3 DEF Flow
<1> QED BY <1>2, <1>3, <1>4, <1>6, <1>7 DEF Typed

\* A length is read as it was written, and the sealed message is next.
LEMMA LengthRead ==
  ASSUME Typed, NEW d \in Ends, NEW m \in Texts, NEW k \in Keys, NEW size \in Sizes,
         need[d] = LenBytes, Len(got[d]) = need[d], IsPrefix(Flow(d), Frame(m, k, size))
  PROVE  /\ Length(got[d]) = size /\ IsPrefix(out[d], Seal(m, k, size))
         /\ Flow(d) = Frame(m, k, size) => out[d] = Seal(m, k, size)
<1>1. /\ Prefix(size) \in Seq(Byte) /\ Len(Prefix(size)) = LenBytes
      /\ Seal(m, k, size) \in Seq(Byte) /\ size \in Nat /\ size <= Limit
  BY FrameTyped
<1>2. got[d] \in Seq(Byte) /\ out[d] \in Seq(Byte)
  BY FlowTyped
<1>3. IsPrefix(got[d] \o out[d], Prefix(size) \o Seal(m, k, size))
  BY DEF Flow, Frame
<1>4. /\ got[d] = Prefix(size) /\ IsPrefix(out[d], Seal(m, k, size))
      /\ got[d] \o out[d] = Prefix(size) \o Seal(m, k, size) => out[d] = Seal(m, k, size)
  <2> DEFINE g == got[d]
             o == out[d]
             p == Prefix(size)
             r == Seal(m, k, size)
  <2>1. /\ g \in Seq(Byte) /\ o \in Seq(Byte) /\ p \in Seq(Byte) /\ r \in Seq(Byte)
        /\ IsPrefix(g \o o, p \o r) /\ Len(g) = Len(p)
    BY <1>1, <1>2, <1>3
  <2> HIDE DEF g, o, p, r
  <2>2. g = p /\ IsPrefix(o, r) /\ (g \o o = p \o r => o = r)
    BY ONLY <2>1, Take
  <2> QED BY <2>2 DEF g, o, p, r
<1>5. Length(Prefix(size)) = size
  BY <1>1, LengthOfPrefix
<1> QED BY <1>4, <1>5 DEF Flow, Frame

\* A sealed message is read whole.
LEMMA SealRead ==
  ASSUME Typed, NEW d \in Ends, NEW m \in Texts, NEW k \in Keys, NEW size \in Sizes,
         need[d] = size, Len(got[d]) = need[d], IsPrefix(Flow(d), Seal(m, k, size)),
         NEW key \in Keys
  PROVE  Open(got[d], key) = IF k = key THEN m ELSE Nothing
<1>1. Seal(m, k, size) \in Seq(Byte) /\ Len(Seal(m, k, size)) = size
  BY FrameTyped
<1>2. got[d] = Seal(m, k, size)
  <2> DEFINE p == Seal(m, k, size)
             g == got[d]
             o == out[d]
  <2>1. g \in Seq(Byte) /\ o \in Seq(Byte) /\ p \in Seq(Byte) /\ IsPrefix(g \o o, p) /\ Len(g) = Len(p)
    BY <1>1, FlowTyped DEF Flow
  <2> HIDE DEF p, g, o
  <2>2. g = p
    BY <2>1, TakeAll
  <2> QED BY <2>2 DEF p, g
<1> QED BY <1>2, SealOpens

\* The request that is opened is the one that was sent, if the keys agree.
LEMMA Opened ==
  ASSUME IInv, ReadRequest
  PROVE  dispatched' = IF sent.key = ServerKey THEN sent.of ELSE Nothing
<1>1. Typed /\ Upward /\ server = "payload" /\ dispatched' = Open(got["up"], ServerKey)
      /\ Len(got["up"]) = need["up"]
  BY DEF IInv, ReadRequest, ReadAll
<1>2. PICK size \in Sizes : need["up"] = size /\ IsPrefix(Flow("up"), Seal(sent.of, sent.key, size))
  BY <1>1 DEF Upward
<1>3. sent.of \in Texts /\ sent.key \in Keys /\ ServerKey \in Keys /\ "up" \in Ends
  BY <1>1, KeyAssumption DEF Typed, Texts, Ends
<1>4. Open(got["up"], ServerKey) = IF sent.key = ServerKey THEN sent.of ELSE Nothing
  BY <1>1, <1>2, <1>3, SealRead
<1> QED BY <1>1, <1>4

\* The answer that is opened is the one that was given.
LEMMA Answered ==
  ASSUME IInv, ReadResponse
  PROVE  /\ reply \in Outcomes /\ sent.key = ServerKey /\ client' = "done"
         /\ result' = IF reply = "ok" THEN "ok" ELSE Told
<1>1. /\ Typed /\ Downward /\ Dispatch /\ client = "payload" /\ client' = "done"
      /\ Len(got["down"]) = need["down"]
      /\ result' = LET answer == Open(got["down"], sent.key)
                   IN  IF answer = Nothing THEN "InvalidData"
                       ELSE IF answer = "ok" THEN "ok" ELSE Kind(answer)
  BY DEF IInv, ReadResponse, ReadAll, Finish
<1>2. reply \in Outcomes /\ sent.key = ServerKey
  BY <1>1 DEF Downward, Dispatch, Typed
<1>3. PICK size \in Sizes : need["down"] = size /\ Left(Seal(Answer, ServerKey, size))
  BY <1>1 DEF Downward
<1>4. Answer \in Texts /\ ServerKey \in Keys /\ "down" \in Ends
  BY <1>2, Back, KeyAssumption DEF Texts, Ends
<1>5. Open(got["down"], sent.key) = Answer
  BY <1>1, <1>2, <1>3, <1>4, SealRead DEF Left
<1> QED BY <1>1, <1>2, <1>5, Back

-----------------------------------------------------------------------------
(* One step.                                                               *)

\* The steps, for the proofs by cases that follow.
Sending == \E size \in 1..MaxSize : Send(size)
Responding == \E outcome \in Outcomes, size \in 1..MaxSize : Respond(outcome, size)
Losing == \E kind \in Losses : ClientLoses(kind)
Arriving == \E d \in Ends : Arrive(d)
Cutting == \E how \in {"silent", "broken"} : Cut(how)

\* The server reads a length, or the client does.
ServerReads ==
  /\ server = "length" /\ server' = "payload" /\ ReadAll("up", Length(got["up"]))
  /\ UNCHANGED <<sent, out, link, client, dispatched, reply, cause, result>>

ClientReads ==
  /\ client = "length" /\ client' = "payload" /\ ReadAll("down", Length(got["down"]))
  /\ UNCHANGED <<sent, out, link, server, dispatched, reply, cause, result>>

LEMMA Steps ==
  ASSUME [Next]_vars
  PROVE  \/ Sending \/ Responding \/ Losing \/ Arriving \/ Cutting \/ ServerReads \/ ClientReads
         \/ ReadTag \/ ReadRequest \/ ServerLoses \/ ServerTimesOut \/ ReadResponse
         \/ ClientTimesOut \/ Refuse \/ Die \/ UNCHANGED vars
<1>1. ReadLength => ServerReads \/ ClientReads
  BY DEF ReadLength, ServerReads, ClientReads
<1> QED BY <1>1 DEF Next, Serve, Call, Sending, Responding, Losing, Losses, Arriving, Ends, Cutting

\* Some size fits.
LEMMA OneFits == 1 \in Sizes
<1>1. Weight[LenBytes] \in Nat \ {0} /\ Weight[LenBytes - 1] \in Nat \ {0}
      /\ Weight[LenBytes] = Base * Weight[LenBytes - 1]
  <2>1. LenBytes \in 1..LenBytes /\ LenBytes \in 0..LenBytes /\ LenBytes - 1 \in 0..LenBytes
    BY WidthAssumption
  <2> QED BY <2>1, Weights
<1> DEFINE w == Weight[LenBytes - 1]
<1> HIDE DEF w
<1>2. Base * w >= 2
  <2>1. PICK b \in Nat : Base = 2 + b
    BY WidthAssumption
  <2>2. w \in Nat \ {0}
    BY <1>1 DEF w
  <2>3. b * w \in Nat /\ Base * w = 2 * w + b * w
    BY <2>1, <2>2
  <2> QED BY <2>2, <2>3
<1> QED BY <1>1, <1>2 DEF Limit, Sizes, w

LEMMA Initially == Init => IInv
<1> SUFFICES ASSUME Init PROVE IInv
  OBVIOUS
<1> USE DEF Init
<1>1. <<>> \in Seq(Byte) /\ <<>> \o <<>> = <<>>
  BY EmptySeq, ConcatEmptySeq
<1>2. LenBytes \in Nat \ {0}
  BY WidthAssumption
<1>3. /\ out \in [Ends -> Seq(Byte)] /\ got \in [Ends -> Seq(Byte)] /\ need \in [Ends -> Nat]
      /\ got["up"] = <<>> /\ out["up"] = <<>> /\ got["down"] = <<>> /\ out["down"] = <<>>
      /\ need["up"] = 1 /\ need["down"] = LenBytes
  <2>1. ASSUME NEW T, NEW x \in T, NEW y \in T
        PROVE  [up |-> x, down |-> y] \in [Ends -> T]
    BY DEF Ends
  <2>2. out = [up |-> <<>>, down |-> <<>>] /\ got = out /\ need = [up |-> 1, down |-> LenBytes]
    OBVIOUS
  <2>3. out \in [Ends -> Seq(Byte)] /\ need \in [Ends -> Nat]
    <3>1. [up |-> <<>>, down |-> <<>>] \in [Ends -> Seq(Byte)]
      BY <1>1, <2>1, Zenon
    <3>2. 1 \in Nat /\ LenBytes \in Nat
      BY <1>2
    <3>3. [up |-> 1, down |-> LenBytes] \in [Ends -> Nat]
      BY <3>2, <2>1, Zenon
    <3> QED BY <3>1, <3>3, <2>2
  <2>4. got["up"] = <<>> /\ out["up"] = <<>> /\ got["down"] = <<>> /\ out["down"] = <<>>
    BY <2>2
  <2>5. need["up"] = 1 /\ need["down"] = LenBytes
    BY <2>2
  <2> QED BY <2>2, <2>3, <2>4, <2>5
<1>4. Typed
  BY <1>3 DEF Typed
<1>5. Flow("up") = <<>> /\ Flow("down") = <<>>
  BY <1>1, <1>3 DEF Flow
<1>6. Upward
  <2>1. IsPrefix(<<>>, <<Tag>> \o Request(1))
    <3>1. Request(1) \in Seq(Byte) /\ <<Tag>> \in Seq(Byte)
      BY <1>4, OneFits, FrameTyped DEF Typed, Texts, Request
    <3>2. <<Tag>> \o Request(1) \in Seq(Byte)
      BY <3>1, ConcatProperties
    <3> DEFINE w == <<Tag>> \o Request(1)
               e == <<>>
    <3>3. e \in Seq(Byte) /\ Len(e) = 0 /\ w \in Seq(Byte)
      BY <3>2, EmptySeq
    <3> HIDE DEF w, e
    <3>4. Len(w) \in Nat
      BY <3>3, LenProperties
    <3>5. Len(e) <= Len(w) /\ \A i \in 1..Len(e) : e[i] = w[i]
      BY <3>3, <3>4
    <3>6. IsPrefix(e, w)
      BY <3>3, <3>5, PrefixItems, Zenon
    <3> QED BY <3>6 DEF e, w
  <2> QED BY <1>3, <1>5, <2>1, OneFits DEF Upward
<1>7. Downward
  BY <1>3, <1>5 DEF Downward
<1>8. Idle /\ TooLong /\ Dispatch /\ Causes /\ Results
  BY <1>5 DEF Idle, TooLong, Dispatch, Causes, Results, Reading
<1>9. ErrorTold /\ LossHasCause
  BY Kinds DEF ErrorTold, LossHasCause, Disconnects
<1> QED BY <1>4, <1>6, <1>7, <1>8, <1>9 DEF IInv

\* Bytes that arrive do not change what was sent.
LEMMA ArrivingFlow ==
  ASSUME Typed, Arriving
  PROVE  /\ got' \in [Ends -> Seq(Byte)] /\ out' \in [Ends -> Seq(Byte)]
         /\ \A e \in Ends : Flow(e)' = Flow(e)
<1>1. PICK d \in Ends : Arrive(d)
  BY DEF Arriving
<1>2. /\ out[d] # <<>> /\ got' = [got EXCEPT ![d] = Append(got[d], Head(out[d]))]
      /\ out' = [out EXCEPT ![d] = Tail(out[d])]
  BY <1>1 DEF Arrive
<1> DEFINE g == got[d]
           o == out[d]
           a == Append(g, Head(o))
           t == Tail(o)
<1>3. g \in Seq(Byte) /\ o \in Seq(Byte) /\ o # <<>>
  BY <1>2 DEF Typed
<1>4. a \in Seq(Byte) /\ t \in Seq(Byte) /\ a \o t = g \o o
  BY <1>3, OneArrives
<1>5. got' = [got EXCEPT ![d] = a] /\ out' = [out EXCEPT ![d] = t]
  BY <1>2
<1>6. g = got[d] /\ o = out[d]
  OBVIOUS
<1> HIDE DEF g, o, a, t
<1>7. got' \in [Ends -> Seq(Byte)] /\ got'[d] = a /\ \A e \in Ends \ {d} : got'[e] = got[e]
  BY <1>4, <1>5 DEF Typed
<1>8. out' \in [Ends -> Seq(Byte)] /\ out'[d] = t /\ \A e \in Ends \ {d} : out'[e] = out[e]
  BY <1>4, <1>5 DEF Typed
<1>9. ASSUME NEW e \in Ends
      PROVE  Flow(e)' = Flow(e)
  <2>1. CASE e = d
    BY <2>1, <1>4, <1>6, <1>7, <1>8 DEF Flow
  <2>2. CASE e # d
    BY <2>2, <1>7, <1>8 DEF Flow
  <2> QED BY <2>1, <2>2
<1> QED BY <1>7, <1>8, <1>9

\* What the client writes.
LEMMA SendingFlow ==
  ASSUME IInv, Sending
  PROVE  /\ client = "idle" /\ reply = "none" /\ got["up"] = <<>>
         /\ got' = got /\ out' \in [Ends -> Seq(Byte)] /\ Flow("down")' = Flow("down")
         /\ UNCHANGED <<sent, need, link, server, dispatched, reply, cause>>
         /\ \/ /\ client' = "length" /\ UNCHANGED result
               /\ \E size \in Sizes : Flow("up")' = <<Tag>> \o Request(size)
            \/ client' = "done" /\ result' = "InvalidInput" /\ Flow("up")' = <<Tag>>
<1>1. PICK size \in 1..MaxSize : Send(size)
  BY DEF Sending
<1>2. /\ client = "idle" /\ got' = got
      /\ UNCHANGED <<sent, need, link, server, dispatched, reply, cause>>
  BY <1>1 DEF Send
<1>3. Typed /\ Idle /\ Dispatch /\ Causes /\ Flow("up") = <<>> /\ server \in {"tag", "gone"} /\ link = "open"
  BY <1>2 DEF IInv, Idle
<1>4. reply = "none"
  BY <1>2, <1>3 DEF Idle
<1>5. got["up"] = <<>> /\ out["up"] = <<>> /\ "up" \in Ends /\ "down" \in Ends /\ sent.of \in Texts /\ sent.key \in Keys
  <2>1. "up" \in Ends /\ "down" \in Ends
    BY DEF Ends
  <2>2. got["up"] = <<>> /\ out["up"] = <<>>
    BY <1>3, <2>1, FlowTyped
  <2> QED BY <1>3, <2>1, <2>2 DEF Typed, Texts
<1>6. CASE size <= Limit
  <2>1. /\ out' = [out EXCEPT !["up"] = <<Tag>> \o Request(size)] /\ client' = "length" /\ UNCHANGED result
    BY <1>1, <1>6 DEF Send, Request
  <2>2. size \in Sizes
    BY <1>6, Weights, WidthAssumption DEF Sizes, Limit
  <2>3. <<Tag>> \o Request(size) \in Seq(Byte)
    BY <1>5, <2>2, FrameTyped, ConcatProperties DEF Request
  <2> DEFINE w == <<Tag>> \o Request(size)
  <2> HIDE DEF w
  <2>4. out' = [out EXCEPT !["up"] = w] /\ w \in Seq(Byte)
    BY <2>1, <2>3 DEF w
  <2>5. out' \in [Ends -> Seq(Byte)] /\ out'["up"] = w /\ out'["down"] = out["down"]
    BY <1>3, <1>5, <2>4 DEF Typed
  <2>6. Flow("up")' = w
    BY <1>2, <1>5, <2>4, <2>5, ConcatEmptySeq DEF Flow
  <2>7. Flow("down")' = Flow("down")
    BY <1>2, <2>5 DEF Flow
  <2>8. \E z \in Sizes : Flow("up")' = <<Tag>> \o Request(z)
    BY <2>2, <2>6 DEF w
  <2> QED BY <1>2, <1>4, <1>5, <2>1, <2>5, <2>7, <2>8
<1>7. CASE ~(size <= Limit)
  <2>1. out' = [out EXCEPT !["up"] = <<Tag>>] /\ client' = "done" /\ result' = "InvalidInput"
    BY <1>1, <1>7 DEF Send, Finish
  <2>2. <<Tag>> \in Seq(Byte)
    BY <1>5, OneFits, FrameTyped
  <2> DEFINE w == <<Tag>>
  <2> HIDE DEF w
  <2>4. out' = [out EXCEPT !["up"] = w] /\ w \in Seq(Byte)
    BY <2>1, <2>2 DEF w
  <2>5. out' \in [Ends -> Seq(Byte)] /\ out'["up"] = w /\ out'["down"] = out["down"]
    BY <1>3, <1>5, <2>4 DEF Typed
  <2>6. Flow("up")' = w
    BY <1>2, <1>5, <2>4, <2>5, ConcatEmptySeq DEF Flow
  <2>7. Flow("down")' = Flow("down")
    BY <1>2, <2>5 DEF Flow
  <2>8. Flow("up")' = <<Tag>>
    BY <2>6 DEF w
  <2> QED BY <1>2, <1>4, <1>5, <2>1, <2>5, <2>7, <2>8
<1> QED BY <1>6, <1>7

\* What the server writes: the answer, or nothing.
LEMMA RespondingFlow ==
  ASSUME IInv, Responding
  PROVE  /\ server = "handle" /\ server' = "gone" /\ reply = "none" /\ reply' \in Outcomes
         /\ got' = got /\ out' \in [Ends -> Seq(Byte)] /\ Flow("up")' = Flow("up")
         /\ UNCHANGED <<sent, need, link, client, dispatched, result>>
         /\ \/ /\ cause' = cause
               /\ \E size \in Sizes : Flow("down")' = Frame(Answer', ServerKey, size)
            \/ cause' = "length" /\ Flow("down")' = Flow("down")
<1>1. PICK outcome \in Outcomes, size \in 1..MaxSize : Respond(outcome, size)
  BY DEF Responding
<1>2. /\ server = "handle" /\ got' = got /\ reply' = outcome
      /\ UNCHANGED <<sent, need, link, client, dispatched, result>>
  BY <1>1 DEF Respond
<1>3. Typed /\ Dispatch /\ Downward
  BY DEF IInv
<1>4. reply = "none"
  BY <1>2, <1>3 DEF Dispatch
<1>5. /\ "up" \in Ends /\ "down" \in Ends /\ got["down"] = <<>>
      /\ ServerKey \in Keys /\ Answer' \in Texts
  <2>1. "up" \in Ends /\ "down" \in Ends
    BY DEF Ends
  <2>2. Flow("down") = <<>>
    BY <1>3, <1>4 DEF Downward
  <2>3. got["down"] = <<>>
    BY <1>3, <2>1, <2>2, FlowTyped
  <2>4. reply' \in Outcomes => Answer' \in Answers
    <3>1. Answer' = IF outcome = "ok" THEN "ok" ELSE Code(outcome)
      BY <1>2 DEF Answer
    <3>2. outcome \in DOMAIN CodeOfKind => outcome # "ok"
      BY Kinds
    <3> QED BY <3>1, <3>2 DEF Code, Answers
  <2> QED BY <1>2, <2>1, <2>3, <2>4, KeyAssumption DEF Texts
<1>6. Answer' = IF outcome = "ok" THEN "ok" ELSE Code(outcome)
  BY <1>2 DEF Answer
<1>7. CASE size <= Limit
  <2> DEFINE w == Frame(Answer', ServerKey, size)
  <2>1. out' = [out EXCEPT !["down"] = w] /\ server' = "gone" /\ UNCHANGED cause
    BY <1>1, <1>6, <1>7 DEF Respond
  <2>2. size \in Sizes
    BY <1>7, Weights, WidthAssumption DEF Sizes, Limit
  <2>3. w \in Seq(Byte)
    BY <1>5, <2>2, FrameTyped
  <2>4. w = Frame(Answer', ServerKey, size)
    OBVIOUS
  <2> HIDE DEF w
  <2>5. out' \in [Ends -> Seq(Byte)] /\ out'["down"] = w /\ out'["up"] = out["up"]
    BY <1>3, <1>5, <2>1, <2>3 DEF Typed
  <2>6. Flow("down")' = w
    BY <1>2, <1>5, <2>3, <2>5, ConcatEmptySeq DEF Flow
  <2>7. Flow("up")' = Flow("up")
    BY <1>2, <2>5 DEF Flow
  <2>8. \E z \in Sizes : Flow("down")' = Frame(Answer', ServerKey, z)
    BY <2>2, <2>4, <2>6
  <2> QED BY <1>2, <1>4, <2>1, <2>5, <2>7, <2>8
<1>8. CASE ~(size <= Limit)
  <2>1. out' = out /\ server' = "gone" /\ cause' = "length"
    BY <1>1, <1>8 DEF Respond, GoneFor
  <2>2. out' \in [Ends -> Seq(Byte)] /\ Flow("up")' = Flow("up") /\ Flow("down")' = Flow("down")
    BY <1>2, <1>3, <2>1 DEF Typed, Flow
  <2> QED BY <1>2, <1>4, <2>1, <2>2
<1> QED BY <1>7, <1>8

\* What a dying server leaves on its way.
LEMMA DyingFlow ==
  ASSUME Typed, Die
  PROVE  /\ out' \in [Ends -> Seq(Byte)] /\ Flow("up")' = Flow("up")
         /\ server' = "gone" /\ cause' = "died"
         /\ UNCHANGED <<sent, got, need, link, client, dispatched, reply, result>>
         /\ Flow("down") = <<>> => Flow("down")' = <<>>
         /\ \A w \in Seq(Byte) : IsPrefix(Flow("down"), w) => IsPrefix(Flow("down")', w)
<1>1. /\ server' = "gone" /\ cause' = "died"
      /\ UNCHANGED <<sent, got, need, link, client, dispatched, reply, result>>
  BY DEF Die, GoneFor
<1>2. PICK n \in 0..Len(out["down"]) : out' = [out EXCEPT !["down"] = SubSeq(out["down"], 1, n)]
  BY DEF Die
<1> DEFINE o == out["down"]
           g == got["down"]
           c == SubSeq(o, 1, n)
<1>3. /\ "up" \in Ends /\ "down" \in Ends /\ o \in Seq(Byte) /\ g \in Seq(Byte) /\ n \in 0..Len(o)
      /\ o = out["down"] /\ g = got["down"] /\ c = SubSeq(o, 1, n) /\ out' = [out EXCEPT !["down"] = c]
  BY <1>2 DEF Typed, Ends
<1> HIDE DEF o, g, c
<1>4. c \in Seq(Byte) /\ Len(c) = n
  <2>1. Len(o) \in Nat
    BY <1>3, LenProperties
  <2>2. n \in Int /\ 1 \in Int /\ \A i \in 1..n : o[i] \in Byte
    BY <1>3, <2>1, ElementOfSeq
  <2>3. SubSeq(o, 1, n) \in Seq(Byte) /\ Len(SubSeq(o, 1, n)) = IF 1 <= n THEN n - 1 + 1 ELSE 0
    BY <2>2, SubSeqProperties
  <2> QED BY <1>3, <2>1, <2>3
<1>5. out' \in [Ends -> Seq(Byte)] /\ out'["down"] = c /\ out'["up"] = out["up"]
  BY <1>3, <1>4 DEF Typed
<1>6. Flow("up")' = Flow("up") /\ Flow("down")' = g \o c /\ Flow("down") = g \o o
  BY <1>1, <1>3, <1>5 DEF Flow
<1>7. ASSUME Flow("down") = <<>>
      PROVE  Flow("down")' = <<>>
  <2>1. g = <<>> /\ o = <<>>
    <3>1. g \o o = <<>>
      BY <1>6, <1>7
    <3> QED BY <3>1, <1>3, ConcatEqualIffEmpty
  <2>2. Len(c) = 0
    BY <1>3, <1>4, <2>1, EmptySeq
  <2>3. c = <<>>
    BY <1>4, <2>2, EmptySeq
  <2> QED BY <1>6, <2>1, <2>3
<1>8. ASSUME NEW w \in Seq(Byte), IsPrefix(Flow("down"), w)
      PROVE  IsPrefix(Flow("down")', w)
  <2>1. IsPrefix(g \o o, w)
    BY <1>6, <1>8
  <2>2. IsPrefix(g \o SubSeq(o, 1, n), w)
    BY <1>3, <2>1, Cropped
  <2> QED BY <1>3, <1>6, <2>2
<1> QED BY <1>1, <1>5, <1>6, <1>7, <1>8

\* The tag is taken out, and what follows is a frame.
LEMMA TagFlow ==
  ASSUME IInv, ReadTag
  PROVE  /\ got' \in [Ends -> Seq(Byte)] /\ out' \in [Ends -> Seq(Byte)] /\ need' \in [Ends -> Nat]
         /\ server = "tag" /\ server' = "length" /\ client # "idle"
         /\ UNCHANGED <<sent, out, link, client, dispatched, reply, cause, result>>
         /\ Flow("down")' = Flow("down") /\ need'["down"] = need["down"]
         /\ need'["up"] = LenBytes
         /\ \E size \in Sizes : IsPrefix(Flow("up")', Request(size))
         /\ Len(Flow("up")) <= 1 => Flow("up")' = <<>>
<1>1. /\ Typed /\ Upward /\ Idle /\ server = "tag" /\ server' = "length" /\ ReadAll("up", LenBytes)
      /\ UNCHANGED <<sent, out, link, client, dispatched, reply, cause, result>>
  BY DEF IInv, ReadTag
<1>2. "up" \in Ends /\ "down" \in Ends /\ LenBytes \in Nat /\ sent.of \in Texts /\ sent.key \in Keys
  BY <1>1, WidthAssumption DEF Ends, Typed, Texts
<1>3. /\ got' \in [Ends -> Seq(Byte)] /\ out' \in [Ends -> Seq(Byte)] /\ need' \in [Ends -> Nat]
      /\ need'["up"] = LenBytes /\ Flow("up")' = out["up"]
      /\ Flow("down")' = Flow("down") /\ need'["down"] = need["down"]
      /\ Len(got["up"]) = need["up"]
  <2>1. "down" \in Ends \ {"up"}
    BY DEF Ends
  <2> QED BY <1>1, <1>2, <2>1, TakenOut
<1>4. PICK size \in Sizes : IsPrefix(Flow("up"), <<Tag>> \o Request(size))
  BY <1>1 DEF Upward
<1>5. /\ got["up"] \in Seq(Byte) /\ out["up"] \in Seq(Byte) /\ Len(got["up"]) = 1
      /\ Len(Flow("up")) = Len(got["up"]) + Len(out["up"]) /\ Len(out["up"]) \in Nat
      /\ Flow("up") = <<>> => Len(got["up"]) = 0
  BY <1>1, <1>2, <1>3, FlowTyped DEF Upward
<1>6. client # "idle"
  BY <1>1, <1>5 DEF Idle
<1>7. IsPrefix(out["up"], Request(size))
  <2> DEFINE g == got["up"]
             o == out["up"]
             p == <<Tag>>
             r == Request(size)
  <2>1. p \in Seq(Byte) /\ Len(p) = 1 /\ r \in Seq(Byte)
    BY <1>2, FrameTyped DEF Request
  <2>2. IsPrefix(g \o o, p \o r)
    BY <1>4 DEF Flow
  <2>3. g \in Seq(Byte) /\ o \in Seq(Byte) /\ Len(g) = Len(p)
    BY <1>5, <2>1
  <2> HIDE DEF g, o, p, r
  <2>4. IsPrefix(o, r)
    BY ONLY <2>1, <2>2, <2>3, Take
  <2> QED BY <2>4 DEF o, r
<1>8. ASSUME Len(Flow("up")) <= 1
      PROVE  Flow("up")' = <<>>
  <2>1. Len(out["up"]) = 0
    BY <1>5, <1>8
  <2> QED BY <1>3, <1>5, <2>1, EmptySeq
<1> QED BY <1>1, <1>3, <1>6, <1>7, <1>8

\* The server waits for the sealed message with the size that it has.
LEMMA ServerReadsFlow ==
  ASSUME IInv, ServerReads
  PROVE  /\ got' \in [Ends -> Seq(Byte)] /\ need' \in [Ends -> Nat]
         /\ Flow("down")' = Flow("down") /\ need'["down"] = need["down"]
         /\ Flow("up") # <<>>
         /\ \E size \in Sizes :
              need'["up"] = size /\ IsPrefix(Flow("up")', Seal(sent.of, sent.key, size))
<1>1. /\ Typed /\ Upward /\ server = "length" /\ ReadAll("up", Length(got["up"])) /\ UNCHANGED out
      /\ Len(got["up"]) = need["up"] /\ need["up"] = LenBytes
  BY DEF IInv, ServerReads, ReadAll, Upward
<1>2. "up" \in Ends /\ LenBytes \in Nat \ {0} /\ sent.of \in Texts /\ sent.key \in Keys
  BY <1>1, WidthAssumption DEF Ends, Typed, Texts
<1>3. PICK size \in Sizes : IsPrefix(Flow("up"), Frame(sent.of, sent.key, size))
  BY <1>1 DEF Upward, Request
<1>4. Length(got["up"]) = size /\ IsPrefix(out["up"], Seal(sent.of, sent.key, size))
  BY <1>1, <1>2, <1>3, LengthRead
<1>5. size \in Nat
  BY <1>2, FrameTyped
<1>6. /\ got' \in [Ends -> Seq(Byte)] /\ need' \in [Ends -> Nat]
      /\ need'["up"] = size /\ Flow("up")' = out["up"]
      /\ Flow("down")' = Flow("down") /\ need'["down"] = need["down"]
  <2>1. "down" \in Ends \ {"up"} /\ ReadAll("up", size)
    BY <1>1, <1>4 DEF Ends
  <2> QED BY <1>1, <1>2, <1>5, <2>1, TakenOut
<1>7. Flow("up") # <<>>
  BY <1>1, <1>2, FlowTyped
<1> QED BY <1>4, <1>6, <1>7

\* And so does the client.
LEMMA ClientReadsFlow ==
  ASSUME IInv, ClientReads
  PROVE  /\ got' \in [Ends -> Seq(Byte)] /\ need' \in [Ends -> Nat]
         /\ Flow("up")' = Flow("up") /\ need'["up"] = need["up"]
         /\ reply # "none"
         /\ \E size \in Sizes : need'["down"] = size /\ Left(Seal(Answer, ServerKey, size))'
<1>1. /\ Typed /\ Downward /\ client = "length" /\ ReadAll("down", Length(got["down"]))
      /\ UNCHANGED <<out, reply, cause>>
      /\ Len(got["down"]) = need["down"] /\ need["down"] = LenBytes
  BY DEF IInv, ClientReads, ReadAll, Downward
<1>2. "down" \in Ends /\ LenBytes \in Nat \ {0} /\ ServerKey \in Keys
  BY WidthAssumption, KeyAssumption DEF Ends
<1>3. reply # "none"
  BY <1>1, <1>2, FlowTyped DEF Downward
<1>4. Answer \in Texts /\ Answer' = Answer
  BY <1>1, <1>3, Back DEF Typed, Texts, Answer
<1>5. PICK size \in Sizes : Left(Frame(Answer, ServerKey, size))
  BY <1>1, <1>3 DEF Downward
<1>6. /\ Length(got["down"]) = size /\ IsPrefix(out["down"], Seal(Answer, ServerKey, size))
      /\ Flow("down") = Frame(Answer, ServerKey, size) =>
           out["down"] = Seal(Answer, ServerKey, size)
  BY <1>1, <1>2, <1>4, <1>5, LengthRead DEF Left
<1>7. size \in Nat
  BY <1>2, <1>4, FrameTyped
<1>8. /\ got' \in [Ends -> Seq(Byte)] /\ need' \in [Ends -> Nat]
      /\ need'["down"] = size /\ Flow("down")' = out["down"]
      /\ Flow("up")' = Flow("up") /\ need'["up"] = need["up"]
  <2>1. "up" \in Ends \ {"down"} /\ ReadAll("down", size)
    BY <1>1, <1>6 DEF Ends
  <2> QED BY <1>1, <1>2, <1>7, <2>1, TakenOut
<1>9. Seal(Answer, ServerKey, size)' = Seal(Answer, ServerKey, size)
  BY <1>4
<1>10. Left(Seal(Answer, ServerKey, size))'
  BY <1>1, <1>5, <1>6, <1>8, <1>9 DEF Left
<1> QED BY <1>3, <1>8, <1>10

\* A sealed message is taken out.
LEMMA RequestFlow ==
  ASSUME IInv, ReadRequest
  PROVE  /\ got' \in [Ends -> Seq(Byte)] /\ need' \in [Ends -> Nat]
         /\ Flow("down")' = Flow("down") /\ need'["down"] = need["down"]
<1>1. "up" \in Ends /\ "down" \in Ends \ {"up"} /\ Typed /\ ReadAll("up", 0) /\ UNCHANGED out
  BY DEF Ends, IInv, ReadRequest
<1> QED BY <1>1, TakenOut

LEMMA ResponseFlow ==
  ASSUME IInv, ReadResponse
  PROVE  /\ got' \in [Ends -> Seq(Byte)] /\ need' \in [Ends -> Nat]
         /\ Flow("up")' = Flow("up") /\ need'["up"] = need["up"]
<1>1. "down" \in Ends /\ "up" \in Ends \ {"down"} /\ Typed /\ ReadAll("down", 0) /\ UNCHANGED out
  BY DEF Ends, IInv, ReadResponse
<1> QED BY <1>1, TakenOut

\* The steps that leave the bytes alone.
LEMMA NoFlow ==
  ASSUME Losing \/ Cutting \/ ServerLoses \/ ServerTimesOut \/ ClientTimesOut \/ Refuse \/ UNCHANGED vars
  PROVE  UNCHANGED <<sent, out, got, need, dispatched, reply, Flow("up"), Flow("down")>>
<1>1. UNCHANGED <<sent, out, got, need, dispatched, reply>>
  BY DEF Losing, ClientLoses, Cutting, Cut, ServerLoses, ServerTimesOut, ClientTimesOut, Refuse, vars
<1> QED BY <1>1 DEF Flow

LEMMA TypedStep == IInv /\ [Next]_vars => Typed'
<1> SUFFICES ASSUME IInv, [Next]_vars PROVE Typed'
  OBVIOUS
<1>1. Typed
  BY DEF IInv
<1>2. CASE Sending
  BY <1>1, <1>2, SendingFlow DEF Typed
<1>3. CASE Responding
  BY <1>1, <1>3, RespondingFlow DEF Typed
<1>4. CASE Losing
  <2>1. client' = "done" /\ UNCHANGED <<sent, out, got, need, link, server, dispatched, reply, cause>>
    BY <1>4 DEF Losing, ClientLoses, Finish
  <2> QED BY <1>1, <2>1 DEF Typed
<1>5. CASE Arriving
  <2>1. UNCHANGED <<sent, need, link, client, server, dispatched, reply, cause, result>>
    BY <1>5 DEF Arriving, Arrive
  <2>2. got' \in [Ends -> Seq(Byte)] /\ out' \in [Ends -> Seq(Byte)]
    BY <1>1, <1>5, ArrivingFlow
  <2> QED BY <1>1, <2>1, <2>2 DEF Typed
<1>6. CASE Cutting
  <2>1. /\ link' \in {"silent", "broken"} /\ cause' \in {cause, "silent", "broken"}
        /\ UNCHANGED <<sent, out, got, need, client, server, dispatched, reply, result>>
    BY <1>6 DEF Cutting, Cut
  <2> QED BY <1>1, <2>1 DEF Typed
<1>7. CASE ServerReads
  <2>1. /\ server' = "payload"
        /\ UNCHANGED <<sent, out, link, client, dispatched, reply, cause>>
    BY <1>7 DEF ServerReads
  <2> QED BY <1>1, <1>7, <2>1, ServerReadsFlow DEF Typed
<1>8. CASE ClientReads
  <2>1. /\ client' = "payload"
        /\ UNCHANGED <<sent, out, link, server, dispatched, reply, cause>>
    BY <1>8 DEF ClientReads
  <2> QED BY <1>1, <1>8, <2>1, ClientReadsFlow DEF Typed
<1>9. CASE ReadTag
  BY <1>1, <1>9, TagFlow DEF Typed
<1>10. CASE ReadRequest
  <2>1. /\ server' \in {"gone", "handle"} /\ cause' \in {"sealed", cause}
        /\ UNCHANGED <<sent, out, link, client, reply>>
    BY <1>10 DEF ReadRequest, GoneFor
  <2>2. dispatched' \in Messages \cup {Nothing}
    BY <1>1, <1>10, Opened DEF Typed
  <2> QED BY <1>1, <1>10, <2>1, <2>2, RequestFlow DEF Typed
<1>11. CASE ServerLoses \/ ServerTimesOut
  <2>1. /\ server' = "gone" /\ cause' \in {"client", "timeout", cause}
        /\ UNCHANGED <<sent, out, got, need, link, client, dispatched, reply>>
    BY <1>11 DEF ServerLoses, ServerTimesOut, GoneFor
  <2> QED BY <1>1, <2>1 DEF Typed
<1>12. CASE ReadResponse
  <2>1. /\ client' = "done"
        /\ UNCHANGED <<sent, out, link, server, dispatched, reply, cause>>
    BY <1>12 DEF ReadResponse, Finish
  <2> QED BY <1>1, <1>12, <2>1, ResponseFlow DEF Typed
<1>13. CASE ClientTimesOut
  <2>1. client' = "done" /\ UNCHANGED <<sent, out, got, need, link, server, dispatched, reply, cause>>
    BY <1>13 DEF ClientTimesOut, Finish
  <2> QED BY <1>1, <2>1 DEF Typed
<1>14. CASE Refuse
  <2>1. /\ client' = "done" /\ server' = "gone" /\ cause' = "refused"
        /\ UNCHANGED <<sent, out, got, need, link, dispatched, reply>>
    BY <1>14 DEF Refuse, Finish, GoneFor
  <2> QED BY <1>1, <2>1 DEF Typed
<1>15. CASE Die
  BY <1>1, <1>15, DyingFlow DEF Typed
<1>16. CASE UNCHANGED vars
  BY <1>1, <1>16 DEF Typed, vars
<1> QED BY <1>2, <1>3, <1>4, <1>5, <1>6, <1>7, <1>8, <1>9, <1>10, <1>11, <1>12, <1>13, <1>14, <1>15,
           <1>16, Steps

LEMMA UpwardStep == IInv /\ [Next]_vars => Upward'
<1> SUFFICES ASSUME IInv, [Next]_vars PROVE Upward'
  OBVIOUS
<1>1. Typed /\ Upward /\ Idle /\ sent.of \in Texts /\ sent.key \in Keys
  BY DEF IInv, Typed, Texts
<1>2. ASSUME UNCHANGED <<sent, server>>, need'["up"] = need["up"], Flow("up")' = Flow("up")
      PROVE  Upward'
  BY <1>1, <1>2 DEF Upward, Request
<1>3. ASSUME server' \in {"handle", "gone"}
      PROVE  Upward'
  BY <1>3 DEF Upward
<1>4. CASE Sending
  <2>1. /\ UNCHANGED <<sent, need, server>> /\ server \in {"tag", "gone"}
        /\ \/ \E size \in Sizes : Flow("up")' = <<Tag>> \o Request(size)
           \/ Flow("up")' = <<Tag>>
    BY <1>1, <1>4, SendingFlow DEF Idle
  <2>2. ASSUME NEW size \in Sizes
        PROVE  /\ IsPrefix(<<Tag>> \o Request(size), <<Tag>> \o Request(size))
               /\ IsPrefix(<<Tag>>, <<Tag>> \o Request(size))
    <3> DEFINE p == <<Tag>>
               r == Request(size)
               w == p \o r
    <3>1. p \in Seq(Byte) /\ Len(p) = 1 /\ r \in Seq(Byte)
      BY <1>1, FrameTyped DEF Request
    <3> HIDE DEF p, r
    <3>2. /\ w \in Seq(Byte) /\ Len(w) = 1 + Len(r) /\ Len(r) \in Nat
          /\ \A i \in 1..1 : w[i] = p[i]
      <4>1. /\ w \in Seq(Byte) /\ Len(w) = Len(p) + Len(r)
            /\ \A i \in 1..Len(p) + Len(r) : w[i] = IF i <= Len(p) THEN p[i] ELSE r[i - Len(p)]
        BY ONLY <3>1, ConcatProperties
      <4>2. Len(r) \in Nat
        BY ONLY <3>1, LenProperties
      <4> HIDE DEF w
      <4> QED BY ONLY <3>1, <4>1, <4>2
    <3> HIDE DEF w
    <3>3. Len(w) <= Len(w) /\ Len(p) <= Len(w)
      BY <3>1, <3>2
    <3>4. IsPrefix(w, w)
      BY <3>2, <3>3, PrefixItems
    <3>5. IsPrefix(p, w)
      BY <3>1, <3>2, <3>3, PrefixItems
    <3> QED BY <3>4, <3>5 DEF w, p, r
  <2>3. \E size \in Sizes : IsPrefix(Flow("up")', <<Tag>> \o Request(size))
    BY <2>1, <2>2, OneFits
  <2>4. \A size : Request(size)' = Request(size)
    BY <2>1 DEF Request
  <2> QED BY <1>1, <2>1, <2>3, <2>4 DEF Upward
<1>5. CASE Responding
  BY <1>3, <1>5, RespondingFlow
<1>6. CASE Losing \/ Cutting \/ ClientTimesOut \/ UNCHANGED vars
  <2>1. UNCHANGED <<sent, server, need, Flow("up")>>
    <3>1. UNCHANGED server
      BY <1>6 DEF Losing, ClientLoses, Cutting, Cut, ClientTimesOut, vars
    <3> QED BY <1>6, <3>1, NoFlow
  <2> QED BY <1>2, <2>1
<1>7. CASE Arriving
  <2>1. UNCHANGED <<sent, need, server>>
    BY <1>7 DEF Arriving, Arrive
  <2>2. Flow("up")' = Flow("up")
    BY <1>1, <1>7, ArrivingFlow DEF Ends
  <2> QED BY <1>2, <2>1, <2>2
<1>8. CASE ServerReads
  <2>1. server' = "payload" /\ sent' = sent
    BY <1>8 DEF ServerReads
  <2>2. \E size \in Sizes :
          need'["up"] = size /\ IsPrefix(Flow("up")', Seal(sent.of, sent.key, size))
    BY <1>8, ServerReadsFlow
  <2> QED BY <2>1, <2>2 DEF Upward
<1>9. CASE ClientReads
  <2>1. UNCHANGED <<sent, server>>
    BY <1>9 DEF ClientReads
  <2> QED BY <1>2, <1>9, <2>1, ClientReadsFlow
<1>10. CASE ReadTag
  <2>1. /\ server' = "length" /\ sent' = sent /\ need'["up"] = LenBytes
        /\ \E size \in Sizes : IsPrefix(Flow("up")', Request(size))
    BY <1>10, TagFlow
  <2>2. \A size : Request(size)' = Request(size)
    BY <2>1 DEF Request
  <2> QED BY <2>1, <2>2 DEF Upward
<1>11. CASE ReadRequest \/ ServerLoses \/ ServerTimesOut \/ Refuse \/ Die
  <2>1. server' \in {"handle", "gone"}
    BY <1>11 DEF ReadRequest, ServerLoses, ServerTimesOut, Refuse, Die, GoneFor
  <2> QED BY <1>3, <2>1
<1>12. CASE ReadResponse
  <2>1. UNCHANGED <<sent, server>>
    BY <1>12 DEF ReadResponse
  <2> QED BY <1>2, <1>12, <2>1, ResponseFlow
<1> QED BY <1>4, <1>5, <1>6, <1>7, <1>8, <1>9, <1>10, <1>11, <1>12, Steps

LEMMA DownwardStep == IInv /\ [Next]_vars => Downward'
<1> SUFFICES ASSUME IInv, [Next]_vars PROVE Downward'
  OBVIOUS
<1>1. Typed /\ Downward /\ Idle /\ Dispatch
  BY DEF IInv
<1>2. ASSUME UNCHANGED <<client, reply>>, need'["down"] = need["down"], Flow("down")' = Flow("down"),
             cause' = "none" => cause = "none"
      PROVE  Downward'
  <2>1. \A w : Left(w) => IsPrefix(Flow("down")', w) /\ (cause' = "none" => Flow("down")' = w)
    BY <1>2 DEF Left
  <2>2. Answer' = Answer
    BY <1>2 DEF Answer
  <2>3. ASSUME NEW size \in Sizes, Left(Frame(Answer, ServerKey, size))
        PROVE  Left(Frame(Answer, ServerKey, size))'
    BY <2>1, <2>2, <2>3 DEF Left
  <2>4. ASSUME NEW size \in Sizes, Left(Seal(Answer, ServerKey, size))
        PROVE  Left(Seal(Answer, ServerKey, size))'
    BY <2>1, <2>2, <2>4 DEF Left
  <2> QED BY <1>1, <1>2, <2>3, <2>4 DEF Downward
<1>3. ASSUME client' = "done", reply' = "none" => Flow("down")' = <<>>
      PROVE  Downward'
  BY <1>3 DEF Downward
<1>4. CASE Sending
  <2>1. /\ client = "idle" /\ client' \in {"length", "done"} /\ reply = "none"
        /\ UNCHANGED <<need, reply>> /\ Flow("down")' = Flow("down")
    BY <1>4, SendingFlow
  <2> QED BY <1>1, <2>1 DEF Downward
<1>5. CASE Responding
  <2>1. /\ server = "handle" /\ reply = "none" /\ reply' \in Outcomes
        /\ UNCHANGED <<need, client>>
        /\ \/ /\ cause' = cause
              /\ \E size \in Sizes : Flow("down")' = Frame(Answer', ServerKey, size)
           \/ cause' = "length" /\ Flow("down")' = Flow("down")
    BY <1>5, RespondingFlow
  <2>2. reply' # "none" /\ client \notin {"idle", "payload"} /\ Flow("down") = <<>>
    <3>1. reply' # "none"
      BY <2>1, Kinds DEF Outcomes
    <3> QED BY <1>1, <2>1, <3>1 DEF Downward, Idle
  <2>3. Answer' \in Texts /\ ServerKey \in Keys
    <3>1. Answer' \in Answers
      <4>1. Answer' = IF reply' = "ok" THEN "ok" ELSE Code(reply')
        BY DEF Answer
      <4>2. reply' \in DOMAIN CodeOfKind => reply' # "ok"
        BY Kinds
      <4> QED BY <4>1, <4>2 DEF Code, Answers
    <3> QED BY <3>1, KeyAssumption DEF Texts
  <2>4. ASSUME NEW size \in Sizes
        PROVE  /\ IsPrefix(Frame(Answer', ServerKey, size), Frame(Answer', ServerKey, size))
               /\ IsPrefix(<<>>, Frame(Answer', ServerKey, size))
    <3> DEFINE w == Frame(Answer', ServerKey, size)
               e == <<>>
    <3>1. w \in Seq(Byte) /\ e \in Seq(Byte) /\ Len(e) = 0
      BY <2>3, FrameTyped, EmptySeq
    <3> HIDE DEF w, e
    <3>2. Len(w) \in Nat
      BY <3>1, LenProperties
    <3>3. Len(w) <= Len(w) /\ Len(e) <= Len(w) /\ \A i \in 1..Len(e) : e[i] = w[i]
      BY <3>1, <3>2
    <3>4. IsPrefix(w, w)
      BY <3>1, <3>3, PrefixItems
    <3>5. IsPrefix(e, w)
      BY <3>1, <3>3, PrefixItems, Zenon
    <3> QED BY <3>4, <3>5 DEF w, e
  <2>5. \E size \in Sizes : Left(Frame(Answer, ServerKey, size))'
    <3>1. CASE \E size \in Sizes : Flow("down")' = Frame(Answer', ServerKey, size)
      <4>1. PICK size \in Sizes : Flow("down")' = Frame(Answer', ServerKey, size)
        BY <3>1
      <4>2. Left(Frame(Answer, ServerKey, size))'
        BY <4>1, <2>4 DEF Left
      <4> QED BY <4>2
    <3>2. CASE cause' = "length" /\ Flow("down")' = Flow("down")
      <4>1. Left(Frame(Answer, ServerKey, 1))'
        BY <3>2, <2>2, <2>4, OneFits DEF Left
      <4> QED BY <4>1, OneFits
    <3> QED BY <2>1, <3>1, <3>2
  <2> QED BY <1>1, <2>1, <2>2, <2>5 DEF Downward
<1>6. CASE Losing \/ ClientTimesOut \/ Refuse
  <2>1. client' = "done"
    BY <1>6 DEF Losing, ClientLoses, ClientTimesOut, Refuse, Finish
  <2>2. UNCHANGED <<reply, Flow("down")>>
    BY <1>6, NoFlow
  <2> QED BY <1>1, <1>3, <2>1, <2>2 DEF Downward
<1>7. CASE Arriving
  <2>1. UNCHANGED <<need, client, reply, cause>>
    BY <1>7 DEF Arriving, Arrive
  <2>2. Flow("down")' = Flow("down")
    BY <1>1, <1>7, ArrivingFlow DEF Ends
  <2> QED BY <1>2, <2>1, <2>2
<1>8. CASE Cutting \/ ServerLoses \/ ServerTimesOut \/ UNCHANGED vars
  <2>1. client' = client /\ (cause' = "none" => cause = "none")
    BY <1>8 DEF Cutting, Cut, ServerLoses, ServerTimesOut, GoneFor, vars
  <2>2. UNCHANGED <<need, reply, Flow("down")>>
    BY <1>8, NoFlow
  <2> QED BY <1>2, <2>1, <2>2
<1>9. CASE ServerReads
  <2>1. UNCHANGED <<client, reply, cause>>
    BY <1>9 DEF ServerReads
  <2> QED BY <1>2, <1>9, <2>1, ServerReadsFlow
<1>10. CASE ClientReads
  <2>1. client' = "payload" /\ reply' = reply
    BY <1>10 DEF ClientReads
  <2>2. reply # "none" /\ \E size \in Sizes : need'["down"] = size /\ Left(Seal(Answer, ServerKey, size))'
    BY <1>10, ClientReadsFlow
  <2> QED BY <2>1, <2>2 DEF Downward
<1>11. CASE ReadTag
  BY <1>2, <1>11, TagFlow
<1>12. CASE ReadRequest
  <2>1. UNCHANGED <<client, reply>> /\ (cause' = "none" => cause = "none")
    BY <1>12 DEF ReadRequest, GoneFor
  <2> QED BY <1>2, <1>12, <2>1, RequestFlow
<1>13. CASE ReadResponse
  <2>1. client = "payload" /\ client' = "done" /\ reply' = reply
    BY <1>13 DEF ReadResponse, Finish
  <2> QED BY <1>1, <1>3, <2>1 DEF Downward
<1>14. CASE Die
  <2>1. /\ UNCHANGED <<need, client, reply>> /\ cause' # "none"
        /\ Flow("down") = <<>> => Flow("down")' = <<>>
        /\ \A w \in Seq(Byte) : IsPrefix(Flow("down"), w) => IsPrefix(Flow("down")', w)
    BY <1>1, <1>14, DyingFlow
  <2>2. reply # "none" => Answer \in Texts
    BY <1>1, Back DEF Typed, Texts
  <2>3. Answer' = Answer /\ ServerKey \in Keys
    BY <2>1, KeyAssumption DEF Answer
  <2>4. ASSUME reply # "none", NEW size \in Sizes
        PROVE  /\ Left(Frame(Answer, ServerKey, size)) => Left(Frame(Answer, ServerKey, size))'
               /\ Left(Seal(Answer, ServerKey, size)) => Left(Seal(Answer, ServerKey, size))'
    <3>1. Frame(Answer, ServerKey, size) \in Seq(Byte) /\ Seal(Answer, ServerKey, size) \in Seq(Byte)
      BY <2>2, <2>3, <2>4, FrameTyped
    <3> QED BY <2>1, <2>3, <3>1 DEF Left
  <2> QED BY <1>1, <2>1, <2>4 DEF Downward
<1> QED BY <1>4, <1>5, <1>6, <1>7, <1>8, <1>9, <1>10, <1>11, <1>12, <1>13, <1>14, Steps

LEMMA IdleStep == IInv /\ [Next]_vars => Idle'
<1> SUFFICES ASSUME IInv, [Next]_vars, client' = "idle"
             PROVE  /\ Flow("up")' = <<>> /\ server' \in {"tag", "gone"}
                    /\ link' = "open" /\ reply' = "none"
  BY DEF Idle
<1>1. Typed /\ Idle
  BY DEF IInv
<1>2. ASSUME client = "idle", UNCHANGED <<link, reply, Flow("up")>>, server' \in {server, "gone"}
      PROVE  /\ Flow("up")' = <<>> /\ server' \in {"tag", "gone"}
             /\ link' = "open" /\ reply' = "none"
  BY <1>1, <1>2 DEF Idle
<1>3. CASE Sending \/ ReadTag
  BY <1>3, SendingFlow, TagFlow
<1>4. CASE Responding
  BY <1>1, <1>4, RespondingFlow DEF Idle
<1>5. CASE Losing \/ ClientTimesOut \/ Refuse \/ ReadResponse \/ ClientReads \/ Cutting
  BY <1>5 DEF Losing, ClientLoses, ClientTimesOut, Refuse, ReadResponse, ClientReads, Cutting, Cut,
              Finish
<1>6. CASE Arriving
  <2>1. UNCHANGED <<link, client, server, reply>>
    BY <1>6 DEF Arriving, Arrive
  <2>2. Flow("up")' = Flow("up")
    BY <1>1, <1>6, ArrivingFlow DEF Ends
  <2> QED BY <1>2, <2>1, <2>2
<1>7. CASE ServerLoses \/ ServerTimesOut \/ UNCHANGED vars
  <2>1. UNCHANGED <<link, client>> /\ server' \in {server, "gone"}
    BY <1>7 DEF ServerLoses, ServerTimesOut, GoneFor, vars
  <2> QED BY <1>2, <1>7, <2>1, NoFlow
<1>8. CASE ServerReads \/ ReadRequest
  BY <1>1, <1>8 DEF ServerReads, ReadRequest, Idle
<1>9. CASE Die
  BY <1>1, <1>2, <1>9, DyingFlow
<1> QED BY <1>3, <1>4, <1>5, <1>6, <1>7, <1>8, <1>9, Steps

LEMMA TooLongStep == IInv /\ [Next]_vars => TooLong'
<1> SUFFICES ASSUME IInv, [Next]_vars, result' = "InvalidInput", reply' = "none"
             PROVE  /\ server' \in {"tag", "length", "gone"}
                    /\ server' = "tag" => Len(Flow("up")') <= 1
                    /\ server' = "length" => Flow("up")' = <<>>
  BY DEF TooLong
<1>1. Typed /\ Idle /\ TooLong /\ Results /\ Downward
  BY DEF IInv
<1>2. ASSUME UNCHANGED <<result, reply, Flow("up")>>, server' \in {server, "gone"}
      PROVE  /\ server' \in {"tag", "length", "gone"}
             /\ server' = "tag" => Len(Flow("up")') <= 1
             /\ server' = "length" => Flow("up")' = <<>>
  BY <1>1, <1>2 DEF TooLong
<1>3. CASE Sending
  <2>1. client = "idle" /\ server' = server /\ server \in {"tag", "gone"} /\ result = "none"
    BY <1>1, <1>3, SendingFlow DEF Idle, Results
  <2>2. \/ result' = result
        \/ Flow("up")' = <<Tag>>
    BY <1>3, SendingFlow
  <2>3. Flow("up")' = <<Tag>>
    BY <2>1, <2>2
  <2>4. Len(Flow("up")') <= 1
    <3>1. Len(<<Tag>>) <= 1
      OBVIOUS
    <3> QED BY <2>3, <3>1, Zenon
  <2>5. server' \in {"tag", "gone"}
    BY <2>1
  <2>6. server' # "length"
    BY <2>5
  <2> QED BY <2>4, <2>5, <2>6, Zenon
<1>4. CASE Responding
  <2>1. reply' # "none"
    BY <1>4, RespondingFlow, Kinds DEF Outcomes
  <2> QED BY <2>1
<1>5. CASE Losing \/ ClientTimesOut \/ Refuse
  BY <1>5 DEF Losing, Losses, ClientLoses, ClientTimesOut, Refuse, Finish
<1>6. CASE ReadResponse
  BY <1>1, <1>6 DEF Downward, ReadResponse
<1>7. CASE Arriving
  <2>1. UNCHANGED <<server, reply, result>>
    BY <1>7 DEF Arriving, Arrive
  <2>2. Flow("up")' = Flow("up")
    BY <1>1, <1>7, ArrivingFlow DEF Ends
  <2> QED BY <1>2, <2>1, <2>2
<1>8. CASE Cutting \/ ServerLoses \/ ServerTimesOut \/ UNCHANGED vars
  <2>1. result' = result /\ server' \in {server, "gone"}
    BY <1>8 DEF Cutting, Cut, ServerLoses, ServerTimesOut, GoneFor, vars
  <2> QED BY <1>2, <1>8, <2>1, NoFlow
<1>9. CASE ServerReads
  <2>1. server = "length" /\ UNCHANGED <<result, reply>>
    BY <1>9 DEF ServerReads
  <2> QED BY <1>1, <1>9, <2>1, ServerReadsFlow DEF TooLong
<1>10. CASE ClientReads
  <2>1. UNCHANGED <<server, result, reply>>
    BY <1>10 DEF ClientReads
  <2> QED BY <1>2, <1>10, <2>1, ClientReadsFlow
<1>11. CASE ReadTag
  BY <1>1, <1>11, TagFlow DEF TooLong
<1>12. CASE ReadRequest
  <2>1. server = "payload" /\ UNCHANGED <<result, reply>>
    BY <1>12 DEF ReadRequest
  <2> QED BY <1>1, <2>1 DEF TooLong
<1>13. CASE Die
  BY <1>1, <1>2, <1>13, DyingFlow
<1> QED BY <1>3, <1>4, <1>5, <1>6, <1>7, <1>8, <1>9, <1>10, <1>11, <1>12, <1>13, Steps

LEMMA DispatchStep == IInv /\ [Next]_vars => Dispatch'
<1> SUFFICES ASSUME IInv, [Next]_vars PROVE Dispatch'
  OBVIOUS
<1>1. Typed /\ Idle /\ Dispatch /\ Nothing \notin Messages
  BY NothingAssumption DEF IInv
<1>2. ASSUME UNCHANGED <<sent, dispatched, reply>>,
             server' \in {server, "gone"} \/ (server \in Reading /\ server' \in Reading)
      PROVE  Dispatch'
  BY <1>1, <1>2 DEF Dispatch, Reading
<1>3. CASE Sending
  <2>1. UNCHANGED <<sent, server, dispatched, reply>>
    BY <1>3, SendingFlow
  <2> QED BY <1>2, <2>1
<1>4. CASE Responding
  <2>1. /\ server = "handle" /\ server' = "gone" /\ UNCHANGED <<sent, dispatched>>
    BY <1>4, RespondingFlow
  <2> QED BY <1>1, <2>1 DEF Dispatch, Reading
<1>5. CASE ReadRequest
  <2>1. /\ server = "payload" /\ UNCHANGED <<sent, reply>>
        /\ server' = IF dispatched' = Nothing THEN "gone" ELSE "handle"
    BY <1>5 DEF ReadRequest, GoneFor
  <2>2. dispatched' = IF sent.key = ServerKey THEN sent.of ELSE Nothing
    BY <1>5, Opened
  <2> QED BY <1>1, <2>1, <2>2 DEF Dispatch, Reading
<1>6. CASE ServerReads \/ ReadTag
  BY <1>2, <1>6 DEF ServerReads, ReadTag, Reading
<1>7. CASE Losing \/ Cutting \/ ServerLoses \/ ServerTimesOut \/ ClientTimesOut \/ Refuse
           \/ UNCHANGED vars
  <2>1. server' \in {server, "gone"}
    BY <1>7 DEF Losing, ClientLoses, Cutting, Cut, ServerLoses, ServerTimesOut, ClientTimesOut,
                Refuse, GoneFor, vars
  <2>2. UNCHANGED <<sent, dispatched, reply>>
    BY <1>7, NoFlow
  <2> QED BY <1>2, <2>1, <2>2
<1>8. CASE Arriving \/ ClientReads \/ ReadResponse \/ Die
  <2>1. UNCHANGED <<sent, dispatched, reply>> /\ server' \in {server, "gone"}
    BY <1>8 DEF Arriving, Arrive, ClientReads, ReadResponse, Die, GoneFor
  <2> QED BY <1>2, <2>1
<1> QED BY <1>3, <1>4, <1>5, <1>6, <1>7, <1>8, Steps

LEMMA CausesStep == IInv /\ [Next]_vars => Causes'
<1> SUFFICES ASSUME IInv, [Next]_vars PROVE Causes'
  OBVIOUS
<1>1. Typed /\ Idle /\ Dispatch /\ Causes /\ Nothing \notin Messages
  BY NothingAssumption DEF IInv
<1>2. ASSUME UNCHANGED <<sent, link, cause, reply>>, server' # "gone" \/ server' = server
      PROVE  Causes'
  BY <1>1, <1>2 DEF Causes
<1>3. ASSUME UNCHANGED <<sent, link>>, cause' \in {"refused", "length", "died", "client", "timeout"}
      PROVE  Causes'
  BY <1>1, <1>3 DEF Causes
<1>4. CASE Sending
  BY <1>2, <1>4, SendingFlow
<1>5. CASE Responding
  <2>1. /\ UNCHANGED <<sent, link>> /\ reply' \in Outcomes /\ cause' \in {cause, "length"}
    BY <1>5, RespondingFlow
  <2>2. reply' # "none"
    BY <2>1, Kinds DEF Outcomes
  <2> QED BY <1>1, <2>1, <2>2 DEF Causes
<1>6. CASE ReadRequest
  <2>1. /\ UNCHANGED <<sent, link, reply>>
        /\ IF dispatched' = Nothing THEN server' = "gone" /\ cause' = "sealed"
           ELSE server' = "handle" /\ cause' = cause
    BY <1>6 DEF ReadRequest, GoneFor
  <2>2. dispatched' = IF sent.key = ServerKey THEN sent.of ELSE Nothing
    BY <1>6, Opened
  <2>3. sent.of # Nothing
    BY <1>1 DEF Typed
  <2> QED BY <1>1, <2>1, <2>2, <2>3 DEF Causes
<1>7. CASE Cutting
  <2>1. PICK how \in {"silent", "broken"} : Cut(how)
    BY <1>7 DEF Cutting
  <2>2. /\ link = "open" /\ link' = how /\ cause' = (IF cause = "none" THEN how ELSE cause)
        /\ UNCHANGED <<sent, server, reply>>
    BY <2>1 DEF Cut
  <2> QED BY <1>1, <2>2 DEF Causes
<1>8. CASE ServerLoses
  <2>1. /\ cause' = (IF cause = "none" THEN "client" ELSE cause)
        /\ UNCHANGED <<sent, link, reply>>
    BY <1>8 DEF ServerLoses, GoneFor
  <2> QED BY <1>1, <2>1 DEF Causes
<1>9. CASE ServerTimesOut \/ Refuse \/ Die
  BY <1>3, <1>9 DEF ServerTimesOut, Refuse, Die, GoneFor
<1>10. CASE ServerReads \/ ReadTag
  BY <1>2, <1>10 DEF ServerReads, ReadTag
<1>11. CASE Arriving \/ ClientReads \/ ReadResponse \/ Losing \/ ClientTimesOut \/ UNCHANGED vars
  BY <1>2, <1>11 DEF Arriving, Arrive, ClientReads, ReadResponse, Losing, ClientLoses,
                     ClientTimesOut, vars
<1> QED BY <1>4, <1>5, <1>6, <1>7, <1>8, <1>9, <1>10, <1>11, Steps

LEMMA ResultsStep == IInv /\ [Next]_vars => Results'
<1> SUFFICES ASSUME IInv, [Next]_vars PROVE Results'
  OBVIOUS
<1>1. Typed /\ Idle /\ Dispatch /\ Causes /\ Results
  BY DEF IInv
<1>2. ASSUME UNCHANGED <<client, result, reply>>, server' # "gone" => server # "gone",
             cause' = "none" => cause = "none"
      PROVE  Results'
  BY <1>1, <1>2 DEF Results
<1>3. ASSUME client' # "done", result' = "none"
      PROVE  Results'
  BY <1>3 DEF Results
<1>4. CASE Sending
  <2>1. client = "idle" /\ result = "none" /\ reply' = "none"
    BY <1>1, <1>4, SendingFlow DEF Results
  <2>2. \/ client' = "length" /\ result' = result
        \/ client' = "done" /\ result' = "InvalidInput"
    BY <1>4, SendingFlow
  <2>3. CASE client' = "length" /\ result' = result
    BY <1>3, <2>1, <2>3
  <2>4. CASE client' = "done" /\ result' = "InvalidInput"
    BY <2>1, <2>4 DEF Results
  <2> QED BY <2>2, <2>3, <2>4
<1>5. CASE Responding
  <2>1. reply = "none" /\ reply' \in Outcomes /\ UNCHANGED <<client, result>>
    BY <1>5, RespondingFlow
  <2>2. reply' # "none"
    BY <2>1, Kinds DEF Outcomes
  <2> QED BY <1>1, <2>1, <2>2 DEF Results
<1>6. CASE ReadResponse
  <2>1. /\ reply \in Outcomes /\ client' = "done" /\ reply' = reply
        /\ result' = IF reply = "ok" THEN "ok" ELSE Told
    BY <1>6, Answered DEF ReadResponse
  <2>2. Told \in DOMAIN CodeOfKind \cup {"Other"} /\ "ok" \notin DOMAIN CodeOfKind /\ reply # "none"
    BY <2>1, Kinds DEF Told, Outcomes
  <2> QED BY <2>1, <2>2 DEF Results
<1>7. CASE Losing
  <2>1. /\ result' \in Losses /\ client' = "done" /\ UNCHANGED <<reply, cause, server>>
        /\ link = "broken" \/ server = "gone"
    BY <1>7 DEF Losing, ClientLoses, Finish, Ended
  <2>2. server' # "gone" => cause' # "none"
    BY <1>1, <2>1 DEF Causes
  <2> QED BY <2>1, <2>2 DEF Results, Losses
<1>8. CASE ClientTimesOut
  BY <1>8 DEF ClientTimesOut, Finish, Results
<1>9. CASE Refuse
  BY <1>9 DEF Refuse, Finish, GoneFor, Results
<1>10. CASE ClientReads
  BY <1>1, <1>3, <1>10 DEF ClientReads, Results
<1>11. CASE Arriving \/ ServerReads \/ ReadTag \/ UNCHANGED vars
  <2>1. UNCHANGED <<client, result, reply, cause>> /\ (server' # "gone" => server # "gone")
    BY <1>11 DEF Arriving, Arrive, ServerReads, ReadTag, vars
  <2> QED BY <1>2, <2>1
<1>12. CASE Cutting \/ ServerLoses \/ ServerTimesOut \/ ReadRequest \/ Die
  <2>1. /\ UNCHANGED <<client, result, reply>> /\ (server' # "gone" => server # "gone")
        /\ cause' = "none" => cause = "none"
    BY <1>12 DEF Cutting, Cut, ServerLoses, ServerTimesOut, ReadRequest, Die, GoneFor
  <2> QED BY <1>2, <2>1
<1> QED BY <1>4, <1>5, <1>6, <1>7, <1>8, <1>9, <1>10, <1>11, <1>12, Steps

\* A client that loses the server before the end of an answer has a reason to:
\* an answer that nothing has disturbed is there whole.
LEMMA LosingHasCause ==
  ASSUME IInv, Losing
  PROVE  cause \notin {"none", "silent"}
<1>1. Typed /\ Idle /\ Downward /\ Causes /\ "down" \in Ends
  BY DEF IInv, Ends
<1>2. /\ client \in Reading /\ Len(got["down"]) < need["down"]
      /\ \/ link = "broken"
         \/ link = "open" /\ server = "gone" /\ out["down"] = <<>>
  BY DEF Losing, ClientLoses, Ended
<1>3. client \in {"length", "payload"}
  BY <1>1, <1>2 DEF Typed, Reading
<1>4. CASE link = "broken"
  BY <1>1, <1>4 DEF Causes
<1>5. CASE link = "open" /\ server = "gone" /\ out["down"] = <<>>
  <2>1. SUFFICES ASSUME cause = "none" PROVE FALSE
    BY <1>1, <1>5 DEF Causes
  <2>2. reply # "none"
    BY <1>1, <1>5, <2>1 DEF Causes
  <2>3. Answer \in Texts /\ ServerKey \in Keys
    BY <1>1, <2>2, Back, KeyAssumption DEF Typed, Texts
  <2>4. Len(Flow("down")) = Len(got["down"]) /\ Len(got["down"]) \in Nat
    <3>1. Len(out["down"]) = 0
      BY <1>5, EmptySeq
    <3>2. Len(Flow("down")) = Len(got["down"]) + Len(out["down"]) /\ Len(got["down"]) \in Nat
      BY <1>1, FlowTyped
    <3> QED BY <3>1, <3>2
  <2>5. CASE client = "length"
    <3>1. PICK size \in Sizes : Left(Frame(Answer, ServerKey, size))
      BY <1>1, <2>2, <2>5 DEF Downward
    <3>2. Len(Flow("down")) = LenBytes + size /\ size \in Nat
      BY <2>1, <2>3, <3>1, FrameTyped DEF Left
    <3>3. need["down"] = LenBytes /\ LenBytes \in Nat
      BY <1>1, <2>5, WidthAssumption DEF Downward
    <3> QED BY <1>2, <2>4, <3>2, <3>3
  <2>6. CASE client = "payload"
    <3>1. PICK size \in Sizes : need["down"] = size /\ Left(Seal(Answer, ServerKey, size))
      BY <1>1, <2>6 DEF Downward
    <3>2. Len(Flow("down")) = size /\ size \in Nat
      BY <2>1, <2>3, <3>1, FrameTyped DEF Left
    <3> QED BY <1>2, <2>4, <3>1, <3>2
  <2> QED BY <1>3, <2>5, <2>6
<1> QED BY <1>2, <1>4, <1>5

LEMMA ErrorToldStep == IInv /\ [Next]_vars => ErrorTold'
<1> SUFFICES ASSUME IInv, [Next]_vars PROVE ErrorTold'
  OBVIOUS
<1>1. Typed /\ Idle /\ TooLong /\ Dispatch /\ Causes /\ Results /\ ErrorTold
  BY DEF IInv
<1>2. /\ ErrorTold <=>
           /\ client = "done" /\ reply \notin {"none", "ok"} /\ cause = "none" =>
                result \in {Told, "TimedOut"}
           /\ result \in (DOMAIN CodeOfKind \cup {"Other"}) \ {"InvalidInput"} => result = Told
  BY DEF ErrorTold, Told
<1>3. /\ ErrorTold' <=>
           /\ client' = "done" /\ reply' \notin {"none", "ok"} /\ cause' = "none" =>
                result' \in {Told', "TimedOut"}
           /\ result' \in (DOMAIN CodeOfKind \cup {"Other"}) \ {"InvalidInput"} => result' = Told'
  BY DEF ErrorTold, Told
<1>4. reply' = reply => Told' = Told
  BY DEF Told
<1>5. ASSUME UNCHANGED <<result, reply>>, client' = "done" => client = "done",
             cause' = "none" => cause = "none"
      PROVE  ErrorTold'
  BY <1>1, <1>2, <1>3, <1>4, <1>5
<1>6. ASSUME reply' = "none", result' \in {"none", "TimedOut", "InvalidInput", "ConnectionRefused"}
      PROVE  ErrorTold'
  BY <1>3, <1>6, Kinds
<1>7. CASE Sending
  <2>1. reply' = "none" /\ result' \in {"none", "InvalidInput"}
    BY <1>1, <1>7, SendingFlow DEF Results
  <2> QED BY <1>6, <2>1
<1>8. CASE Responding
  <2>1. /\ server = "handle" /\ reply = "none" /\ UNCHANGED <<client, result>>
        /\ cause' \in {cause, "length"}
    BY <1>8, RespondingFlow
  <2>2. result \notin DOMAIN CodeOfKind \cup {"Other"} \/ result = "InvalidInput"
    BY <1>1, <2>1, Kinds DEF Results, Losses
  <2>3. client = "done" /\ cause = "none" => result = "TimedOut"
    BY <1>1, <2>1 DEF Results, TooLong
  <2> QED BY <1>3, <2>1, <2>2, <2>3
<1>9. CASE ReadResponse
  <2>1. reply' = reply /\ result' = IF reply = "ok" THEN "ok" ELSE Told
    BY <1>9, Answered DEF ReadResponse
  <2> QED BY <1>3, <1>4, <2>1, Kinds
<1>10. CASE Losing
  <2>1. result' \in Losses /\ UNCHANGED <<reply, cause>>
    BY <1>10 DEF Losing, ClientLoses, Finish
  <2>2. cause # "none"
    BY <1>10, LosingHasCause
  <2> QED BY <1>3, <2>1, <2>2, Kinds DEF Losses
<1>11. CASE ClientTimesOut
  <2>1. result' = "TimedOut"
    BY <1>11 DEF ClientTimesOut, Finish
  <2> QED BY <1>3, <2>1, Kinds
<1>12. CASE Refuse
  <2>1. reply' = "none" /\ result' = "ConnectionRefused"
    BY <1>1, <1>12 DEF Refuse, Finish, Idle
  <2> QED BY <1>6, <2>1
<1>13. CASE Arriving \/ ServerReads \/ ClientReads \/ ReadTag \/ UNCHANGED vars
  <2>1. UNCHANGED <<result, reply, cause>> /\ (client' = "done" => client = "done")
    BY <1>13 DEF Arriving, Arrive, ServerReads, ClientReads, ReadTag, vars
  <2> QED BY <1>5, <2>1
<1>14. CASE Cutting \/ ServerLoses \/ ServerTimesOut \/ ReadRequest \/ Die
  <2>1. UNCHANGED <<client, result, reply>> /\ (cause' = "none" => cause = "none")
    BY <1>14 DEF Cutting, Cut, ServerLoses, ServerTimesOut, ReadRequest, Die, GoneFor
  <2> QED BY <1>5, <2>1
<1> QED BY <1>7, <1>8, <1>9, <1>10, <1>11, <1>12, <1>13, <1>14, Steps

LEMMA LossStep == IInv /\ [Next]_vars => LossHasCause'
<1> SUFFICES ASSUME IInv, [Next]_vars, result' \in Disconnects
             PROVE  cause' \notin {"none", "silent"}
  BY DEF LossHasCause, Disconnects
<1>1. Typed /\ Idle /\ Results /\ LossHasCause
  BY DEF IInv
<1>2. ASSUME result' = result, cause' = cause \/ cause' \notin {"none", "silent"} \/ cause = "none"
      PROVE  cause' \notin {"none", "silent"}
  BY <1>1, <1>2 DEF LossHasCause
<1>3. CASE Sending
  <2>1. result' \in {"none", "InvalidInput"}
    BY <1>1, <1>3, SendingFlow DEF Results
  <2> QED BY <2>1 DEF Disconnects
<1>4. CASE Responding
  <2>1. result' = result /\ cause' \in {cause, "length"}
    BY <1>4, RespondingFlow
  <2> QED BY <1>2, <2>1
<1>5. CASE ReadResponse
  <2>1. result' \in DOMAIN CodeOfKind \cup {"Other", "ok"}
    BY <1>5, Answered DEF Told
  <2> QED BY <2>1, Kinds DEF Disconnects
<1>6. CASE Losing
  <2>1. cause' = cause
    BY <1>6 DEF Losing, ClientLoses
  <2> QED BY <1>6, <2>1, LosingHasCause
<1>7. CASE ClientTimesOut
  BY <1>7 DEF ClientTimesOut, Finish, Disconnects
<1>8. CASE Refuse
  BY <1>8 DEF Refuse, GoneFor
<1>9. CASE Arriving \/ ServerReads \/ ClientReads \/ ReadTag \/ UNCHANGED vars
  <2>1. UNCHANGED <<result, cause>>
    BY <1>9 DEF Arriving, Arrive, ServerReads, ClientReads, ReadTag, vars
  <2> QED BY <1>2, <2>1
<1>10. CASE Cutting \/ ServerLoses \/ ServerTimesOut \/ ReadRequest \/ Die
  <2>1. /\ result' = result
        /\ cause' = cause \/ cause' \notin {"none", "silent"} \/ cause = "none"
    BY <1>10 DEF Cutting, Cut, ServerLoses, ServerTimesOut, ReadRequest, Die, GoneFor
  <2> QED BY <1>2, <2>1
<1> QED BY <1>3, <1>4, <1>5, <1>6, <1>7, <1>8, <1>9, <1>10, Steps

LEMMA Invariance == Spec => []IInv
<1>1. Init => IInv
  BY Initially
<1>2. IInv /\ [Next]_vars => IInv'
  BY TypedStep, UpwardStep, DownwardStep, IdleStep, TooLongStep, DispatchStep, CausesStep,
     ResultsStep, ErrorToldStep, LossStep DEF IInv
<1> QED BY <1>1, <1>2, PTL DEF Spec

-----------------------------------------------------------------------------
(* The theorems.                                                           *)

\* from_le_bytes gives back what to_le_bytes was given, for every length that the
\* bytes hold.
THEOREM LengthsAgree == \A n \in 0..Limit : Length(Prefix(n)) = n
<1> SUFFICES ASSUME NEW n \in 0..Limit PROVE Length(Prefix(n)) = n
  OBVIOUS
<1>1. Limit \in Int
  BY Weights, WidthAssumption DEF Limit
<1>2. n \in Nat /\ n <= Limit
  BY <1>1
<1> QED BY <1>2, LengthOfPrefix

\* Whatever the width of a length, the pieces in which the bytes come and the
\* failures on the way, the request that the server executes is the one that was
\* sent, under its key, and a caller who sees success had it executed.
THEOREM RequestsIntact == Spec => []Intact
<1>1. ASSUME IInv PROVE Intact
  <2>1. Dispatch /\ Results
    BY <1>1 DEF IInv
  <2>2. result = "ok" => reply = "ok"
    BY <2>1 DEF Results
  <2>3. reply = "ok" => dispatched # Nothing
    BY <2>1 DEF Dispatch
  <2> QED BY <2>1, <2>2, <2>3 DEF Dispatch, Intact
<1> QED BY <1>1, Invariance, PTL

\* read_message rejects no frame that write_message has written, in either
\* direction, unless the keys differ.
THEOREM FramesOpenWhole == Spec => []FramesOpen
<1>1. ASSUME IInv PROVE FramesOpen
  <2>1. Causes /\ Results
    BY <1>1 DEF IInv
  <2>2. result # "InvalidData"
    BY <2>1, Kinds DEF Results, Losses
  <2> QED BY <2>1, <2>2 DEF Causes, FramesOpen
<1> QED BY <1>1, Invariance, PTL

\* An error that a handler returns comes out of send as the kind it was, or as
\* Other if no code stands for it, and no such kind comes out that was not sent.
THEOREM ErrorsTold == Spec => []ErrorTold
BY Invariance, PTL DEF IInv

\* is_disconnect_error is not true of the error of a call that a living server
\* answered over a connection that nothing broke.
THEOREM LossesCaused == Spec => []LossHasCause
BY Invariance, PTL DEF IInv
=============================================================================
