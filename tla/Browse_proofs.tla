---------------------------- MODULE Browse_proofs ----------------------------
(***************************************************************************)
(* What Listing promises of an enumeration, for any names, any room in an  *)
(* answer and any number of changes; and what Paths makes of the names     *)
(* that are shown, however they are spelled and put together.              *)
(*                                                                         *)
(* A listing may have a name twice, where an entry has been replaced while *)
(* the server was reading, so the queries after the first can go on behind *)
(* either.  The order of the buffer makes that harmless: what an entry has *)
(* been shown follows from its name and the marker alone (Progress).       *)
(*                                                                         *)
(* What is done with a string is done with its parts: Slashes and          *)
(* Components are homomorphisms (SlashesConcat, ComponentsConcat), so a    *)
(* string leads where its steps lead (Leads).                              *)
(***************************************************************************)
EXTENDS Browse, FiniteSetTheorems, SequenceTheorems, TLAPS

-----------------------------------------------------------------------------
(* Enumerations.                                                           *)

Items == Names \cup Range(Dots)

\* What every enumeration has to show.
Firm == always \cup Range(Dots)

In(n, list) == \E i \in DOMAIN list : list[i] = n

Once(n, list) == \E i \in DOMAIN list : \A j \in DOMAIN list : list[j] = n <=> j = i

Ascending(list) == \A i, j \in DOMAIN list : i < j => list[i] <= list[j]

Typed ==
  /\ dir \subseteq Names /\ must \subseteq Names /\ may \subseteq Names
  /\ pc \in {"idle", "names", "entry", "failed", "fill", "read", "done"}
  /\ marker \in Items \cup {Start}
  /\ pc = "entry" => name \in Names
  /\ entries \in Seq(Names) /\ buffer \in Seq(Items)
  /\ shown \in [Items -> 0..2]
  /\ always \subseteq Names /\ ever \subseteq Names

\* While the server reads for the first query, what has been there throughout is
\* still ahead, or just come upon, or listed once.
Streamed ==
  First /\ pc \in {"names", "entry"} =>
    /\ may \subseteq ever /\ always \subseteq dir
    /\ pc = "entry" => name \in ever
    /\ \A n \in Names : In(n, entries) => n \in ever
    /\ \A n \in always :
         \/ n \in may /\ n \in must /\ ~In(n, entries) /\ ~(pc = "entry" /\ name = n)
         \/ n \notin may /\ n \notin must /\ ~In(n, entries) /\ pc = "entry" /\ name = n
         \/ n \notin may /\ n \notin must /\ Once(n, entries) /\ ~(pc = "entry" /\ name = n)

Listed ==
  First /\ pc = "fill" =>
    /\ \A n \in Names : In(n, entries) => n \in ever
    /\ \A n \in always : Once(n, entries)

Buffered ==
  pc = "read" \/ ~First =>
    /\ \A n \in Names : In(n, buffer) => n \in ever
    /\ \A n \in Firm : Once(n, buffer)
    /\ Ascending(buffer)

\* The application has got all entries up to its marker.
Progress ==
  /\ First => shown = Blank
  /\ \A n \in Names : shown[n] > 0 => n \in ever
  /\ ~First => \A n \in Firm : shown[n] = IF n <= marker THEN 1 ELSE 0
  /\ pc = "done" => ~First /\ \A n \in Firm : n <= marker

IInv == Typed /\ Streamed /\ Listed /\ Buffered /\ Progress

-----------------------------------------------------------------------------
(* Lists.                                                                  *)

\* The names of the dots, and what is larger than they are.
LEMMA ItemsTyped ==
  /\ Range(Dots) = {-1, 0} /\ Dots \in Seq(Items) /\ Len(Dots) = 2
  /\ Names \subseteq Nat \ {0} /\ Items \subseteq Int
  /\ Start \notin Items /\ \A n \in Items : Start < n
<1> USE RoomAssumption
<1>1. DOMAIN Dots = 1..2 /\ Dots[1] = -1 /\ Dots[2] = 0
  BY DEF Dots
<1>2. Range(Dots) = {-1, 0}
  BY <1>1 DEF Range
<1>3. Names \subseteq Nat \ {0}
  BY DEF Names
<1>4. Dots \in Seq(Items) /\ Len(Dots) = 2
  BY <1>2 DEF Dots, Items
<1> QED BY <1>2, <1>3, <1>4 DEF Items, Start

\* An entry more.
LEMMA OneMore ==
  ASSUME NEW list \in Seq(Names), NEW m \in Names, NEW n \in Names
  PROVE  /\ Append(list, m) \in Seq(Names)
         /\ In(n, Append(list, m)) <=> In(n, list) \/ n = m
         /\ m # n /\ Once(n, list) => Once(n, Append(list, m))
         /\ ~In(m, list) => Once(m, Append(list, m))
<1> DEFINE more == Append(list, m)
<1>1. /\ more \in Seq(Names) /\ DOMAIN more = 1..(Len(list) + 1) /\ Len(list) \in Nat
      /\ DOMAIN list = 1..Len(list)
      /\ \A i \in 1..Len(list) : more[i] = list[i]
      /\ more[Len(list) + 1] = m
  BY AppendProperties
<1> HIDE DEF more
<1>2. In(n, more) <=> In(n, list) \/ n = m
  BY <1>1 DEF In
<1>3. m # n /\ Once(n, list) => Once(n, more)
  BY <1>1 DEF Once
<1>4. ~In(m, list) => Once(m, more)
  BY <1>1 DEF Once, In
<1> QED BY <1>1, <1>2, <1>3, <1>4 DEF more

\* A listing in order has the same names as often.
LEMMA SortedNames ==
  ASSUME NEW list \in Seq(Names), NEW s \in Sorted(list)
  PROVE  /\ s \in Seq(Names) /\ Ascending(s)
         /\ \A n \in Names : In(n, s) <=> In(n, list)
         /\ \A n \in Names : Once(n, list) => Once(n, s)
<1> DEFINE D == DOMAIN list
<1>1. PICK order \in Bijection(D, D) : s = [i \in D |-> list[order[i]]]
  BY DEF Sorted
<1>2. /\ order \in [D -> D]
      /\ \A i, j \in D : order[i] = order[j] => i = j
      /\ \A j \in D : \E i \in D : order[i] = j
  BY DEF Bijection, Injection, Surjection, IsInjective
<1>3. DOMAIN s = D /\ \A i \in D : s[i] = list[order[i]]
  BY <1>1
<1>4. D = 1..Len(list) /\ Len(list) \in Nat /\ \A i \in D : list[i] \in Names
  BY LenProperties
<1>5. s \in Seq(Names)
  <2>1. s \in [1..Len(list) -> Names]
    BY <1>1, <1>2, <1>4
  <2> QED BY <2>1, <1>4
<1>6. Ascending(s)
  BY DEF Sorted, Ascending
<1> HIDE DEF D
<1>7. \A n \in Names : In(n, s) <=> In(n, list)
  BY <1>2, <1>3 DEF In, D
<1>8. ASSUME NEW n \in Names, Once(n, list)
      PROVE  Once(n, s)
  <2>1. PICK i \in D : \A j \in D : list[j] = n <=> j = i
    BY <1>8 DEF Once, D
  <2>2. PICK k \in D : order[k] = i
    BY <1>2
  <2>3. \A j \in D : s[j] = n <=> j = k
    BY <1>2, <1>3, <2>1, <2>2
  <2> QED BY <2>3, <1>3 DEF Once
<1> QED BY <1>5, <1>6, <1>7, <1>8

\* The dots come first in a buffer.
LEMMA WithDots ==
  ASSUME NEW s \in Seq(Names), Ascending(s)
  PROVE  /\ Dots \o s \in Seq(Items) /\ Ascending(Dots \o s)
         /\ \A n \in Names : In(n, Dots \o s) <=> In(n, s)
         /\ \A n \in Names : Once(n, s) => Once(n, Dots \o s)
         /\ \A n \in Range(Dots) : Once(n, Dots \o s)
<1> DEFINE b == Dots \o s
<1> USE ItemsTyped
<1>1. s \in Seq(Items) /\ Len(s) \in Nat /\ DOMAIN s = 1..Len(s) /\ \A i \in DOMAIN s : s[i] \in Names
  BY SeqMonotonic DEF Items
<1>2. /\ b \in Seq(Items) /\ Len(b) = Len(s) + 2
      /\ \A i \in 1..(Len(s) + 2) : b[i] = IF i <= 2 THEN Dots[i] ELSE s[i - 2]
  <2>1. /\ b \in Seq(Items) /\ Len(b) = Len(Dots) + Len(s)
        /\ \A i \in 1..(Len(Dots) + Len(s)) :
             b[i] = IF i <= Len(Dots) THEN Dots[i] ELSE s[i - Len(Dots)]
    <3>1. Dots \in Seq(Items) /\ s \in Seq(Items)
      BY <1>1
    <3> QED BY ONLY <3>1, ConcatProperties
  <2>2. Len(Dots) = 2 /\ Len(Dots) + Len(s) = Len(s) + 2
    BY <1>1
  <2> HIDE DEF b
  <2> QED BY <2>1, <2>2
<1>3. DOMAIN b = 1..(Len(s) + 2)
  BY <1>2
<1>4. /\ b[1] = -1 /\ b[2] = 0
      /\ \A i \in 3..(Len(s) + 2) : b[i] = s[i - 2] /\ b[i] \in Nat \ {0}
  <2>1. Dots[1] = -1 /\ Dots[2] = 0
    BY DEF Dots
  <2> HIDE DEF b
  <2>2. b[1] = Dots[1] /\ b[2] = Dots[2]
    BY <1>1, <1>2
  <2>3. ASSUME NEW i \in 3..(Len(s) + 2)
        PROVE  b[i] = s[i - 2] /\ i - 2 \in DOMAIN s
    BY <1>1, <1>2
  <2> QED BY <1>1, <2>1, <2>2, <2>3
<1> HIDE DEF b
<1>5. Ascending(b)
  <2> SUFFICES ASSUME NEW i \in 1..(Len(s) + 2), NEW j \in 1..(Len(s) + 2), i < j
               PROVE  b[i] <= b[j]
    BY <1>3 DEF Ascending
  <2>1. CASE i >= 3
    <3>1. i - 2 \in DOMAIN s /\ j - 2 \in DOMAIN s /\ i - 2 < j - 2
      BY <1>1, <2>1
    <3>2. s[i - 2] <= s[j - 2]
      BY <3>1 DEF Ascending
    <3> QED BY <2>1, <3>2, <1>4, <1>1
  <2>2. CASE i < 3
    BY <2>2, <1>1, <1>4
  <2> QED BY <2>1, <2>2
<1>6. \A n \in Names : In(n, b) <=> In(n, s)
  <2> SUFFICES ASSUME NEW n \in Names
               PROVE  In(n, b) <=> In(n, s)
    OBVIOUS
  <2>1. ASSUME NEW i \in DOMAIN b, b[i] = n
        PROVE  i - 2 \in DOMAIN s /\ s[i - 2] = n
    BY <2>1, <1>1, <1>3, <1>4
  <2>2. ASSUME NEW i \in DOMAIN s, s[i] = n
        PROVE  i + 2 \in DOMAIN b /\ b[i + 2] = n
    <3>1. i + 2 \in 3..(Len(s) + 2) /\ (i + 2) - 2 = i
      BY <2>2, <1>1
    <3> HIDE DEF b
    <3>2. b[i + 2] = s[(i + 2) - 2]
      BY <3>1, <1>4
    <3>3. i + 2 \in DOMAIN b
      BY <3>1, <1>1, <1>3
    <3> QED BY <2>2, <3>1, <3>2, <3>3
  <2> QED BY <2>1, <2>2 DEF In
<1>7. ASSUME NEW n \in Names, Once(n, s)
      PROVE  Once(n, b)
  <2>1. PICK i \in DOMAIN s : \A j \in DOMAIN s : s[j] = n <=> j = i
    BY <1>7 DEF Once
  <2>2. i + 2 \in DOMAIN b
    BY <1>1, <1>3
  <2>3. ASSUME NEW j \in DOMAIN b
        PROVE  b[j] = n <=> j = i + 2
    <3>1. CASE j >= 3
      <4>1. j - 2 \in DOMAIN s /\ b[j] = s[j - 2]
        BY <1>1, <1>3, <1>4, <3>1
      <4> QED BY <4>1, <2>1, <1>1
    <3>2. CASE j < 3
      BY <3>2, <1>1, <1>3, <1>4
    <3> QED BY <3>1, <3>2, <1>3
  <2> QED BY <2>2, <2>3 DEF Once
<1>8. ASSUME NEW n \in Range(Dots)
      PROVE  Once(n, b)
  <2>1. \A j \in DOMAIN b : (b[j] = -1 <=> j = 1) /\ (b[j] = 0 <=> j = 2)
    BY <1>1, <1>3, <1>4
  <2>2. n \in {-1, 0} /\ 1 \in DOMAIN b /\ 2 \in DOMAIN b
    BY <1>1, <1>3
  <2> QED BY <2>1, <2>2 DEF Once
<1> QED BY <1>2, <1>5, <1>6, <1>7, <1>8 DEF b

\* In an ascending list, where a name is tells how it compares with another.
LEMMA Position ==
  ASSUME NEW list \in Seq(Items), Ascending(list), NEW n \in Items,
         NEW u \in DOMAIN list, \A j \in DOMAIN list : list[j] = n <=> j = u,
         NEW k \in DOMAIN list
  PROVE  n <= list[k] <=> u <= k
<1>1. /\ list[u] = n /\ (k # u => list[k] # n) /\ u \in Int /\ k \in Int
      /\ list[k] \in Int /\ n \in Int
  <2>1. DOMAIN list = 1..Len(list) /\ list[k] \in Items
    BY LenProperties, ElementOfSeq
  <2>2. u \in Int /\ k \in Int
    BY <2>1
  <2>3. list[u] = n /\ (k # u => list[k] # n)
    OBVIOUS
  <2>4. list[k] \in Int /\ n \in Int
    BY <2>1, ItemsTyped
  <2> QED BY <2>2, <2>3, <2>4
<1>2. (u < k => n <= list[k]) /\ (k < u => list[k] <= n)
  BY <1>1 DEF Ascending
<1> QED BY <1>1, <1>2

-----------------------------------------------------------------------------
(* Reading an answer.                                                      *)

\* How often a name is in an answer.
Times(n, list) == Cardinality({j \in DOMAIN list : list[j] = n})

LEMMA TimesOf ==
  ASSUME NEW list \in Seq(Items), NEW n
  PROVE  /\ Times(n, list) \in Nat
         /\ Times(n, list) > 0 => In(n, list)
         /\ Once(n, list) => Times(n, list) = 1
<1> DEFINE S == {j \in DOMAIN list : list[j] = n}
<1>1. IsFiniteSet(S)
  <2>1. DOMAIN list = 1..Len(list) /\ Len(list) \in Nat
    BY LenProperties
  <2>2. IsFiniteSet(1..Len(list))
    BY <2>1, FS_Interval
  <2>3. S \subseteq 1..Len(list)
    BY <2>1
  <2> QED BY <2>2, <2>3, FS_Subset
<1>2. Cardinality(S) \in Nat
  BY <1>1, FS_CardinalityType
<1>3. ASSUME ~In(n, list)
      PROVE  Cardinality(S) = 0
  <2>1. S = {}
    BY <1>3 DEF In
  <2> QED BY <2>1, FS_EmptySet
<1>4. ASSUME Once(n, list)
      PROVE  Cardinality(S) = 1
  <2>1. PICK i \in DOMAIN list : \A j \in DOMAIN list : list[j] = n <=> j = i
    BY <1>4 DEF Once
  <2>2. S = {i}
    BY <2>1
  <2> QED BY <2>2, FS_Singleton
<1> HIDE DEF S
<1>5. Cardinality(S) > 0 => In(n, list)
  BY <1>2, <1>3
<1> QED BY <1>2, <1>4, <1>5 DEF Times, S

\* Where an answer begins and ends, and what it makes of the marker.
LEMMA Answer ==
  ASSUME Typed, Buffered, Progress, Read
  PROVE  \E i \in 0..Len(buffer), e \in 0..Len(buffer) :
           /\ IF First THEN i = 0 ELSE i > 0 /\ buffer[i] = marker
           /\ i <= e /\ (i = e => i = Len(buffer))
           /\ shown' = [n \in DOMAIN shown |->
                          LET times == shown[n] + Times(n, SubSeq(buffer, i + 1, e))
                          IN  IF times > 2 THEN 2 ELSE times]
           /\ IF i = e THEN pc' = "done" /\ UNCHANGED marker
              ELSE pc' = "idle" /\ marker' = buffer[e]
<1> USE RoomAssumption
<1> DEFINE L == Len(buffer)
           E(i) == IF i + Room < L THEN i + Room ELSE L
           answer(i) == SubSeq(buffer, i + 1, E(i))
<1>1. PICK i \in 0..L :
        /\ IF First THEN i = 0 ELSE i > 0 /\ buffer[i] = marker
        /\ shown' = [n \in DOMAIN shown |->
                       LET times == shown[n] + Times(n, answer(i))
                       IN  IF times > 2 THEN 2 ELSE times]
        /\ IF answer(i) = <<>> THEN pc' = "done" /\ UNCHANGED marker
           ELSE pc' = "idle" /\ marker' = Last(answer(i))
  BY DEF Read, Times
<1> DEFINE e == E(i)
<1>2. L \in Nat /\ buffer \in Seq(Items) /\ DOMAIN buffer = 1..L
  BY LenProperties DEF Typed
<1>3. e \in 0..L /\ i <= e /\ (i = e => i = L)
  <2>1. Room \in Nat \ {0}
    OBVIOUS
  <2> HIDE DEF L
  <2> QED BY <1>2, <2>1
<1> HIDE DEF E
<1>4. \A j \in i + 1..e : buffer[j] \in Items
  <2> SUFFICES ASSUME NEW j \in i + 1..e PROVE buffer[j] \in Items
    OBVIOUS
  <2> HIDE DEF e, L
  <2>1. j \in 1..L
    <3>1. i \in Int /\ i >= 0 /\ e \in Int /\ e <= L /\ j \in Int /\ i + 1 <= j /\ j <= e
      BY <1>2, <1>3
    <3> QED BY <3>1, <1>2
  <2> QED BY <2>1, <1>2, ElementOfSeq DEF L
<1> HIDE DEF L
<1>5. /\ Len(answer(i)) = IF i + 1 <= e THEN e - (i + 1) + 1 ELSE 0
      /\ \A j \in 1..e - (i + 1) + 1 : answer(i)[j] = buffer[i + 1 + j - 1]
      /\ answer(i) \in Seq(Items)
  <2>1. i + 1 \in Int /\ e \in Int
    BY <1>3
  <2> HIDE DEF e
  <2>2. /\ Len(SubSeq(buffer, i + 1, e)) = IF i + 1 <= e THEN e - (i + 1) + 1 ELSE 0
        /\ \A j \in 1..e - (i + 1) + 1 : SubSeq(buffer, i + 1, e)[j] = buffer[i + 1 + j - 1]
        /\ SubSeq(buffer, i + 1, e) \in Seq(Items)
    BY <1>4, <2>1, SubSeqProperties
  <2> QED BY <2>2 DEF e
<1>6. answer(i) = <<>> <=> i = e
  <2> HIDE DEF answer, e
  <2>1. answer(i) = <<>> <=> Len(answer(i)) = 0
    BY <1>5, EmptySeq
  <2> QED BY <2>1, <1>3, <1>5
<1>7. i # e => Last(answer(i)) = buffer[e]
  <2> HIDE DEF answer, e
  <2>1. i # e => Len(answer(i)) = e - i /\ e - i \in 1..e - (i + 1) + 1 /\ i + 1 + (e - i) - 1 = e
    BY <1>3, <1>5
  <2> QED BY <2>1, <1>5 DEF Last
<1>8. answer(i) = SubSeq(buffer, i + 1, e)
  OBVIOUS
<1> HIDE DEF answer, e
<1>9. shown' = [n \in DOMAIN shown |->
                  LET times == shown[n] + Times(n, SubSeq(buffer, i + 1, e))
                  IN  IF times > 2 THEN 2 ELSE times]
  BY <1>1, <1>8
<1>10. IF i = e THEN pc' = "done" /\ UNCHANGED marker ELSE pc' = "idle" /\ marker' = buffer[e]
  BY <1>1, <1>6, <1>7
<1> QED BY <1>1, <1>3, <1>9, <1>10 DEF L

\* All that has to be shown behind the marker is shown once by the answers that
\* follow, and nothing that was shown is shown again.
LEMMA ReadStep ==
  ASSUME Typed, Buffered, Progress, Read
  PROVE  /\ Progress'
         /\ marker' \in Items \cup {Start} /\ shown' \in [Items -> 0..2]
<1> DEFINE L == Len(buffer)
<1>1. PICK i \in 0..L, e \in 0..L :
        /\ IF First THEN i = 0 ELSE i > 0 /\ buffer[i] = marker
        /\ i <= e /\ (i = e => i = L)
        /\ shown' = [n \in DOMAIN shown |->
                       LET times == shown[n] + Times(n, SubSeq(buffer, i + 1, e))
                       IN  IF times > 2 THEN 2 ELSE times]
        /\ IF i = e THEN pc' = "done" /\ UNCHANGED marker
           ELSE pc' = "idle" /\ marker' = buffer[e]
  BY Answer
<1>2. /\ pc = "read" /\ UNCHANGED <<buffer, always, ever>>
      /\ buffer \in Seq(Items) /\ shown \in [Items -> 0..2] /\ always \subseteq Names
      /\ marker \in Items \cup {Start}
  BY DEF Read, Typed, history
<1>3. /\ \A n \in Names : In(n, buffer) => n \in ever
      /\ \A n \in Firm : Once(n, buffer)
      /\ Ascending(buffer)
  BY <1>2 DEF Buffered
<1>4. /\ L \in Nat /\ DOMAIN buffer = 1..L /\ \A j \in 1..L : buffer[j] \in Items
      /\ Firm \subseteq Items /\ Names \subseteq Items /\ Firm' = Firm
  BY <1>2, LenProperties DEF Firm, Items
<1> DEFINE answer == SubSeq(buffer, i + 1, e)
<1> HIDE DEF L
<1>5. /\ i \in Int /\ e \in Int /\ i >= 0 /\ e <= L
      /\ \A j \in i + 1..e : j \in 1..L /\ buffer[j] \in Items
  BY <1>1, <1>4
<1>6. /\ answer \in Seq(Items)
      /\ DOMAIN answer = 1..(e - i)
      /\ \A j \in 1..(e - i) : answer[j] = buffer[i + j]
  <2>1. i + 1 \in Int
    BY <1>5
  <2>2. /\ answer \in Seq(Items)
        /\ Len(answer) = IF i + 1 <= e THEN e - (i + 1) + 1 ELSE 0
        /\ \A j \in 1..e - (i + 1) + 1 : answer[j] = buffer[i + 1 + j - 1]
    BY <1>5, <2>1, SubSeqProperties
  <2> HIDE DEF answer
  <2>3. Len(answer) = e - i /\ e - (i + 1) + 1 = e - i
    BY <2>2, <1>1, <1>5
  <2>4. \A j \in 1..(e - i) : i + 1 + j - 1 = i + j
    BY <1>5
  <2>5. DOMAIN answer = 1..Len(answer)
    BY <2>2, LenProperties
  <2> QED BY <2>2, <2>3, <2>4, <2>5
<1> HIDE DEF answer
<1>7. /\ DOMAIN shown = Items /\ \A n \in Items : shown[n] \in 0..2
      /\ \A n \in Items : Times(n, answer) \in Nat
      /\ \A n \in Items : shown'[n] = LET times == shown[n] + Times(n, answer)
                                      IN  IF times > 2 THEN 2 ELSE times
  <2>1. DOMAIN shown = Items /\ \A n \in Items : shown[n] \in 0..2
    BY <1>2
  <2>2. \A n \in Items : Times(n, answer) \in Nat
    BY <1>6, TimesOf
  <2> QED BY <1>1, <2>1, <2>2 DEF answer
<1>8. shown' \in [Items -> 0..2]
  <2>1. ASSUME NEW n \in Items PROVE shown'[n] \in 0..2
    <3>1. shown[n] \in 0..2 /\ Times(n, answer) \in Nat
      BY <1>7
    <3>2. shown'[n] = IF shown[n] + Times(n, answer) > 2 THEN 2 ELSE shown[n] + Times(n, answer)
      BY <1>7
    <3> QED BY <3>1, <3>2
  <2>2. shown' = [n \in Items |-> shown'[n]]
    BY <1>1, <1>7
  <2> QED BY <2>1, <2>2
<1>9. i # e => e \in 1..L /\ buffer[e] \in Items
  BY <1>1, <1>4, <1>5
<1>10. marker' \in Items \cup {Start}
  BY <1>1, <1>2, <1>9
<1>11. L > 0 /\ (i = e => ~First)
  <2>1. Once(0, buffer)
    BY <1>3, ItemsTyped DEF Firm
  <2>2. L > 0
    BY <2>1, <1>4 DEF Once
  <2> QED BY <2>2, <1>1
<1>12. ~First'
  BY <1>1, <1>9, <1>11, ItemsTyped DEF First
\* How an entry compares with the markers tells whether it is in the answer.
<1>13. ASSUME NEW n \in Firm
       PROVE  /\ n <= marker <=> shown[n] = 1
              /\ n <= marker <=> shown[n] # 0
              /\ n <= marker' => n <= marker \/ Times(n, answer) = 1
              /\ n <= marker => Times(n, answer) = 0
              /\ ~(n <= marker') => Times(n, answer) = 0 /\ ~(n <= marker)
              /\ i = e => n <= marker
  <2>1. PICK u \in DOMAIN buffer : \A j \in DOMAIN buffer : buffer[j] = n <=> j = u
    BY <1>3 DEF Once
  <2>2. n \in Items /\ u \in 1..L
    BY <2>1, <1>4
  <2>3. \A k \in 1..L : n <= buffer[k] <=> u <= k
    BY <2>1, <2>2, <1>2, <1>3, <1>4, Position
  <2>4. n <= marker <=> u <= i
    <3>1. CASE First
      <4>1. ~(n <= marker) /\ i = 0
        BY <3>1, <1>1, <2>2, ItemsTyped DEF First, Start
      <4> QED BY <4>1, <2>2
    <3>2. CASE ~First
      <4>1. i \in 1..L /\ buffer[i] = marker
        BY <3>2, <1>1, <1>4
      <4> QED BY <4>1, <2>3
    <3> QED BY <3>1, <3>2
  <2>5. n <= marker' <=> u <= e
    <3>1. CASE i = e
      BY <3>1, <1>1, <2>4
    <3>2. CASE i # e
      BY <3>2, <1>1, <1>9, <2>3
    <3> QED BY <3>1, <3>2
  <2>6. /\ n <= marker => shown[n] = 1
        /\ ~(n <= marker) => shown[n] = 0
    <3>1. CASE First
      <4>1. ~(n <= marker)
        BY <3>1, <2>2, ItemsTyped DEF First, Start
      <4>2. shown[n] = 0
        BY <3>1, <2>2 DEF Progress, Blank, Items
      <4> QED BY <4>1, <4>2
    <3>2. CASE ~First
      BY <3>2 DEF Progress
    <3> QED BY <3>1, <3>2
  <2>7. In(n, answer) => i < u /\ u <= e
    <3> SUFFICES ASSUME NEW j \in DOMAIN answer, answer[j] = n
                 PROVE  i < u /\ u <= e
      BY DEF In
    <3>1. i + j \in DOMAIN buffer /\ buffer[i + j] = n /\ j >= 1 /\ i + j <= e /\ j \in Int
      BY <1>4, <1>5, <1>6
    <3>2. i + j = u
      BY <3>1, <2>1
    <3> QED BY <3>1, <3>2, <1>5
  <2>8. i < u /\ u <= e => Once(n, answer)
    <3> SUFFICES ASSUME i < u, u <= e PROVE Once(n, answer)
      OBVIOUS
    <3>1. u - i \in DOMAIN answer
      BY <1>5, <1>6, <2>2
    <3>2. ASSUME NEW j \in DOMAIN answer PROVE answer[j] = n <=> j = u - i
      <4>1. answer[j] = buffer[i + j] /\ i + j \in DOMAIN buffer /\ j \in Int
        BY <1>4, <1>5, <1>6
      <4>2. buffer[i + j] = n <=> i + j = u
        BY <4>1, <2>1
      <4> QED BY <4>1, <4>2, <1>5, <2>2
    <3> QED BY <3>1, <3>2 DEF Once
  <2>9. /\ i < u /\ u <= e => Times(n, answer) = 1
        /\ ~(i < u /\ u <= e) => Times(n, answer) = 0
    <3>1. /\ Times(n, answer) \in Nat
          /\ Times(n, answer) > 0 => In(n, answer)
          /\ Once(n, answer) => Times(n, answer) = 1
      BY <1>6, TimesOf
    <3> QED BY <3>1, <2>7, <2>8
  <2>10. u \in Int /\ i \in Int /\ e \in Int /\ i <= e /\ u <= L /\ (i = e => i = L)
    BY <1>1, <1>4, <1>5, <2>2
  <2>11. /\ n <= marker <=> shown[n] = 1
         /\ n <= marker <=> shown[n] # 0
    BY <2>6
  <2>12. /\ n <= marker => Times(n, answer) = 0
         /\ n <= marker' => n <= marker \/ Times(n, answer) = 1
         /\ ~(n <= marker') => Times(n, answer) = 0 /\ ~(n <= marker)
    BY <2>4, <2>5, <2>9, <2>10
  <2>13. i = e => n <= marker
    BY <2>4, <2>10
  <2> QED BY <2>11, <2>12, <2>13
<1>14. ASSUME NEW n \in Firm
       PROVE  shown'[n] = IF n <= marker' THEN 1 ELSE 0
  <2>1. shown'[n] = IF shown[n] + Times(n, answer) > 2 THEN 2 ELSE shown[n] + Times(n, answer)
    BY <1>4, <1>7
  <2>2. CASE n <= marker
    <3>1. shown[n] = 1 /\ Times(n, answer) = 0 /\ n <= marker'
      BY <2>2, <1>13
    <3>2. shown'[n] = 1
      BY <2>1, <3>1
    <3> QED BY <3>1, <3>2
  <2>3. CASE ~(n <= marker) /\ n <= marker'
    <3>1. shown[n] = 0 /\ Times(n, answer) = 1
      BY <2>3, <1>13
    <3>2. shown'[n] = 1
      BY <2>1, <3>1
    <3> QED BY <2>3, <3>2
  <2>4. CASE ~(n <= marker) /\ ~(n <= marker')
    <3>1. shown[n] = 0 /\ Times(n, answer) = 0
      BY <2>4, <1>13
    <3>2. shown'[n] = 0
      BY <2>1, <3>1
    <3> QED BY <2>4, <3>2
  <2> QED BY <2>2, <2>3, <2>4
<1>15. ASSUME NEW n \in Names, shown'[n] > 0
       PROVE  n \in ever
  <2>1. /\ shown[n] \in 0..2 /\ Times(n, answer) \in Nat
        /\ shown'[n] = IF shown[n] + Times(n, answer) > 2 THEN 2 ELSE shown[n] + Times(n, answer)
    BY <1>4, <1>7
  <2>2. shown[n] > 0 \/ Times(n, answer) > 0
    BY <2>1, <1>15
  <2>3. Times(n, answer) > 0 => In(n, answer)
    BY <1>6, TimesOf
  <2>4. In(n, answer) => In(n, buffer)
    <3> SUFFICES ASSUME NEW j \in DOMAIN answer, answer[j] = n PROVE In(n, buffer)
      BY DEF In
    <3>1. i + j \in DOMAIN buffer /\ buffer[i + j] = n
      BY <1>4, <1>5, <1>6
    <3> QED BY <3>1 DEF In
  <2> QED BY <2>2, <2>3, <2>4, <1>3 DEF Progress
<1>16. pc' = "done" => \A n \in Firm : n <= marker'
  BY <1>1, <1>13
<1>17. Progress'
  <2>1. (\A n \in Names : shown[n] > 0 => n \in ever)'
    BY <1>2, <1>15
  <2>2. (\A n \in Firm : shown[n] = IF n <= marker THEN 1 ELSE 0)'
    BY <1>4, <1>14
  <2>3. (\A n \in Firm : n <= marker)' \/ pc' # "done"
    BY <1>4, <1>16
  <2> QED BY <2>1, <2>2, <2>3, <1>12 DEF Progress
<1> QED BY <1>8, <1>10, <1>17

-----------------------------------------------------------------------------
(* The invariant.                                                          *)

LEMMA Initially == Init => IInv
<1> SUFFICES ASSUME Init PROVE IInv
  OBVIOUS
<1> USE DEF Init
<1>1. First /\ pc = "idle" /\ marker = Start
  BY DEF First
<1>2. shown = Blank /\ Blank \in [Items -> 0..2] /\ \A n \in Names : shown[n] = 0
  BY DEF Blank, Items
<1>3. Typed
  <2>1. entries \in Seq(Names) /\ buffer \in Seq(Items)
    BY EmptySeq
  <2> QED BY <1>1, <1>2, <2>1 DEF Typed
<1>4. Streamed /\ Listed /\ Buffered
  BY <1>1 DEF Streamed, Listed, Buffered
<1>5. Progress
  BY <1>1, <1>2 DEF Progress
<1> QED BY <1>3, <1>4, <1>5 DEF IInv

LEMMA TypedStep == IInv /\ [Next]_vars => Typed'
<1> SUFFICES ASSUME IInv, [Next]_vars PROVE Typed'
  OBVIOUS
<1> USE DEF IInv, stream, history
<1>1. CASE OpenDir
  <2>1. <<>> \in Seq(Names)
    BY EmptySeq
  <2> QED BY <1>1, <2>1 DEF OpenDir, Typed
<1>2. CASE NextName
  BY <1>2 DEF NextName, Typed
<1>3. CASE Attr
  <2>1. entries' \in Seq(Names)
    BY <1>3, OneMore DEF Attr, Typed
  <2> QED BY <1>3, <2>1 DEF Attr, Typed
<1>4. CASE EndOfDir
  BY <1>4 DEF EndOfDir, Typed
<1>5. CASE Fill
  <2>1. PICK s \in Sorted(entries) : buffer' = IF First THEN Dots \o s ELSE buffer
    BY <1>5 DEF Fill
  <2>2. buffer' \in Seq(Items)
    <3>1. entries \in Seq(Names) /\ buffer \in Seq(Items)
      BY DEF Typed
    <3>2. Dots \o s \in Seq(Items)
      BY <3>1, SortedNames, WithDots
    <3> QED BY <2>1, <3>1, <3>2
  <2> QED BY <1>5, <2>2 DEF Fill, Typed
<1>6. CASE Read
  <2>1. marker' \in Items \cup {Start} /\ shown' \in [Items -> 0..2]
    BY <1>6, ReadStep
  <2>2. pc' \in {"idle", "done"}
    BY <1>6 DEF Read
  <2> QED BY <1>6, <2>1, <2>2 DEF Read, Typed
<1>7. CASE Restart
  <2>1. Blank \in [Items -> 0..2]
    BY DEF Blank, Items
  <2> QED BY <1>7, <2>1 DEF Restart, Typed
<1>8. CASE Change
  <2>1. dir' \subseteq Names /\ must' \subseteq Names /\ may' \subseteq Names
    BY <1>8 DEF Change, Typed
  <2>2. always' \subseteq Names /\ ever' \subseteq Names
    BY <1>8 DEF Change, Typed
  <2> QED BY <1>8, <2>1, <2>2 DEF Change, Typed
<1>9. CASE Refuse \/ Retry \/ UNCHANGED vars
  BY <1>9 DEF Refuse, Retry, vars, Typed
<1>10. CASE FillPart
  <2>1. PICK s \in Sorted(entries) : \E most \in 0..(Len(s) + 1) :
               buffer' = SubSeq(Dots \o s, 1, most)
    BY <1>10 DEF FillPart
  <2>2. PICK most \in 0..(Len(s) + 1) : buffer' = SubSeq(Dots \o s, 1, most)
    BY <2>1
  <2>3. s \in Seq(Names) /\ Dots \o s \in Seq(Items)
    BY <2>1, SortedNames, WithDots DEF Typed
  <2>4. Len(Dots \o s) = Len(s) + 2 /\ Len(s) \in Nat
    BY <2>3 DEF Dots
  <2> DEFINE list == Dots \o s
  <2>5. list \in Seq(Items) /\ most <= Len(list) /\ most \in Nat
    BY <2>2, <2>3, <2>4
  <2>6. buffer' = SubSeq(list, 1, most)
    BY <2>2
  <2> HIDE DEF list
  <2>7. buffer' \in Seq(Items)
    BY <2>5, <2>6
  <2> QED BY <1>10, <2>7 DEF FillPart, Typed
<1> QED BY <1>1, <1>2, <1>3, <1>4, <1>5, <1>6, <1>7, <1>8, <1>9, <1>10 DEF Next

LEMMA StreamedStep == IInv /\ [Next]_vars => Streamed'
<1> SUFFICES ASSUME IInv, [Next]_vars, First', pc' \in {"names", "entry"} PROVE Streamed'
  BY DEF Streamed
<1> USE DEF IInv, stream, history
<1>1. CASE OpenDir
  <2>1. First /\ pc' = "names" /\ may' = dir /\ must' = dir /\ always' = dir /\ ever' = dir /\ dir' = dir
    BY <1>1 DEF OpenDir, First
  <2>2. \A n : ~In(n, entries')
    BY <1>1 DEF OpenDir, In
  <2> QED BY <2>1, <2>2 DEF Streamed
<1>2. CASE NextName
  BY <1>2 DEF NextName, Streamed, First
<1>3. CASE Attr
  <2>1. /\ name \in dir /\ entries' = Append(entries, name) /\ pc = "entry" /\ pc' = "names"
        /\ UNCHANGED <<dir, marker, must, may, name, always, ever>>
    BY <1>3 DEF Attr
  <2>2. Streamed /\ First /\ entries \in Seq(Names) /\ name \in Names /\ always \subseteq Names
    BY <2>1 DEF Typed, First
  <2>3. \A n \in Names :
          /\ In(n, entries') <=> In(n, entries) \/ n = name
          /\ name # n /\ Once(n, entries) => Once(n, entries')
          /\ ~In(name, entries) => Once(name, entries')
    BY <2>1, <2>2, OneMore
  <2>4. \A n \in Names : In(n, entries') => n \in ever'
    BY <2>1, <2>2, <2>3 DEF Streamed
  <2>5. may' \subseteq ever' /\ always' \subseteq dir' /\ pc' # "entry"
    BY <2>1, <2>2 DEF Streamed
  <2>6. ASSUME NEW n \in always
        PROVE  \/ n \in may /\ n \in must /\ ~In(n, entries')
               \/ n \notin may /\ n \notin must /\ Once(n, entries')
    BY <2>1, <2>2, <2>3 DEF Streamed
  <2> QED BY <2>1, <2>4, <2>5, <2>6 DEF Streamed
<1>4. CASE EndOfDir
  BY <1>4 DEF EndOfDir
<1>5. CASE Refuse \/ Fill \/ FillPart \/ Retry
  BY <1>5 DEF Refuse, Fill, FillPart, Retry
<1>6. CASE Read
  BY <1>6 DEF Read
<1>7. CASE Restart
  BY <1>7 DEF Restart
<1>8. CASE Change
  <2>1. First /\ pc \in {"names", "entry"} /\ UNCHANGED <<pc, marker, name, entries>>
    BY <1>8 DEF Change, First
  <2>2. CASE \E n \in Names \ dir :
               /\ dir' = dir \cup {n} /\ may' = may \cup {n} /\ ever' = ever \cup {n}
               /\ UNCHANGED <<must, always>>
    BY <2>1, <2>2 DEF Streamed
  <2>3. CASE \E n \in dir :
               /\ dir' = dir \ {n} /\ must' = must \ {n} /\ always' = always \ {n}
               /\ UNCHANGED <<may, ever>>
    BY <2>1, <2>3 DEF Streamed
  <2> QED BY <1>8, <2>1, <2>2, <2>3 DEF Change
<1>9. CASE UNCHANGED vars
  BY <1>9 DEF vars, Streamed, First
<1> QED BY <1>1, <1>2, <1>3, <1>4, <1>5, <1>6, <1>7, <1>8, <1>9 DEF Next

LEMMA ListedStep == IInv /\ [Next]_vars => Listed'
<1> SUFFICES ASSUME IInv, [Next]_vars, First', pc' = "fill" PROVE Listed'
  BY DEF Listed
<1> USE DEF IInv, stream, history
<1>1. CASE EndOfDir
  BY <1>1 DEF EndOfDir, Streamed, Listed, First
<1>2. CASE Change
  <2>1. UNCHANGED <<pc, marker, entries, always, ever>>
    BY <1>2 DEF Change
  <2> QED BY <2>1 DEF Listed, First
<1>3. CASE UNCHANGED vars
  BY <1>3 DEF vars, Listed, First
<1>4. pc' # "fill" \/ EndOfDir \/ Change \/ UNCHANGED vars
  BY DEF Next, OpenDir, NextName, Attr, Refuse, Fill, FillPart, Read, Retry, Restart
<1> QED BY <1>1, <1>2, <1>3, <1>4

LEMMA BufferedStep == IInv /\ [Next]_vars => Buffered'
<1> SUFFICES ASSUME IInv, [Next]_vars, pc' = "read" \/ ~First' PROVE Buffered'
  BY DEF Buffered
<1> USE DEF IInv, stream, history
<1>1. CASE Fill /\ First
  <2>1. PICK s \in Sorted(entries) : buffer' = Dots \o s
    BY <1>1 DEF Fill
  <2>2. /\ entries \in Seq(Names) /\ always \subseteq Names
        /\ \A n \in Names : In(n, entries) => n \in ever
        /\ \A n \in always : Once(n, entries)
        /\ UNCHANGED <<always, ever>>
    BY <1>1 DEF Fill, Typed, Listed
  <2>3. /\ s \in Seq(Names) /\ Ascending(s)
        /\ \A n \in Names : In(n, s) <=> In(n, entries)
        /\ \A n \in Names : Once(n, entries) => Once(n, s)
    BY <2>1, <2>2, SortedNames
  <2>4. /\ Ascending(Dots \o s)
        /\ \A n \in Names : In(n, Dots \o s) <=> In(n, s)
        /\ \A n \in Names : Once(n, s) => Once(n, Dots \o s)
        /\ \A n \in Range(Dots) : Once(n, Dots \o s)
    BY <2>3, WithDots
  <2>5. Firm' = always \cup Range(Dots)
    BY <2>2 DEF Firm
  <2> QED BY <2>1, <2>2, <2>3, <2>4, <2>5 DEF Buffered
<1>2. CASE FillPart
  BY <1>2 DEF FillPart, First
<1>3. CASE ~(Fill /\ First) /\ ~FillPart
  <2>1. UNCHANGED <<buffer, always, ever>> /\ (pc = "read" \/ ~First)
    <3>1. CASE OpenDir
      BY <3>1 DEF OpenDir, First
    <3>2. CASE NextName \/ Attr \/ EndOfDir \/ Refuse \/ Retry
      BY <3>2 DEF NextName, Attr, EndOfDir, Refuse, Retry, First
    <3>3. CASE Fill
      BY <3>3, <1>3 DEF Fill
    <3>4. CASE Read
      BY <3>4 DEF Read
    <3>5. CASE Restart
      BY <3>5 DEF Restart, First
    <3>6. CASE Change
      BY <3>6 DEF Change, First
    <3>7. CASE UNCHANGED vars
      BY <3>7 DEF vars, First
    <3> QED BY <3>1, <3>2, <3>3, <3>4, <3>5, <3>6, <3>7, <1>3 DEF Next
  <2> QED BY <2>1 DEF Buffered, Firm
<1> QED BY <1>1, <1>2, <1>3

LEMMA ProgressStep == IInv /\ [Next]_vars => Progress'
<1> SUFFICES ASSUME IInv, [Next]_vars PROVE Progress'
  OBVIOUS
<1> USE DEF IInv, stream, history
<1>1. CASE OpenDir
  <2>1. UNCHANGED <<marker, shown>> /\ pc' # "done" /\ First' = First
    BY <1>1 DEF OpenDir, First
  <2>2. CASE First
    <3>1. shown = Blank /\ \A n \in Names : shown[n] = 0
      BY <2>2 DEF Progress, Blank, Items
    <3> QED BY <2>1, <2>2, <3>1 DEF Progress
  <2>3. CASE ~First
    <3>1. UNCHANGED <<always, ever>>
      BY <1>1, <2>3 DEF OpenDir
    <3> QED BY <2>1, <2>3, <3>1 DEF Progress, Firm
  <2> QED BY <2>2, <2>3
<1>2. CASE Read
  BY <1>2, ReadStep
<1>3. CASE Restart
  <2>1. First' /\ shown' = Blank /\ pc' # "done"
    BY <1>3 DEF Restart, First
  <2>2. \A n \in Names : Blank[n] = 0
    BY DEF Blank
  <2> QED BY <2>1, <2>2 DEF Progress
<1>4. CASE Change
  <2>1. UNCHANGED <<pc, marker, shown>> /\ pc # "done" /\ First' = First /\ ever \subseteq ever'
    BY <1>4 DEF Change, First
  <2>2. ~First => always' = always
    BY <1>4 DEF Change
  <2> QED BY <2>1, <2>2 DEF Progress, Firm
<1>5. CASE \/ NextName \/ Attr \/ EndOfDir \/ Refuse \/ Fill \/ FillPart \/ Retry
           \/ UNCHANGED vars
  <2>1. UNCHANGED <<marker, shown, always, ever>> /\ (pc' = "done" => pc = "done")
    BY <1>5 DEF NextName, Attr, EndOfDir, Refuse, Fill, FillPart, Retry, vars
  <2> QED BY <2>1 DEF Progress, Firm, First
<1> QED BY <1>1, <1>2, <1>3, <1>4, <1>5 DEF Next

LEMMA Invariance == Spec => []IInv
<1>1. IInv /\ [Next]_vars => IInv'
  BY TypedStep, StreamedStep, ListedStep, BufferedStep, ProgressStep DEF IInv
<1> QED BY Initially, <1>1, PTL DEF Spec

-----------------------------------------------------------------------------
\* An enumeration that gets to its end, over any number of queries, shows every
\* entry that was there throughout the first one exactly once, and the dots,
\* whichever of them have failed on the way and been repeated.
THEOREM EntriesShownOnce == Spec => []ShownOnce
<1>1. IInv => ShownOnce
  BY DEF IInv, Progress, ShownOnce, Firm
<1> QED BY <1>1, Invariance, PTL

\* It shows no entry that was not there during the first query, whatever a failed
\* one has left in the buffer.
THEOREM OnlyEntriesShown == Spec => []NothingInvented
<1>1. IInv => NothingInvented
  BY DEF IInv, Progress, NothingInvented
<1> QED BY <1>1, Invariance, PTL

-----------------------------------------------------------------------------
(* Induction.                                                              *)

\* Induction over the natural numbers, with a set in the place of a property: if
\* m were missing, n |-> n + 1 would take those of 0..m that are in the set, one
\* to one, to those of them that are not 0.
LEMMA SetInduction ==
  ASSUME NEW T, 0 \in T, \A n \in Nat : n \in T => n + 1 \in T
  PROVE  Nat \subseteq T
<1> SUFFICES ASSUME NEW m \in Nat, m \notin T PROVE FALSE
  OBVIOUS
<1> DEFINE S == {n \in 0..m : n \in T}
           f == [n \in S |-> n + 1]
<1>1. IsFiniteSet(S)
  <2>1. IsFiniteSet(0..m)
    BY FS_Interval
  <2> QED BY <2>1, FS_Subset
<1>2. IsFiniteSet(S \ {0}) /\ Cardinality(S \ {0}) < Cardinality(S)
  <2>1. 0 \in S
    OBVIOUS
  <2> HIDE DEF S
  <2>2. Cardinality(S) \in Nat
    BY <1>1, FS_CardinalityType
  <2>3. IsFiniteSet(S \ {0}) /\ Cardinality(S \ {0}) = Cardinality(S) - 1
    BY <1>1, <2>1, FS_RemoveElement
  <2> QED BY <2>2, <2>3
<1>3. f \in [S -> S \ {0}]
  OBVIOUS
<1>4. \E x, y \in S : x # y /\ f[x] = f[y]
  <2> HIDE DEF S, f
  <2> QED BY <1>1, <1>2, <1>3, FS_PigeonHole
<1> QED BY <1>4

-----------------------------------------------------------------------------
(* Strings.                                                                *)

\* Separators and words, those of the code among them.
Tokens == STRING \cup {"/", "\\", Here, Up, "mnt", "d"}
Strings == Seq(Tokens)

\* Two tokens in a string.
LEMMA Pair ==
  ASSUME NEW a \in Tokens, NEW b \in Tokens
  PROVE  <<a>> \o <<b>> = <<a, b>>
<1> DEFINE p == <<a>>
           q == <<b>>
           r == <<a, b>>
<1>1. p \in Seq(Tokens) /\ q \in Seq(Tokens) /\ r \in Seq(Tokens)
  OBVIOUS
<1>2. Len(p) = 1 /\ Len(q) = 1 /\ Len(r) = 2 /\ r[1] = p[1] /\ r[2] = q[1]
  OBVIOUS
<1> HIDE DEF p, q, r
<1>3. /\ p \o q \in Seq(Tokens) /\ Len(p \o q) = Len(p) + Len(q)
      /\ \A i \in 1..Len(p) + Len(q) : (p \o q)[i] = IF i <= Len(p) THEN p[i] ELSE q[i - Len(p)]
  BY <1>1, ConcatProperties
<1>4. Len(p \o q) = 2 /\ (p \o q)[1] = p[1] /\ (p \o q)[2] = q[1]
  BY <1>2, <1>3
<1>5. \A i \in 1..Len(p \o q) : (p \o q)[i] = r[i]
  BY <1>2, <1>4
<1>6. p \o q = r
  BY <1>1, <1>2, <1>3, <1>4, <1>5, SeqEqual
<1> QED BY <1>6 DEF p, q, r

\* What is in two strings put together.
LEMMA RangeConcat ==
  ASSUME NEW x \in Strings, NEW y \in Strings
  PROVE  Range(x \o y) = Range(x) \cup Range(y)
<1> USE DEF Strings
<1>1. /\ x \o y \in Strings /\ Len(x \o y) = Len(x) + Len(y)
      /\ \A i \in 1..Len(x) + Len(y) : (x \o y)[i] = IF i <= Len(x) THEN x[i] ELSE y[i - Len(x)]
  BY ConcatProperties
<1>2. /\ DOMAIN x = 1..Len(x) /\ DOMAIN y = 1..Len(y) /\ DOMAIN (x \o y) = 1..Len(x) + Len(y)
      /\ Len(x) \in Nat /\ Len(y) \in Nat
  BY <1>1, LenProperties
<1> DEFINE z == x \o y
<1>3. DOMAIN z = 1..Len(x) + Len(y)
      /\ \A i \in 1..Len(x) + Len(y) : z[i] = IF i <= Len(x) THEN x[i] ELSE y[i - Len(x)]
  BY <1>1, <1>2
<1> HIDE DEF z
<1>4. ASSUME NEW t \in Range(z)
      PROVE  t \in Range(x) \cup Range(y)
  <2>1. PICK i \in 1..Len(x) + Len(y) : t = z[i]
    BY <1>3 DEF Range
  <2>2. CASE i <= Len(x)
    BY <1>2, <1>3, <2>1, <2>2 DEF Range
  <2>3. CASE ~(i <= Len(x))
    <3>1. i - Len(x) \in 1..Len(y) /\ t = y[i - Len(x)]
      BY <1>2, <1>3, <2>1, <2>3
    <3> QED BY <1>2, <3>1 DEF Range
  <2> QED BY <2>2, <2>3
<1>5. ASSUME NEW t \in Range(x)
      PROVE  t \in Range(z)
  <2>1. PICK i \in 1..Len(x) : t = x[i]
    BY <1>2 DEF Range
  <2>2. i \in 1..Len(x) + Len(y) /\ z[i] = t
    BY <1>2, <1>3, <2>1
  <2> QED BY <1>3, <2>2 DEF Range
<1>6. ASSUME NEW t \in Range(y)
      PROVE  t \in Range(z)
  <2>1. PICK i \in 1..Len(y) : t = y[i]
    BY <1>2 DEF Range
  <2> DEFINE j == Len(x) + i
  <2>2. j \in 1..Len(x) + Len(y) /\ ~(j <= Len(x)) /\ j - Len(x) = i
    BY <1>2
  <2> HIDE DEF j
  <2>3. z[j] = t
    BY <1>3, <2>1, <2>2
  <2> QED BY <1>3, <2>2, <2>3 DEF Range
<1> QED BY <1>4, <1>5, <1>6 DEF z

\* No backslash is left by Slashes, and nothing else is changed.
LEMMA Slashed ==
  ASSUME NEW x \in Strings
  PROVE  /\ Slashes(x) \in Strings /\ Len(Slashes(x)) = Len(x)
         /\ \A i \in 1..Len(x) : Slashes(x)[i] = IF x[i] = "\\" THEN "/" ELSE x[i]
         /\ "\\" \notin Range(Slashes(x))
         /\ Up \in Range(Slashes(x)) <=> Up \in Range(x)
         /\ "\\" \notin Range(x) => Slashes(x) = x
<1> DEFINE n == Len(x)
           s == [i \in 1..n |-> IF x[i] = "\\" THEN "/" ELSE x[i]]
<1>1. n \in Nat /\ DOMAIN x = 1..n /\ x \in [1..n -> Tokens]
  BY LenProperties DEF Strings
<1>2. s = Slashes(x)
  BY <1>1 DEF Slashes
<1> HIDE DEF n
<1>3. s \in [1..n -> Tokens] /\ \A i \in 1..n : s[i] = IF x[i] = "\\" THEN "/" ELSE x[i]
  <2>1. "/" \in Tokens
    BY DEF Tokens
  <2>2. ASSUME NEW i \in 1..n
        PROVE  (IF x[i] = "\\" THEN "/" ELSE x[i]) \in Tokens
    BY <1>1, <2>1
  <2> QED BY <2>2
<1> HIDE DEF s
<1>4. s \in Strings /\ Len(s) = n
  BY <1>1, <1>3 DEF Strings
<1>5. "\\" \notin Range(s)
  BY <1>3 DEF Range
<1>6. Up \in Range(s) <=> Up \in Range(x)
  BY <1>1, <1>3 DEF Range, Up
<1>7. ASSUME "\\" \notin Range(x)
      PROVE  s = x
  BY <1>1, <1>3, <1>7 DEF Range
<1> QED BY <1>2, <1>3, <1>4, <1>5, <1>6, <1>7 DEF n

LEMMA SlashesConcat ==
  ASSUME NEW x \in Strings, NEW y \in Strings
  PROVE  Slashes(x \o y) = Slashes(x) \o Slashes(y)
<1> DEFINE z == x \o y
           a == Slashes(x)
           b == Slashes(y)
           c == a \o b
           d == Slashes(z)
<1>1. /\ z \in Strings /\ Len(z) = Len(x) + Len(y)
      /\ \A i \in 1..Len(x) + Len(y) : z[i] = IF i <= Len(x) THEN x[i] ELSE y[i - Len(x)]
  BY ConcatProperties DEF Strings
<1>2. /\ a \in Strings /\ Len(a) = Len(x)
      /\ \A i \in 1..Len(x) : a[i] = IF x[i] = "\\" THEN "/" ELSE x[i]
  BY Slashed
<1>3. /\ b \in Strings /\ Len(b) = Len(y)
      /\ \A i \in 1..Len(y) : b[i] = IF y[i] = "\\" THEN "/" ELSE y[i]
  BY Slashed
<1> HIDE DEF z, a, b
<1>4. /\ c \in Strings /\ Len(c) = Len(x) + Len(y)
      /\ \A i \in 1..Len(x) + Len(y) : c[i] = IF i <= Len(x) THEN a[i] ELSE b[i - Len(x)]
  <2>1. a \in Seq(Tokens) /\ b \in Seq(Tokens)
    BY <1>2, <1>3 DEF Strings
  <2>2. /\ c \in Seq(Tokens) /\ Len(c) = Len(a) + Len(b)
        /\ \A i \in 1..Len(a) + Len(b) : c[i] = IF i <= Len(a) THEN a[i] ELSE b[i - Len(a)]
    BY ONLY <2>1, ConcatProperties
  <2> HIDE DEF c
  <2> QED BY <1>2, <1>3, <2>2 DEF Strings
<1>5. /\ d \in Strings /\ Len(d) = Len(x) + Len(y)
      /\ \A i \in 1..Len(x) + Len(y) : d[i] = IF z[i] = "\\" THEN "/" ELSE z[i]
  BY <1>1, Slashed
<1>6. Len(x) \in Nat /\ Len(y) \in Nat
  BY LenProperties DEF Strings
<1> HIDE DEF c, d
<1>7. ASSUME NEW i \in 1..Len(x) + Len(y)
      PROVE  d[i] = c[i]
  <2>1. CASE i <= Len(x)
    BY <2>1, <1>1, <1>2, <1>4, <1>5, <1>6
  <2>2. CASE ~(i <= Len(x))
    <3>1. i - Len(x) \in 1..Len(y)
      BY <2>2, <1>6
    <3> QED BY <2>2, <3>1, <1>1, <1>3, <1>4, <1>5
  <2> QED BY <2>1, <2>2
<1> QED BY <1>4, <1>5, <1>7, SeqEqual DEF Strings, a, b, c, d, z

-----------------------------------------------------------------------------
(* Functions that are defined by recursion.                                *)

\* What each of n steps makes of what there is, and what that comes to.
Makes(op, n, S) == op \in [1..n -> [S -> S]]
Comes(f, n, S, a, op) ==
  f \in [0..n -> S] /\ f[0] = a /\ \A i \in 1..n : f[i] = op[i][f[i - 1]]

LEMMA Recursion ==
  ASSUME NEW S, NEW n \in Nat, NEW a \in S, NEW op, Makes(op, n, S)
  PROVE  \E f : Comes(f, n, S, a, op)
<1> SUFFICES \E f \in [0..n -> S] : f[0] = a /\ \A i \in 1..n : f[i] = op[i][f[i - 1]]
  BY DEF Comes
<1>0. op \in [1..n -> [S -> S]]
  BY DEF Makes
<1> DEFINE T == {k \in Nat : k <= n =>
                   \E f \in [0..k -> S] : f[0] = a /\ \A i \in 1..k : f[i] = op[i][f[i - 1]]}
<1>1. 0 \in T
  <2> DEFINE f == [i \in 0..0 |-> a]
  <2>1. f \in [0..0 -> S] /\ f[0] = a /\ \A i \in 1..0 : f[i] = op[i][f[i - 1]]
    OBVIOUS
  <2> HIDE DEF f
  <2> QED BY <2>1
<1>2. ASSUME NEW k \in Nat, k \in T
      PROVE  k + 1 \in T
  <2>1. ASSUME k + 1 <= n
        PROVE  \E f \in [0..(k + 1) -> S] :
                 f[0] = a /\ \A i \in 1..(k + 1) : f[i] = op[i][f[i - 1]]
    <3>1. PICK f \in [0..k -> S] : f[0] = a /\ \A i \in 1..k : f[i] = op[i][f[i - 1]]
      BY <1>2, <2>1
    <3> DEFINE b == op[k + 1][f[k]]
               g == [i \in 0..(k + 1) |-> IF i = k + 1 THEN b ELSE f[i]]
    <3>2. b \in S
      <4>1. k + 1 \in 1..n /\ f[k] \in S
        BY <2>1, <3>1
      <4>2. op[k + 1] \in [S -> S]
        BY <1>0, <4>1
      <4> QED BY <4>1, <4>2
    <3>3. b = op[k + 1][f[k]]
      OBVIOUS
    <3> HIDE DEF b
    <3>4. g \in [0..(k + 1) -> S]
      BY <3>1, <3>2
    <3>5. \A i \in 0..k : g[i] = f[i]
      OBVIOUS
    <3>6. g[k + 1] = b
      OBVIOUS
    <3> HIDE DEF g
    <3>7. ASSUME NEW i \in 1..(k + 1)
          PROVE  g[i] = op[i][g[i - 1]]
      <4>1. i - 1 \in 0..k
        OBVIOUS
      <4>2. CASE i = k + 1
        <5>1. i - 1 = k
          BY <4>2
        <5> QED BY <4>2, <5>1, <3>3, <3>5, <3>6
      <4>3. CASE i # k + 1
        BY <4>1, <4>3, <3>1, <3>5
      <4> QED BY <4>2, <4>3
    <3>8. g[0] = a
      BY <3>1, <3>5
    <3> QED BY <3>4, <3>7, <3>8
  <2>2. k + 1 \in Nat
    OBVIOUS
  <2> QED BY <2>1, <2>2, Zenon
<1>3. n \in T
  <2> HIDE DEF T
  <2> QED BY <1>1, <1>2, SetInduction
<1> QED BY <1>3

-----------------------------------------------------------------------------
(* Components.                                                             *)

\* What Components has kept of a string, by its length.
Kept(f, x) ==
  /\ f \in [0..Len(x) -> Strings] /\ f[0] = <<>>
  /\ \A i \in 1..Len(x) :
       f[i] = IF x[i] \in {"/", Here} THEN f[i - 1] ELSE Append(f[i - 1], x[i])

LEMMA SomeKept ==
  ASSUME NEW x \in Strings
  PROVE  \E f : Kept(f, x)
<1> DEFINE n == Len(x)
           op == [i \in 1..n |->
                    [s \in Strings |-> IF x[i] \in {"/", Here} THEN s ELSE Append(s, x[i])]]
<1>1. n \in Nat /\ \A i \in 1..n : x[i] \in Tokens
  BY LenProperties, ElementOfSeq DEF Strings
<1>2. <<>> \in Strings
  BY EmptySeq DEF Strings
<1>3. n = Len(x)
  OBVIOUS
<1> HIDE DEF n
<1>4. op \in [1..n -> [Strings -> Strings]]
  <2>1. ASSUME NEW i \in 1..n, NEW s \in Strings
        PROVE  (IF x[i] \in {"/", Here} THEN s ELSE Append(s, x[i])) \in Strings
    BY <1>1, AppendProperties DEF Strings
  <2> QED BY <2>1
<1>5. \A i \in 1..n : \A s \in Strings :
        op[i][s] = IF x[i] \in {"/", Here} THEN s ELSE Append(s, x[i])
  OBVIOUS
<1> HIDE DEF op
<1>6. PICK f \in [0..n -> Strings] : f[0] = <<>> /\ \A i \in 1..n : f[i] = op[i][f[i - 1]]
  <2>1. Makes(op, n, Strings)
    BY <1>4 DEF Makes
  <2>2. \E f : Comes(f, n, Strings, <<>>, op)
    BY <1>1, <1>2, <2>1, Recursion
  <2> QED BY <2>2 DEF Comes
<1>7. ASSUME NEW i \in 1..n
      PROVE  f[i] = IF x[i] \in {"/", Here} THEN f[i - 1] ELSE Append(f[i - 1], x[i])
  <2>1. i - 1 \in 0..n
    BY <1>1
  <2>2. f[i - 1] \in Strings
    BY <2>1
  <2> QED BY <2>2, <1>5, <1>6
<1>8. Kept(f, x)
  BY <1>3, <1>6, <1>7 DEF Kept
<1> QED BY <1>8

\* The last of it is what Components returns.
LEMMA KeptLast ==
  ASSUME NEW x \in Strings, NEW f, Kept(f, x)
  PROVE  Components(x) = f[Len(x)] /\ Components(x) \in Strings
<1> DEFINE n == Len(x)
           More(g) == [i \in 0..Len(x) |->
                         IF i = 0 THEN <<>>
                         ELSE IF x[i] \in {"/", Here} THEN g[i - 1] ELSE Append(g[i - 1], x[i])]
           k == CHOOSE g : g = More(g)
<1>1. n \in Nat
  BY LenProperties DEF Strings
<1>2. f = More(f)
  <2>1. f = [i \in 0..Len(x) |-> f[i]]
    BY DEF Kept
  <2>2. ASSUME NEW i \in 0..Len(x)
        PROVE  f[i] = IF i = 0 THEN <<>>
                      ELSE IF x[i] \in {"/", Here} THEN f[i - 1] ELSE Append(f[i - 1], x[i])
    <3>1. CASE i = 0
      BY <3>1 DEF Kept
    <3>2. CASE i # 0
      <4>1. i \in 1..Len(x)
        BY <1>1, <3>2
      <4> QED BY <3>2, <4>1 DEF Kept
    <3> QED BY <3>1, <3>2
  <2> QED BY <2>1, <2>2, Zenon
<1>3. k = More(k)
  <2> HIDE DEF More
  <2> QED BY <1>2
<1>4. k[0] = <<>> /\ \A i \in 1..n :
        k[i] = IF x[i] \in {"/", Here} THEN k[i - 1] ELSE Append(k[i - 1], x[i])
  <2> HIDE DEF k
  <2>1. \A i \in 0..n :
          k[i] = IF i = 0 THEN <<>>
                 ELSE IF x[i] \in {"/", Here} THEN k[i - 1] ELSE Append(k[i - 1], x[i])
    BY <1>3, Zenon
  <2>2. 0 \in 0..n /\ \A i \in 1..n : i \in 0..n /\ i # 0
    BY <1>1
  <2> QED BY <2>1, <2>2, Zenon
<1>5. Components(x) = k[n]
  BY DEF Components
<1> HIDE DEF k, More
<1> DEFINE T == {i \in Nat : i <= n => k[i] = f[i]}
<1>6. 0 \in T
  BY <1>4 DEF Kept
<1>7. ASSUME NEW i \in Nat, i \in T
      PROVE  i + 1 \in T
  <2> SUFFICES ASSUME i + 1 <= n PROVE k[i + 1] = f[i + 1]
    OBVIOUS
  <2> DEFINE j == i + 1
  <2>1. j \in 1..n /\ j - 1 = i /\ k[i] = f[i]
    BY <1>1, <1>7
  <2> HIDE DEF j
  <2>2. k[j] = f[j]
    BY <1>4, <2>1 DEF Kept
  <2> QED BY <2>2 DEF j
<1>8. n \in T
  <2> HIDE DEF T, n
  <2> QED BY <1>1, <1>6, <1>7, SetInduction
<1>9. k[n] = f[n] /\ n \in 0..Len(x)
  BY <1>1, <1>8
<1> QED BY <1>5, <1>9 DEF Kept

\* Two strings put together keep what each keeps.
LEMMA ComponentsConcat ==
  ASSUME NEW x \in Strings, NEW y \in Strings
  PROVE  Components(x \o y) = Components(x) \o Components(y)
<1>1. PICK f : Kept(f, x)
  BY SomeKept
<1>2. PICK g : Kept(g, y)
  BY SomeKept
<1> DEFINE m == Len(x)
           n == Len(y)
           z == x \o y
           c == f[m]
           h == [i \in 0..(m + n) |-> IF i <= m THEN f[i] ELSE c \o g[i - m]]
<1>3. m \in Nat /\ n \in Nat
  BY LenProperties DEF Strings
<1>4. /\ z \in Strings /\ Len(z) = m + n
      /\ \A i \in 1..(m + n) : z[i] = IF i <= m THEN x[i] ELSE y[i - m]
  BY ConcatProperties DEF Strings
<1>5. \A i \in 1..n : y[i] \in Tokens
  BY ElementOfSeq DEF Strings
<1>6. /\ Components(x) = c /\ c \in Strings
      /\ Components(y) = g[n] /\ \A i \in 0..n : g[i] \in Strings
  BY <1>1, <1>2, <1>3, KeptLast DEF Kept
<1>7. /\ f \in [0..m -> Strings] /\ f[0] = <<>> /\ f[m] = c
      /\ \A i \in 1..m : f[i] = IF x[i] \in {"/", Here} THEN f[i - 1] ELSE Append(f[i - 1], x[i])
  BY <1>1 DEF Kept
<1>8. /\ g[0] = <<>>
      /\ \A i \in 1..n : g[i] = IF y[i] \in {"/", Here} THEN g[i - 1] ELSE Append(g[i - 1], y[i])
  BY <1>2 DEF Kept
<1> HIDE DEF m, n, z, c
<1>9. \A i \in 0..(m + n) : h[i] = IF i <= m THEN f[i] ELSE c \o g[i - m]
  OBVIOUS
<1>10. h \in [0..(m + n) -> Strings]
  <2>1. ASSUME NEW i \in 0..(m + n)
        PROVE  (IF i <= m THEN f[i] ELSE c \o g[i - m]) \in Strings
    <3>1. CASE i <= m
      BY <1>3, <1>7, <3>1
    <3>2. CASE ~(i <= m)
      <4>1. i - m \in 0..n
        BY <1>3, <3>2
      <4>2. c \o g[i - m] \in Strings
        BY <1>6, <4>1, ConcatProperties DEF Strings
      <4> QED BY <3>2, <4>2
    <3> QED BY <3>1, <3>2
  <2> QED BY <2>1
<1> HIDE DEF h
<1>11. ASSUME NEW i \in 1..(m + n)
       PROVE  h[i] = IF z[i] \in {"/", Here} THEN h[i - 1] ELSE Append(h[i - 1], z[i])
  <2>1. CASE i <= m
    <3>1. i \in 1..m /\ i - 1 \in 0..(m + n) /\ i \in 0..(m + n) /\ i - 1 <= m
      BY <1>3, <2>1
    <3>2. h[i] = f[i] /\ h[i - 1] = f[i - 1] /\ z[i] = x[i]
      BY <1>4, <1>9, <2>1, <3>1
    <3> QED BY <1>7, <3>1, <3>2
  <2>2. CASE ~(i <= m)
    <3> DEFINE j == i - m
    <3>1. /\ j \in 1..n /\ j - 1 \in 0..n /\ i \in 0..(m + n) /\ i - 1 \in 0..(m + n)
          /\ (i - 1) - m = j - 1 /\ i - m = j
      BY <1>3, <2>2
    <3> HIDE DEF j
    <3>2. h[i] = c \o g[j] /\ z[i] = y[j]
      BY <1>4, <1>9, <2>2, <3>1
    <3>3. h[i - 1] = c \o g[j - 1]
      <4>1. CASE i - 1 <= m
        <5>1. i - 1 = m /\ j - 1 = 0
          BY <1>3, <2>2, <3>1, <4>1
        <5>2. c \o <<>> = c
          BY <1>6, ConcatEmptySeq DEF Strings
        <5> QED BY <1>7, <1>8, <1>9, <3>1, <4>1, <5>1, <5>2
      <4>2. CASE ~(i - 1 <= m)
        BY <1>9, <3>1, <4>2
      <4> QED BY <4>1, <4>2
    <3>4. CASE y[j] \in {"/", Here}
      BY <1>8, <3>1, <3>2, <3>3, <3>4
    <3>5. CASE y[j] \notin {"/", Here}
      <4> DEFINE s == g[j - 1]
                 t == y[j]
      <4>1. s \in Strings /\ t \in Tokens /\ g[j] = Append(s, t) /\ c \in Strings
        BY <1>5, <1>6, <1>8, <3>1, <3>5
      <4>2. h[i] = c \o Append(s, t) /\ h[i - 1] = c \o s
        BY <3>2, <3>3, <4>1
      <4> HIDE DEF s
      <4>3. c \o Append(s, t) = Append(c \o s, t)
        <5> HIDE DEF t
        <5>1. Append(s, t) = s \o <<t>> /\ <<t>> \in Strings /\ c \o s \in Strings
          BY <4>1, AppendIsConcat, ConcatProperties DEF Strings
        <5>2. Append(c \o s, t) = (c \o s) \o <<t>>
          BY <4>1, <5>1, AppendIsConcat DEF Strings
        <5>3. (c \o s) \o <<t>> = c \o (s \o <<t>>)
          BY <4>1, <5>1, ConcatAssociative DEF Strings
        <5> QED BY <5>1, <5>2, <5>3
      <4> QED BY <3>2, <3>5, <4>2, <4>3
    <3> QED BY <3>4, <3>5
  <2> QED BY <2>1, <2>2
<1>12. h[0] = <<>>
  <2>1. 0 \in 0..(m + n) /\ 0 <= m
    BY <1>3
  <2> QED BY <1>7, <1>9, <2>1
<1>13. Kept(h, z)
  BY <1>4, <1>10, <1>11, <1>12 DEF Kept
<1>14. Components(z) = h[m + n]
  BY <1>4, <1>13, KeptLast
<1>15. h[m + n] = c \o g[n]
  <2>1. m + n \in 0..(m + n) /\ (m + n) - m = n
    BY <1>3
  <2>2. CASE n = 0
    <3>1. m + n <= m /\ m + n = m
      BY <1>3, <2>2
    <3>2. c \o <<>> = c
      BY <1>6, ConcatEmptySeq DEF Strings
    <3> QED BY <1>7, <1>8, <1>9, <2>1, <2>2, <3>1, <3>2
  <2>3. CASE n # 0
    <3>1. ~(m + n <= m)
      BY <1>3, <2>3
    <3> QED BY <1>9, <2>1, <3>1
  <2> QED BY <2>2, <2>3
<1> QED BY <1>6, <1>14, <1>15 DEF z

\* Nothing is kept that was not there, and no separators.
LEMMA ComponentsOf ==
  ASSUME NEW x \in Strings
  PROVE  Components(x) \in Strings /\ Range(Components(x)) \subseteq Range(x) \ {"/", Here}
<1>1. PICK f : Kept(f, x)
  BY SomeKept
<1>2. Len(x) \in Nat /\ DOMAIN x = 1..Len(x)
  BY LenProperties DEF Strings
<1> DEFINE R == Range(x) \ {"/", Here}
           T == {i \in Nat : i <= Len(x) => Range(f[i]) \subseteq R}
<1>3. 0 \in T
  <2>1. Range(<<>>) = {}
    BY DEF Range
  <2> QED BY <1>1, <2>1 DEF Kept
<1>4. ASSUME NEW i \in Nat, i \in T
      PROVE  i + 1 \in T
  <2> SUFFICES ASSUME i + 1 <= Len(x) PROVE Range(f[i + 1]) \subseteq R
    OBVIOUS
  <2> DEFINE j == i + 1
             s == f[i]
             t == x[j]
  <2>1. j \in 1..Len(x) /\ j - 1 = i /\ i \in 0..Len(x)
    BY <1>2
  <2>2. s \in Strings /\ t \in Tokens /\ Range(s) \subseteq R /\ t \in Range(x)
    <3>1. t \in Tokens
      BY <2>1, ElementOfSeq DEF Strings
    <3>2. t \in Range(x)
      BY <1>2, <2>1 DEF Range
    <3>3. s \in Strings
      BY <1>1, <2>1 DEF Kept
    <3>4. Range(s) \subseteq R
      BY <1>2, <1>4, <2>1
    <3> QED BY <3>1, <3>2, <3>3, <3>4
  <2>3. f[j] = s \/ (t \notin {"/", Here} /\ f[j] = Append(s, t))
    BY <1>1, <2>1 DEF Kept
  <2> HIDE DEF j, s, t
  <2>4. t \notin {"/", Here} => Range(Append(s, t)) \subseteq R
    <3>1. Append(s, t) = s \o <<t>> /\ <<t>> \in Strings
      BY <2>2, AppendIsConcat DEF Strings
    <3>2. Range(<<t>>) = {t}
      BY DEF Range
    <3> QED BY <2>2, <3>1, <3>2, RangeConcat
  <2> HIDE DEF R
  <2>5. Range(f[j]) \subseteq R
    BY <2>2, <2>3, <2>4
  <2> QED BY <2>5 DEF j
<1>5. Len(x) \in T
  <2> HIDE DEF T
  <2> QED BY <1>2, <1>3, <1>4, SetInduction
<1> HIDE DEF R
<1>6. Range(f[Len(x)]) \subseteq R
  BY <1>2, <1>5
<1> QED BY <1>1, <1>6, KeptLast DEF R

\* A string without separators and "." is kept as it is.
LEMMA ComponentsPlain ==
  ASSUME NEW x \in Strings, Range(x) \cap {Here, "/"} = {}
  PROVE  Components(x) = x
<1> DEFINE n == Len(x)
           f == [i \in 0..n |-> SubSeq(x, 1, i)]
<1>1. n \in Nat /\ DOMAIN x = 1..n /\ n = Len(x)
  BY LenProperties DEF Strings
<1>2. \A i \in 1..n : x[i] \in Tokens /\ x[i] \notin {"/", Here}
  <2>1. \A i \in 1..n : x[i] \in Tokens
    BY ElementOfSeq DEF Strings
  <2> QED BY <1>1, <2>1 DEF Range
<1>3. \A i \in 0..n : f[i] = SubSeq(x, 1, i)
  OBVIOUS
<1>4. f \in [0..n -> Strings]
  <2>1. ASSUME NEW i \in 0..n
        PROVE  SubSeq(x, 1, i) \in Strings
    <3>1. \A j \in 1..i : x[j] \in Tokens
      <4> HIDE DEF n
      <4> QED BY <1>1, <1>2
    <3>2. i \in Int /\ 1 \in Int
      OBVIOUS
    <3> QED BY <3>1, <3>2, SubSeqProperties DEF Strings
  <2> HIDE DEF n
  <2> QED BY <2>1
<1> HIDE DEF n, f
<1>5. f[0] = <<>>
  BY <1>1, <1>3, SubSeqEmpty
<1>6. ASSUME NEW i \in 1..n
      PROVE  f[i] = Append(f[i - 1], x[i])
  <2>1. i - 1 \in 0..n /\ i \in 0..n /\ 1 \in 1..n /\ i \in 1..n
    BY <1>1
  <2>2. SubSeq(x, 1, i) = SubSeq(x, 1, i - 1) \o <<x[i]>>
    BY <1>1, <2>1, SubSeqRecursiveSecond DEF Strings
  <2>3. f[i - 1] \in Strings /\ x[i] \in Tokens
    BY <1>2, <1>4, <2>1
  <2>4. Append(f[i - 1], x[i]) = f[i - 1] \o <<x[i]>>
    BY <2>3, AppendIsConcat DEF Strings
  <2> QED BY <1>3, <2>1, <2>2, <2>4
<1>7. Kept(f, x)
  BY <1>1, <1>2, <1>4, <1>5, <1>6 DEF Kept
<1>8. f[n] = x
  <2>1. n \in 0..n
    BY <1>1
  <2> QED BY <1>1, <1>3, <2>1, SubSeqFull DEF Strings
<1> QED BY <1>1, <1>7, <1>8, KeptLast

\* Separators leave nothing.
LEMMA ComponentsSlashes ==
  ASSUME NEW x \in Strings, \A i \in 1..Len(x) : x[i] \in {"/", Here}
  PROVE  Components(x) = <<>>
<1> DEFINE n == Len(x)
           f == [i \in 0..n |-> <<>>]
<1>1. n \in Nat /\ n = Len(x)
  BY LenProperties DEF Strings
<1>2. <<>> \in Strings
  BY EmptySeq DEF Strings
<1>3. f \in [0..n -> Strings] /\ \A i \in 0..n : f[i] = <<>>
  BY <1>2
<1> HIDE DEF n, f
<1>4. f[0] = <<>> /\ f[n] = <<>> /\ \A i \in 1..n : f[i] = f[i - 1]
  BY <1>1, <1>3
<1>5. Kept(f, x)
  BY <1>1, <1>3, <1>4 DEF Kept
<1> QED BY <1>1, <1>4, <1>5, KeptLast

\* The directory of the drives.
LEMMA ComponentsDrive ==
  Components(<<"/", "mnt", "/", "d", "/">>) = <<"mnt", "d">>
<1> DEFINE x == <<"/", "mnt", "/", "d", "/">>
           f == [i \in 0..5 |-> IF i <= 1 THEN <<>> ELSE IF i <= 3 THEN <<"mnt">> ELSE <<"mnt", "d">>]
<1>1. x \in Strings /\ Len(x) = 5
  BY DEF Strings, Tokens
<1>2. x[1] = "/" /\ x[2] = "mnt" /\ x[3] = "/" /\ x[4] = "d" /\ x[5] = "/"
  OBVIOUS
<1>3. <<>> \in Strings /\ <<"mnt">> \in Strings /\ <<"mnt", "d">> \in Strings
  BY EmptySeq DEF Strings, Tokens
<1>4. Append(<<>>, "mnt") = <<"mnt">> /\ Append(<<"mnt">>, "d") = <<"mnt", "d">>
  <2>1. /\ <<>> \in Seq(Tokens) /\ "mnt" \in Tokens /\ "d" \in Tokens
        /\ <<"mnt">> \in Seq(Tokens) /\ <<"d">> \in Seq(Tokens)
    BY EmptySeq DEF Tokens
  <2>2. Append(<<>>, "mnt") = <<>> \o <<"mnt">> /\ <<>> \o <<"mnt">> = <<"mnt">>
    BY <2>1, AppendIsConcat, ConcatEmptySeq
  <2>3. Append(<<"mnt">>, "d") = <<"mnt">> \o <<"d">>
    BY <2>1, AppendIsConcat
  <2>4. <<"mnt">> \o <<"d">> = <<"mnt", "d">>
    BY <2>1, Pair
  <2> QED BY <2>2, <2>3, <2>4
<1>5. f \in [0..5 -> Strings]
  BY <1>3
<1>6. /\ f[0] = <<>> /\ f[1] = <<>> /\ f[2] = <<"mnt">> /\ f[3] = <<"mnt">>
      /\ f[4] = <<"mnt", "d">> /\ f[5] = <<"mnt", "d">>
  OBVIOUS
<1> HIDE DEF x, f
<1>7. ASSUME NEW i \in 1..5
      PROVE  f[i] = IF x[i] \in {"/", Here} THEN f[i - 1] ELSE Append(f[i - 1], x[i])
  <2>1. i \in {1, 2, 3, 4, 5}
    OBVIOUS
  <2>2. CASE i = 1
    BY <2>2, <1>2, <1>6
  <2>3. CASE i = 2
    BY <2>3, <1>2, <1>4, <1>6 DEF Here
  <2>4. CASE i = 3
    BY <2>4, <1>2, <1>6
  <2>5. CASE i = 4
    <3>1. x[4] = "d" /\ "d" \notin {"/", Here}
      BY <1>2 DEF Here
    <3>2. Append(f[3], x[4]) = f[4]
      BY <1>2, <1>4, <1>6
    <3> QED BY <2>5, <3>1, <3>2
  <2>6. CASE i = 5
    BY <2>6, <1>2, <1>6
  <2> QED BY <2>1, <2>2, <2>3, <2>4, <2>5, <2>6
<1>8. Kept(f, x)
  BY <1>1, <1>5, <1>6, <1>7 DEF Kept
<1>9. Components(x) = f[Len(x)]
  BY <1>1, <1>8, KeptLast
<1> QED BY <1>1, <1>6, <1>9 DEF x

-----------------------------------------------------------------------------
(* Relative paths.                                                         *)

\* Numbers from 1 on without a gap are those up to their number.
LEMMA NoGap ==
  ASSUME NEW n \in Nat, NEW D \in SUBSET (1..n), \A i \in D : \A j \in 1..i : j \in D
  PROVE  Cardinality(D) \in 0..n /\ D = 1..Cardinality(D)
<1> DEFINE T == {k \in Nat : k <= n => \E c \in 0..k : D \cap (1..k) = 1..c}
<1>1. 0 \in T
  BY 0 \in 0..0, D \cap (1..0) = 1..0
<1>2. ASSUME NEW k \in Nat, k \in T
      PROVE  k + 1 \in T
  <2> SUFFICES ASSUME k + 1 <= n PROVE \E c \in 0..(k + 1) : D \cap (1..(k + 1)) = 1..c
    OBVIOUS
  <2>1. PICK c \in 0..k : D \cap (1..k) = 1..c
    BY <1>2
  <2>2. CASE k + 1 \in D
    <3>1. \A j \in 1..(k + 1) : j \in D
      BY <2>2
    <3>2. D \cap (1..(k + 1)) = 1..(k + 1) /\ k + 1 \in 0..(k + 1)
      BY <3>1
    <3> QED BY <3>2
  <2>3. CASE k + 1 \notin D
    <3>1. D \cap (1..(k + 1)) = D \cap (1..k)
      BY <2>3
    <3>2. c \in 0..(k + 1)
      OBVIOUS
    <3> QED BY <2>1, <3>1, <3>2
  <2> QED BY <2>2, <2>3
<1>3. n \in T
  <2> HIDE DEF T
  <2> QED BY <1>1, <1>2, SetInduction
<1>4. PICK c \in 0..n : D \cap (1..n) = 1..c
  BY <1>3
<1>5. D = 1..c
  BY <1>4
<1>6. Cardinality(1..c) = c
  <2>1. Cardinality(1..c) = IF 1 > c THEN 0 ELSE c - 1 + 1
    BY FS_Interval
  <2> QED BY <2>1
<1> QED BY <1>5, <1>6

\* What is cut off is slashes, and all there are at the start.
LEMMA Trimmed ==
  ASSUME NEW x \in Strings
  PROVE  /\ TrimStart(x) \in Strings
         /\ TrimStart(x) = <<>> \/ TrimStart(x)[1] # "/"
         /\ \E y \in Strings : x = y \o TrimStart(x) /\ \A i \in 1..Len(y) : y[i] = "/"
<1> DEFINE n == Len(x)
           D == {i \in DOMAIN x : \A j \in 1..i : x[j] = "/"}
           c == Cardinality(D)
           y == SubSeq(x, 1, c)
           t == SubSeq(x, 1 + c, n)
<1>1. n \in Nat /\ DOMAIN x = 1..n /\ n = Len(x) /\ x \in Seq(Tokens)
  BY LenProperties DEF Strings
<1>2. \A i \in 1..n : x[i] \in Tokens
  BY ElementOfSeq DEF Strings
<1>3. D \in SUBSET (1..n) /\ \A i \in D : \A j \in 1..i : j \in D
  BY <1>1
<1>4. \A i \in 1..n : i \in D <=> \A j \in 1..i : x[j] = "/"
  BY <1>1
<1>5. t = TrimStart(x)
  BY DEF TrimStart
<1> HIDE DEF n, D
<1>6. c \in 0..n /\ D = 1..c
  BY <1>1, <1>3, NoGap
<1> HIDE DEF c
<1>7. c \in Nat /\ 1 + c \in Int /\ n \in Int /\ 1 \in Int /\ c \in Int
  BY <1>1, <1>6
<1>8. t \in Strings /\ Len(t) = n - c /\ (c < n => t[1] = x[1 + c])
  <2>1. \A i \in (1 + c)..n : x[i] \in Tokens
    BY <1>2, <1>7
  <2>2. /\ t \in Seq(Tokens)
        /\ Len(t) = IF 1 + c <= n THEN n - (1 + c) + 1 ELSE 0
        /\ \A i \in 1..n - (1 + c) + 1 : t[i] = x[1 + c + i - 1]
    BY <1>7, <2>1, SubSeqProperties
  <2> HIDE DEF t
  <2>3. ASSUME c < n
        PROVE  t[1] = x[1 + c]
    <3>1. 1 \in 1..n - (1 + c) + 1 /\ 1 + c + 1 - 1 = 1 + c
      BY <1>6, <1>7, <2>3
    <3> QED BY <2>2, <3>1
  <2> QED BY <1>6, <1>7, <2>2, <2>3 DEF Strings
<1>9. y \in Strings /\ Len(y) = c /\ \A i \in 1..c : y[i] = x[i]
  <2>1. \A i \in 1..c : x[i] \in Tokens
    BY <1>2, <1>6, <1>7
  <2>2. /\ y \in Seq(Tokens)
        /\ Len(y) = IF 1 <= c THEN c - 1 + 1 ELSE 0
        /\ \A i \in 1..c - 1 + 1 : y[i] = x[1 + i - 1]
    BY <1>7, <2>1, SubSeqProperties
  <2> HIDE DEF y
  <2> QED BY <1>7, <2>2 DEF Strings
<1>10. x = y \o t
  <2>1. 1 \in 1..n + 1 /\ c \in 1 - 1..n /\ n \in c..n /\ 1 + c = c + 1
    BY <1>1, <1>6, <1>7
  <2>2. SubSeq(x, 1, c) \o SubSeq(x, c + 1, n) = SubSeq(x, 1, n)
    BY <1>1, <2>1, ConcatAdjacentSubSeq
  <2>3. SubSeq(x, 1, n) = x
    BY <1>1, SubSeqFull
  <2> QED BY <2>1, <2>2, <2>3
<1> HIDE DEF y, t
<1>11. \A i \in 1..Len(y) : y[i] = "/"
  <2> SUFFICES ASSUME NEW i \in 1..c PROVE x[i] = "/"
    BY <1>9
  <2>1. i \in D /\ i \in 1..n /\ i \in 1..i
    BY <1>6, <1>7
  <2> QED BY <1>4, <2>1
<1>12. t = <<>> \/ t[1] # "/"
  <2>1. CASE c = n
    <3>1. Len(t) = 0
      BY <1>7, <1>8, <2>1
    <3> QED BY <1>8, <3>1, EmptySeq DEF Strings
  <2>2. CASE c < n
    <3>1. 1 + c \in 1..n /\ 1 + c \notin D
      BY <1>6, <1>7, <2>2
    <3>2. PICK j \in 1..(1 + c) : x[j] # "/"
      BY <1>4, <3>1
    <3>3. j \notin 1..c
      BY <1>9, <1>11, <3>2
    <3>4. j = 1 + c
      BY <1>7, <3>3
    <3> QED BY <1>8, <2>2, <3>2, <3>4
  <2> QED BY <1>6, <1>7, <2>1, <2>2
<1> QED BY <1>5, <1>8, <1>9, <1>10, <1>11, <1>12

\* What is cut off is no component.
LEMMA ComponentsTrimmed ==
  ASSUME NEW x \in Strings
  PROVE  Components(TrimStart(x)) = Components(x)
<1>1. PICK y \in Strings : x = y \o TrimStart(x) /\ \A i \in 1..Len(y) : y[i] = "/"
  BY Trimmed
<1>2. TrimStart(x) \in Strings /\ Components(TrimStart(x)) \in Strings
  BY Trimmed, ComponentsOf
<1>3. Components(y) = <<>>
  BY <1>1, ComponentsSlashes
<1>4. Components(x) = Components(y) \o Components(TrimStart(x))
  BY <1>1, <1>2, ComponentsConcat
<1> QED BY <1>2, <1>3, <1>4, ConcatEmptySeq DEF Strings

\* What the server makes of a path of Windows: its components, unless one leads
\* up.  Neither end takes a path for an absolute one.
LEMMA Normalized ==
  ASSUME NEW x \in Strings
  PROVE  Normalize(NtToRelative(x)) =
           IF Up \in Range(x) THEN Invalid ELSE Valid(Components(Slashes(x)))
<1> DEFINE s == Slashes(x)
           p == TrimStart(s)
<1>1. s \in Strings /\ "\\" \notin Range(s) /\ (Up \in Range(s) <=> Up \in Range(x))
  BY Slashed
<1>2. NtToRelative(x) = p
  BY DEF NtToRelative
<1>3. PICK y \in Strings : s = y \o p /\ \A i \in 1..Len(y) : y[i] = "/"
  BY <1>1, Trimmed
<1>4. p \in Strings /\ (p = <<>> \/ p[1] # "/") /\ Components(p) = Components(s)
  BY <1>1, Trimmed, ComponentsTrimmed
<1> HIDE DEF s, p
<1>5. Range(s) = Range(y) \cup Range(p)
  BY <1>3, <1>4, RangeConcat
<1>6. Up \notin Range(y)
  <2>1. DOMAIN y = 1..Len(y)
    BY LenProperties DEF Strings
  <2> QED BY <1>3, <2>1 DEF Range, Up
<1>7. Slashes(p) = p
  BY <1>1, <1>4, <1>5, Slashed
<1>8. Up \in Range(p) <=> Up \in Range(x)
  BY <1>1, <1>5, <1>6
<1>9. Normalize(p) = IF (p # <<>> /\ p[1] = "/") \/ Up \in Range(p) THEN Invalid
                     ELSE Valid(Components(p))
  BY <1>7 DEF Normalize
<1> QED BY <1>2, <1>4, <1>8, <1>9 DEF s

-----------------------------------------------------------------------------
(* Strings that are built of parts.                                        *)

\* What is built of the first parts, by their number.
Flattens(f, seqs, n) ==
  f \in [0..n -> Strings] /\ f[0] = <<>> /\ \A i \in 1..n : f[i] = f[i - 1] \o seqs[i]

\* FlattenSeq returns the last of it.
LEMMA Flattened ==
  ASSUME NEW n \in Nat, NEW seqs, seqs \in Seq(Strings), Len(seqs) = n
  PROVE  \E f : Flattens(f, seqs, n) /\ FlattenSeq(seqs) = f[n]
<1> DEFINE op == [i \in 1..n |-> [s \in Strings |-> s \o seqs[i]]]
<1>1. \A i \in 1..n : seqs[i] \in Strings
  BY ElementOfSeq
<1>2. <<>> \in Strings
  BY EmptySeq DEF Strings
<1>3. op \in [1..n -> [Strings -> Strings]]
  <2>1. ASSUME NEW i \in 1..n, NEW s \in Strings
        PROVE  s \o seqs[i] \in Strings
    BY <1>1, ConcatProperties DEF Strings
  <2> QED BY <2>1
<1>4. \A i \in 1..n : \A s \in Strings : op[i][s] = s \o seqs[i]
  OBVIOUS
<1> HIDE DEF op
<1>5. PICK f : f \in [0..n -> Strings] /\ f[0] = <<>> /\ \A i \in 1..n : f[i] = op[i][f[i - 1]]
  <2>1. Makes(op, n, Strings)
    BY <1>3 DEF Makes
  <2>2. \E f : Comes(f, n, Strings, <<>>, op)
    BY <1>2, <2>1, Recursion
  <2> QED BY <2>2 DEF Comes
<1>6. ASSUME NEW i \in 1..n
      PROVE  f[i] = f[i - 1] \o seqs[i]
  <2>1. i - 1 \in 0..n
    OBVIOUS
  <2>2. f[i - 1] \in Strings
    BY <1>5, <2>1
  <2> QED BY <2>2, <1>4, <1>5
<1>7. Flattens(f, seqs, n)
  BY <1>5, <1>6 DEF Flattens
<1>8. FlattenSeq(seqs) = f[n]
  <2>1. CASE n = 0
    <3>1. FlattenSeq(seqs) = seqs
      BY <2>1 DEF FlattenSeq
    <3>2. seqs = <<>>
      BY <2>1, EmptySeq
    <3> QED BY <1>5, <2>1, <3>1, <3>2
  <2>2. CASE n # 0
    <3> DEFINE More(g) == [i \in 1..Len(seqs) |->
                             IF i = 1 THEN seqs[i] ELSE g[i - 1] \o seqs[i]]
               k == CHOOSE g : g = More(g)
               h == [i \in 1..Len(seqs) |-> f[i]]
    <3>1. FlattenSeq(seqs) = k[n]
      BY <2>2 DEF FlattenSeq
    <3>2. h = More(h)
      <4>1. ASSUME NEW i \in 1..Len(seqs)
            PROVE  f[i] = IF i = 1 THEN seqs[i] ELSE h[i - 1] \o seqs[i]
        <5>1. CASE i = 1
          <6>1. f[1] = f[0] \o seqs[1] /\ seqs[1] \in Strings
            BY <1>1, <1>6, <5>1, 1 - 1 = 0
          <6>2. <<>> \o seqs[1] = seqs[1]
            BY <6>1, ConcatEmptySeq DEF Strings
          <6> QED BY <1>5, <5>1, <6>1, <6>2
        <5>2. CASE i # 1
          <6>1. i - 1 \in 1..Len(seqs)
            BY <5>2
          <6>2. h[i - 1] = f[i - 1]
            BY <6>1
          <6> QED BY <1>6, <5>2, <6>2
        <5> QED BY <5>1, <5>2
      <4> QED BY <4>1, Zenon
    <3>3. k = More(k)
      <4> HIDE DEF More, h
      <4> QED BY <3>2
    <3>4. \A i \in 1..n : k[i] = IF i = 1 THEN seqs[i] ELSE k[i - 1] \o seqs[i]
      <4> HIDE DEF k
      <4> QED BY <3>3, Zenon
    <3>5. \A i \in 1..n : f[i] = IF i = 1 THEN seqs[i] ELSE f[i - 1] \o seqs[i]
      <4>1. \A i \in 1..n : h[i] = IF i = 1 THEN seqs[i] ELSE h[i - 1] \o seqs[i]
        <5> HIDE DEF h
        <5> QED BY <3>2, Zenon
      <4>2. \A i \in 1..n : h[i] = f[i] /\ (i # 1 => h[i - 1] = f[i - 1])
        OBVIOUS
      <4> HIDE DEF h
      <4> QED BY <4>1, <4>2
    <3> HIDE DEF k, h, More
    <3> DEFINE T == {i \in Nat : 1 <= i /\ i <= n => k[i] = f[i]}
    <3>6. 0 \in T
      OBVIOUS
    <3>7. ASSUME NEW i \in Nat, i \in T
          PROVE  i + 1 \in T
      <4> SUFFICES ASSUME i + 1 <= n PROVE k[i + 1] = f[i + 1]
        OBVIOUS
      <4> DEFINE j == i + 1
      <4>1. j \in 1..n /\ j - 1 = i /\ (j # 1 => k[i] = f[i])
        BY <3>7
      <4> HIDE DEF j
      <4>2. k[j] = f[j]
        BY <3>4, <3>5, <4>1
      <4> QED BY <4>2 DEF j
    <3>8. n \in T
      <4> HIDE DEF T
      <4> QED BY <3>6, <3>7, SetInduction
    <3> QED BY <2>2, <3>1, <3>8
  <2> QED BY <2>1, <2>2
<1> QED BY <1>7, <1>8

-----------------------------------------------------------------------------
(* The steps of an application.                                            *)

\* The names of Linux, as strings.
Wordy(words) ==
  \A n \in words : n \in Strings /\ Range(n) \cap {Here, Up, "/"} = {}

\* A name behind a backslash.
LEMMA Named ==
  ASSUME NEW n \in Strings, Range(n) \cap {Here, "/"} = {}
  PROVE  /\ <<"\\">> \o n \in Strings /\ Range(<<"\\">> \o n) = {"\\"} \cup Range(n)
         /\ "\\" \notin Range(n) => Components(Slashes(<<"\\">> \o n)) = n
<1> DEFINE b == <<"\\">>
<1>1. b \in Strings
  BY DEF Strings, Tokens
<1>2. Range(b) = {"\\"}
  BY DEF Range
<1>3. Components(Slashes(b)) = <<>>
  <2>1. Len(b) = 1 /\ b[1] = "\\"
    OBVIOUS
  <2> HIDE DEF b
  <2>2. /\ Slashes(b) \in Strings /\ Len(Slashes(b)) = 1
        /\ \A i \in 1..1 : Slashes(b)[i] = "/"
    BY <1>1, <2>1, Slashed
  <2>3. \A i \in 1..Len(Slashes(b)) : Slashes(b)[i] \in {"/", Here}
    BY <2>2
  <2> QED BY <2>2, <2>3, ComponentsSlashes
<1> HIDE DEF b
<1>4. b \o n \in Strings
  BY <1>1, ConcatProperties DEF Strings
<1>5. Range(b \o n) = {"\\"} \cup Range(n)
  BY <1>1, <1>2, RangeConcat
<1>6. ASSUME "\\" \notin Range(n)
      PROVE  Components(Slashes(b \o n)) = n
  <2>1. Slashes(b \o n) = Slashes(b) \o n
    <3>1. Slashes(n) = n
      BY <1>6, Slashed
    <3>2. Slashes(b \o n) = Slashes(b) \o Slashes(n)
      BY <1>1, SlashesConcat
    <3> QED BY <3>1, <3>2
  <2>2. Slashes(b) \in Strings
    BY <1>1, Slashed
  <2>3. Components(Slashes(b) \o n) = <<>> \o Components(n)
    BY <1>3, <2>2, ComponentsConcat
  <2>4. Components(n) = n
    BY ComponentsPlain
  <2> QED BY <2>1, <2>3, <2>4, ConcatEmptySeq DEF Strings
<1> QED BY <1>4, <1>5, <1>6 DEF b

\* A step leads to the names that it stands for, up with them only, and nowhere
\* else if none has a backslash.
Leads(adds, names) ==
  /\ adds \in Strings /\ names \in Strings
  /\ Up \in Range(adds) <=> Up \in Range(names)
  /\ "\\" \notin Range(names) => Components(Slashes(adds)) = names

LEMMA StepLeads ==
  ASSUME NEW words, Wordy(words), NEW s \in Step(words)
  PROVE  Leads(s.adds, s.names)
<1>1. CASE \E n \in words : s = [adds |-> <<"\\">> \o n, names |-> n]
  <2>1. PICK n \in words : s = [adds |-> <<"\\">> \o n, names |-> n]
    BY <1>1
  <2>2. n \in Strings /\ Range(n) \cap {Here, Up, "/"} = {}
    BY DEF Wordy
  <2>3. /\ <<"\\">> \o n \in Strings /\ Range(<<"\\">> \o n) = {"\\"} \cup Range(n)
        /\ "\\" \notin Range(n) => Components(Slashes(<<"\\">> \o n)) = n
    BY <2>2, Named
  <2>4. s.adds = <<"\\">> \o n /\ s.names = n
    BY <2>1
  <2> QED BY <2>2, <2>3, <2>4 DEF Leads, Up
<1>2. CASE \E t \in {<<"\\">>, <<"/">>, <<"\\", Here>>} : s = [adds |-> t, names |-> <<>>]
  <2>1. PICK t \in {<<"\\">>, <<"/">>, <<"\\", Here>>} : s = [adds |-> t, names |-> <<>>]
    BY <1>2
  <2>2. /\ t \in Strings
        /\ \A i \in 1..Len(t) : t[i] \in {"\\", "/", Here}
    <3>1. CASE t = <<"\\">>
      BY <3>1 DEF Strings, Tokens
    <3>2. CASE t = <<"/">>
      BY <3>2 DEF Strings, Tokens
    <3>3. CASE t = <<"\\", Here>>
      BY <3>3 DEF Strings, Tokens
    <3> QED BY <3>1, <3>2, <3>3
  <2>3. Up \notin Range(t)
    <3>1. DOMAIN t = 1..Len(t)
      BY <2>2, LenProperties DEF Strings
    <3> QED BY <2>2, <3>1 DEF Range, Up, Here
  <2>4. Components(Slashes(t)) = <<>>
    <3>1. /\ Slashes(t) \in Strings /\ Len(Slashes(t)) = Len(t)
          /\ \A i \in 1..Len(t) : Slashes(t)[i] = IF t[i] = "\\" THEN "/" ELSE t[i]
      BY <2>2, Slashed
    <3>2. \A i \in 1..Len(Slashes(t)) : Slashes(t)[i] \in {"/", Here}
      BY <2>2, <3>1
    <3> QED BY <3>1, <3>2, ComponentsSlashes
  <2>5. <<>> \in Strings /\ Range(<<>>) = {}
    BY EmptySeq DEF Strings, Range
  <2>6. s.adds = t /\ s.names = <<>>
    BY <2>1
  <2> QED BY <2>2, <2>3, <2>4, <2>5, <2>6 DEF Leads
<1>3. CASE s = [adds |-> <<"\\", Up>>, names |-> <<Up>>]
  <2> DEFINE n == <<Up>>
  <2>1. n \in Strings /\ Range(n) = {Up}
    BY DEF Strings, Tokens, Range
  <2>2. <<"\\", Up>> = <<"\\">> \o n
    BY Pair DEF Tokens
  <2>3. s.adds = <<"\\">> \o n /\ s.names = n
    BY <1>3, <2>2
  <2> HIDE DEF n
  <2>4. Range(n) \cap {Here, "/"} = {}
    BY <2>1 DEF Up, Here
  <2>5. /\ <<"\\">> \o n \in Strings /\ Range(<<"\\">> \o n) = {"\\"} \cup Range(n)
        /\ "\\" \notin Range(n) => Components(Slashes(<<"\\">> \o n)) = n
    BY <2>1, <2>4, Named
  <2> QED BY <2>1, <2>3, <2>5 DEF Leads
<1> QED BY <1>1, <1>2, <1>3 DEF Step

\* What leads somewhere leads on from there.
LEMMA LeadsOn ==
  ASSUME NEW a, NEW b, NEW m, NEW n, Leads(a, m), Leads(b, n)
  PROVE  Leads(a \o b, m \o n)
<1>1. a \in Strings /\ b \in Strings /\ m \in Strings /\ n \in Strings
  BY DEF Leads
<1>2. a \o b \in Strings /\ m \o n \in Strings
  BY <1>1, ConcatProperties DEF Strings
<1>3. Range(a \o b) = Range(a) \cup Range(b) /\ Range(m \o n) = Range(m) \cup Range(n)
  BY <1>1, RangeConcat
<1>4. ASSUME "\\" \notin Range(m \o n)
      PROVE  Components(Slashes(a \o b)) = m \o n
  <2>1. Components(Slashes(a)) = m /\ Components(Slashes(b)) = n
    BY <1>3, <1>4 DEF Leads
  <2>2. Slashes(a \o b) = Slashes(a) \o Slashes(b)
    BY <1>1, SlashesConcat
  <2>3. Slashes(a) \in Strings /\ Slashes(b) \in Strings
    BY <1>1, Slashed
  <2>4. Components(Slashes(a) \o Slashes(b)) = Components(Slashes(a)) \o Components(Slashes(b))
    BY <2>3, ComponentsConcat
  <2> QED BY <2>1, <2>2, <2>4
<1>5. Up \in Range(a \o b) <=> Up \in Range(m \o n)
  BY <1>3 DEF Leads
<1> QED BY <1>2, <1>4, <1>5 DEF Leads

\* A string leads to its place.
LEMMA BuildLeads ==
  ASSUME NEW words, Wordy(words), NEW build \in Builds(words)
  PROVE  \E adds : Raw(build) = <<"\\">> \o adds /\ Leads(adds, Place(build))
<1>1. PICK n \in Nat : build \in [1..n -> Step(words)]
  BY StepsAssumption DEF Builds, BoundedSeq, SeqOf
<1> DEFINE A == [i \in DOMAIN build |-> build[i].adds]
           B == [i \in DOMAIN build |-> build[i].names]
<1>2. \A i \in 1..n : Leads(build[i].adds, build[i].names)
  BY <1>1, StepLeads
<1>3. DOMAIN build = 1..n
  BY <1>1
<1>4. \A i \in 1..n : Leads(A[i], B[i]) /\ A[i] \in Strings /\ B[i] \in Strings
  BY <1>2, <1>3 DEF Leads
<1>5. A \in [1..n -> Strings] /\ B \in [1..n -> Strings]
  BY <1>3, <1>4
<1>6. Raw(build) = <<"\\">> \o FlattenSeq(A) /\ Place(build) = FlattenSeq(B)
  BY DEF Raw, Place
<1> HIDE DEF A, B
<1>7. A \in Seq(Strings) /\ Len(A) = n /\ B \in Seq(Strings) /\ Len(B) = n
  BY <1>5
<1>8. PICK f : Flattens(f, A, n) /\ FlattenSeq(A) = f[n]
  BY <1>7, Flattened
<1>9. PICK g : Flattens(g, B, n) /\ FlattenSeq(B) = g[n]
  BY <1>7, Flattened
<1> DEFINE T == {i \in Nat : i <= n => Leads(f[i], g[i])}
<1>10. 0 \in T
  <2>1. f[0] = <<>> /\ g[0] = <<>>
    BY <1>8, <1>9 DEF Flattens
  <2>2. <<>> \in Strings /\ Range(<<>>) = {} /\ Len(<<>>) = 0
    BY EmptySeq DEF Strings, Range
  <2>3. Components(Slashes(<<>>)) = <<>>
    <3>1. Slashes(<<>>) = <<>>
      BY <2>2, Slashed
    <3>2. Components(<<>>) = <<>>
      BY <2>2, ComponentsPlain
    <3> QED BY <3>1, <3>2
  <2>4. Leads(<<>>, <<>>)
    BY <2>2, <2>3 DEF Leads
  <2> QED BY <2>1, <2>4
<1>11. ASSUME NEW i \in Nat, i \in T
       PROVE  i + 1 \in T
  <2> SUFFICES ASSUME i + 1 <= n PROVE Leads(f[i + 1], g[i + 1])
    OBVIOUS
  <2> DEFINE j == i + 1
  <2>1. j \in 1..n /\ j - 1 = i /\ Leads(f[i], g[i])
    BY <1>11
  <2> HIDE DEF j
  <2>2. f[j] = f[i] \o A[j] /\ g[j] = g[i] \o B[j]
    BY <1>8, <1>9, <2>1 DEF Flattens
  <2>3. Leads(f[j], g[j])
    BY <1>4, <2>1, <2>2, LeadsOn
  <2> QED BY <2>3 DEF j
<1>12. n \in T
  <2> HIDE DEF T
  <2> QED BY <1>10, <1>11, SetInduction
<1>13. Leads(FlattenSeq(A), FlattenSeq(B))
  BY <1>8, <1>9, <1>12
<1> QED BY <1>6, <1>13

-----------------------------------------------------------------------------
(* What an application is shown leads back to what it stands for.          *)

LEMMA ShownWordy == Wordy(ShownWords)
<1> SUFFICES ASSUME NEW n \in Names
             PROVE  Spelling[n] \in Strings /\ Range(Spelling[n]) \cap {Here, Up, "/"} = {}
  BY DEF Wordy, ShownWords
<1>1. Spelling[n] \in Seq(STRING)
  BY SpellingAssumption
<1>2. Seq(STRING) \subseteq Strings
  <2>1. ASSUME NEW x \in Seq(STRING)
        PROVE  x \in Seq(Tokens)
    <3>1. Len(x) \in Nat /\ x \in [1..Len(x) -> STRING]
      BY LenProperties
    <3>2. x \in [1..Len(x) -> Tokens]
      BY <3>1 DEF Tokens
    <3> QED BY <3>1, <3>2
  <2> QED BY <2>1 DEF Strings
<1> QED BY <1>1, <1>2, SpellingAssumption

LEMMA AlwaysResolved == Resolved
<1> SUFFICES ASSUME NEW build \in Builds(ShownWords)
             PROVE  LET found == Normalize(NtToRelative(Raw(build)))
                    IN  /\ IF Up \in Range(Place(build)) THEN found = Invalid
                           ELSE found.ok /\ (Plain(build) <=> found.names = Place(build))
                        /\ Plain(build) =>
                             Components(ToWsl("d", Raw(build))) = <<"mnt", "d">> \o Place(build)
  BY DEF Resolved
<1> DEFINE x == Raw(build)
           p == Place(build)
           b == <<"\\">>
           s == Slashes(x)
<1>1. PICK adds : x = b \o adds /\ Leads(adds, p)
  BY ShownWordy, BuildLeads
<1>2. b \in Strings /\ Range(b) = {"\\"} /\ Len(b) = 1 /\ b[1] = "\\"
  BY DEF Strings, Tokens, Range
<1>3. Plain(build) <=> "\\" \notin Range(p)
  BY DEF Plain
<1> HIDE DEF x, p, b
<1>4. adds \in Strings /\ p \in Strings
  BY <1>1 DEF Leads
<1>5. x \in Strings /\ Range(x) = {"\\"} \cup Range(adds)
  BY <1>1, <1>2, <1>4, RangeConcat, ConcatProperties DEF Strings
<1>6. Up \in Range(x) <=> Up \in Range(p)
  BY <1>1, <1>5 DEF Leads, Up
<1>7. s \in Strings /\ "\\" \notin Range(s)
  BY <1>5, Slashed
<1>8. Components(s) = Components(Slashes(adds))
  <2>1. s = Slashes(b) \o Slashes(adds)
    BY <1>1, <1>2, <1>4, SlashesConcat
  <2>2. /\ Slashes(b) \in Strings /\ Len(Slashes(b)) = 1
        /\ \A i \in 1..1 : Slashes(b)[i] = "/"
    BY <1>2, Slashed
  <2>3. \A i \in 1..Len(Slashes(b)) : Slashes(b)[i] \in {"/", Here}
    BY <2>2
  <2>4. Components(Slashes(b)) = <<>>
    BY <2>2, <2>3, ComponentsSlashes
  <2>5. Slashes(adds) \in Strings
    BY <1>4, Slashed
  <2>6. Components(s) = Components(Slashes(b)) \o Components(Slashes(adds))
    BY <2>1, <2>2, <2>5, ComponentsConcat
  <2>7. Components(Slashes(adds)) \in Strings
    BY <2>5, ComponentsOf
  <2> QED BY <2>4, <2>6, <2>7, ConcatEmptySeq DEF Strings
<1>9. "\\" \notin Range(p) => Components(s) = p
  BY <1>1, <1>8 DEF Leads
<1>10. Components(s) = p => "\\" \notin Range(p)
  BY <1>7, ComponentsOf
<1> DEFINE found == Normalize(NtToRelative(x))
<1>11. found = IF Up \in Range(p) THEN Invalid ELSE Valid(Components(s))
  BY <1>5, <1>6, Normalized
<1>12. IF Up \in Range(p) THEN found = Invalid
       ELSE found.ok /\ ("\\" \notin Range(p) <=> found.names = p)
  <2>1. CASE Up \in Range(p)
    BY <1>11, <2>1
  <2>2. CASE Up \notin Range(p)
    <3>1. found = Valid(Components(s))
      BY <1>11, <2>2
    <3>2. found.ok /\ found.names = Components(s)
      BY <3>1 DEF Valid
    <3> QED BY <1>9, <1>10, <2>2, <3>2
  <2> QED BY <2>1, <2>2
<1>13. ASSUME "\\" \notin Range(p)
       PROVE  Components(ToWsl("d", x)) = <<"mnt", "d">> \o p
  <2> DEFINE e == <<"/", "mnt", "/", "d", "/">>
             t == TrimStart(s)
  <2>1. ToWsl("d", x) = e \o t
    BY DEF ToWsl
  <2>2. e \in Strings
    BY DEF Strings, Tokens
  <2>3. Components(e) = <<"mnt", "d">>
    BY ComponentsDrive
  <2> HIDE DEF e
  <2>4. t \in Strings /\ Components(t) = Components(s)
    BY <1>7, Trimmed, ComponentsTrimmed
  <2> HIDE DEF t
  <2>5. Components(e \o t) = Components(e) \o Components(t)
    BY <2>2, <2>4, ComponentsConcat
  <2> QED BY <1>9, <1>13, <2>1, <2>3, <2>4, <2>5
<1> QED BY <1>3, <1>12, <1>13 DEF x, p

\* However the entries of a listing are spelled, and however many steps an
\* application puts together: the path that nt_path_to_relative makes of them is
\* resolved by normalize_relative_path to the names that the server has listed, is
\* refused if it leads up, and misses only names with backslashes.  The path that
\* windows_path_to_wsl makes of the daemon's leads through the same names.
THEOREM PathsResolved == Spec => []Resolved
BY AlwaysResolved, PTL

\* Whatever string a client sends: a path that normalize_relative_path accepts
\* has no component that leads up, and no separator is left in one, so that what it
\* is joined to is never left.
THEOREM NothingAbove ==
  ASSUME NEW x \in Strings, Normalize(x).ok
  PROVE  /\ Normalize(x).names \in Strings
         /\ Range(Normalize(x).names) \cap {Here, Up, "/", "\\"} = {}
<1> DEFINE s == Slashes(x)
<1>1. s \in Strings /\ "\\" \notin Range(s)
  BY Slashed
<1>2. Normalize(x) = IF (s # <<>> /\ s[1] = "/") \/ Up \in Range(s) THEN Invalid
                     ELSE Valid(Components(s))
  BY DEF Normalize
<1> HIDE DEF s
<1>3. Normalize(x) = Valid(Components(s)) /\ Up \notin Range(s)
  BY <1>2 DEF Invalid
<1>4. Normalize(x).names = Components(s)
  BY <1>3 DEF Valid
<1>5. Components(s) \in Strings /\ Range(Components(s)) \subseteq Range(s) \ {"/", Here}
  BY <1>1, ComponentsOf
<1> QED BY <1>1, <1>3, <1>4, <1>5
=============================================================================
