--------------------------- MODULE FileTimes_proofs ---------------------------
(* What FileTimes promises for units, offsets and words of every size.     *)
EXTENDS FileTimes, TLAPS

USE UnitsAssumption DEF Kinds

-----------------------------------------------------------------------------
(* Arithmetic.                                                             *)

\* Division with remainder.
LEMMA DivMod ==
  ASSUME NEW a \in Nat, NEW b \in Nat \ {0}
  PROVE  a \div b \in Nat /\ a % b \in 0..(b - 1) /\ a = b * (a \div b) + (a % b)
OBVIOUS

\* A multiple divides back.
LEMMA DivOfMultiple ==
  ASSUME NEW a \in Nat, NEW b \in Nat \ {0}
  PROVE  (a * b) \div b = a
OBVIOUS

\* Division keeps order.
LEMMA DivMonotone ==
  ASSUME NEW a \in Nat, NEW c \in Nat, NEW b \in Nat \ {0}, a <= c
  PROVE  a \div b <= c \div b
OBVIOUS

\* Less than n times b is less than n after division by b.
LEMMA DivBelow ==
  ASSUME NEW a \in Nat, NEW n \in Nat, NEW b \in Nat \ {0}, a < n * b
  PROVE  a \div b \in Nat /\ a \div b < n
OBVIOUS

-----------------------------------------------------------------------------
(* The conversions.                                                        *)

\* The nanoseconds of a second are fewer than its ticks when divided.
LEMMA NanosBelow ==
  ASSUME NEW n \in 0..(Second - 1)
  PROVE  n \in Nat /\ n \div NanosPerTick \in Nat /\ n \div NanosPerTick < Ticks
<1>1. Ticks * NanosPerTick \in Nat
  OBVIOUS
<1>2. n \in Nat /\ n < Ticks * NanosPerTick
  BY <1>1 DEF Second
<1> QED BY <1>2, DivBelow

\* A word is some whole seconds and fewer ticks than a second has.
LEMMA WordSplit ==
  ASSUME NEW v \in Words
  PROVE  /\ v \div Ticks \in Nat /\ v % Ticks \in 0..(Ticks - 1)
         /\ v = Ticks * (v \div Ticks) + (v % Ticks)
<1>1. v \in Nat
  BY DEF Words
<1> QED BY <1>1, DivMod

\* Fewer ticks than a second has are fewer nanoseconds than it has.
LEMMA TicksBelow ==
  ASSUME NEW r \in 0..(Ticks - 1)
  PROVE  r * NanosPerTick \in 0..(Second - 1)
BY DEF Second

\* What Windows sends is a time of the wire, or none.
LEMMA WireTyped ==
  ASSUME NEW v \in Words
  PROVE  WireOfWindows(v) \in Times \cup {Unset}
<1>1. CASE v \in {0, MaxWord}
  BY <1>1 DEF WireOfWindows
<1>2. CASE v \notin {0, MaxWord}
  <2>1. v \div Ticks \in Nat /\ v % Ticks \in 0..(Ticks - 1)
    BY WordSplit
  <2>2. (v % Ticks) * NanosPerTick \in 0..(Second - 1)
    BY <2>1, TicksBelow
  <2> QED BY <1>2, <2>1, <2>2 DEF WireOfWindows, Times
<1> QED BY <1>1, <1>2

\* windows_time_from_wire undoes wire_time_from_windows, to the tick.
THEOREM RoundTrip ==
  ASSUME NEW v \in Words \ {0, MaxWord}
  PROVE  WindowsOfWire(WireOfWindows(v)) = v
<1> DEFINE t == WireOfWindows(v)
           q == v \div Ticks
           r == v % Ticks
<1>1. q \in Nat /\ r \in 0..(Ticks - 1) /\ v = Ticks * q + r
  BY WordSplit
<1>2. t = [secs |-> q - Offset, nanos |-> r * NanosPerTick]
  BY DEF WireOfWindows
<1>3. t # Unset
  <2>1. r * NanosPerTick \in 0..(Second - 1)
    BY <1>1, TicksBelow
  <2> QED BY <1>1, <1>2, <2>1, UnsetAssumption DEF Times
<1>4. t.nanos \div NanosPerTick = r
  BY <1>1, <1>2, DivOfMultiple
<1>5. (t.secs + Offset) * Ticks = Ticks * q
  BY <1>1, <1>2
<1>6. Capped(Ticks * q) = Ticks * q /\ Capped(v) = v
  BY <1>1 DEF Capped, Words
<1>7. ~(t.secs < -Offset)
  BY <1>1, <1>2
<1> HIDE DEF q, r, t
<1>8. WindowsOfWire(t) = v
  BY <1>1, <1>3, <1>4, <1>5, <1>6, <1>7 DEF WindowsOfWire
<1> QED BY <1>8 DEF t

\* What Windows sends from 1970 on is taken by the server.
LEMMA TakenFromEpoch ==
  ASSUME NEW v \in (Offset * Ticks)..(MaxWord - 1)
  PROVE  SinceEpoch(WireOfWindows(v)) = WireOfWindows(v) /\ WireOfWindows(v) # Unset
<1>1. v \in Words \ {0, MaxWord} /\ Offset * Ticks <= v
  <2>1. Offset * Ticks \in Nat \ {0}
    OBVIOUS
  <2> QED BY <2>1 DEF Words
<1>2. v \div Ticks \in Nat /\ v % Ticks \in 0..(Ticks - 1)
  BY <1>1, WordSplit
<1>3. Offset <= v \div Ticks
  <2>1. (Offset * Ticks) \div Ticks = Offset
    BY DivOfMultiple
  <2> QED BY <1>1, <2>1, DivMonotone, Offset * Ticks \in Nat DEF Words
<1>4. WireOfWindows(v) = [secs |-> v \div Ticks - Offset, nanos |-> (v % Ticks) * NanosPerTick]
  BY <1>1 DEF WireOfWindows
<1>5. WireOfWindows(v) \in Times
  <2>1. (v % Ticks) * NanosPerTick \in 0..(Second - 1)
    BY <1>2, TicksBelow
  <2> QED BY <1>2, <1>4, <2>1 DEF Times
<1> QED BY <1>2, <1>3, <1>4, <1>5, UnsetAssumption DEF SinceEpoch

\* The order of two times of the server is the order in which Windows sees them.
THEOREM Monotone ==
  ASSUME NEW s \in Times, NEW t \in Times, NotAfter(s, t)
  PROVE  WindowsOfWire(SinceEpoch(s)) <= WindowsOfWire(SinceEpoch(t))
<1> DEFINE Base(x) == (x.secs + Offset) * Ticks
           Rest(x) == x.nanos \div NanosPerTick
<1>1. ASSUME NEW x \in Times, x.secs >= 0
      PROVE  /\ Base(x) \in Nat /\ Rest(x) \in Nat /\ Rest(x) < Ticks
             /\ WindowsOfWire(SinceEpoch(x)) = Capped(Base(x) + Rest(x))
  <2>1. x.nanos \in 0..(Second - 1) /\ x.secs \in Nat
    BY <1>1 DEF Times
  <2>2. Rest(x) \in Nat /\ Rest(x) < Ticks
    BY <2>1, NanosBelow
  <2>3. SinceEpoch(x) = x /\ x # Unset /\ ~(x.secs < -Offset)
    BY <2>1, UnsetAssumption DEF SinceEpoch
  <2>4. Base(x) \in Nat
    BY <2>1
  <2>5. \A d, e \in Nat : Capped(Capped(d) + e) = Capped(d + e)
    BY DEF Capped
  <2>6. WindowsOfWire(x) = Capped(Capped(Base(x)) + Rest(x))
    BY <2>3 DEF WindowsOfWire
  <2> HIDE DEF Base, Rest
  <2> QED BY <2>2, <2>3, <2>4, <2>5, <2>6
<1> HIDE DEF Base, Rest
<1>2. ASSUME NEW x \in Times
      PROVE  WindowsOfWire(SinceEpoch(x)) \in Nat
  <2>1. CASE x.secs >= 0
    BY <1>1, <2>1 DEF Capped
  <2>2. CASE x.secs < 0
    BY <2>2 DEF SinceEpoch, WindowsOfWire
  <2> QED BY <2>1, <2>2 DEF Times
<1>3. CASE s.secs < 0
  <2>1. WindowsOfWire(SinceEpoch(s)) = 0
    BY <1>3 DEF SinceEpoch, WindowsOfWire
  <2> QED BY <2>1, <1>2
<1>4. CASE s.secs >= 0
  <2>1. t.secs >= 0 /\ s.secs \in Int /\ t.secs \in Int /\ s.nanos \in Nat /\ t.nanos \in Nat
    BY <1>4 DEF NotAfter, Times
  <2>2. CASE s.secs = t.secs
    <3>1. Base(s) = Base(t) /\ Rest(s) <= Rest(t)
      BY <2>1, <2>2, DivMonotone DEF NotAfter, Base, Rest
    <3> QED BY <3>1, <2>1, <1>1, <1>4 DEF Capped
  <2>3. CASE s.secs < t.secs
    <3>1. Base(s) + Ticks <= Base(t)
      BY <2>1, <2>3 DEF Base
    <3> QED BY <3>1, <2>1, <1>1, <1>4 DEF Capped
  <2> QED BY <2>1, <2>2, <2>3 DEF NotAfter
<1> QED BY <1>3, <1>4 DEF Times

\* What Windows is told is a word.
LEMMA WindowsTyped ==
  ASSUME NEW t \in Times
  PROVE  WindowsOfWire(SinceEpoch(t)) \in Words
<1>1. CASE t.secs < 0
  BY <1>1 DEF SinceEpoch, WindowsOfWire, Words
<1>2. CASE t.secs >= 0
  <2>1. t.nanos \in 0..(Second - 1) /\ t.secs \in Nat
    BY <1>2 DEF Times
  <2>2. \A d, e \in Nat : Capped(Capped(d) + e) \in Words
    BY DEF Capped, Words
  <2>3. (t.secs + Offset) * Ticks \in Nat /\ t.nanos \div NanosPerTick \in Nat
    BY <2>1, NanosBelow
  <2>4. SinceEpoch(t) = t /\ t # Unset /\ ~(t.secs < -Offset)
    BY <2>1, UnsetAssumption DEF SinceEpoch
  <2> QED BY <2>2, <2>3, <2>4 DEF WindowsOfWire
<1> QED BY <1>1, <1>2 DEF Times

-----------------------------------------------------------------------------
(* The handler.                                                            *)

Wanted(x) == want[x] \in (Offset * Ticks)..(MaxWord - 1)

ReadSoFar ==
  /\ pc \in {"write", "set"} => seen["access"] \in Times
  /\ pc = "set" => seen["write"] \in Times

FileAsWanted ==
  pc \in {"attr", "done"} /\ touches = 0 =>
    \A x \in Kinds : Wanted(x) => file[x] = WireOfWindows(want[x])

AnswerOfFile ==
  pc = "done" => \A x \in Kinds : answer[x] = WindowsOfWire(SinceEpoch(file[x]))

\* TypeOK needs ReadSoFar, because what has been read is set; TimesSet needs
\* FileAsWanted, and like OrderKept AnswerOfFile.
Inductive == TypeOK /\ ReadSoFar /\ FileAsWanted /\ AnswerOfFile

\* Stamps are times, and what the handler reads of a time is one too.
LEMMA StampsTyped ==
  /\ Stamps \subseteq Times /\ Unset \notin Stamps
  /\ \A t \in Times, now \in Clock : Current(t, now) \in Times
  /\ \A t \in Times : SinceEpoch(t) \in Times \cup {Unset}
<1>1. Stamps \subseteq Times
  BY StampsAssumption
<1> QED BY <1>1, UnsetAssumption DEF Current, SinceEpoch, Clock

LEMMA Initially == Init => Inductive
<1> SUFFICES ASSUME Init PROVE Inductive
  OBVIOUS
<1>1. TypeOK
  BY StampsTyped, StampsAssumption DEF Init, TypeOK, Each, NoHistory, Words
<1> QED BY <1>1 DEF Init, Inductive, ReadSoFar, FileAsWanted, AnswerOfFile

\* What SetTimes gives the file.
LEMMA NextTyped ==
  ASSUME Inductive, pc = "set", NEW x \in Kinds
  PROVE  /\ NextTime(x) \in Times
         /\ Wanted(x) => NextTime(x) = WireOfWindows(want[x]) /\ Rewrites
<1>1. WireOfWindows(want[x]) \in Times \cup {Unset} /\ seen[x] \in Times
  BY WireTyped DEF Inductive, TypeOK, ReadSoFar
<1>2. SinceEpoch(WireOfWindows(want[x])) \in Times \cup {Unset}
  BY <1>1, StampsTyped DEF SinceEpoch
<1>3. ASSUME Wanted(x)
      PROVE  NextTime(x) = WireOfWindows(want[x]) /\ Rewrites
  BY <1>3, TakenFromEpoch DEF Wanted, NextTime, Rewrites
<1> QED BY <1>1, <1>2, <1>3 DEF NextTime

LEMMA Preserved == Inductive /\ [Next]_vars => Inductive'
<1> SUFFICES ASSUME Inductive, [Next]_vars PROVE Inductive'
  OBVIOUS
<1> USE DEF Inductive
<1>1. ASSUME NEW w \in [Kinds -> Words], Ask(w)
      PROVE  Inductive'
  BY <1>1 DEF Ask, TypeOK, ReadSoFar, FileAsWanted, AnswerOfFile
<1>2. ASSUME NEW now \in Clock, ReadAccess(now)
      PROVE  Inductive'
  <2>1. Current(file["access"], now) \in Times
    BY StampsTyped DEF TypeOK
  <2> QED BY <1>2, <2>1 DEF ReadAccess, ReadTime, TypeOK, ReadSoFar, FileAsWanted, AnswerOfFile
<1>3. ASSUME NEW now \in Clock, ReadWrite(now)
      PROVE  Inductive'
  <2>1. Current(file["write"], now) \in Times
    BY StampsTyped DEF TypeOK
  <2> QED BY <1>3, <2>1 DEF ReadWrite, ReadTime, TypeOK, ReadSoFar, FileAsWanted, AnswerOfFile
<1>4. CASE SetTimes
  <2>1. file' \in [Kinds -> Times]
    BY <1>4, NextTyped DEF SetTimes, TypeOK
  <2>2. TypeOK'
    BY <1>4, <2>1 DEF SetTimes, TypeOK
  <2>3. FileAsWanted'
    <3>1. ASSUME NEW x \in Kinds, Wanted(x)
          PROVE  file'[x] = WireOfWindows(want[x])
      BY <1>4, <3>1, NextTyped DEF SetTimes
    <3> QED BY <1>4, <3>1 DEF SetTimes, FileAsWanted, Wanted
  <2> QED BY <1>4, <2>2, <2>3 DEF SetTimes, ReadSoFar, AnswerOfFile
<1>5. CASE Answer
  <2>1. TypeOK'
    BY <1>5, WindowsTyped DEF Answer, TypeOK
  <2>2. ReadSoFar' /\ AnswerOfFile'
    BY <1>5 DEF Answer, ReadSoFar, AnswerOfFile
  <2> QED BY <1>5, <2>1, <2>2 DEF Answer, FileAsWanted, Wanted
<1>6. CASE Return
  <2>1. 0 \in Words /\ 0 \in 0..MaxTouch
    BY StampsAssumption DEF Words
  <2>2. TypeOK'
    BY <1>6, <2>1 DEF Return, Each, NoHistory, TypeOK
  <2> QED BY <1>6, <2>2 DEF Return, ReadSoFar, FileAsWanted, AnswerOfFile
<1>7. ASSUME NEW x \in Kinds, NEW t \in Stamps, Touch(x, t)
      PROVE  Inductive'
  <2>1. t \in Times /\ touches \in Nat /\ touches' \in 0..MaxTouch /\ touches' # 0
    BY <1>7, StampsTyped, StampsAssumption DEF Touch, TypeOK
  <2>2. TypeOK'
    BY <1>7, <2>1 DEF Touch, TypeOK
  <2> QED BY <1>7, <2>1, <2>2 DEF Touch, ReadSoFar, FileAsWanted, AnswerOfFile
<1>8. CASE Fail \/ UNCHANGED vars
  BY <1>8 DEF Fail, vars, TypeOK, ReadSoFar, FileAsWanted, AnswerOfFile, Wanted
<1> QED BY <1>1, <1>2, <1>3, <1>4, <1>5, <1>6, <1>7, <1>8 DEF Next

LEMMA Always == Spec => []Inductive
BY Initially, Preserved, PTL DEF Spec

\* Times stay times and Windows times words, whatever is asked for and whoever
\* else sets times.
THEOREM TypeCorrect == Spec => []TypeOK
<1>1. Inductive => TypeOK
  BY DEF Inductive
<1> QED BY <1>1, Always, PTL

\* A time that Windows sets from 1970 on is reported back to it to the tick,
\* through the two conversions of the client and the two of the server.
THEOREM SetTimesReported == Spec => []TimesSet
<1>1. Inductive => TimesSet
  <2> SUFFICES ASSUME Inductive, pc = "done", touches = 0, NEW x \in Kinds, Wanted(x)
               PROVE  answer[x] = want[x]
    BY DEF TimesSet, Wanted
  <2>1. answer[x] = WindowsOfWire(SinceEpoch(WireOfWindows(want[x])))
    BY DEF Inductive, AnswerOfFile, FileAsWanted
  <2>2. SinceEpoch(WireOfWindows(want[x])) = WireOfWindows(want[x])
    BY TakenFromEpoch DEF Wanted
  <2>3. want[x] \in Words \ {0, MaxWord}
    <3>1. Offset * Ticks \in Nat \ {0}
      OBVIOUS
    <3> QED BY <3>1 DEF Wanted, Words
  <2> QED BY <2>1, <2>2, <2>3, RoundTrip
<1> QED BY <1>1, Always, PTL

\* Windows sees the times of a file in the order in which the server has them.
THEOREM OrderReported == Spec => []OrderKept
<1>1. Inductive => OrderKept
  <2> SUFFICES ASSUME Inductive, pc = "done", NotAfter(file["access"], file["write"])
               PROVE  answer["access"] <= answer["write"]
    BY DEF OrderKept
  <2>1. file["access"] \in Times /\ file["write"] \in Times
    BY DEF Inductive, TypeOK
  <2> QED BY <2>1, Monotone DEF Inductive, AnswerOfFile
<1> QED BY <1>1, Always, PTL
-----------------------------------------------------------------------------
(* What is given back to the file.                                         *)

\* A time that the file has had since the request, or the clock's in place of
\* one before 1970.
FromFile(x, t) ==
  \/ t \in held[x]
  \/ t \in Clock /\ \E s \in held[x] : SinceEpoch(s) = Unset

\* What the file has is part of its history, and what the handler has read of it
\* came from there.
ReadFromFile ==
  /\ pc \in {"access", "write", "set"} => \A x \in Kinds : file[x] \in held[x]
  /\ pc \in {"write", "set"} => FromFile("access", seen["access"])
  /\ pc = "set" => FromFile("write", seen["write"])

\* The history grows until the request is answered.
LEMMA HistoryGrows ==
  ASSUME NEW x \in Kinds, NEW t, held[x] \subseteq held'[x], FromFile(x, t)
  PROVE  FromFile(x, t)'
BY DEF FromFile

LEMMA ReadFromFileStep ==
  ASSUME Inductive, ReadFromFile, [Next]_vars
  PROVE  ReadFromFile'
<1>0. held \in [Kinds -> SUBSET Times] /\ file \in [Kinds -> Times] /\ seen \in [Kinds -> Times \cup {Unset}]
  BY DEF Inductive, TypeOK
<1>1. ASSUME NEW w \in [Kinds -> Words], Ask(w)
      PROVE  ReadFromFile'
  BY <1>1 DEF Ask, ReadFromFile
<1>2. ASSUME NEW x \in Kinds, NEW now \in Clock, ReadTime(x, now), file[x] \in held[x]
      PROVE  FromFile(x, seen[x])'
  <2>1. seen'[x] = Current(file[x], now) /\ held' = held
    BY <1>0, <1>2 DEF ReadTime
  <2> QED BY <1>2, <2>1 DEF FromFile, Current
<1>3. ASSUME NEW now \in Clock, ReadAccess(now)
      PROVE  ReadFromFile'
  <2>1. FromFile("access", seen["access"])'
    BY <1>2, <1>3 DEF ReadAccess, ReadFromFile
  <2> QED BY <1>3, <2>1 DEF ReadAccess, ReadTime, ReadFromFile
<1>4. ASSUME NEW now \in Clock, ReadWrite(now)
      PROVE  ReadFromFile'
  <2>1. FromFile("write", seen["write"])'
    BY <1>2, <1>4 DEF ReadWrite, ReadFromFile
  <2>2. FromFile("access", seen["access"])'
    BY <1>0, <1>4 DEF ReadWrite, ReadTime, ReadFromFile, FromFile
  <2> QED BY <1>4, <2>1, <2>2 DEF ReadWrite, ReadTime, ReadFromFile
<1>5. CASE SetTimes \/ Answer \/ Fail \/ Return
  BY <1>5 DEF SetTimes, Answer, Fail, Return, ReadFromFile
<1>6. ASSUME NEW x \in Kinds, NEW t \in Stamps, Touch(x, t)
      PROVE  ReadFromFile'
  <2>1. \A y \in Kinds : held[y] \subseteq held'[y]
    BY <1>0, <1>6 DEF Touch
  <2>2. pc \in {"access", "write", "set"} => \A y \in Kinds : file'[y] \in held'[y]
    BY <1>0, <1>6 DEF Touch, ReadFromFile
  <2>3. pc' = pc /\ seen' = seen
    BY <1>6 DEF Touch
  <2> QED BY <2>1, <2>2, <2>3, HistoryGrows DEF ReadFromFile
<1>7. CASE UNCHANGED vars
  BY <1>7 DEF vars, ReadFromFile, FromFile
<1> QED BY <1>1, <1>3, <1>4, <1>5, <1>6, <1>7 DEF Next

\* A time that the request does not set is given back to the file as it was when the
\* other one is set, if it is from 1970 on and nobody else has set it since.
THEOREM OthersGivenBack == Spec => OthersKept
<1>1. Init => ReadFromFile
  BY DEF Init, ReadFromFile
<1>2. ASSUME Inductive, ReadFromFile, Next, pc = "set", pc' = "attr", NEW x \in Kinds,
             ~Given(x), SinceEpoch(file[x]) # Unset, held[x] = {file[x]}
      PROVE  file'[x] = file[x]
  <2>1. SetTimes
    BY <1>2 DEF Next, Ask, ReadAccess, ReadWrite, Answer, Fail, Return, Touch
  <2>2. NextTime(x) = seen[x]
    BY <1>2 DEF Given, NextTime
  <2>3. FromFile(x, seen[x])
    BY <1>2 DEF ReadFromFile
  <2>4. seen[x] = file[x]
    BY <1>2, <2>3 DEF FromFile
  <2> QED BY <2>1, <2>2, <2>4 DEF SetTimes
<1>3. Inductive /\ ReadFromFile /\ [Next]_vars =>
        [pc = "set" /\ pc' = "attr" =>
           \A x \in Kinds :
             ~Given(x) /\ SinceEpoch(file[x]) # Unset /\ held[x] = {file[x]} =>
               file'[x] = file[x]]_vars
  BY <1>2
<1>4. Inductive /\ ReadFromFile /\ [Next]_vars => ReadFromFile'
  BY ReadFromFileStep
<1> QED BY <1>1, <1>3, <1>4, Always, PTL DEF Spec, OthersKept
=============================================================================
