------------------------------ MODULE FileTimes ------------------------------
(***************************************************************************)
(* The times of a file on their way between Windows, the wire and the      *)
(* server's kernel, and the request that sets them.                        *)
(*                                                                         *)
(* Windows counts ticks from its own epoch in an unsigned word, of which   *)
(* zero and the greatest value say "leave it alone".  The wire and the     *)
(* kernel count seconds from 1970, either way, and nanoseconds.  The       *)
(* handler of SetBasicInfo reads both times of the file, in two calls, and *)
(* sets both in a third; other processes set them in between, and each of  *)
(* the calls may fail.  The file system is taken to store the times it is  *)
(* given as they are.                                                      *)
(***************************************************************************)
EXTENDS Integers

CONSTANTS
  Ticks,        \* WINDOWS_TICKS_PER_SECOND
  NanosPerTick, \* 100
  Offset,       \* WINDOWS_EPOCH_OFFSET_SECS: seconds from Windows' epoch to 1970
  MaxWord,      \* u64::MAX
  Unset,        \* a time that is not given
  Stamps,       \* times that other processes and the clock give to files
  MaxTouch      \* bound on the number of steps of other processes in a request

Second == Ticks * NanosPerTick
Times == [secs : Int, nanos : 0..(Second - 1)]

ASSUME UnitsAssumption ==
  Ticks \in Nat \ {0} /\ NanosPerTick \in Nat \ {0} /\ Offset \in Nat \ {0} /\ MaxWord \in Nat
ASSUME UnsetAssumption == Unset \notin Times
ASSUME StampsAssumption == Stamps \subseteq Times /\ MaxTouch \in Nat

-----------------------------------------------------------------------------
(* Conversions.                                                            *)

Capped(n) == IF n > MaxWord THEN MaxWord ELSE n

\* Mutant of WindowsOfWire: what is left of a second is not divided.
WindowsOfNanos(t) ==
  IF t = Unset \/ t.secs < -Offset THEN 0
  ELSE Capped(Capped((t.secs + Offset) * Ticks) + t.nanos)

\* Mutant of WindowsOfWire: the product is cut to the width of the word.
WindowsWrapped(t) ==
  IF t = Unset \/ t.secs < -Offset THEN 0
  ELSE Capped((((t.secs + Offset) * Ticks) % (MaxWord + 1)) + t.nanos \div NanosPerTick)

\* windows_time_from_wire.  The sum of a great number of seconds and the offset
\* overflows the signed word, and is right again as an unsigned one.
WindowsOfWire(t) ==
  IF t = Unset \/ t.secs < -Offset THEN 0
  ELSE Capped(Capped((t.secs + Offset) * Ticks) + t.nanos \div NanosPerTick)

\* wire_time_from_windows.
WireOfWindows(v) ==
  IF v \in {0, MaxWord} THEN Unset
  ELSE [secs |-> v \div Ticks - Offset, nanos |-> (v % Ticks) * NanosPerTick]

\* system_time_to_wire, and file_time_to_filetime of what may be Unset.
SinceEpoch(t) == IF t = Unset \/ t.secs < 0 THEN Unset ELSE t

\* Mutant of Current: nothing takes the place of a time before 1970.
CurrentUnset(t, now) == SinceEpoch(t)

\* current_access_time and current_modified_time, when the clock says now.
Current(t, now) == IF SinceEpoch(t) = Unset THEN now ELSE t

-----------------------------------------------------------------------------
Kinds == {"access", "write"}
Clock == {t \in Stamps : t.secs >= 0}
Words == 0..MaxWord

VARIABLES
  pc,      \* how far the handler is
  want,    \* the request: Windows times
  file,    \* the times of the file
  seen,    \* what the handler has read of them
  answer,  \* Windows times of the file, as the callback reports them
  held,    \* history: the times the file has had since the request
  touches  \* steps of other processes since the request

vars == <<pc, want, file, seen, answer, held, touches>>

Each(v) == [x \in Kinds |-> v]
NoHistory == [x \in Kinds |-> {}]

TypeOK ==
  /\ pc \in {"idle", "access", "write", "set", "attr", "done", "failed"}
  /\ want \in [Kinds -> Words] /\ answer \in [Kinds -> Words]
  /\ file \in [Kinds -> Times] /\ seen \in [Kinds -> Times \cup {Unset}]
  /\ held \in [Kinds -> SUBSET Times] /\ touches \in 0..MaxTouch

Init ==
  /\ pc = "idle" /\ want = Each(0) /\ seen = Each(Unset) /\ answer = Each(0)
  /\ file \in [Kinds -> Stamps]
  /\ held = NoHistory /\ touches = 0

\* The callback sends a request.
Ask(w) ==
  /\ pc = "idle" /\ pc' = "access"
  /\ want' = w
  /\ held' = [x \in Kinds |-> {file[x]}]
  /\ UNCHANGED <<file, seen, answer, touches>>

\* The handler reads the time of one kind.
ReadTime(x, now) ==
  /\ seen' = [seen EXCEPT ![x] = Current(file[x], now)]
  /\ UNCHANGED <<want, file, answer, held, touches>>

ReadAccess(now) == pc = "access" /\ pc' = "write" /\ ReadTime("access", now)

\* Mutant of ReadWrite: the other time is read.
ReadAgain(now) ==
  /\ pc = "write" /\ pc' = "set"
  /\ seen' = [seen EXCEPT !["write"] = Current(file["access"], now)]
  /\ UNCHANGED <<want, file, answer, held, touches>>

ReadWrite(now) == pc = "write" /\ pc' = "set" /\ ReadTime("write", now)

\* The time the handler wants, or what it has read.
NextTime(x) ==
  LET asked == SinceEpoch(WireOfWindows(want[x]))
  IN  IF asked = Unset THEN seen[x] ELSE asked

\* The request gives a time, be it one that the handler drops.
Rewrites == \E x \in Kinds : WireOfWindows(want[x]) # Unset

\* Mutant of SetTimes: both are set whatever was asked for.
SetAlways ==
  /\ pc = "set" /\ pc' = "attr"
  /\ file' = [x \in Kinds |-> NextTime(x)]
  /\ held' = [x \in Kinds |-> held[x] \cup {file'[x]}]
  /\ UNCHANGED <<want, seen, answer, touches>>

\* Both are set if either was asked for.
SetTimes ==
  /\ pc = "set" /\ pc' = "attr"
  /\ file' = IF Rewrites THEN [x \in Kinds |-> NextTime(x)] ELSE file
  /\ held' = [x \in Kinds |-> held[x] \cup {file'[x]}]
  /\ UNCHANGED <<want, seen, answer, touches>>

\* The response has the times as they are by then.
Answer ==
  /\ pc = "attr" /\ pc' = "done"
  /\ answer' = [x \in Kinds |-> WindowsOfWire(SinceEpoch(file[x]))]
  /\ UNCHANGED <<want, file, seen, held, touches>>

\* A call of the handler fails, or the setting of the permission before them.
Fail ==
  /\ pc \in {"access", "write", "attr"} \/ (pc = "set" /\ Rewrites)
  /\ pc' = "failed"
  /\ UNCHANGED <<want, file, seen, answer, held, touches>>

Return ==
  /\ pc \in {"done", "failed"} /\ pc' = "idle"
  /\ want' = Each(0) /\ seen' = Each(Unset) /\ answer' = Each(0)
  /\ held' = NoHistory /\ touches' = 0
  /\ UNCHANGED file

\* Another process sets a time.
Touch(x, t) ==
  /\ pc \notin {"idle", "done", "failed"} /\ touches < MaxTouch
  /\ touches' = touches + 1
  /\ file' = [file EXCEPT ![x] = t]
  /\ held' = [held EXCEPT ![x] = @ \cup {t}]
  /\ UNCHANGED <<pc, want, seen, answer>>

Next ==
  \/ \E w \in [Kinds -> Words] : Ask(w)
  \/ \E now \in Clock : ReadAccess(now) \/ ReadWrite(now)
  \/ SetTimes \/ Answer \/ Fail \/ Return
  \/ \E x \in Kinds, t \in Stamps : Touch(x, t)

Spec == Init /\ [][Next]_vars

-----------------------------------------------------------------------------
\* The request gives a time that the handler takes.
Given(x) == SinceEpoch(WireOfWindows(want[x])) # Unset

NotAfter(s, t) == s.secs < t.secs \/ (s.secs = t.secs /\ s.nanos <= t.nanos)

\* A time that Windows sets, from 1970 on, is reported back to it to the tick,
\* if no other process has set it during the request.
TimesSet ==
  pc = "done" /\ touches = 0 =>
    \A x \in Kinds : want[x] \in (Offset * Ticks)..(MaxWord - 1) => answer[x] = want[x]

\* A time that the request does not give, or gives before 1970, is given back to the
\* file as it was, to the nanosecond, when the other one is set: if it is from 1970
\* on, and no other process has set it since the request.
OthersKept ==
  [][pc = "set" /\ pc' = "attr" =>
       \A x \in Kinds :
         ~Given(x) /\ SinceEpoch(file[x]) # Unset /\ held[x] = {file[x]} => file'[x] = file[x]]_vars

\* What the documentation of SetBasicInfo says: a time that is sent as zero is not
\* changed.
ZeroKeeps ==
  [][pc = "set" /\ pc' = "attr" => \A x \in Kinds : want[x] = 0 => file'[x] = file[x]]_vars

\* Windows sees two times in the order in which the server has them, also where
\* they are before 1970 or too late for a word.
OrderKept ==
  pc = "done" /\ NotAfter(file["access"], file["write"]) => answer["access"] <= answer["write"]
=============================================================================
