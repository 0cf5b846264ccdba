------------------------------- MODULE Listing -------------------------------
(***************************************************************************)
(* An application enumerates a directory that others change.  Each query   *)
(* makes the callback read_directory ask for the attributes of the         *)
(* directory and for all its entries; the server reads the names one by    *)
(* one and takes the attributes of each.  The entries of the first query   *)
(* are kept in the handle's buffer, and all queries are answered from it,  *)
(* each going on behind the name at which the one before it stopped.  Any  *)
(* query may fail, at any stage; the application then repeats it, starts   *)
(* over, or gives up.                                                      *)
(*                                                                         *)
(* Names are numbers, for their order.                                     *)
(***************************************************************************)
EXTENDS Integers, SequencesExt

CONSTANTS
  MaxName,   \* names are 1 to MaxName
  Room,      \* how many entries the answer to a query has room for
  MaxChange  \* bound on the number of changes in an enumeration

ASSUME RoomAssumption == MaxName \in Nat /\ Room \in Nat \ {0} /\ MaxChange \in Nat

Names == 1..MaxName
Dots == <<-1, 0>> \* "." and ".."
Start == -2       \* the marker of a first query

VARIABLES
  dir,     \* the names in the directory
  pc,      \* where the query is
  marker,  \* the last name the application has got
  must,    \* names that the server has to come upon yet
  may,     \* names that it may come upon
  name,    \* the name it has come upon
  entries, \* the listing it makes
  buffer,  \* the DirBuffer of the handle
  shown,   \* how often the application has got each name: none, once, more often
  changes, \* changes of the directory in this enumeration
  always,  \* history: names there throughout the first query
  ever     \* history: names there at any time of the first query

stream == <<must, may, name, entries>>
history == <<always, ever>>
vars == <<dir, pc, marker, stream, buffer, shown, changes, history>>

Blank == [n \in Names \cup Range(Dots) |-> 0]

Init ==
  /\ dir \in SUBSET Names
  /\ pc = "idle" /\ marker = Start
  /\ must = {} /\ may = {} /\ name = 1 /\ entries = <<>> /\ buffer = <<>>
  /\ shown = Blank /\ changes = 0
  /\ always = {} /\ ever = {}

First == marker = Start

\* The server opens the directory, for the first query and for each other one.
OpenDir ==
  /\ pc = "idle" /\ pc' = "names"
  /\ must' = dir /\ may' = dir /\ entries' = <<>>
  /\ always' = (IF First THEN dir ELSE always) /\ ever' = (IF First THEN dir ELSE ever)
  /\ UNCHANGED <<dir, marker, name, buffer, shown, changes>>

NextName ==
  /\ pc = "names" /\ pc' = "entry"
  /\ \E n \in may : name' = n /\ may' = may \ {n} /\ must' = must \ {n}
  /\ UNCHANGED <<dir, marker, entries, buffer, shown, changes, history>>

\* One entry that has vanished fails the listing.
Attr ==
  /\ pc = "entry"
  /\ \/ name \in dir /\ entries' = Append(entries, name) /\ pc' = "names"
     \/ name \notin dir /\ UNCHANGED entries /\ pc' = "failed"
  /\ UNCHANGED <<dir, marker, must, may, name, buffer, shown, changes, history>>

EndOfDir ==
  /\ pc = "names" /\ must = {} /\ pc' = "fill"
  /\ UNCHANGED <<dir, marker, stream, buffer, shown, changes, history>>

\* The query is refused: the directory has been moved or removed, has become a
\* file or may not be read, reading it fails on the way, an entry has no
\* attributes although it is there, or the connection is lost.
Refuse ==
  /\ pc \in {"idle", "names", "entry"} /\ pc' = "failed"
  /\ UNCHANGED <<dir, marker, stream, buffer, shown, changes, history>>

\* A listing in the order of its names.
Sorted(list) ==
  {s \in {[i \in DOMAIN list |-> list[order[i]]] :
            order \in Bijection(DOMAIN list, DOMAIN list)} :
     \A i, j \in DOMAIN s : i < j => s[i] <= s[j]}

\* Mutant of Fill: the buffer is filled for every query.
FillAlways ==
  /\ pc = "fill" /\ pc' = "read"
  /\ \E s \in Sorted(entries) : buffer' = Dots \o s
  /\ UNCHANGED <<dir, marker, stream, shown, changes, history>>

\* Mutant of Fill: the buffer of an earlier enumeration is kept.
FillOnce ==
  /\ pc = "fill" /\ pc' = "read"
  /\ \E s \in Sorted(entries) : buffer' = IF First /\ buffer = <<>> THEN Dots \o s ELSE buffer
  /\ UNCHANGED <<dir, marker, stream, shown, changes, history>>

\* An entry does not get into the buffer, which is left with those before it.
FillPart ==
  /\ pc = "fill" /\ pc' = "failed" /\ First
  /\ \E s \in Sorted(entries) : \E most \in 0..(Len(s) + 1) :
       buffer' = SubSeq(Dots \o s, 1, most)
  /\ UNCHANGED <<dir, marker, stream, shown, changes, history>>

\* The first query fills the buffer, the others ignore their listing.
Fill ==
  /\ pc = "fill" /\ pc' = "read"
  /\ \E s \in Sorted(entries) : buffer' = IF First THEN Dots \o s ELSE buffer
  /\ UNCHANGED <<dir, marker, stream, shown, changes, history>>

\* The answer is what has room, behind an entry that has the marker's name.
Read ==
  /\ pc = "read"
  /\ \E i \in 0..Len(buffer) :
       /\ IF First THEN i = 0 ELSE i > 0 /\ buffer[i] = marker
       /\ LET answer == SubSeq(buffer, i + 1, IF i + Room < Len(buffer) THEN i + Room ELSE Len(buffer))
          IN  /\ shown' = [n \in DOMAIN shown |->
                             LET times == shown[n] + Cardinality({j \in DOMAIN answer : answer[j] = n})
                             IN  IF times > 2 THEN 2 ELSE times]
              /\ IF answer = <<>> THEN pc' = "done" /\ UNCHANGED marker
                 ELSE pc' = "idle" /\ marker' = Last(answer)
  /\ UNCHANGED <<dir, stream, buffer, changes, history>>

\* The application repeats the query that has failed.
Retry ==
  /\ pc = "failed" /\ pc' = "idle"
  /\ UNCHANGED <<dir, marker, stream, buffer, shown, changes, history>>

\* The application starts over, with the same handle.
Restart ==
  /\ pc \in {"done", "failed"} /\ pc' = "idle"
  /\ marker' = Start /\ shown' = Blank /\ changes' = 0
  /\ always' = {} /\ ever' = {}
  /\ UNCHANGED <<dir, stream, buffer>>

\* The server's file system: others add and remove names.  What is added may
\* be come upon or not, and so may what is removed; nothing else is missed.
Change ==
  /\ pc \notin {"done", "failed"} /\ changes < MaxChange /\ changes' = changes + 1
  /\ LET during == First /\ pc \in {"names", "entry"}
     IN  \/ \E n \in Names \ dir :
              /\ dir' = dir \cup {n} /\ may' = may \cup {n}
              /\ ever' = (IF during THEN ever \cup {n} ELSE ever)
              /\ UNCHANGED <<must, always>>
         \/ \E n \in dir :
              /\ dir' = dir \ {n} /\ must' = must \ {n}
              /\ always' = (IF during THEN always \ {n} ELSE always)
              /\ UNCHANGED <<may, ever>>
  /\ UNCHANGED <<pc, marker, name, entries, buffer, shown>>

Next ==
  \/ OpenDir \/ NextName \/ Attr \/ EndOfDir \/ Refuse
  \/ Fill \/ FillPart \/ Read \/ Retry \/ Restart \/ Change

Spec == Init /\ [][Next]_vars

-----------------------------------------------------------------------------
\* An enumeration of several queries that gets to its end shows every entry that
\* was there throughout the first one, or throughout the last attempt at it, exactly
\* once: whatever has changed since, and whichever queries have failed on the way and
\* been repeated.
ShownOnce ==
  pc = "done" => \A n \in always \cup Range(Dots) : shown[n] = 1

\* It shows no entry that was not there during the first query, nor what a failed
\* attempt at it, or an earlier enumeration, has left in the buffer.
NothingInvented == \A n \in Names : shown[n] > 0 => n \in ever
=============================================================================
