------------------------------ MODULE CallOrder ------------------------------
(***************************************************************************)
(* What the RPC layer of netfilum promises its callers, with no sockets,   *)
(* no server process and no timers in it.                                  *)
(*                                                                         *)
(* Calls are numbered as they connect.  A call takes effect at most once,  *)
(* effects follow the numbering, a caller that is given an answer is given *)
(* the answer to its own call, and a caller that is given an error learns  *)
(* nothing: the call may have taken effect, may still take effect, or may  *)
(* never do so.                                                            *)
(***************************************************************************)
EXTENDS Naturals, Sequences

CONSTANT MaxCalls   \* bound on the number of calls, a natural number

VARIABLES
  issued,   \* how many calls have been made
  log,      \* the calls that took effect, oldest first
  outcome,  \* what the caller of each call has been told
  answer    \* the position in log that an answered caller was told of

vars == <<issued, log, outcome, answer>>

Calls == 1..MaxCalls

Init ==
  /\ issued = 0
  /\ log = <<>>
  /\ outcome = [k \in Calls |-> "none"]
  /\ answer = [k \in Calls |-> 0]

\* A call is made; it may fail on the spot.
Issue ==
  /\ issued < MaxCalls
  /\ issued' = issued + 1
  /\ \E o \in {"none", "failed"} : outcome' = [outcome EXCEPT ![issued + 1] = o]
  /\ UNCHANGED <<log, answer>>

\* A call takes effect, whether or not its caller is still waiting, but
\* never after a call that was made later.
Apply(k) ==
  /\ k <= issued
  /\ \A i \in DOMAIN log : log[i] < k
  /\ log' = Append(log, k)
  /\ UNCHANGED <<issued, outcome, answer>>

\* The caller is told the result of its own call.
Answer(k) ==
  /\ outcome[k] = "none"
  /\ \E i \in DOMAIN log :
       /\ log[i] = k
       /\ answer' = [answer EXCEPT ![k] = i]
  /\ outcome' = [outcome EXCEPT ![k] = "answered"]
  /\ UNCHANGED <<issued, log>>

\* The caller is given an error.
Fail(k) ==
  /\ k <= issued
  /\ outcome[k] = "none"
  /\ outcome' = [outcome EXCEPT ![k] = "failed"]
  /\ UNCHANGED <<issued, log, answer>>

Next == Issue \/ \E k \in Calls : Apply(k) \/ Answer(k) \/ Fail(k)

Spec == Init /\ [][Next]_vars
=============================================================================
