------------------------------- MODULE Exchange -------------------------------
(***************************************************************************)
(* One data connection, byte by byte: RpcClient::send at one end and       *)
(* handle_data at the other, the frames of write_message and read_message  *)
(* between them, the errors that cross the wire as codes, and what the     *)
(* client makes of the error that send returns.  The network delivers      *)
(* bytes one at a time, stops in silence or breaks the connection; the     *)
(* server gives up, fails to send, or dies.                                *)
(***************************************************************************)
EXTENDS Integers, SequencesExt

CONSTANTS
  Base,     \* values of a byte: 256
  LenBytes, \* bytes of a length: 4
  MaxSize,  \* bound on the size of a sealed message
  Messages, \* requests that may be sent
  Keys,     \* keys that passwords give
  ServerKey,
  Nothing

ASSUME WidthAssumption == Base \in Nat \ {0, 1} /\ LenBytes \in Nat \ {0} /\ MaxSize \in Nat
ASSUME KeyAssumption == ServerKey \in Keys

VARIABLES
  sent,       \* the request and the key it is sealed with
  out,        \* bytes on their way, up to the server and down to the client
  got,        \* bytes that read_exact has so far, at each end
  need,       \* bytes that it waits for
  link,       \* the network: open, silent or broken
  client,     \* what the client reads, or done
  server,     \* what the server reads, handle, or gone
  dispatched, \* the request that the server has taken out of the frame
  reply,      \* how its handler ended: ok, or the kind of an error
  cause,      \* history: why the server has not answered
  result      \* what send returns

vars == <<sent, out, got, need, link, client, server, dispatched, reply, cause, result>>

-----------------------------------------------------------------------------
(* Errors.                                                                 *)

\* From<io::Error> for RpcError, and RpcError::to_io_error.
CodeOfKind ==
  [NotFound |-> "NotFound", AlreadyExists |-> "AlreadyExists",
   PermissionDenied |-> "PermissionDenied", InvalidInput |-> "InvalidInput",
   NotADirectory |-> "NotDirectory", IsADirectory |-> "IsDirectory",
   DirectoryNotEmpty |-> "DirectoryNotEmpty", Unsupported |-> "Unsupported"]

\* Mutant of Code: two kinds are taken for one.
CodeCoarse(kind) ==
  IF kind = "DirectoryNotEmpty" THEN "InvalidInput"
  ELSE IF kind \in DOMAIN CodeOfKind THEN CodeOfKind[kind] ELSE "Unexpected"

Code(kind) == IF kind \in DOMAIN CodeOfKind THEN CodeOfKind[kind] ELSE "Unexpected"

\* Mutant of Kind: what has no kind of its own is an end of file.
KindAsEof(code) ==
  IF code = "Unexpected" THEN "UnexpectedEof"
  ELSE CHOOSE kind \in DOMAIN CodeOfKind : CodeOfKind[kind] = code

Kind(code) ==
  IF code = "Unexpected" THEN "Other"
  ELSE CHOOSE kind \in DOMAIN CodeOfKind : CodeOfKind[kind] = code

\* is_disconnect_error.
Disconnects == {"ConnectionAborted", "ConnectionRefused", "ConnectionReset", "BrokenPipe",
                "NotConnected", "UnexpectedEof"}

\* How handlers end: some system calls have errors that are disconnections too.
Outcomes == {"ok", "StorageFull", "BrokenPipe", "UnexpectedEof"} \cup DOMAIN CodeOfKind
Answers == {"ok", "Unexpected"} \cup {CodeOfKind[k] : k \in DOMAIN CodeOfKind}

ASSUME NothingAssumption == Nothing \notin Messages \cup Answers

-----------------------------------------------------------------------------
(* Frames.                                                                 *)

\* What a byte of a length counts for, by the bytes before it.
Weight[i \in 0..LenBytes] == IF i = 0 THEN 1 ELSE Base * Weight[i - 1]

Limit == Weight[LenBytes] - 1 \* the greatest length that four bytes hold

\* Mutant of Prefix: the most significant byte comes first.
PrefixBig(n) == [i \in 1..LenBytes |-> <<(n \div Weight[LenBytes - i]) % Base>>]

\* to_le_bytes and from_le_bytes.
Prefix(n) == [i \in 1..LenBytes |-> <<(n \div Weight[i - 1]) % Base>>]
Length(bytes) ==
  LET Sum[i \in 0..LenBytes] == IF i = 0 THEN 0 ELSE Sum[i - 1] + bytes[i][1] * Weight[i - 1]
  IN  Sum[LenBytes]

\* RpcCipher: only all the bytes, in order and under the key, open.
Seal(m, key, size) == [i \in 1..size |-> <<m, key, i, size>>]

\* Mutant of Open: the key is not looked at.
OpenAny(bytes, key) == IF bytes # <<>> THEN bytes[1][1] ELSE Nothing

Open(bytes, key) ==
  IF bytes # <<>> /\ bytes = Seal(bytes[1][1], key, Len(bytes)) THEN bytes[1][1] ELSE Nothing

Frame(m, key, size) == Prefix(size) \o Seal(m, key, size)
Tag == <<0>> \* CONNECTION_DATA

-----------------------------------------------------------------------------
Reading == {"tag", "length", "payload"}

Init ==
  /\ sent \in [of : Messages, key : Keys]
  /\ out = [up |-> <<>>, down |-> <<>>] /\ got = out
  /\ need = [up |-> 1, down |-> LenBytes]
  /\ link = "open" /\ client = "idle" /\ server = "tag"
  /\ dispatched = Nothing /\ reply = "none" /\ cause = "none" /\ result = "none"

Finish(kind) == client' = "done" /\ result' = kind

GoneFor(why) == server' = "gone" /\ cause' = why

\* One more byte comes in.
Arrive(d) ==
  /\ link = "open" /\ out[d] # <<>> /\ Len(got[d]) < need[d]
  /\ got' = [got EXCEPT ![d] = Append(@, Head(out[d]))]
  /\ out' = [out EXCEPT ![d] = Tail(@)]
  /\ UNCHANGED <<sent, need, link, client, server, dispatched, reply, cause, result>>

\* The bytes are all there; the next ones are these many.
ReadAll(d, then) ==
  /\ Len(got[d]) = need[d]
  /\ need' = [need EXCEPT ![d] = then]
  /\ got' = [got EXCEPT ![d] = <<>>]

\* The client connects, and writes the tag and its frame if the length fits.
Send(size) ==
  /\ client = "idle"
  /\ IF size <= Limit
     THEN /\ out' = [out EXCEPT !.up = <<Tag>> \o Frame(sent.of, sent.key, size)]
          /\ client' = "length" /\ UNCHANGED result
     ELSE out' = [out EXCEPT !.up = <<Tag>>] /\ Finish("InvalidInput")
  /\ UNCHANGED <<sent, got, need, link, server, dispatched, reply, cause>>

Refuse ==
  /\ client = "idle" /\ Finish("ConnectionRefused") /\ GoneFor("refused")
  /\ UNCHANGED <<sent, out, got, need, link, dispatched, reply>>

ReadTag ==
  /\ server = "tag" /\ server' = "length"
  /\ ReadAll("up", LenBytes)
  /\ UNCHANGED <<sent, out, link, client, dispatched, reply, cause, result>>

ReadLength ==
  /\ \/ server = "length" /\ server' = "payload" /\ UNCHANGED client
        /\ ReadAll("up", Length(got.up))
     \/ client = "length" /\ client' = "payload" /\ UNCHANGED server
        /\ ReadAll("down", Length(got.down))
  /\ UNCHANGED <<sent, out, link, dispatched, reply, cause, result>>

\* A request that does not open is dropped with its connection.
ReadRequest ==
  /\ server = "payload"
  /\ dispatched' = Open(got.up, ServerKey)
  /\ IF dispatched' = Nothing THEN GoneFor("sealed") ELSE server' = "handle" /\ UNCHANGED cause
  /\ ReadAll("up", 0)
  /\ UNCHANGED <<sent, out, link, client, reply, result>>

\* The handler ends; its answer is written, if its length fits, and the
\* connection closed.
Respond(outcome, size) ==
  /\ server = "handle"
  /\ reply' = outcome
  /\ LET answer == IF outcome = "ok" THEN "ok" ELSE Code(outcome)
     IN  IF size <= Limit
         THEN /\ out' = [out EXCEPT !.down = Frame(answer, ServerKey, size)]
              /\ server' = "gone" /\ UNCHANGED cause
         ELSE GoneFor("length") /\ UNCHANGED out
  /\ UNCHANGED <<sent, got, need, link, client, dispatched, result>>

ReadResponse ==
  /\ client = "payload"
  /\ ReadAll("down", 0)
  /\ LET answer == Open(got.down, sent.key)
     IN  Finish(IF answer = Nothing THEN "InvalidData"
                ELSE IF answer = "ok" THEN "ok" ELSE Kind(answer))
  /\ UNCHANGED <<sent, out, link, server, dispatched, reply, cause>>

-----------------------------------------------------------------------------
(* Failures.                                                               *)

Cut(how) ==
  /\ link = "open" /\ client # "idle"
  /\ link' = how
  /\ cause' = IF cause = "none" THEN how ELSE cause
  /\ UNCHANGED <<sent, out, got, need, client, server, dispatched, reply, result>>

\* What a dying server has not sent is lost.
Die ==
  /\ server # "gone" \/ out.down # <<>>
  /\ GoneFor("died")
  /\ \E n \in 0..Len(out.down) : out' = [out EXCEPT !.down = SubSeq(@, 1, n)]
  /\ UNCHANGED <<sent, got, need, link, client, dispatched, reply, result>>

\* Nothing comes any more, and the other end is known to be gone.
Ended(d, gone) ==
  /\ Len(got[d]) < need[d]
  /\ link = "broken" \/ (link = "open" /\ gone /\ out[d] = <<>>)

ServerLoses ==
  /\ server \in Reading /\ Ended("up", client = "done")
  /\ GoneFor(IF cause = "none" THEN "client" ELSE cause)
  /\ UNCHANGED <<sent, out, got, need, link, client, dispatched, reply, result>>

ClientLoses(kind) ==
  /\ client \in Reading /\ Ended("down", server = "gone")
  /\ Finish(kind)
  /\ UNCHANGED <<sent, out, got, need, link, server, dispatched, reply, cause>>

\* Mutant of ServerTimesOut: only the first read of a frame is timed.
ServerTimesLength ==
  /\ server = "length" /\ Len(got.up) < need.up
  /\ GoneFor("timeout")
  /\ UNCHANGED <<sent, out, got, need, link, client, dispatched, reply, result>>

\* Each read of a frame has five seconds, but not that of the tag.
ServerTimesOut ==
  /\ server \in Reading \ {"tag"} /\ Len(got.up) < need.up
  /\ GoneFor("timeout")
  /\ UNCHANGED <<sent, out, got, need, link, client, dispatched, reply, result>>

ClientTimesOut ==
  /\ client \in Reading /\ Len(got.down) < need.down
  /\ Finish("TimedOut")
  /\ UNCHANGED <<sent, out, got, need, link, server, dispatched, reply, cause>>

-----------------------------------------------------------------------------
Serve ==
  \/ ReadTag \/ ReadRequest \/ ServerLoses \/ ServerTimesOut
  \/ \E outcome \in Outcomes, size \in 1..MaxSize : Respond(outcome, size)

Call ==
  \/ \E size \in 1..MaxSize : Send(size)
  \/ ReadResponse \/ ClientTimesOut
  \/ \E kind \in {"UnexpectedEof", "ConnectionReset", "ConnectionAborted"} : ClientLoses(kind)

Next ==
  \/ Serve \/ Call \/ ReadLength \/ Refuse \/ Die
  \/ \E d \in {"up", "down"} : Arrive(d)
  \/ \E how \in {"silent", "broken"} : Cut(how)

\* Both ends run, and their timeouts end what the network does not.
Spec == Init /\ [][Next]_vars /\ WF_vars(Serve) /\ WF_vars(Call) /\ WF_vars(ReadLength)

-----------------------------------------------------------------------------
\* The server executes the request that was sent, and only if it was sealed with
\* its key; a caller who sees success had it executed.
Intact ==
  /\ dispatched # Nothing => dispatched = sent.of /\ sent.key = ServerKey
  /\ result = "ok" => dispatched = sent.of /\ reply = "ok"

\* A frame that comes in whole opens, however its bytes have come, unless the
\* keys differ.
FramesOpen ==
  /\ cause = "sealed" => sent.key # ServerKey
  /\ result # "InvalidData"

\* An error of the server reaches the callback with its kind, or as Other, and
\* the callback sees no kind of error that the server did not answer.
ErrorTold ==
  LET told == IF reply \in DOMAIN CodeOfKind THEN reply ELSE "Other"
  IN  /\ client = "done" /\ reply \notin {"none", "ok"} /\ cause = "none" =>
           result \in {told, "TimedOut"}
      /\ result \in (DOMAIN CodeOfKind \cup {"Other"}) \ {"InvalidInput"} => result = told

\* A call that the client takes for the loss of the server was not answered: the
\* server refused or dropped it, or the connection broke, or the server died.
LossHasCause == result \in Disconnects => cause \notin {"none", "silent"}

\* Every call ends, and so does the serving thread, except in the read of a tag.
BothEnd ==
  /\ client # "idle" ~> client = "done"
  /\ server = "length" ~> server = "gone"
=============================================================================
