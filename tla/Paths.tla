-------------------------------- MODULE Paths --------------------------------
(***************************************************************************)
(* The name of a file on its way from Windows to the server:               *)
(* nt_path_to_relative in the callbacks, normalize_relative_path in the    *)
(* server; and the path of the daemon, which windows_path_to_wsl turns     *)
(* into one for WSL.                                                       *)
(*                                                                         *)
(* A string is a sequence of separators and words.  An application builds  *)
(* it step by step from the entries it is shown (Listing), and with the    *)
(* liberties that Windows allows.  The names of Linux may have             *)
(* backslashes.                                                            *)
(***************************************************************************)
EXTENDS Naturals, SequencesExt

CONSTANT MaxSteps \* bound on the steps in which a string is built

ASSUME StepsAssumption == MaxSteps \in Nat

Here == "."
Up == ".."

Invalid == [ok |-> FALSE, names |-> <<>>] \* InvalidInput
Valid(names) == [ok |-> TRUE, names |-> names]

\* replace('\\', "/").
Slashes(raw) == [i \in DOMAIN raw |-> IF raw[i] = "\\" THEN "/" ELSE raw[i]]

\* trim_start_matches('/').
TrimStart(raw) ==
  SubSeq(raw, 1 + Cardinality({i \in DOMAIN raw : \A j \in 1..i : raw[j] = "/"}), Len(raw))

\* Mutant of NtToRelative: the path stays absolute.
NtToSlashes(raw) == Slashes(raw)

NtToRelative(raw) == TrimStart(Slashes(raw))

\* Path::components: empty components do not count, nor ".".
Components(raw) ==
  LET kept[i \in 0..Len(raw)] ==
        IF i = 0 THEN <<>>
        ELSE IF raw[i] \in {"/", Here} THEN kept[i - 1] ELSE Append(kept[i - 1], raw[i])
  IN  kept[Len(raw)]

Normalize(raw) ==
  LET path == Slashes(raw)
  IN  IF (path # <<>> /\ path[1] = "/") \/ Up \in Range(path) THEN Invalid
      ELSE Valid(Components(path))

\* The drive is a lower-case directory of /mnt.
ToWsl(drive, raw) == <<"/", "mnt", "/", drive, "/">> \o TrimStart(Slashes(raw))

-----------------------------------------------------------------------------
(* The strings that an application builds, behind the drive.               *)

\* A step adds an entry that the server has listed, a liberty or a climb.
Step(words) ==
  {[adds |-> <<"\\">> \o n, names |-> n] : n \in words}
    \cup {[adds |-> t, names |-> <<>>] : t \in {<<"\\">>, <<"/">>, <<"\\", Here>>}}
    \cup {[adds |-> <<"\\", Up>>, names |-> <<Up>>]}

Builds(words) == BoundedSeq(Step(words), MaxSteps)

Raw(build) == <<"\\">> \o FlattenSeq([i \in DOMAIN build |-> build[i].adds])
Place(build) == FlattenSeq([i \in DOMAIN build |-> build[i].names])

\* Windows takes the backslashes of the names for separators.
Plain(build) == "\\" \notin Range(Place(build))
=============================================================================
