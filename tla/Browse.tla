-------------------------------- MODULE Browse --------------------------------
(***************************************************************************)
(* An application enumerates a directory (Listing), and puts the names it  *)
(* is shown together to the paths of further requests (Paths).             *)
(***************************************************************************)
EXTENDS Listing, Paths

CONSTANT Spelling \* the strings of the names

ASSUME SpellingAssumption ==
  /\ Spelling \in [Names -> Seq(STRING)]
  /\ \A n \in Names :
       Spelling[n] # <<>> /\ Range(Spelling[n]) \cap {Here, Up, "/"} = {}

ShownWords == {Spelling[n] : n \in {m \in Names : shown[m] > 0}}

\* The entries of a listing, put together to a path in Windows' way, are found
\* again by the server under their own names; a name with a backslash is not,
\* and nothing above the exported directory is found.  The path of the daemon
\* leads WSL through the names that Windows knows.
Resolved ==
  pc = "done" =>
    \A build \in Builds(ShownWords) :
      LET found == Normalize(NtToRelative(Raw(build)))
      IN  /\ IF Up \in Range(Place(build)) THEN found = Invalid
             ELSE found.ok /\ (Plain(build) <=> found.names = Place(build))
          /\ Plain(build) =>
               Components(ToWsl("d", Raw(build))) = <<"mnt", "d">> \o Place(build)
=============================================================================
