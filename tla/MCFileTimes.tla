----------------------------- MODULE MCFileTimes -----------------------------
(* The instance of FileTimes that TLC checks.  A second has two ticks of two *)
(* units; the stamps lie before 1970, at the end of a second, at a boundary, *)
(* and beyond the greatest word.                                             *)
EXTENDS FileTimes

At(s, n) == [secs |-> s, nanos |-> n]
LateStamps == {At(0, 3), At(1, 0)}
FewStamps == {At(-1, 1), At(0, 3), At(1, 0), At(9, 2)}
=============================================================================
