--------------------------- MODULE MCMountHandles ---------------------------
(* The instances of MountHandles that TLC checks.                          *)
EXTENDS MountHandles

Symmetry == Permutations(Nodes \ {Root}) \cup Permutations(Names) \cup Permutations(Handles)
=============================================================================
