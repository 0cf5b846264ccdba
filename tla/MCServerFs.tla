----------------------------- MODULE MCServerFs -----------------------------
(* The instance of ServerFs that TLC checks: names and nodes are alike.    *)
EXTENDS ServerFs

Symmetry == Permutations(Nodes \ {Root}) \cup Permutations(Names)
=============================================================================
