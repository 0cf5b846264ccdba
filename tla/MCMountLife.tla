---------------------------- MODULE MCMountLife ----------------------------
(* The instance of MountLife that TLC checks: WinFsp's threads are alike.  *)
EXTENDS MountLife, TLC

Symmetry == Permutations(Dispatchers)
=============================================================================
