------------------------ MODULE MCEnvironmentPackages ------------------------
(* One caller that brings packages into use and one that disables.          *)
EXTENDS EnvironmentPackages, TLC

CONSTANTS c1, c2

MCCallerOps == c1 :> {"install", "rollback", "trust", "enable", "health"} @@
               c2 :> {"disable"}

Symmetry == Permutations(Contents)
=============================================================================
