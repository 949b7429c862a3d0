--------------------------- MODULE MCBuildServer ---------------------------
(* The threads of BuildServer are alike.                                   *)
EXTENDS BuildServer, TLC

Alike == Permutations(Threads)
=============================================================================
