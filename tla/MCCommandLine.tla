---------------------------- MODULE MCCommandLine ----------------------------
(* Model-checking instance of CommandLine.                                 *)
EXTENDS CommandLine, TLC

Symmetry == Permutations(Commands) \cup Permutations(Endpoints)
=============================================================================
