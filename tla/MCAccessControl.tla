--------------------------- MODULE MCAccessControl ---------------------------
(* Instances of AccessControl: the requests may be exchanged.              *)
EXTENDS AccessControl, TLC

Symmetry == Permutations(Requests)
=============================================================================
