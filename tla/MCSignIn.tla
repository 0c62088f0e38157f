------------------------------ MODULE MCSignIn ------------------------------
(* Instances of SignIn: the requests may be exchanged.                     *)
EXTENDS SignIn, TLC

Symmetry == Permutations(Requests)
=============================================================================
