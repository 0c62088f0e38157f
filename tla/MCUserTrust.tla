---------------------------- MODULE MCUserTrust ----------------------------
(* UserTrust with the symmetry of its certificates and requests for TLC,   *)
(* and three policies the operator puts in place of each other: a file for *)
(* every user that allows two projects, beside a default for a third; the  *)
(* same file narrowed to one project; and a default that lets the other    *)
(* project be registered and nothing be revoked.                           *)
EXTENDS UserTrust, TLC

CONSTANTS Project, Elsewhere

Policy(u, projects, actions) == [user |-> u, projects |-> projects, actions |-> actions, locked |-> TRUE]
Own(projects) == [u \in Users |-> Policy(u, projects, Actions)]
Directory(own, default) == [locked |-> TRUE, files |-> own @@ ("default" :> default)]

MCPolicyDirs ==
  {Directory(Own({Default, Project}), Policy(None, {Elsewhere}, Actions)),
   Directory(Own({Default}), None),
   Directory([u \in Users |-> None], Policy(None, {Project}, {"register"}))}

Symmetry == Permutations(Certs) \cup Permutations(Requests) \cup Permutations(Users)
=============================================================================
