--------------------------- MODULE MCFirewallRules ---------------------------
(* Instances of FirewallRules: requests and ids may be exchanged; the third *)
(* handle reads like the first with another digit (4 and 40, say).          *)
EXTENDS FirewallRules, TLC

Symmetry == Permutations(Requests) \cup Permutations(Ids)
ThirdLikeFirst == [h \in Handles |-> IF h = 1 THEN {3} ELSE {}]
=============================================================================
