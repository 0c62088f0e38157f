---------------------------- MODULE MCWebhookAdmin ----------------------------
(* Instances of WebhookAdmin: three types of two prefixes; the last pattern *)
(* matches none of them and is refused.                                    *)
EXTENDS WebhookAdmin, TLC

Symmetry == Permutations(Requests) \cup Permutations(Hooks)
SomeTypes == {<<"webhook", "delivery", "ok">>, <<"webhook", "test">>, <<"user", "created">>}
SomePatterns == {[words |-> <<"webhook", "test">>, tail |-> ""],
                 [words |-> <<"webhook">>, tail |-> "."],
                 [words |-> <<"backup">>, tail |-> ".*"]}
=============================================================================
