--------------------------- MODULE MCWebhookOutbox ---------------------------
(* Model-checking instance of WebhookOutbox and of WebhookRetries: workers, *)
(* webhooks and events are interchangeable.                                 *)
EXTENDS WebhookRetries, TLC

Symmetry == Permutations(Workers) \cup Permutations(Hooks) \cup Permutations(Events)
=============================================================================
