--------------------------- MODULE DeliveryContract ---------------------------
(***************************************************************************)
(* What webhook delivery promises, per (event, webhook) pair and without   *)
(* drainer, queue or workers: "at-least-once with retry policy"            *)
(* (docs/spec/events.md:124).  A pair is owed from the moment the event is *)
(* stored until it is closed, and only deleting the event or the webhook   *)
(* withdraws it; what is withdrawn or was never owed is never delivered    *)
(* anew.  A closed pair may be reopened: consumers deduplicate.            *)
(***************************************************************************)
CONSTANT Pairs

VARIABLES
  phase,     \* "none", "owed", "closed" or "withdrawn"
  accepted   \* the receiver has answered 2xx to the event

contractVars == <<phase, accepted>>

Init ==
  /\ phase = [p \in Pairs |-> "none"]
  /\ accepted = [p \in Pairs |-> FALSE]

\* The pairs of S, all in one of the phases "from", enter phase "to" at once.
Move(S, from, to) ==
  /\ \A p \in S : phase[p] \in from
  /\ phase' = [p \in Pairs |-> IF p \in S THEN to ELSE phase[p]]
  /\ UNCHANGED accepted

Promise(S) == Move(S, {"none"}, "owed")
Close(S) == Move(S, {"owed"}, "closed")
Reopen(p) == Move({p}, {"closed"}, "owed")
Withdraw(S) == Move(S, {"owed", "closed"}, "withdrawn")

Accept(p) ==
  /\ phase[p] # "none"
  /\ accepted' = [accepted EXCEPT ![p] = TRUE]
  /\ UNCHANGED phase

Next ==
  \/ \E S \in SUBSET Pairs : Promise(S) \/ Close(S) \/ Withdraw(S)
  \/ \E p \in Pairs : Reopen(p) \/ Accept(p)

\* An owed pair does not stay owed for ever.
Kept == \A p \in Pairs : phase[p] = "owed" ~> phase[p] # "owed"

SafeSpec == Init /\ [][Next]_contractVars
Spec == SafeSpec /\ Kept
===============================================================================
