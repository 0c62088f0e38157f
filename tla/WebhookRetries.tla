--------------------------- MODULE WebhookRetries ---------------------------
(***************************************************************************)
(* WebhookOutbox with a history variable that tells whether anything has   *)
(* failed: what the retry policy says of every row holds as long as        *)
(* nothing has.                                                            *)
(***************************************************************************)
EXTENDS WebhookOutbox

VARIABLE failed    \* history: a failure happened

historyVars == <<vars, failed>>

Ordinary == Handlers \/ Clock \/ Drain \/ \E w \in Workers : WorkerStep(w)

HistoryNext ==
  \/ Ordinary /\ UNCHANGED failed
  \/ Failure /\ failed' = TRUE

HistoryInit == Init /\ failed = FALSE

HistorySpec == HistoryInit /\ [][HistoryNext]_historyVars

-----------------------------------------------------------------------------
(* Until the first crash and the first failing store call nothing is left   *)
(* for the two-minute lease (events.go:36), since a processing row is in    *)
(* the hands of this process; no row is given up before its last retry, and *)
(* none is posted more often than the retries of webhook_dispatch.go:143    *)
(* say, nor posted again once its receiver accepted it.                     *)
AsDocumentedUntilFailure ==
  [][~failed' =>
       /\ NoOrphanedClaim' /\ FullRetryPolicy' /\ RetryBudget'
       /\ \A r \in Rows : acked[r] => tries'[r] = tries[r]]_historyVars
=============================================================================
