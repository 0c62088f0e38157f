-------------------------- MODULE WebhookOutboxLive --------------------------
(***************************************************************************)
(* What the outbox owes once failures are over.  The end of the failures   *)
(* is a variable and not "eventually no Failure step": a crash of an idle  *)
(* process changes nothing, so such a formula would also forbid the        *)
(* ordinary steps that change as little.                                   *)
(***************************************************************************)
EXTENDS WebhookOutbox

VARIABLE calm    \* no failure happens any more

liveVars == <<vars, calm>>

InitLive == Init /\ calm = FALSE

Normal == Handlers \/ Clock \/ Drain \/ \E w \in Workers : WorkerStep(w)

BeforeCalm == ~calm /\ Failure /\ UNCHANGED calm

FailuresEnd == ~calm /\ calm' = TRUE /\ UNCHANGED vars

NextLive == (Normal /\ UNCHANGED calm) \/ BeforeCalm \/ FailuresEnd

\* The goroutines keep running and the clock advances.  Handlers and the
\* receiver's good will are not owed: a worker that posts goes on with either
\* answer (deliverWebhookAttempt has a ten-second timeout).
Fairness ==
  /\ WF_vars(DrainBegin)
  /\ WF_vars(ClaimPendingOutboxEvents)
  /\ \A r \in Rows : /\ WF_vars(Enqueue(r))
                     /\ WF_vars(RetryTimeComes(r))
                     /\ WF_vars(LeaseExpires(r))
  /\ \A w \in Workers : WF_vars(WorkerStep(w))
  /\ WF_liveVars(FailuresEnd)

LiveSpec == InitLive /\ [][NextLive]_liveVars /\ Fairness

-----------------------------------------------------------------------------
\* Once failures are over nothing stays outstanding: every row owed is closed
\* or withdrawn, through crashes, lost jobs, expired leases and failing store
\* calls (claimOutboxEventIDs takes expired claims again), and no late worker
\* keeps reopening rows (MarkOutboxPending) for ever.  DeliveryContract's Kept
\* follows, and with HonoursContract the whole contract.
Quiescence ==
  <>[](\A r \in Rows : status[r] \notin {"pending", "processing"})
=============================================================================
