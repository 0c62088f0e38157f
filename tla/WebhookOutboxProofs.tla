------------------------- MODULE WebhookOutboxProofs -------------------------
(* Theorems about WebhookOutbox for every number of events, webhooks,      *)
(* workers, retries and every queue capacity.                              *)
EXTENDS WebhookRetries, FiniteSetTheorems, TLAPS

-----------------------------------------------------------------------------
(* Helpers.                                                                *)

LEMMA Min2Bounds ==
  ASSUME NEW a \in Nat, NEW b \in Nat
  PROVE  Min2(a, b) \in Nat /\ Min2(a, b) <= a /\ Min2(a, b) <= b
BY DEF Min2

\* A claim raises an attempt number without leaving the model's range.
LEMMA NextAttemptType ==
  ASSUME NEW n \in 0..MaxAttempts
  PROVE  NextAttempt(n) \in Attempts
BY ParametersAssumption DEF NextAttempt, Min2, Attempts

\* What a store update by row id leaves in the status column.
LEMMA MarkTypes ==
  ASSUME TypeOK, NEW r \in Rows,
         MarkOutboxPending(r) \/ MarkOutboxDelivered(r)
  PROVE  /\ status' \in [Rows -> {"none", "pending", "processing", "delivered", "gone"}]
         /\ ripe' \in [Rows -> BOOLEAN]
<1> DEFINE Statuses == {"none", "pending", "processing", "delivered", "gone"}
<1>1. status \in [Rows -> Statuses] /\ ripe \in [Rows -> BOOLEAN]
  BY DEF TypeOK
<1>2. CASE MarkOutboxPending(r)
  BY <1>1, <1>2 DEF MarkOutboxPending
<1>3. CASE MarkOutboxDelivered(r)
  BY <1>1, <1>3 DEF MarkOutboxDelivered
<1> QED BY <1>2, <1>3

-----------------------------------------------------------------------------
(* Type correctness.                                                       *)

LEMMA TypeInit == Init => TypeOK
BY ParametersAssumption DEF Init, TypeOK, Attempts

LEMMA TypeHandlers == TypeOK /\ Handlers => TypeOK'
<1> SUFFICES ASSUME TypeOK, Handlers PROVE TypeOK'
  OBVIOUS
<1>1. ASSUME NEW h \in Hooks, CreateWebhook(h) PROVE TypeOK'
  BY <1>1 DEF TypeOK, CreateWebhook
<1>2. ASSUME NEW h \in Hooks, UpdateWebhook(h) PROVE TypeOK'
  BY <1>2 DEF TypeOK, UpdateWebhook
<1>3. ASSUME NEW h \in Hooks, DeleteWebhook(h) PROVE TypeOK'
  BY <1>3 DEF TypeOK, DeleteWebhook, DropRows
<1>4. ASSUME NEW e \in Events, EmitEvent(e) PROVE TypeOK'
  BY <1>4 DEF TypeOK, EmitEvent, CreateEvent
<1>5. ASSUME NEW e \in Events, EmitTestEvent(e) PROVE TypeOK'
  BY <1>5 DEF TypeOK, EmitTestEvent, CreateEvent
<1>6. ASSUME NEW e \in Events, MarkEventOutboxDelivered(e) PROVE TypeOK'
  BY <1>6 DEF TypeOK, MarkEventOutboxDelivered
<1>7. ASSUME NEW e \in Events, PruneEvent(e) PROVE TypeOK'
  BY <1>7 DEF TypeOK, PruneEvent, DropRows
<1> QED BY <1>1, <1>2, <1>3, <1>4, <1>5, <1>6, <1>7 DEF Handlers

LEMMA TypeDrain == TypeOK /\ (Clock \/ Drain) => TypeOK'
<1> SUFFICES ASSUME TypeOK, Clock \/ Drain PROVE TypeOK'
  OBVIOUS
<1>1. ASSUME NEW r \in Rows, RetryTimeComes(r) PROVE TypeOK'
  BY <1>1 DEF TypeOK, RetryTimeComes
<1>2. ASSUME NEW r \in Rows, LeaseExpires(r) PROVE TypeOK'
  BY <1>2 DEF TypeOK, LeaseExpires
<1>3. CASE DrainBegin
  <2>1. Len(queue) \in Nat
    BY DEF TypeOK
  <2>2. room' \in 0..QueueCap
    BY <1>3, <2>1, ParametersAssumption DEF DrainBegin, Min2
  <2> QED BY <1>3, <2>2 DEF TypeOK, DrainBegin
<1>4. CASE ClaimPendingOutboxEvents
  <2>1. PICK S \in Claims(room) :
          /\ status' = [r \in Rows |-> IF r \in S THEN "processing" ELSE status[r]]
          /\ attempts' = [r \in Rows |-> IF r \in S THEN NextAttempt(attempts[r])
                                                    ELSE attempts[r]]
          /\ ripe' = [r \in Rows |-> ripe[r] /\ r \notin S]
          /\ batch' = [r \in S |-> NextAttempt(attempts[r])]
    BY <1>4 DEF ClaimPendingOutboxEvents
  <2>2. S \subseteq Rows
    BY DEF Claims, Claimable
  <2>3. \A r \in Rows : NextAttempt(attempts[r]) \in Attempts
    BY NextAttemptType DEF TypeOK
  <2>4. Attempts \subseteq 0..MaxAttempts
    BY ParametersAssumption DEF Attempts
  <2>5. attempts' \in [Rows -> 0..MaxAttempts]
    BY <2>1, <2>3, <2>4 DEF TypeOK
  <2>6. DOMAIN batch' = S /\ batch' \in [S -> Attempts]
    BY <2>1, <2>2, <2>3
  <2>7. /\ status' \in [Rows -> {"none", "pending", "processing", "delivered", "gone"}]
        /\ ripe' \in [Rows -> BOOLEAN]
    BY <2>1 DEF TypeOK
  <2>8. room' \in 0..QueueCap
    BY <1>4, ParametersAssumption DEF ClaimPendingOutboxEvents
  <2> QED BY <1>4, <2>2, <2>5, <2>6, <2>7, <2>8 DEF TypeOK, ClaimPendingOutboxEvents
<1>5. ASSUME NEW r \in Rows, Enqueue(r) PROVE TypeOK'
  <2>1. /\ DOMAIN batch' \in SUBSET Rows
        /\ batch' \in [DOMAIN batch' -> Attempts]
    BY <1>5 DEF TypeOK, Enqueue
  <2>2. queue' \in Seq(Jobs)
    <3>1. [row |-> r, attempt |-> batch[r]] \in Jobs
      BY <1>5 DEF TypeOK, Enqueue, Jobs
    <3>2. queue \in Seq(Jobs)
      BY DEF TypeOK
    <3>3. queue' \in {queue, Append(queue, [row |-> r, attempt |-> batch[r]])}
      BY <1>5, ZenonT(30) DEF Enqueue
    <3> QED BY <3>1, <3>2, <3>3
  <2>3. /\ status' \in [Rows -> {"none", "pending", "processing", "delivered", "gone"}]
        /\ ripe' \in [Rows -> BOOLEAN]
    BY <1>5, MarkTypes DEF Enqueue, TypeOK
  <2> QED BY <1>5, <2>1, <2>2, <2>3 DEF TypeOK, Enqueue
<1> QED BY <1>1, <1>2, <1>3, <1>4, <1>5 DEF Clock, Drain

\* The row of the job a busy worker handles.
LEMMA BusyJob ==
  ASSUME TypeOK, NEW w \in Workers, pc[w] # "idle"
  PROVE  job[w] \in Jobs /\ job[w].row \in Rows
BY DEF TypeOK, Jobs

LEMMA CountTryType ==
  ASSUME TypeOK, NEW r \in Rows, CountTry(r)
  PROVE  tries' \in [Rows -> 0..MaxAttempts]
BY ParametersAssumption DEF TypeOK, CountTry, Min2

LEMMA BecomeIdleType ==
  ASSUME TypeOK, NEW w \in Workers, BecomeIdle(w)
  PROVE  /\ pc' \in [Workers -> {"idle", "load", "post", "failed", "settle", "postpone"}]
         /\ job' \in [Workers -> Jobs \cup {NoJob}]
         /\ \A v \in Workers : pc'[v] = "idle" <=> job'[v] = NoJob
BY DEF TypeOK, BecomeIdle

LEMMA TypeWorker ==
  ASSUME TypeOK, NEW w \in Workers, WorkerStep(w)
  PROVE  TypeOK'
<1>1. CASE TakeJob(w)
  <2>1. queue \in Seq(Jobs) /\ queue # << >>
    BY <1>1 DEF TypeOK, TakeJob
  <2>2. Head(queue) \in Jobs /\ Tail(queue) \in Seq(Jobs)
    BY <2>1
  <2>3. Head(queue) # NoJob
    BY <2>2, ParametersAssumption
  <2> QED BY <1>1, <2>2, <2>3 DEF TypeOK, TakeJob
<1>2. CASE LoadLive(w)
  BY <1>2 DEF TypeOK, LoadLive
<1>3. CASE LoadUnwanted(w)
  <2>1. waived' \in [Rows -> BOOLEAN]
    BY <1>3 DEF TypeOK, LoadUnwanted
  <2> QED BY <1>3, <2>1 DEF TypeOK, LoadUnwanted
<1>4. CASE PostAccepted(w)
  <2>1. job[w].row \in Rows
    BY <1>4, BusyJob DEF PostAccepted
  <2>2. tries' \in [Rows -> 0..MaxAttempts]
    BY <1>4, <2>1, CountTryType DEF PostAccepted
  <2>3. acked' \in [Rows -> BOOLEAN]
    BY <1>4 DEF TypeOK, PostAccepted
  <2> QED BY <1>4, <2>2, <2>3 DEF TypeOK, PostAccepted
<1>5. CASE PostFails(w)
  <2>1. job[w].row \in Rows
    BY <1>5, BusyJob DEF PostFails
  <2>2. tries' \in [Rows -> 0..MaxAttempts]
    BY <1>5, <2>1, CountTryType DEF PostFails
  <2> QED BY <1>5, <2>2 DEF TypeOK, PostFails
<1>6. CASE Reschedule(w)
  <2>1. job[w].row \in Rows
    BY <1>6, BusyJob DEF Reschedule
  <2> QED BY <1>6, <2>1, MarkTypes, BecomeIdleType DEF TypeOK, Reschedule
<1>7. CASE GiveUp(w)
  BY <1>7 DEF TypeOK, GiveUp
<1>8. CASE Settle(w)
  <2>1. job[w].row \in Rows
    BY <1>8, BusyJob DEF Settle
  <2> QED BY <1>8, <2>1, MarkTypes, BecomeIdleType DEF TypeOK, Settle
<1>9. CASE Postpone(w)
  <2>1. job[w].row \in Rows
    BY <1>9, BusyJob DEF Postpone
  <2> QED BY <1>9, <2>1, MarkTypes, BecomeIdleType DEF TypeOK, Postpone
<1> QED BY <1>1, <1>2, <1>3, <1>4, <1>5, <1>6, <1>7, <1>8, <1>9 DEF WorkerStep

LEMMA TypeFailure == TypeOK /\ Failure => TypeOK'
<1> SUFFICES ASSUME TypeOK, Failure PROVE TypeOK'
  OBVIOUS
<1>1. CASE Crash
  BY <1>1, ParametersAssumption DEF TypeOK, Crash
<1>2. CASE ClaimFails
  BY <1>2, ParametersAssumption DEF TypeOK, ClaimFails
<1>3. ASSUME NEW e \in Events, MarkTestFails(e) PROVE TypeOK'
  BY <1>3 DEF TypeOK, MarkTestFails
<1>4. ASSUME NEW w \in Workers, LoadError(w) PROVE TypeOK'
  BY <1>4 DEF TypeOK, LoadError
<1>5. ASSUME NEW w \in Workers, DecryptFails(w) PROVE TypeOK'
  <2>1. job[w].row \in Rows
    BY <1>5, BusyJob DEF DecryptFails
  <2>2. tries' \in [Rows -> 0..MaxAttempts]
    BY <1>5, <2>1, CountTryType DEF DecryptFails
  <2> QED BY <1>5, <2>2 DEF TypeOK, DecryptFails
<1>6. ASSUME NEW w \in Workers, RescheduleFails(w) PROVE TypeOK'
  BY <1>6 DEF TypeOK, RescheduleFails
<1>7. ASSUME NEW w \in Workers, StoreFails(w) PROVE TypeOK'
  BY <1>7, BecomeIdleType DEF TypeOK, StoreFails
<1> QED BY <1>1, <1>2, <1>3, <1>4, <1>5, <1>6, <1>7 DEF Failure

LEMMA TypeStep == TypeOK /\ [Next]_vars => TypeOK'
<1> SUFFICES ASSUME TypeOK, [Next]_vars PROVE TypeOK'
  OBVIOUS
<1>1. CASE UNCHANGED vars
  BY <1>1 DEF TypeOK, vars
<1> QED BY <1>1, TypeHandlers, TypeDrain, TypeWorker, TypeFailure DEF Next

\* Every variable keeps its type, whatever fails.
THEOREM TypeCorrect == Spec => []TypeOK
BY TypeInit, TypeStep, PTL DEF Spec
-----------------------------------------------------------------------------
(* The queue never overflows.  The invariant has to remember that the      *)
(* drainer either holds a limit or a batch, never both.                    *)

QueueInv ==
  /\ TypeOK
  /\ QueueNeverOverflows
  /\ room > 0 => DOMAIN batch = {}

LEMMA RowsFinite == IsFiniteSet(Rows)
BY FiniteAssumption, FS_Product DEF Rows

LEMMA BatchFinite ==
  ASSUME TypeOK
  PROVE  /\ IsFiniteSet(DOMAIN batch)
         /\ Cardinality(DOMAIN batch) \in Nat
         /\ Len(queue) \in Nat
<1>1. DOMAIN batch \subseteq Rows /\ queue \in Seq(Jobs)
  BY DEF TypeOK
<1> QED BY <1>1, RowsFinite, FS_Subset, FS_CardinalityType

\* A claim takes at most as many rows as the limit allows.
LEMMA ClaimSize ==
  ASSUME NEW n \in Nat, NEW S \in Claims(n)
  PROVE  S \subseteq Rows /\ S \subseteq Claimable /\ Cardinality(S) <= n
<1>1. S \subseteq Claimable /\ Claimable \subseteq Rows
  BY DEF Claims, Claimable
<1>2. IsFiniteSet(Claimable) /\ Cardinality(Claimable) \in Nat
  BY <1>1, RowsFinite, FS_Subset, FS_CardinalityType
<1>3. Cardinality(S) = Min2(n, Cardinality(Claimable))
  BY DEF Claims
<1> QED BY <1>1, <1>2, <1>3, Min2Bounds

LEMMA QueueInvInit == Init => QueueInv
<1> SUFFICES ASSUME Init PROVE QueueInv
  OBVIOUS
<1>1. DOMAIN batch = {} /\ queue = << >> /\ room = 0
  BY DEF Init
<1>2. Cardinality({}) = 0
  BY FS_EmptySet
<1> QED BY <1>1, <1>2, TypeInit, ParametersAssumption DEF QueueInv, QueueNeverOverflows

LEMMA QueueInvStep == QueueInv /\ TypeOK' /\ [Next]_vars => QueueInv'
<1> SUFFICES ASSUME QueueInv, TypeOK', [Next]_vars PROVE QueueInv'
  OBVIOUS
<1>t. /\ TypeOK
      /\ room \in Nat
      /\ Cardinality(DOMAIN batch) \in Nat
      /\ Len(queue) \in Nat
      /\ IsFiniteSet(DOMAIN batch)
      /\ Cardinality({}) = 0
  BY BatchFinite, FS_EmptySet DEF QueueInv, TypeOK
<1>1. CASE UNCHANGED <<room, batch, queue>>
  BY <1>1 DEF QueueInv, QueueNeverOverflows
<1>2. CASE DrainBegin
  <2>1. Cardinality(DOMAIN batch) = 0 /\ batch' = batch /\ queue' = queue
    BY <1>2, <1>t DEF DrainBegin
  <2>2. room' <= QueueCap - Len(queue) /\ DOMAIN batch' = {}
    BY <1>2, <1>t, ParametersAssumption, Min2Bounds DEF DrainBegin
  <2>3. room' \in Nat
    BY DEF TypeOK
  <2> QED BY <2>1, <2>2, <2>3, <1>t, ParametersAssumption
          DEF QueueInv, QueueNeverOverflows
<1>3. CASE ClaimPendingOutboxEvents
  <2>1. PICK S \in Claims(room) : batch' = [r \in S |-> NextAttempt(attempts[r])]
    BY <1>3 DEF ClaimPendingOutboxEvents
  <2>2. DOMAIN batch' = S /\ Cardinality(S) <= room
    BY <2>1, <1>t, ClaimSize
  <2>3. room' = 0 /\ queue' = queue /\ DOMAIN batch = {}
    BY <1>3, <1>t DEF ClaimPendingOutboxEvents, QueueInv
  <2>4. Cardinality(DOMAIN batch') \in Nat
    BY BatchFinite, <2>2, <1>t, FS_CardinalityType, FS_Subset, RowsFinite, ClaimSize, <2>1
  <2> QED BY <2>2, <2>3, <2>4, <1>t, ParametersAssumption
          DEF QueueInv, QueueNeverOverflows
<1>4. CASE ClaimFails
  BY <1>4, <1>t, ParametersAssumption DEF ClaimFails, QueueInv, QueueNeverOverflows
<1>5. ASSUME NEW r \in Rows, Enqueue(r) PROVE QueueInv'
  <2>1. r \in DOMAIN batch /\ DOMAIN batch' = DOMAIN batch \ {r} /\ room' = room
    BY <1>5 DEF Enqueue
  <2>2. Cardinality(DOMAIN batch') = Cardinality(DOMAIN batch) - 1
    BY <2>1, <1>t, FS_RemoveElement
  <2>3. Len(queue') \in {Len(queue), Len(queue) + 1}
    <3>1. queue \in Seq(Jobs)
      BY DEF TypeOK, QueueInv
    <3>2. queue' \in {queue, Append(queue, [row |-> r, attempt |-> batch[r]])}
      BY <1>5, ZenonT(30) DEF Enqueue
    <3> QED BY <3>1, <3>2
  <2> QED BY <2>1, <2>2, <2>3, <1>t, ParametersAssumption
          DEF QueueInv, QueueNeverOverflows
<1>6. ASSUME NEW w \in Workers, TakeJob(w) PROVE QueueInv'
  <2>1. queue \in Seq(Jobs) /\ queue # << >> /\ queue' = Tail(queue)
    BY <1>6, <1>t DEF TakeJob, TypeOK
  <2>2. Len(queue') = Len(queue) - 1
    BY <2>1
  <2>3. room' = room /\ batch' = batch
    BY <1>6 DEF TakeJob
  <2> QED BY <2>2, <2>3, <1>t, ParametersAssumption DEF QueueInv, QueueNeverOverflows
<1>7. CASE Crash
  <2>1. room' = 0 /\ DOMAIN batch' = {} /\ Len(queue') = 0
    BY <1>7 DEF Crash
  <2> QED BY <2>1, <1>t, ParametersAssumption DEF QueueInv, QueueNeverOverflows
<1>8. CASE Handlers
  <2>1. UNCHANGED <<room, batch, queue>>
    BY <1>8 DEF Handlers, CreateWebhook, UpdateWebhook, DeleteWebhook, EmitEvent,
      EmitTestEvent, MarkEventOutboxDelivered, PruneEvent
  <2> QED BY <2>1, <1>1
<1>9. CASE Clock
  BY <1>9, <1>1 DEF Clock, RetryTimeComes, LeaseExpires
<1>10. ASSUME NEW w \in Workers, WorkerStep(w), ~TakeJob(w) PROVE QueueInv'
  <2>1. UNCHANGED <<room, batch, queue>>
    BY <1>10 DEF WorkerStep, LoadLive, LoadUnwanted, PostAccepted, PostFails,
      Reschedule, GiveUp, Settle, Postpone
  <2> QED BY <2>1, <1>1
<1>11. CASE Failure /\ ~Crash /\ ~ClaimFails
  <2>1. UNCHANGED <<room, batch, queue>>
    BY <1>11 DEF Failure, MarkTestFails, LoadError, DecryptFails, RescheduleFails,
      StoreFails
  <2> QED BY <2>1, <1>1
<1>12. CASE UNCHANGED vars
  BY <1>12, <1>1 DEF vars
<1> QED BY <1>2, <1>3, <1>4, <1>5, <1>6, <1>7, <1>8, <1>9, <1>10, <1>11, <1>12
        DEF Next, Drain

THEOREM QueueInvariant == Spec => []QueueInv
<1>1. QueueInv /\ [Next]_vars => QueueInv'
  BY TypeStep, QueueInvStep DEF QueueInv
<1> QED BY QueueInvInit, <1>1, PTL DEF Spec

\* The limit the drainer read is still free when it queues what it claimed:
\* the "queue full" branch of drainWebhookOutbox is never taken.
THEOREM QueueNeverOverflowsCorrect == Spec => []QueueNeverOverflows
<1>1. QueueInv => QueueNeverOverflows
  BY DEF QueueInv
<1> QED BY QueueInvariant, <1>1, PTL
-----------------------------------------------------------------------------
(* Rows belong to stored events, and only test events are closed by their  *)
(* emitter.                                                                *)

EventInv ==
  /\ TypeOK
  /\ \A r \in Rows : event[r[1]] = "unborn" => status[r] = "none"
  /\ \A e \in unmarked : event[e] \in {"test", "pruned"}

LEMMA RowParts == ASSUME NEW r \in Rows PROVE r[1] \in Events /\ r[2] \in Hooks
BY DEF Rows

LEMMA EventInvInit == Init => EventInv
BY TypeInit, RowParts DEF Init, EventInv

\* A status update by row id does not touch a row that does not exist.
LEMMA MarkKeepsNone ==
  ASSUME EventInv, NEW q \in Rows, UNCHANGED <<event, unmarked>>, TypeOK',
         MarkOutboxPending(q) \/ MarkOutboxDelivered(q)
  PROVE  EventInv'
BY DEF EventInv, TypeOK, MarkOutboxPending, MarkOutboxDelivered, Exists

LEMMA EventInvStep == EventInv /\ TypeOK' /\ [Next]_vars => EventInv'
<1> SUFFICES ASSUME EventInv, TypeOK', [Next]_vars PROVE EventInv'
  OBVIOUS
<1>t. TypeOK
  BY DEF EventInv
<1>1. CASE UNCHANGED <<event, status, unmarked>>
  BY <1>1 DEF EventInv
<1>2. ASSUME NEW h \in Hooks, CreateWebhook(h) \/ UpdateWebhook(h) PROVE EventInv'
  BY <1>1, <1>2 DEF CreateWebhook, UpdateWebhook
<1>3. ASSUME NEW h \in Hooks, DeleteWebhook(h) PROVE EventInv'
  BY <1>3 DEF DeleteWebhook, DropRows, Exists, EventInv
<1>4. ASSUME NEW e \in Events, EmitEvent(e) PROVE EventInv'
  BY <1>4, <1>t, RowParts DEF EmitEvent, CreateEvent, EventInv, TypeOK
<1>5. ASSUME NEW e \in Events, EmitTestEvent(e) PROVE EventInv'
  BY <1>5, <1>t, RowParts DEF EmitTestEvent, CreateEvent, EventInv, TypeOK
<1>6. ASSUME NEW e \in Events, MarkEventOutboxDelivered(e) PROVE EventInv'
  BY <1>6 DEF MarkEventOutboxDelivered, Exists, EventInv
<1>7. ASSUME NEW e \in Events, PruneEvent(e) PROVE EventInv'
  BY <1>7, <1>t, RowParts DEF PruneEvent, DropRows, EventInv, TypeOK
<1>8. CASE Clock
  BY <1>8, <1>1 DEF Clock, RetryTimeComes, LeaseExpires
<1>9. CASE DrainBegin
  BY <1>9, <1>1 DEF DrainBegin
<1>10. CASE ClaimPendingOutboxEvents
  <2>1. PICK S \in Claims(room) :
          status' = [r \in Rows |-> IF r \in S THEN "processing" ELSE status[r]]
    BY <1>10 DEF ClaimPendingOutboxEvents
  <2>2. \A r \in S : status[r] # "none"
    BY DEF Claims, Claimable
  <2> QED BY <1>10, <2>1, <2>2 DEF ClaimPendingOutboxEvents, EventInv
<1>11. ASSUME NEW r \in Rows, Enqueue(r) PROVE EventInv'
  <2>1. UNCHANGED <<event, unmarked>>
    BY <1>11 DEF Enqueue
  <2>2. UNCHANGED status \/ MarkOutboxPending(r)
    BY <1>11 DEF Enqueue
  <2> QED BY <2>1, <2>2, <1>1, MarkKeepsNone
<1>12. ASSUME NEW w \in Workers, WorkerStep(w) PROVE EventInv'
  <2>1. CASE Reschedule(w) \/ Settle(w) \/ Postpone(w)
    <3>1. job[w].row \in Rows
      BY <2>1, <1>t, BusyJob DEF Reschedule, Settle, Postpone
    <3> QED BY <2>1, <3>1, MarkKeepsNone DEF Reschedule, Settle, Postpone
  <2>2. CASE ~(Reschedule(w) \/ Settle(w) \/ Postpone(w))
    <3>1. UNCHANGED <<event, status, unmarked>>
      BY <1>12, <2>2 DEF WorkerStep, TakeJob, LoadLive, LoadUnwanted, PostAccepted,
        PostFails, GiveUp
    <3> QED BY <3>1, <1>1
  <2> QED BY <2>1, <2>2
<1>13. CASE Crash
  BY <1>13 DEF Crash, EventInv
<1>14. ASSUME NEW e \in Events, MarkTestFails(e) PROVE EventInv'
  BY <1>14 DEF MarkTestFails, EventInv
<1>15. CASE Failure /\ ~Crash /\ ~\E e \in Events : MarkTestFails(e)
  <2>1. UNCHANGED <<event, status, unmarked>>
    BY <1>15 DEF Failure, ClaimFails, LoadError, DecryptFails, RescheduleFails,
      StoreFails
  <2> QED BY <2>1, <1>1
<1>16. CASE UNCHANGED vars
  BY <1>16, <1>1 DEF vars
<1> QED BY <1>2, <1>3, <1>4, <1>5, <1>6, <1>7, <1>8, <1>9, <1>10, <1>11, <1>12,
           <1>13, <1>14, <1>15, <1>16 DEF Next, Handlers, Drain

-----------------------------------------------------------------------------
(* At most one live job per row, as long as jobs are done within their     *)
(* lease.  Exclusion alone is not inductive: a row may only be claimed     *)
(* when no live job carries it, so a held row must not be claimable.       *)

HeldFresh ==
  \A r \in Rows : Held(r) =>
    \/ status[r] = "processing" /\ ~ripe[r]
    \/ status[r] = "gone"
    \/ status[r] = "delivered" /\ event[r[1]] # "ordinary"

ExclusionInv == QueueInv /\ EventInv /\ ExclusiveClaim /\ HeldFresh

LEMMA ExclusionInit == Init => ExclusionInv
<1> SUFFICES ASSUME Init PROVE ExclusionInv
  OBVIOUS
<1>1. DOMAIN batch = {} /\ queue = << >> /\ Busy = {} /\ \A w \in Workers : pc[w] = "idle"
  BY DEF Init, Busy
<1>2. \A r \in Rows : ~Held(r)
  BY <1>1 DEF Held
<1>3. ExclusiveClaim
  BY <1>1 DEF ExclusiveClaim
<1> QED BY <1>2, <1>3, QueueInvInit, EventInvInit DEF ExclusionInv, HeldFresh

\* Where the jobs are does not depend on the tables.
LEMMA MemoryFrame ==
  ASSUME UNCHANGED <<batch, queue, job>>,
         \A w \in Workers : pc'[w] = "idle" <=> pc[w] = "idle"
  PROVE  /\ \A r \in Rows : Held(r)' <=> Held(r)
         /\ ExclusiveClaim' <=> ExclusiveClaim
<1>1. \A r \in Rows : Held(r)' <=> Held(r)
  BY DEF Held
<1>2. Busy' = Busy
  BY DEF Busy
<1>3. ExclusiveClaim' <=> ExclusiveClaim
  BY <1>2 DEF ExclusiveClaim
<1> QED BY <1>1, <1>3

\* Steps that leave the jobs where they are: handlers, clock and failures.
LEMMA TableSteps ==
  ASSUME "slow" \notin Faults, ExclusionInv, EventInv',
         Handlers \/ Clock
  PROVE  ExclusiveClaim' /\ HeldFresh'
<1>t. TypeOK
  BY DEF ExclusionInv, EventInv
<1>m. UNCHANGED <<batch, queue, job, pc>>
  BY DEF Handlers, Clock, CreateWebhook, UpdateWebhook, DeleteWebhook, EmitEvent,
    EmitTestEvent, MarkEventOutboxDelivered, PruneEvent, RetryTimeComes, LeaseExpires
<1>h. /\ \A r \in Rows : Held(r)' <=> Held(r)
      /\ ExclusiveClaim'
  BY <1>m, MemoryFrame DEF ExclusionInv
<1> SUFFICES ASSUME NEW r \in Rows, Held(r)
             PROVE  \/ status'[r] = "processing" /\ ~ripe'[r]
                    \/ status'[r] = "gone"
                    \/ status'[r] = "delivered" /\ event'[r[1]] # "ordinary"
  BY <1>h DEF HeldFresh
<1>p. r[1] \in Events /\ r[2] \in Hooks
  BY RowParts
<1>f. \/ status[r] = "processing" /\ ~ripe[r]
      \/ status[r] = "gone"
      \/ status[r] = "delivered" /\ event[r[1]] # "ordinary"
  BY DEF ExclusionInv, HeldFresh
<1>u. event[r[1]] # "unborn"
  BY <1>f DEF ExclusionInv, EventInv
<1>1. ASSUME NEW h \in Hooks, CreateWebhook(h) \/ UpdateWebhook(h)
      PROVE  UNCHANGED <<status, ripe, event>>
  BY <1>1 DEF CreateWebhook, UpdateWebhook
<1>2. ASSUME NEW S \in SUBSET Rows, DropRows(S)
      PROVE  \/ status'[r] = "gone"
             \/ status'[r] = status[r] /\ ripe'[r] = ripe[r]
  BY <1>2, <1>f, <1>t DEF DropRows, Exists, TypeOK
<1>3. ASSUME NEW h \in Hooks, DeleteWebhook(h)
      PROVE  \/ status'[r] = "gone"
             \/ status'[r] = status[r] /\ ripe'[r] = ripe[r] /\ event' = event
  BY <1>2, <1>3 DEF DeleteWebhook
<1>4. ASSUME NEW e \in Events, PruneEvent(e)
      PROVE  \/ status'[r] = "gone"
             \/ /\ status'[r] = status[r] /\ ripe'[r] = ripe[r]
                /\ event'[r[1]] = event[r[1]]
  <2>1. CASE r[1] = e
    <3>1. status'[r] = "gone"
      BY <1>4, <1>f, <2>1 DEF PruneEvent, DropRows, Exists
    <3> QED BY <3>1
  <2>2. CASE r[1] # e
    BY <1>2, <1>4, <1>p, <1>t, <2>2 DEF PruneEvent, TypeOK
  <2> QED BY <2>1, <2>2
<1>5. ASSUME NEW e \in Events, NEW c, CreateEvent(e, c)
      PROVE  /\ status'[r] = status[r]
             /\ ripe'[r] = ripe[r]
             /\ event'[r[1]] = event[r[1]]
  <2>1. r[1] # e
    BY <1>5, <1>u DEF CreateEvent
  <2> QED BY <1>5, <2>1, <1>p, <1>t DEF CreateEvent, TypeOK
<1>6. ASSUME NEW e \in Events, MarkEventOutboxDelivered(e)
      PROVE  /\ event' = event
             /\ \/ status'[r] = "delivered" /\ event[r[1]] # "ordinary"
                \/ status'[r] = status[r] /\ ripe'[r] = ripe[r]
  <2>1. event[e] # "ordinary"
    BY <1>6 DEF MarkEventOutboxDelivered, ExclusionInv, EventInv
  <2> QED BY <1>6, <2>1, <1>t DEF MarkEventOutboxDelivered, TypeOK
<1>7. ASSUME NEW q \in Rows, RetryTimeComes(q) \/ LeaseExpires(q)
      PROVE  status' = status /\ ripe'[r] = ripe[r] /\ event' = event
  <2>1. q # r
    BY <1>7, <1>f DEF RetryTimeComes, LeaseExpires
  <2> QED BY <1>7, <2>1, <1>t DEF RetryTimeComes, LeaseExpires, TypeOK
<1> QED BY <1>f, <1>1, <1>3, <1>4, <1>5, <1>6, <1>7
        DEF Handlers, Clock, EmitEvent, EmitTestEvent

\* Steps of the drainer.
LEMMA DrainSteps ==
  ASSUME ExclusionInv, TypeOK', Drain
  PROVE  ExclusiveClaim' /\ HeldFresh'
<1>t. TypeOK /\ queue \in Seq(Jobs)
  BY DEF ExclusionInv, EventInv, TypeOK
<1>1. CASE DrainBegin
  <2>1. UNCHANGED <<batch, queue, job, pc, status, ripe, event>>
    BY <1>1 DEF DrainBegin
  <2> QED BY <2>1, MemoryFrame DEF ExclusionInv, HeldFresh
<1>2. CASE ClaimPendingOutboxEvents
  <2>1. PICK S \in Claims(room) :
          /\ status' = [r \in Rows |-> IF r \in S THEN "processing" ELSE status[r]]
          /\ ripe' = [r \in Rows |-> ripe[r] /\ r \notin S]
          /\ batch' = [r \in S |-> NextAttempt(attempts[r])]
    BY <1>2 DEF ClaimPendingOutboxEvents
  <2>2. S \subseteq Claimable /\ DOMAIN batch = {} /\ DOMAIN batch' = S
    BY <1>2, <2>1 DEF Claims, ExclusionInv, QueueInv, ClaimPendingOutboxEvents
  <2>3. UNCHANGED <<queue, job, pc, event>> /\ Busy' = Busy
    BY <1>2 DEF ClaimPendingOutboxEvents, Busy
  <2>4. \A r \in S : ~Held(r)
    BY <2>2 DEF Claimable, ExclusionInv, HeldFresh
  <2>5. \A r \in Rows : Held(r)' <=> (r \in S \/ Held(r))
    BY <2>2, <2>3 DEF Held
  <2>6. \A r \in S : /\ \A i \in 1..Len(queue) : queue[i].row # r
                     /\ \A w \in Busy : job[w].row # r
    BY <2>4 DEF Held, Busy
  <2>7. ExclusiveClaim'
    <3>1. ExclusiveClaim
      BY DEF ExclusionInv
    <3> QED BY <2>2, <2>3, <2>6, <3>1 DEF ExclusiveClaim
  <2>8. HeldFresh'
    <3> SUFFICES ASSUME NEW r \in Rows, Held(r)'
                 PROVE  \/ status'[r] = "processing" /\ ~ripe'[r]
                        \/ status'[r] = "gone"
                        \/ status'[r] = "delivered" /\ event'[r[1]] # "ordinary"
      BY DEF HeldFresh
    <3>1. CASE r \in S
      BY <2>1, <3>1
    <3>2. CASE r \notin S
      BY <2>1, <2>3, <2>5, <3>2 DEF ExclusionInv, HeldFresh
    <3> QED BY <3>1, <3>2
  <2> QED BY <2>7, <2>8
<1>3. ASSUME NEW q \in Rows, Enqueue(q) PROVE ExclusiveClaim' /\ HeldFresh'
  <2> DEFINE new == [row |-> q, attempt |-> batch[q]]
  <2>0. /\ q \in DOMAIN batch
        /\ batch' = [p \in DOMAIN batch \ {q} |-> batch[p]]
        /\ UNCHANGED <<pc, job, event>>
    BY <1>3 DEF Enqueue
  <2>1. /\ q \in DOMAIN batch
        /\ DOMAIN batch' = DOMAIN batch \ {q}
        /\ UNCHANGED <<pc, job, event>>
        /\ Busy' = Busy
    BY <2>0 DEF Busy
  <2>2. QueueNeverOverflows /\ TypeOK
    BY DEF ExclusionInv, QueueInv
  <2>3. Cardinality(DOMAIN batch) \in Nat \ {0}
    BY <2>1, <2>2, BatchFinite, FS_EmptySet
  <2>4. Len(queue) < QueueCap
    <3>1. Len(queue) \in Nat /\ room \in Nat /\ QueueCap \in Nat
      BY <2>2, ParametersAssumption, BatchFinite DEF TypeOK
    <3>2. room + Cardinality(DOMAIN batch) + Len(queue) <= QueueCap
      BY <2>2 DEF QueueNeverOverflows
    <3> QED BY <2>3, <3>1, <3>2
  <2>5. queue' = Append(queue, new) /\ UNCHANGED <<status, ripe>>
    BY <1>3, <2>4 DEF Enqueue
  <2>6. /\ Len(queue') = Len(queue) + 1
        /\ \A i \in 1..Len(queue) : queue'[i] = queue[i]
        /\ queue'[Len(queue) + 1] = new
    BY <1>t, <2>5
  <2>7. \A i \in 1..Len(queue') : queue'[i].row = q \/ i \in 1..Len(queue)
    BY <2>6, <1>t
  <2>8. \A r \in Rows : Held(r)' => Held(r)
    BY <2>1, <2>6, <2>7 DEF Held
  <2>9. HeldFresh'
    BY <2>1, <2>5, <2>8 DEF HeldFresh, ExclusionInv
  <2>10. ExclusiveClaim
    BY DEF ExclusionInv
  <2>11. /\ \A i \in 1..Len(queue) : queue[i].row # q
         /\ \A w \in Busy : job[w].row # q
    BY <2>1, <2>10 DEF ExclusiveClaim
  <2>12. \A i, j \in 1..Len(queue') : queue'[i].row = queue'[j].row => i = j
    BY <1>t, <2>6, <2>10, <2>11 DEF ExclusiveClaim
  <2>13. \A i \in 1..Len(queue') : queue'[i].row \notin DOMAIN batch'
    BY <1>t, <2>1, <2>6, <2>10 DEF ExclusiveClaim
  <2>14. \A w \in Busy : /\ job[w].row \notin DOMAIN batch'
                         /\ \A i \in 1..Len(queue') : queue'[i].row # job[w].row
    BY <1>t, <2>1, <2>6, <2>10, <2>11 DEF ExclusiveClaim
  <2>15. ExclusiveClaim'
    BY <2>1, <2>10, <2>12, <2>13, <2>14 DEF ExclusiveClaim
  <2> QED BY <2>9, <2>15
<1> QED BY <1>1, <1>2, <1>3 DEF Drain

\* A worker puts its job down, having updated at most the row of that job.
LEMMA ReleaseStep ==
  ASSUME ExclusionInv, NEW w \in Workers, pc[w] # "idle", BecomeIdle(w),
         UNCHANGED <<batch, queue, event>>,
         \/ UNCHANGED <<status, ripe>>
         \/ MarkOutboxPending(job[w].row)
         \/ MarkOutboxDelivered(job[w].row)
  PROVE  ExclusiveClaim' /\ HeldFresh'
<1>t. TypeOK
  BY DEF ExclusionInv, EventInv
<1>1. /\ \A v \in Workers \ {w} : pc'[v] = pc[v] /\ job'[v] = job[v]
      /\ pc'[w] = "idle"
  BY <1>t DEF BecomeIdle, TypeOK
<1>2. w \in Busy /\ Busy' = Busy \ {w}
  BY <1>1 DEF Busy
<1>3. ExclusiveClaim
  BY DEF ExclusionInv
<1>4. ExclusiveClaim'
  BY <1>1, <1>2, <1>3 DEF ExclusiveClaim, Busy
<1>5. \A r \in Rows : Held(r)' => Held(r) /\ r # job[w].row
  BY <1>1, <1>2, <1>3 DEF Held, ExclusiveClaim, Busy
<1>6. \A r \in Rows : r # job[w].row => status'[r] = status[r] /\ ripe'[r] = ripe[r]
  BY <1>t DEF MarkOutboxPending, MarkOutboxDelivered, TypeOK
<1>7. HeldFresh'
  BY <1>5, <1>6 DEF HeldFresh, ExclusionInv
<1> QED BY <1>4, <1>7

LEMMA TakeStep ==
  ASSUME ExclusionInv, NEW w \in Workers, TakeJob(w)
  PROVE  ExclusiveClaim' /\ HeldFresh'
<1>t. TypeOK /\ queue \in Seq(Jobs) /\ queue # << >>
  BY DEF ExclusionInv, EventInv, TypeOK, TakeJob
<1>1. /\ \A v \in Workers \ {w} : pc'[v] = pc[v] /\ job'[v] = job[v]
      /\ pc'[w] = "load" /\ job'[w] = queue[1]
      /\ UNCHANGED <<batch, status, ripe, event>>
      /\ queue' = Tail(queue)
  BY <1>t DEF TakeJob, TypeOK
<1>2. /\ Len(queue') = Len(queue) - 1
      /\ \A i \in 1..Len(queue') : queue'[i] = queue[i + 1] /\ i + 1 \in 1..Len(queue)
      /\ 1 \in 1..Len(queue)
      /\ Len(queue) \in Nat
  BY <1>t, <1>1
<1>3. w \notin Busy /\ Busy' = Busy \cup {w}
  BY <1>1 DEF Busy, TakeJob
<1>4. ExclusiveClaim
  BY DEF ExclusionInv
<1>5. \A i \in 1..Len(queue') : queue'[i].row # queue[1].row
  BY <1>2, <1>4 DEF ExclusiveClaim
<1>6. /\ queue[1].row \notin DOMAIN batch
      /\ \A v \in Busy : job[v].row # queue[1].row
  BY <1>2, <1>4 DEF ExclusiveClaim
<1>7. \A v \in Busy : v # w /\ job'[v] = job[v]
  BY <1>1, <1>3 DEF Busy
<1>8. ExclusiveClaim'
  <2>1. \A i, j \in 1..Len(queue') : queue'[i].row = queue'[j].row => i = j
    <3> SUFFICES ASSUME NEW i \in 1..Len(queue'), NEW j \in 1..Len(queue'),
                        queue'[i].row = queue'[j].row
                 PROVE  i = j
      OBVIOUS
    <3>1. i + 1 = j + 1
      BY <1>2, <1>4 DEF ExclusiveClaim
    <3> QED BY <1>2, <3>1
  <2>2. \A i \in 1..Len(queue') : queue'[i].row \notin DOMAIN batch'
    BY <1>1, <1>2, <1>4 DEF ExclusiveClaim
  <2>3. \A v \in Busy' : /\ job'[v].row \notin DOMAIN batch'
                         /\ \A i \in 1..Len(queue') : queue'[i].row # job'[v].row
    BY <1>1, <1>2, <1>3, <1>4, <1>5, <1>6, <1>7 DEF ExclusiveClaim
  <2>4. \A u, v \in Busy' : job'[v].row = job'[u].row => v = u
    BY <1>1, <1>3, <1>4, <1>6, <1>7 DEF ExclusiveClaim
  <2> QED BY <2>1, <2>2, <2>3, <2>4 DEF ExclusiveClaim
<1>9. \A r \in Rows : Held(r)' => Held(r)
  BY <1>1, <1>2 DEF Held
<1>10. HeldFresh'
  BY <1>1, <1>9 DEF HeldFresh, ExclusionInv
<1> QED BY <1>8, <1>10

LEMMA WorkerSteps ==
  ASSUME ExclusionInv, NEW w \in Workers, WorkerStep(w)
  PROVE  ExclusiveClaim' /\ HeldFresh'
<1>t. TypeOK
  BY DEF ExclusionInv, EventInv
<1>1. CASE TakeJob(w)
  BY <1>1, TakeStep
<1>2. CASE Reschedule(w) \/ Settle(w) \/ Postpone(w)
  BY <1>2, ReleaseStep DEF Reschedule, Settle, Postpone
<1>3. CASE LoadLive(w) \/ LoadUnwanted(w) \/ PostAccepted(w) \/ PostFails(w) \/ GiveUp(w)
  <2>1. /\ UNCHANGED <<batch, queue, job, status, ripe, event>>
        /\ \A v \in Workers : pc'[v] = "idle" <=> pc[v] = "idle"
    BY <1>3, <1>t DEF LoadLive, LoadUnwanted, PostAccepted, PostFails, GiveUp, TypeOK
  <2> QED BY <2>1, MemoryFrame DEF ExclusionInv, HeldFresh
<1> QED BY <1>1, <1>2, <1>3 DEF WorkerStep

LEMMA FailureSteps ==
  ASSUME ExclusionInv, Failure
  PROVE  ExclusiveClaim' /\ HeldFresh'
<1>t. TypeOK
  BY DEF ExclusionInv, EventInv
<1>1. CASE Crash
  <2>1. /\ DOMAIN batch' = {} /\ Len(queue') = 0
        /\ \A w \in Workers : pc'[w] = "idle"
    BY <1>1 DEF Crash
  <2>2. Busy' = {} /\ \A r \in Rows : ~Held(r)'
    BY <2>1 DEF Busy, Held
  <2> QED BY <2>1, <2>2 DEF ExclusiveClaim, HeldFresh
<1>2. ASSUME NEW w \in Workers, StoreFails(w) PROVE ExclusiveClaim' /\ HeldFresh'
  BY <1>2, ReleaseStep DEF StoreFails
<1>3. ASSUME NEW w \in Workers, LoadError(w) \/ DecryptFails(w) \/ RescheduleFails(w)
      PROVE  ExclusiveClaim' /\ HeldFresh'
  <2>1. /\ UNCHANGED <<batch, queue, job, status, ripe, event>>
        /\ \A v \in Workers : pc'[v] = "idle" <=> pc[v] = "idle"
    BY <1>3, <1>t DEF LoadError, DecryptFails, RescheduleFails, TypeOK
  <2> QED BY <2>1, MemoryFrame DEF ExclusionInv, HeldFresh
<1>4. CASE ClaimFails \/ \E e \in Events : MarkTestFails(e)
  <2>1. UNCHANGED <<batch, queue, job, pc, status, ripe, event>>
    BY <1>4 DEF ClaimFails, MarkTestFails
  <2> QED BY <2>1, MemoryFrame DEF ExclusionInv, HeldFresh
<1> QED BY <1>1, <1>2, <1>3, <1>4 DEF Failure

LEMMA ExclusionStep ==
  "slow" \notin Faults => (ExclusionInv /\ [Next]_vars => ExclusionInv')
<1> SUFFICES ASSUME "slow" \notin Faults, ExclusionInv, [Next]_vars
             PROVE  ExclusionInv'
  OBVIOUS
<1>1. TypeOK' /\ QueueInv' /\ EventInv'
  BY TypeStep, QueueInvStep, EventInvStep DEF ExclusionInv, EventInv
<1>2. CASE UNCHANGED vars
  <2>1. UNCHANGED <<batch, queue, job, pc, status, ripe, event>>
    BY <1>2 DEF vars
  <2> QED BY <1>1, <2>1, MemoryFrame DEF ExclusionInv, HeldFresh
<1>3. (ExclusiveClaim' /\ HeldFresh') \/ UNCHANGED vars
  BY <1>1, TableSteps, DrainSteps, WorkerSteps, FailureSteps DEF Next
<1> QED BY <1>1, <1>2, <1>3 DEF ExclusionInv

\* Whatever crashes or fails, two workers never deliver the same event to the
\* same webhook at once, as long as every job is done within its lease.
THEOREM ExclusiveClaimCorrect ==
  ASSUME "slow" \notin Faults
  PROVE  Spec => []ExclusiveClaim
<1>1. Init => ExclusionInv
  BY ExclusionInit
<1>2. ExclusionInv /\ [Next]_vars => ExclusionInv'
  BY ExclusionStep
<1>3. ExclusionInv => ExclusiveClaim
  BY DEF ExclusionInv
<1> QED BY <1>1, <1>2, <1>3, PTL DEF Spec

-----------------------------------------------------------------------------
(* A claim is spent once, even when leases expire under live jobs.  Claims  *)
(* are told apart by their attempt numbers, so the invariant keeps a live   *)
(* job's number below the row's counter; and it counts the jobs yet to be   *)
(* tried with the tries made, since a try is only made for such a job.      *)

\* The job is in the batch, in the queue, or with a worker.
Live(j) ==
  \/ j.row \in DOMAIN batch /\ batch[j.row] = j.attempt
  \/ \E i \in 1..Len(queue) : queue[i] = j
  \/ \E w \in Workers : pc[w] # "idle" /\ job[w] = j

\* The same, and no worker is past its request.
Untried(j) ==
  \/ j.row \in DOMAIN batch /\ batch[j.row] = j.attempt
  \/ \E i \in 1..Len(queue) : queue[i] = j
  \/ \E w \in Workers : pc[w] \in {"load", "post"} /\ job[w] = j

\* The attempts a row still has before it.
Open(r) == {a \in 1..attempts[r] : Untried([row |-> r, attempt |-> a])}

ClaimInv ==
  /\ TypeOK
  /\ ClaimDispatchedOnce
  /\ \A j \in Jobs : Live(j) => j.attempt <= attempts[j.row]
  /\ \A r \in Rows : attempts[r] < MaxAttempts =>
       tries[r] + Cardinality(Open(r)) <= attempts[r]

LEMMA OpenFinite ==
  ASSUME TypeOK, NEW r \in Rows
  PROVE  /\ IsFiniteSet(Open(r)) /\ Cardinality(Open(r)) \in Nat
         /\ attempts[r] \in Nat /\ tries[r] \in Nat /\ MaxAttempts \in Nat
<1>1. attempts[r] \in Nat /\ tries[r] \in Nat /\ MaxAttempts \in Nat
  BY ParametersAssumption DEF TypeOK
<1>2. IsFiniteSet(1..attempts[r]) /\ Open(r) \subseteq 1..attempts[r]
  BY <1>1, FS_Interval DEF Open
<1> QED BY <1>1, <1>2, FS_Subset, FS_CardinalityType

LEMMA ClaimInit == Init => ClaimInv
<1> SUFFICES ASSUME Init PROVE ClaimInv
  OBVIOUS
<1>1. DOMAIN batch = {} /\ Len(queue) = 0 /\ \A w \in Workers : pc[w] = "idle"
  BY DEF Init
<1>2. \A j : ~Live(j) /\ ~Untried(j)
  BY <1>1 DEF Live, Untried
<1>3. ClaimDispatchedOnce
  BY <1>1 DEF ClaimDispatchedOnce, Busy
<1>4. \A r \in Rows : Open(r) = {} /\ attempts[r] = 0 /\ tries[r] = 0
  BY <1>2 DEF Open, Init
<1> QED BY <1>2, <1>3, <1>4, TypeInit, FS_EmptySet DEF ClaimInv

\* No job comes into being.
NoneNew == \A j \in Jobs : (Live(j)' => Live(j)) /\ (Untried(j)' => Untried(j))

\* Fewer attempts are open, as many are counted.
LEMMA OpenShrinks ==
  ASSUME TypeOK, TypeOK', NEW r \in Rows, attempts'[r] = attempts[r], NoneNew
  PROVE  /\ Open(r)' \subseteq Open(r)
         /\ Cardinality(Open(r)') <= Cardinality(Open(r))
<1>1. ASSUME NEW a \in Open(r)' PROVE a \in Open(r)
  <2>1. a \in 1..attempts[r] /\ a \in Attempts
    BY ParametersAssumption DEF Open, TypeOK, Attempts
  <2>2. [row |-> r, attempt |-> a] \in Jobs
    BY <2>1 DEF Jobs
  <2> QED BY <2>1, <2>2 DEF Open, NoneNew
<1> QED BY <1>1, OpenFinite, FS_Subset

LEMMA FewerKeep ==
  ASSUME ClaimInv, TypeOK', NoneNew, ClaimDispatchedOnce', UNCHANGED <<attempts, tries>>
  PROVE  ClaimInv'
<1>1. TypeOK
  BY DEF ClaimInv
<1>2. \A j \in Jobs : Live(j)' => j.attempt <= attempts'[j.row]
  BY DEF ClaimInv, NoneNew
<1>3. ASSUME NEW r \in Rows, attempts'[r] < MaxAttempts
      PROVE  tries'[r] + Cardinality(Open(r)') <= attempts'[r]
  <2>1. tries[r] + Cardinality(Open(r)) <= attempts[r]
    BY <1>3 DEF ClaimInv
  <2>2. /\ Cardinality(Open(r)') <= Cardinality(Open(r))
        /\ Cardinality(Open(r)') \in Nat
    <3>1. Cardinality(Open(r)') \in Nat
      <4>1. Open(r)' \subseteq Open(r)
        BY <1>1, OpenShrinks
      <4> QED BY <1>1, <4>1, OpenFinite, FS_Subset, FS_CardinalityType
    <3> QED BY <1>1, <3>1, OpenShrinks
  <2> QED BY <1>1, <2>1, <2>2, OpenFinite
<1> QED BY <1>2, <1>3 DEF ClaimInv

\* The jobs stay where they are.
LEMMA FrameFewer ==
  ASSUME UNCHANGED <<batch, queue, job>>,
         \A w \in Workers : pc'[w] = "idle" <=> pc[w] = "idle",
         \A w \in Workers : pc'[w] \in {"load", "post"} => pc[w] \in {"load", "post"}
  PROVE  NoneNew /\ (ClaimDispatchedOnce => ClaimDispatchedOnce')
<1>1. Busy' = Busy
  BY DEF Busy
<1>2. ClaimDispatchedOnce => ClaimDispatchedOnce'
  BY <1>1 DEF ClaimDispatchedOnce
<1> QED BY <1>2 DEF NoneNew, Live, Untried

\* A worker puts its job down.
LEMMA ReleaseFewer ==
  ASSUME TypeOK, ClaimDispatchedOnce, NEW w \in Workers, BecomeIdle(w),
         UNCHANGED <<batch, queue>>
  PROVE  NoneNew /\ ClaimDispatchedOnce'
<1>1. /\ \A v \in Workers \ {w} : pc'[v] = pc[v] /\ job'[v] = job[v]
      /\ pc'[w] = "idle"
  BY DEF BecomeIdle, TypeOK
<1>2. Busy' = Busy \ {w}
  BY <1>1 DEF Busy
<1>3. \A v \in Busy' : v \in Busy /\ job'[v] = job[v]
  BY <1>1, <1>2 DEF Busy
<1>4. ClaimDispatchedOnce'
  BY <1>3 DEF ClaimDispatchedOnce
<1> QED BY <1>1, <1>4 DEF NoneNew, Live, Untried

\* A job passes from the queue to a worker.
LEMMA TakeFewer ==
  ASSUME TypeOK, ClaimDispatchedOnce, NEW w \in Workers, TakeJob(w)
  PROVE  NoneNew /\ ClaimDispatchedOnce'
<1>t. queue \in Seq(Jobs) /\ queue # << >>
  BY DEF TypeOK, TakeJob
<1>1. /\ \A v \in Workers \ {w} : pc'[v] = pc[v] /\ job'[v] = job[v]
      /\ pc[w] = "idle" /\ pc'[w] = "load" /\ job'[w] = queue[1]
      /\ batch' = batch /\ queue' = Tail(queue)
  BY <1>t DEF TakeJob, TypeOK
<1>2. /\ Len(queue') = Len(queue) - 1
      /\ \A i \in 1..Len(queue') : queue'[i] = queue[i + 1] /\ i + 1 \in 1..Len(queue)
      /\ 1 \in 1..Len(queue)
      /\ Len(queue) \in Nat
  BY <1>t, <1>1
<1>3. Busy' = Busy \cup {w} /\ \A v \in Busy : v # w /\ job'[v] = job[v]
  BY <1>1 DEF Busy
<1>4. NoneNew
  <2> SUFFICES ASSUME NEW j \in Jobs
               PROVE  (Live(j)' => Live(j)) /\ (Untried(j)' => Untried(j))
    BY DEF NoneNew
  <2>1. ASSUME NEW i \in 1..Len(queue'), queue'[i] = j
        PROVE  \E k \in 1..Len(queue) : queue[k] = j
    BY <1>2, <2>1
  <2>2. ASSUME NEW v \in Workers, job'[v] = j
        PROVE  \/ \E k \in 1..Len(queue) : queue[k] = j
               \/ job[v] = j /\ pc'[v] = pc[v]
    BY <1>1, <1>2, <2>2
  <2> QED BY <1>1, <2>1, <2>2 DEF Live, Untried
<1>5. ClaimDispatchedOnce'
  <2> USE DEF ClaimDispatchedOnce
  <2>1. \A i, j \in 1..Len(queue') :
          queue'[i] = queue'[j] /\ queue'[i].attempt < MaxAttempts => i = j
    <3> SUFFICES ASSUME NEW i \in 1..Len(queue'), NEW j \in 1..Len(queue'),
                        queue'[i] = queue'[j], queue'[i].attempt < MaxAttempts
                 PROVE  i = j
      OBVIOUS
    <3>1. i + 1 = j + 1
      BY <1>2
    <3> QED BY <1>2, <3>1
  <2>2. \A r \in DOMAIN batch' : batch'[r] < MaxAttempts =>
          /\ \A i \in 1..Len(queue') : queue'[i] # [row |-> r, attempt |-> batch'[r]]
          /\ \A v \in Busy' : job'[v] # [row |-> r, attempt |-> batch'[r]]
    BY <1>1, <1>2, <1>3
  <2>3. queue[1].attempt < MaxAttempts =>
          /\ \A i \in 1..Len(queue') : queue'[i] # queue[1]
          /\ \A v \in Busy : job[v] # queue[1]
    <3>1. ASSUME NEW i \in 1..Len(queue'), queue'[i] = queue[1],
                 queue[1].attempt < MaxAttempts
          PROVE  FALSE
      <4>1. i + 1 = 1
        BY <1>2, <3>1
      <4> QED BY <1>2, <4>1
    <3>2. ASSUME NEW v \in Busy, job[v] = queue[1], queue[1].attempt < MaxAttempts
          PROVE  FALSE
      BY <1>2, <3>2
    <3> QED BY <3>1, <3>2
  <2>4. \A v \in Busy' : job'[v].attempt < MaxAttempts =>
          /\ \A i \in 1..Len(queue') : queue'[i] # job'[v]
          /\ \A u \in Busy' : job'[u] = job'[v] => u = v
    <3> SUFFICES ASSUME NEW v \in Busy', job'[v].attempt < MaxAttempts
                 PROVE  /\ \A i \in 1..Len(queue') : queue'[i] # job'[v]
                        /\ \A u \in Busy' : job'[u] = job'[v] => u = v
      OBVIOUS
    <3>1. CASE v = w
      BY <1>1, <1>3, <2>3, <3>1
    <3>2. CASE v # w
      <4>1. v \in Busy /\ job'[v] = job[v]
        BY <1>3, <3>2
      <4>2. job[v] # queue[1]
        BY <2>3, <4>1
      <4> QED BY <1>1, <1>2, <1>3, <4>1, <4>2
    <3> QED BY <3>1, <3>2
  <2> QED BY <2>1, <2>2, <2>4
<1> QED BY <1>4, <1>5

\* A claimed row passes from the batch to the queue, or is sent back.
LEMMA EnqueueFewer ==
  ASSUME TypeOK, ClaimDispatchedOnce, NEW q \in Rows, Enqueue(q)
  PROVE  NoneNew /\ ClaimDispatchedOnce'
<1> DEFINE new == [row |-> q, attempt |-> batch[q]]
<1>t. queue \in Seq(Jobs)
  BY DEF TypeOK
<1>0. /\ q \in DOMAIN batch
      /\ batch' = [p \in DOMAIN batch \ {q} |-> batch[p]]
      /\ UNCHANGED <<pc, job>>
  BY DEF Enqueue
<1>1. /\ q \in DOMAIN batch
      /\ DOMAIN batch' = DOMAIN batch \ {q}
      /\ \A p \in DOMAIN batch' : batch'[p] = batch[p]
      /\ UNCHANGED <<pc, job>> /\ Busy' = Busy
      /\ new.row = q /\ new.attempt = batch[q]
  BY <1>0 DEF Busy
<1>2. CASE UNCHANGED queue
  BY <1>1, <1>2 DEF NoneNew, Live, Untried, ClaimDispatchedOnce
<1>3. CASE queue' = Append(queue, new)
  <2>1. new \in Jobs /\ Len(queue) \in Nat
    BY <1>1, <1>t DEF TypeOK, Jobs
  <2>2. /\ Len(queue') = Len(queue) + 1
        /\ \A i \in 1..Len(queue) : queue'[i] = queue[i]
        /\ queue'[Len(queue) + 1] = new
    BY <1>t, <1>3, <2>1
  <2>3. \A i \in 1..Len(queue') : i \in 1..Len(queue) \/ i = Len(queue) + 1
    BY <2>1, <2>2
  <2>4. NoneNew
    <3> SUFFICES ASSUME NEW j \in Jobs, NEW i \in 1..Len(queue'), queue'[i] = j
                 PROVE  \/ j.row \in DOMAIN batch /\ batch[j.row] = j.attempt
                        \/ \E k \in 1..Len(queue) : queue[k] = j
      BY <1>1 DEF NoneNew, Live, Untried
    <3> QED BY <1>1, <2>2, <2>3
  <2>5. new.attempt < MaxAttempts =>
          /\ \A i \in 1..Len(queue) : queue[i] # new
          /\ \A w \in Busy : job[w] # new
    BY <1>1 DEF ClaimDispatchedOnce
  <2>6. \A i, j \in 1..Len(queue') :
          queue'[i] = queue'[j] /\ queue'[i].attempt < MaxAttempts => i = j
    BY <2>2, <2>3, <2>5 DEF ClaimDispatchedOnce
  <2>7. ASSUME NEW r \in DOMAIN batch', batch'[r] < MaxAttempts
        PROVE  /\ \A i \in 1..Len(queue') : queue'[i] # [row |-> r, attempt |-> batch'[r]]
               /\ \A w \in Busy' : job'[w] # [row |-> r, attempt |-> batch'[r]]
    <3>1. r # q /\ r \in DOMAIN batch /\ batch'[r] = batch[r]
      BY <1>1, <2>7
    <3>2. /\ \A i \in 1..Len(queue) : queue[i] # [row |-> r, attempt |-> batch[r]]
          /\ \A w \in Busy : job[w] # [row |-> r, attempt |-> batch[r]]
      BY <2>7, <3>1 DEF ClaimDispatchedOnce
    <3>3. new # [row |-> r, attempt |-> batch[r]]
      BY <3>1
    <3> QED BY <1>1, <2>2, <2>3, <3>1, <3>2, <3>3
  <2>8. \A w \in Busy : job[w].attempt < MaxAttempts =>
          \A i \in 1..Len(queue') : queue'[i] # job[w]
    BY <2>2, <2>3, <2>5 DEF ClaimDispatchedOnce
  <2>9. ClaimDispatchedOnce'
    BY <1>1, <2>6, <2>7, <2>8 DEF ClaimDispatchedOnce
  <2> QED BY <2>4, <2>9
<1>4. UNCHANGED queue \/ queue' = Append(queue, new)
  BY ZenonT(30) DEF Enqueue
<1> QED BY <1>2, <1>3, <1>4

\* A request is made: one attempt fewer is open, one more try is counted.
LEMMA TryCounts ==
  ASSUME ClaimInv, TypeOK', NEW w \in Workers, pc[w] \in {"load", "post"},
         pc'[w] \in {"failed", "settle"}, \A v \in Workers \ {w} : pc'[v] = pc[v],
         UNCHANGED <<batch, queue, job, attempts>>, CountTry(job[w].row)
  PROVE  ClaimInv'
<1> DEFINE r == job[w].row
           a == job[w].attempt
<1>1. TypeOK /\ ClaimDispatchedOnce /\ w \in Busy
  BY DEF ClaimInv, Busy
<1>2. job[w] \in Jobs /\ r \in Rows /\ a \in Attempts /\ job[w] = [row |-> r, attempt |-> a]
  BY <1>1 DEF TypeOK, Jobs
<1>3. NoneNew /\ ClaimDispatchedOnce'
  BY <1>1, FrameFewer
<1>4. \A j \in Jobs : Live(j)' => j.attempt <= attempts'[j.row]
  BY <1>3 DEF ClaimInv, NoneNew
<1>5. /\ \A q \in Rows \ {r} : tries'[q] = tries[q]
      /\ tries'[r] \in Nat /\ tries'[r] <= tries[r] + 1
  <2>1. tries' = [tries EXCEPT ![r] = Min2(@ + 1, MaxAttempts)]
    BY DEF CountTry
  <2>2. tries[r] + 1 \in Nat /\ MaxAttempts \in Nat /\ tries \in [Rows -> 0..MaxAttempts]
    BY <1>1, <1>2, OpenFinite DEF TypeOK
  <2>3. tries'[r] = Min2(tries[r] + 1, MaxAttempts)
    BY <1>2, <2>1, <2>2
  <2> QED BY <1>2, <2>1, <2>2, <2>3, Min2Bounds
<1>6. ASSUME NEW q \in Rows, attempts'[q] < MaxAttempts
      PROVE  tries'[q] + Cardinality(Open(q)') <= attempts'[q]
  <2>1. /\ tries[q] + Cardinality(Open(q)) <= attempts[q]
        /\ IsFiniteSet(Open(q)) /\ Cardinality(Open(q)) \in Nat
        /\ attempts[q] \in Nat /\ tries[q] \in Nat
    BY <1>1, <1>6, OpenFinite DEF ClaimInv
  <2>2. Open(q)' \subseteq Open(q) /\ Cardinality(Open(q)') <= Cardinality(Open(q))
    BY <1>1, <1>3, OpenShrinks
  <2>3. Cardinality(Open(q)') \in Nat
    BY <2>1, <2>2, FS_Subset, FS_CardinalityType
  <2>4. CASE q # r
    BY <1>5, <1>6, <2>1, <2>2, <2>3, <2>4
  <2>5. CASE q = r
    <3>1. Live(job[w]) /\ Untried(job[w])
      BY DEF Live, Untried
    <3>2. a <= attempts[r] /\ a < MaxAttempts
      <4>1. a <= attempts[r]
        BY <1>2, <3>1 DEF ClaimInv
      <4> QED BY <1>1, <1>2, <1>6, <2>1, <2>5, <4>1, ParametersAssumption DEF Attempts
    <3>3. a \in Open(r)
      BY <1>2, <2>1, <2>5, <3>1, <3>2, ParametersAssumption DEF Open, Attempts
    <3>4. ~Untried(job[w])'
      <4>1. \A i \in 1..Len(queue) : queue[i] # job[w]
        BY <1>1, <3>2 DEF ClaimDispatchedOnce
      <4>2. ~(r \in DOMAIN batch /\ batch[r] = a)
        BY <1>1, <1>2, <3>2 DEF ClaimDispatchedOnce
      <4>3. \A v \in Workers : pc[v] # "idle" /\ job[v] = job[w] => v = w
        BY <1>1, <3>2 DEF ClaimDispatchedOnce, Busy
      <4> QED BY <4>1, <4>2, <4>3 DEF Untried
    <3>5. a \notin Open(r)'
      BY <1>2, <3>4 DEF Open
    <3>6. Open(r)' \subseteq Open(r) \ {a}
      BY <2>2, <2>5, <3>5
    <3>7. Cardinality(Open(r) \ {a}) = Cardinality(Open(r)) - 1 /\ IsFiniteSet(Open(r) \ {a})
      BY <2>1, <2>5, <3>3, FS_RemoveElement
    <3>8. Cardinality(Open(r)') <= Cardinality(Open(r)) - 1
      BY <3>6, <3>7, FS_Subset
    <3> QED BY <1>5, <2>1, <2>3, <2>5, <3>8
  <2> QED BY <2>4, <2>5
<1> QED BY <1>3, <1>4, <1>6 DEF ClaimInv

\* A claim counts every row it takes: the number it gives is new below the cap.
LEMMA ClaimCounts ==
  ASSUME ClaimInv, TypeOK', ClaimPendingOutboxEvents
  PROVE  ClaimInv'
<1>1. PICK S \in Claims(room) :
        /\ attempts' = [r \in Rows |-> IF r \in S THEN NextAttempt(attempts[r])
                                                  ELSE attempts[r]]
        /\ batch' = [r \in S |-> NextAttempt(attempts[r])]
        /\ UNCHANGED <<queue, pc, job, tries>>
  BY DEF ClaimPendingOutboxEvents
<1>2. S \subseteq Rows /\ DOMAIN batch' = S /\ Busy' = Busy
  BY <1>1 DEF Claims, Claimable, Busy
<1>t. TypeOK /\ ClaimDispatchedOnce /\ MaxAttempts \in Nat
  BY ParametersAssumption DEF ClaimInv
<1>3. \A r \in Rows : /\ attempts[r] \in Nat /\ attempts'[r] \in Nat
                      /\ attempts[r] <= attempts'[r] /\ attempts'[r] <= MaxAttempts
                      /\ r \in S => batch'[r] = attempts'[r]
                      /\ r \notin S => attempts'[r] = attempts[r]
                      /\ r \in S /\ attempts'[r] < MaxAttempts
                           => attempts'[r] = attempts[r] + 1
  <2>1. ASSUME NEW r \in Rows PROVE attempts[r] \in Nat /\ attempts[r] <= MaxAttempts
    BY <1>t DEF TypeOK
  <2> QED BY <1>1, <1>2, <1>t, <2>1 DEF NextAttempt, Min2
<1>4. ASSUME NEW j \in Jobs, Live(j)'
      PROVE  Live(j) \/ (j.row \in S /\ j.attempt = attempts'[j.row])
  BY <1>1, <1>2, <1>3, <1>4 DEF Live, Jobs
<1>5. ASSUME NEW j \in Jobs, Untried(j)'
      PROVE  Untried(j) \/ (j.row \in S /\ j.attempt = attempts'[j.row])
  BY <1>1, <1>2, <1>3, <1>5 DEF Untried, Jobs
<1>6. ASSUME NEW j \in Jobs, Live(j)' PROVE j.attempt <= attempts'[j.row]
  <2>1. j.row \in Rows /\ j.attempt \in Nat
    BY DEF Jobs, Attempts
  <2>2. CASE Live(j)
    BY <1>3, <2>1, <2>2 DEF ClaimInv
  <2> QED BY <1>3, <1>4, <1>6, <2>1, <2>2
<1>7. ClaimDispatchedOnce'
  <2>1. ASSUME NEW r \in S, batch'[r] < MaxAttempts PROVE ~Live([row |-> r, attempt |-> batch'[r]])
    <3>1. batch'[r] = attempts[r] + 1 /\ attempts[r] \in Nat /\ r \in Rows
      BY <1>2, <1>3, <2>1
    <3>2. [row |-> r, attempt |-> batch'[r]] \in Jobs
      BY <2>1, <3>1, <1>t DEF Jobs, Attempts
    <3> QED BY <3>1, <3>2 DEF ClaimInv
  <2>2. ASSUME NEW r \in DOMAIN batch', batch'[r] < MaxAttempts
        PROVE  /\ \A i \in 1..Len(queue') : queue'[i] # [row |-> r, attempt |-> batch'[r]]
               /\ \A w \in Busy' : job'[w] # [row |-> r, attempt |-> batch'[r]]
    BY <1>1, <1>2, <2>1, <2>2 DEF Live, Busy
  <2> QED BY <1>1, <1>2, <1>t, <2>2 DEF ClaimDispatchedOnce
<1>8. ASSUME NEW r \in Rows, attempts'[r] < MaxAttempts
      PROVE  tries'[r] + Cardinality(Open(r)') <= attempts'[r]
  <2> DEFINE new == IF r \in S THEN {attempts'[r]} ELSE {}
  <2>0. attempts[r] < MaxAttempts /\ attempts[r] \in Nat /\ tries'[r] = tries[r]
    BY <1>1, <1>3, <1>8, <1>t
  <2>1. /\ tries[r] + Cardinality(Open(r)) <= attempts[r]
        /\ IsFiniteSet(Open(r)) /\ Cardinality(Open(r)) \in Nat /\ tries[r] \in Nat
    BY <1>t, <2>0, OpenFinite DEF ClaimInv
  <2>2. Open(r)' \subseteq Open(r) \cup new
    <3> SUFFICES ASSUME NEW a \in Open(r)', a \notin new PROVE a \in Open(r)
      OBVIOUS
    <3> DEFINE j == [row |-> r, attempt |-> a]
    <3>1. a \in 1..attempts'[r] /\ Untried(j)'
      BY DEF Open
    <3>2. j \in Jobs /\ j.row = r /\ j.attempt = a
      BY <1>3, <1>8, <1>t, <3>1 DEF Jobs, Attempts
    <3>3. Untried(j)
      BY <1>5, <3>1, <3>2
    <3>4. a <= attempts[r]
      <4>1. Live(j)
        BY <3>3 DEF Live, Untried
      <4> QED BY <3>2, <4>1 DEF ClaimInv
    <3> QED BY <2>0, <3>1, <3>3, <3>4 DEF Open
  <2>3. /\ IsFiniteSet(Open(r) \cup new)
        /\ Cardinality(Open(r) \cup new) <= Cardinality(Open(r)) + (IF r \in S THEN 1 ELSE 0)
    <3>1. CASE r \in S
      <4>1. /\ IsFiniteSet(Open(r) \cup {attempts'[r]})
            /\ Cardinality(Open(r) \cup {attempts'[r]}) <= Cardinality(Open(r)) + 1
        BY <2>1, FS_AddElement
      <4> QED BY <3>1, <4>1
    <3>2. CASE r \notin S
      <4>1. Open(r) \cup new = Open(r)
        BY <3>2
      <4> QED BY <2>1, <3>2, <4>1
    <3> QED BY <3>1, <3>2
  <2>4. /\ Cardinality(Open(r)') <= Cardinality(Open(r) \cup new)
        /\ Cardinality(Open(r)') \in Nat /\ Cardinality(Open(r) \cup new) \in Nat
    BY <2>2, <2>3, FS_Subset, FS_CardinalityType
  <2>5. CASE r \in S
    <3>1. attempts'[r] = attempts[r] + 1
      BY <1>3, <1>8, <2>5
    <3> QED BY <2>0, <2>1, <2>3, <2>4, <2>5, <3>1
  <2>6. CASE r \notin S
    <3>1. attempts'[r] = attempts[r]
      BY <1>3, <2>6
    <3> QED BY <2>0, <2>1, <2>3, <2>4, <2>6, <3>1
  <2> QED BY <2>5, <2>6
<1> QED BY <1>6, <1>7, <1>8 DEF ClaimInv

LEMMA ClaimStep == ClaimInv /\ [Next]_vars => ClaimInv'
<1> SUFFICES ASSUME ClaimInv, [Next]_vars PROVE ClaimInv'
  OBVIOUS
<1>t. TypeOK /\ TypeOK' /\ ClaimDispatchedOnce
  BY TypeStep DEF ClaimInv
<1>1. CASE \/ Handlers \/ Clock \/ DrainBegin \/ ClaimFails \/ UNCHANGED vars
           \/ \E e \in Events : MarkTestFails(e)
  <2>1. UNCHANGED <<batch, queue, job, pc, attempts, tries>>
    BY <1>1 DEF Handlers, Clock, CreateWebhook, UpdateWebhook, DeleteWebhook, EmitEvent,
      EmitTestEvent, MarkEventOutboxDelivered, PruneEvent, RetryTimeComes, LeaseExpires,
      DrainBegin, ClaimFails, MarkTestFails, vars
  <2> QED BY <1>t, <2>1, FrameFewer, FewerKeep
<1>2. ASSUME NEW q \in Rows, Enqueue(q) PROVE ClaimInv'
  <2>1. UNCHANGED <<attempts, tries>>
    BY <1>2 DEF Enqueue
  <2> QED BY <1>2, <1>t, <2>1, EnqueueFewer, FewerKeep
<1>3. ASSUME NEW w \in Workers, TakeJob(w) PROVE ClaimInv'
  <2>1. UNCHANGED <<attempts, tries>>
    BY <1>3 DEF TakeJob
  <2> QED BY <1>3, <1>t, <2>1, TakeFewer, FewerKeep
<1>4. ASSUME NEW w \in Workers,
             Reschedule(w) \/ Settle(w) \/ Postpone(w) \/ StoreFails(w)
      PROVE  ClaimInv'
  <2>1. BecomeIdle(w) /\ UNCHANGED <<batch, queue, attempts, tries>>
    BY <1>4 DEF Reschedule, Settle, Postpone, StoreFails
  <2> QED BY <1>t, <2>1, ReleaseFewer, FewerKeep
<1>5. ASSUME NEW w \in Workers,
             LoadLive(w) \/ LoadUnwanted(w) \/ LoadError(w) \/ GiveUp(w) \/ RescheduleFails(w)
      PROVE  ClaimInv'
  <2>1. UNCHANGED <<batch, queue, job, attempts, tries>>
    BY <1>5 DEF LoadLive, LoadUnwanted, LoadError, GiveUp, RescheduleFails
  <2>2. /\ pc[w] # "idle" /\ pc'[w] # "idle"
        /\ pc'[w] \in {"load", "post"} => pc[w] \in {"load", "post"}
        /\ \A v \in Workers \ {w} : pc'[v] = pc[v]
    BY <1>5, <1>t DEF LoadLive, LoadUnwanted, LoadError, GiveUp, RescheduleFails, TypeOK
  <2>3. NoneNew /\ ClaimDispatchedOnce'
    BY <1>t, <2>1, <2>2, FrameFewer
  <2> QED BY <1>t, <2>1, <2>3, FewerKeep
<1>6. ASSUME NEW w \in Workers, DecryptFails(w) \/ PostAccepted(w) \/ PostFails(w)
      PROVE  ClaimInv'
  <2>1. /\ pc[w] \in {"load", "post"} /\ pc'[w] \in {"failed", "settle"}
        /\ \A v \in Workers \ {w} : pc'[v] = pc[v]
    BY <1>6, <1>t DEF DecryptFails, PostAccepted, PostFails, TypeOK
  <2>2. CountTry(job[w].row) /\ UNCHANGED <<batch, queue, job, attempts>>
    BY <1>6 DEF DecryptFails, PostAccepted, PostFails
  <2> QED BY <1>t, <2>1, <2>2, TryCounts
<1>7. CASE Crash
  <2>1. /\ DOMAIN batch' = {} /\ Len(queue') = 0
        /\ \A w \in Workers : pc'[w] = "idle"
        /\ UNCHANGED <<attempts, tries>>
    BY <1>7 DEF Crash
  <2>2. NoneNew /\ ClaimDispatchedOnce'
    BY <2>1 DEF NoneNew, Live, Untried, ClaimDispatchedOnce, Busy
  <2> QED BY <1>t, <2>1, <2>2, FewerKeep
<1> QED BY <1>1, <1>2, <1>3, <1>4, <1>5, <1>6, <1>7, <1>t, ClaimCounts
        DEF Next, Drain, WorkerStep, Failure

\* However late a worker is and whatever fails, an attempt is made on the
\* strength of a claim of its own (ClaimPendingOutboxEvents counts it), and no
\* claim is handed to two workers or spent twice.
THEOREM ClaimsSpentOnceCorrect == Spec => []ClaimsSpentOnce
<1>1. ClaimInv => ClaimsSpentOnce
  <2> SUFFICES ASSUME ClaimInv, NEW r \in Rows PROVE tries[r] <= attempts[r]
    BY DEF ClaimInv, ClaimsSpentOnce, TriesWithinClaims
  <2>1. TypeOK
    BY DEF ClaimInv
  <2>2. CASE attempts[r] < MaxAttempts
    BY <2>1, <2>2, OpenFinite DEF ClaimInv
  <2>3. CASE ~(attempts[r] < MaxAttempts)
    BY <2>1, <2>3, ParametersAssumption DEF TypeOK
  <2> QED BY <2>2, <2>3
<1> QED BY <1>1, ClaimInit, ClaimStep, PTL DEF Spec

-----------------------------------------------------------------------------
(* A delivered row of an ordinary event stays closed.                      *)

\* The rows a step may reopen are rows of live jobs.
LEMMA ReopenedWasHeld ==
  ASSUME ExclusionInv, [Next]_vars, NEW r \in Rows, status[r] = "delivered",
         status'[r] \notin {"delivered", "gone"}
  PROVE  Held(r)
<1>t. TypeOK
  BY DEF ExclusionInv, EventInv
<1>1. status'[r] # status[r]
  OBVIOUS
<1>2. CASE Handlers
  <2>1. ASSUME NEW e \in Events, NEW c, CreateEvent(e, c) PROVE FALSE
    <3>1. r[1] # e
      BY <2>1 DEF CreateEvent, ExclusionInv, EventInv
    <3> QED BY <2>1, <3>1, <1>1, <1>t DEF CreateEvent, TypeOK
  <2>2. ASSUME NEW S \in SUBSET Rows, DropRows(S) PROVE FALSE
    BY <2>2, <1>1, <1>t DEF DropRows, Exists, TypeOK
  <2>3. ASSUME NEW e \in Events, MarkEventOutboxDelivered(e) PROVE FALSE
    BY <2>3, <1>1 DEF MarkEventOutboxDelivered
  <2>4. ASSUME NEW h \in Hooks, CreateWebhook(h) \/ UpdateWebhook(h) PROVE FALSE
    BY <2>4, <1>1 DEF CreateWebhook, UpdateWebhook
  <2> QED BY <1>2, <2>1, <2>2, <2>3, <2>4
          DEF Handlers, EmitEvent, EmitTestEvent, DeleteWebhook, PruneEvent
<1>3. CASE Clock
  BY <1>1, <1>3 DEF Clock, RetryTimeComes, LeaseExpires
<1>4. CASE DrainBegin
  BY <1>1, <1>4 DEF DrainBegin
<1>5. CASE ClaimPendingOutboxEvents
  <2>1. PICK S \in Claims(room) :
          status' = [q \in Rows |-> IF q \in S THEN "processing" ELSE status[q]]
    BY <1>5 DEF ClaimPendingOutboxEvents
  <2>2. r \notin S
    BY DEF Claims, Claimable
  <2> QED BY <1>1, <2>1, <2>2
<1>6. ASSUME NEW q \in Rows, Enqueue(q) PROVE Held(r)
  <2>1. q = r
    BY <1>1, <1>6, <1>t DEF Enqueue, MarkOutboxPending, TypeOK
  <2> QED BY <1>6, <2>1 DEF Enqueue, Held
<1>7. ASSUME NEW w \in Workers, WorkerStep(w) PROVE Held(r)
  <2>1. CASE Reschedule(w) \/ Settle(w) \/ Postpone(w)
    <3>1. job[w].row = r
      BY <2>1, <1>1, <1>t DEF Reschedule, Settle, Postpone, MarkOutboxPending,
        MarkOutboxDelivered, TypeOK
    <3> QED BY <2>1, <3>1 DEF Reschedule, Settle, Postpone, Held
  <2>2. CASE ~(Reschedule(w) \/ Settle(w) \/ Postpone(w))
    BY <1>1, <1>7, <2>2 DEF WorkerStep, TakeJob, LoadLive, LoadUnwanted,
      PostAccepted, PostFails, GiveUp
  <2> QED BY <2>1, <2>2
<1>8. CASE Failure
  BY <1>1, <1>8 DEF Failure, Crash, ClaimFails, MarkTestFails, LoadError,
    DecryptFails, RescheduleFails, StoreFails
<1>9. CASE UNCHANGED vars
  BY <1>1, <1>9 DEF vars
<1> QED BY <1>2, <1>3, <1>4, <1>5, <1>6, <1>7, <1>8, <1>9 DEF Next, Drain

\* MarkOutboxPending updates by id alone, yet no worker reopens a delivered
\* row of an ordinary event, as long as every job is done within its lease.
THEOREM SettledStaysSettledCorrect ==
  ASSUME "slow" \notin Faults
  PROVE  Spec => SettledStaysSettled
<1>1. Init => ExclusionInv
  BY ExclusionInit
<1>2. ExclusionInv /\ [Next]_vars => ExclusionInv'
  BY ExclusionStep
<1>3. ExclusionInv /\ [Next]_vars =>
        [\A r \in Rows : status[r] = "delivered" /\ event[r[1]] = "ordinary"
                           => status'[r] \in {"delivered", "gone"}]_vars
  <2> SUFFICES ASSUME ExclusionInv, [Next]_vars, NEW r \in Rows,
                      status[r] = "delivered", event[r[1]] = "ordinary"
               PROVE  status'[r] \in {"delivered", "gone"}
    OBVIOUS
  <2>1. ~Held(r)
    BY DEF ExclusionInv, HeldFresh
  <2> QED BY <2>1, ReopenedWasHeld
<1> QED BY <1>1, <1>2, <1>3, PTL DEF Spec, SettledStaysSettled

-----------------------------------------------------------------------------
(* The outbox implements DeliveryContract, with every fault allowed.       *)

\* The row of a live job was queued once: the contract knows it.
HeldExists == \A r \in Rows : Held(r) => status[r] # "none"

ContractInv == EventInv /\ HeldExists

\* A row once queued is never again as if it had not been.
LEMMA NoneIsInitial ==
  ASSUME TypeOK, [Next]_vars, NEW r \in Rows, status[r] # "none"
  PROVE  status'[r] # "none"
<1>1. ASSUME NEW S \in SUBSET Rows, DropRows(S) PROVE status'[r] # "none"
  BY <1>1 DEF DropRows
<1>2. ASSUME NEW q, MarkOutboxPending(q) \/ MarkOutboxDelivered(q)
      PROVE  status'[r] # "none"
  BY <1>2 DEF TypeOK, MarkOutboxPending, MarkOutboxDelivered
<1>3. CASE Handlers
  BY <1>1, <1>3 DEF Handlers, CreateWebhook, UpdateWebhook, DeleteWebhook, EmitEvent,
    EmitTestEvent, CreateEvent, MarkEventOutboxDelivered, PruneEvent
<1>4. CASE Clock \/ DrainBegin
  BY <1>4 DEF Clock, RetryTimeComes, LeaseExpires, DrainBegin
<1>5. CASE ClaimPendingOutboxEvents
  BY <1>5 DEF ClaimPendingOutboxEvents
<1>6. ASSUME NEW q \in Rows, Enqueue(q) PROVE status'[r] # "none"
  <2>1. UNCHANGED status \/ MarkOutboxPending(q)
    BY <1>6 DEF Enqueue
  <2> QED BY <1>2, <2>1
<1>7. ASSUME NEW w \in Workers, WorkerStep(w) PROVE status'[r] # "none"
  BY <1>2, <1>7 DEF WorkerStep, TakeJob, LoadLive, LoadUnwanted, PostAccepted,
    PostFails, Reschedule, GiveUp, Settle, Postpone
<1>8. CASE Failure
  BY <1>8 DEF Failure, Crash, ClaimFails, MarkTestFails, LoadError, DecryptFails,
    RescheduleFails, StoreFails
<1>9. CASE UNCHANGED vars
  BY <1>9 DEF vars
<1> QED BY <1>3, <1>4, <1>5, <1>6, <1>7, <1>8, <1>9 DEF Next, Drain

\* A step makes live only jobs of rows that were live or are claimed by it.
LEMMA NewlyHeld ==
  ASSUME TypeOK, [Next]_vars, NEW r \in Rows, Held(r)', ~Held(r)
  PROVE  status[r] # "none"
<1>1. CASE ClaimPendingOutboxEvents
  <2>1. PICK S \in Claims(room) : batch' = [q \in S |-> NextAttempt(attempts[q])]
    BY <1>1 DEF ClaimPendingOutboxEvents
  <2>2. DOMAIN batch' = S /\ UNCHANGED <<queue, pc, job>>
    BY <1>1, <2>1 DEF ClaimPendingOutboxEvents
  <2>3. r \in S
    BY <2>2 DEF Held
  <2> QED BY <2>3 DEF Claims, Claimable
<1>2. ASSUME UNCHANGED <<batch, queue, job>>,
             \A w \in Workers : pc'[w] = "idle" <=> pc[w] = "idle"
      PROVE  FALSE
  BY <1>2 DEF Held
<1>3. CASE Handlers \/ Clock \/ DrainBegin
  BY <1>2, <1>3 DEF Handlers, CreateWebhook, UpdateWebhook, DeleteWebhook, EmitEvent,
    EmitTestEvent, MarkEventOutboxDelivered, PruneEvent, Clock, RetryTimeComes,
    LeaseExpires, DrainBegin
<1>4. ASSUME NEW q \in Rows, Enqueue(q) PROVE FALSE
  <2>1. queue \in Seq(Jobs)
    BY DEF TypeOK
  <2>2. queue' \in {queue, Append(queue, [row |-> q, attempt |-> batch[q]])}
    BY <1>4, ZenonT(30) DEF Enqueue
  <2>3. \A i \in 1..Len(queue') :
          queue'[i].row = q \/ (i \in 1..Len(queue) /\ queue'[i] = queue[i])
    BY <2>1, <2>2
  <2>4. /\ q \in DOMAIN batch
        /\ DOMAIN batch' \subseteq DOMAIN batch
        /\ UNCHANGED <<pc, job>>
    BY <1>4 DEF Enqueue
  <2>5. ASSUME NEW i \in 1..Len(queue'), queue'[i].row = r PROVE Held(r)
    BY <2>3, <2>4, <2>5 DEF Held
  <2>6. ASSUME NEW w \in Workers, pc'[w] # "idle", job'[w].row = r PROVE Held(r)
    BY <2>4, <2>6 DEF Held
  <2>7. r \in DOMAIN batch' => Held(r)
    BY <2>4 DEF Held
  <2> QED BY <2>5, <2>6, <2>7 DEF Held
<1>5. ASSUME NEW w \in Workers, TakeJob(w) PROVE FALSE
  <2>1. queue \in Seq(Jobs) /\ queue # << >>
    BY <1>5 DEF TypeOK, TakeJob
  <2>2. /\ \A v \in Workers \ {w} : pc'[v] = pc[v] /\ job'[v] = job[v]
        /\ job'[w] = queue[1] /\ 1 \in 1..Len(queue)
        /\ batch' = batch
    BY <1>5, <2>1 DEF TakeJob, TypeOK
  <2>3. \A i \in 1..Len(queue') : i + 1 \in 1..Len(queue) /\ queue'[i] = queue[i + 1]
    BY <1>5, <2>1 DEF TakeJob
  <2>4. ASSUME NEW i \in 1..Len(queue'), queue'[i].row = r PROVE Held(r)
    BY <2>3, <2>4 DEF Held
  <2>5. ASSUME NEW v \in Workers, pc'[v] # "idle", job'[v].row = r PROVE Held(r)
    <3>1. CASE v = w
      BY <2>2, <2>5, <3>1 DEF Held
    <3>2. CASE v # w
      BY <2>2, <2>5, <3>2 DEF Held
    <3> QED BY <3>1, <3>2
  <2>6. r \in DOMAIN batch' => Held(r)
    BY <2>2 DEF Held
  <2> QED BY <2>4, <2>5, <2>6 DEF Held
<1>6. ASSUME NEW w \in Workers, BecomeIdle(w), UNCHANGED <<batch, queue>> PROVE FALSE
  <2>1. /\ \A v \in Workers \ {w} : pc'[v] = pc[v] /\ job'[v] = job[v]
        /\ pc'[w] = "idle"
    BY <1>6 DEF BecomeIdle, TypeOK
  <2> QED BY <1>6, <2>1 DEF Held
<1>7. ASSUME NEW w \in Workers, WorkerStep(w) PROVE FALSE
  <2>1. CASE Reschedule(w) \/ Settle(w) \/ Postpone(w)
    BY <1>6, <2>1 DEF Reschedule, Settle, Postpone
  <2>2. CASE LoadLive(w) \/ LoadUnwanted(w) \/ PostAccepted(w) \/ PostFails(w)
             \/ GiveUp(w)
    BY <1>2, <2>2 DEF LoadLive, LoadUnwanted, PostAccepted, PostFails, GiveUp, TypeOK
  <2> QED BY <1>5, <1>7, <2>1, <2>2 DEF WorkerStep
<1>8. CASE Failure
  <2>1. ASSUME NEW w \in Workers, StoreFails(w) PROVE FALSE
    BY <1>6, <2>1 DEF StoreFails
  <2>2. CASE Crash
    BY <2>2 DEF Crash, Held
  <2>3. ASSUME NEW w \in Workers, LoadError(w) \/ DecryptFails(w) \/ RescheduleFails(w)
        PROVE  FALSE
    BY <1>2, <2>3 DEF LoadError, DecryptFails, RescheduleFails, TypeOK
  <2>4. CASE ClaimFails \/ \E e \in Events : MarkTestFails(e)
    BY <1>2, <2>4 DEF ClaimFails, MarkTestFails
  <2> QED BY <1>8, <2>1, <2>2, <2>3, <2>4 DEF Failure
<1>9. CASE UNCHANGED vars
  BY <1>2, <1>9 DEF vars
<1> QED BY <1>1, <1>3, <1>4, <1>7, <1>8, <1>9 DEF Next, Drain

LEMMA ContractInvStep == ContractInv /\ [Next]_vars => ContractInv'
<1> SUFFICES ASSUME ContractInv, [Next]_vars PROVE ContractInv'
  OBVIOUS
<1>1. TypeOK /\ TypeOK'
  BY TypeStep DEF ContractInv, EventInv
<1>2. EventInv'
  BY <1>1, EventInvStep DEF ContractInv
<1>3. HeldExists'
  BY <1>1, NewlyHeld, NoneIsInitial DEF HeldExists, ContractInv
<1> QED BY <1>2, <1>3 DEF ContractInv

LEMMA ContractInvInit == Init => ContractInv
<1> SUFFICES ASSUME Init PROVE ContractInv
  OBVIOUS
<1>1. \A r \in Rows : ~Held(r)
  BY DEF Init, Held
<1> QED BY <1>1, EventInvInit DEF ContractInv, HeldExists

-----------------------------------------------------------------------------
(* Step simulation.                                                        *)

\* The rows in phase f of the outbox enter phase t together.
LEMMA MoveMaps ==
  ASSUME NEW S \in SUBSET Rows, NEW F, NEW t,
         \A r \in S : Phase(r) \in F,
         \A r \in Rows : Phase(r)' = IF r \in S THEN t ELSE Phase(r),
         UNCHANGED acked
  PROVE  Contract!Move(S, F, t)
BY DEF Contract!Move

LEMMA CreateMaps ==
  ASSUME ContractInv, TypeOK', NEW e \in Events, NEW c, CreateEvent(e, c),
         UNCHANGED acked
  PROVE  Contract!Next
<1>t. TypeOK
  BY DEF ContractInv, EventInv
<1> DEFINE S == {r \in Rows : r[1] = e /\ hook[r[2]] = "on"}
<1>1. \A r \in S : Phase(r) \in {"none"}
  BY <1>t DEF CreateEvent, ContractInv, EventInv, Phase, PhaseOf
<1>2. \A r \in Rows : Phase(r)' = IF r \in S THEN "owed" ELSE Phase(r)
  BY DEF CreateEvent, Phase, PhaseOf
<1>3. Contract!Promise(S)
  BY <1>t, <1>1, <1>2, MoveMaps DEF Contract!Promise
<1> QED BY <1>3 DEF Contract!Next

LEMMA DropMaps ==
  ASSUME TypeOK, NEW T \in SUBSET Rows, DropRows(T), UNCHANGED acked
  PROVE  Contract!Next
<1> DEFINE S == {r \in T : Exists(r)}
<1>1. \A r \in S : Phase(r) \in {"owed", "closed"}
  BY DEF Exists, Phase, PhaseOf
<1>2. \A r \in Rows : Phase(r)' = IF r \in S THEN "withdrawn" ELSE Phase(r)
  BY DEF DropRows, Phase, PhaseOf
<1>3. Contract!Withdraw(S)
  BY <1>1, <1>2, MoveMaps DEF Contract!Withdraw
<1> QED BY <1>3 DEF Contract!Next

LEMMA CloseMaps ==
  ASSUME TypeOK, NEW T \in SUBSET Rows, UNCHANGED acked,
         \A r \in Rows : status'[r] = IF r \in T /\ Exists(r) THEN "delivered"
                                                              ELSE status[r]
  PROVE  Contract!Next
<1> DEFINE S == {r \in T : status[r] \in {"pending", "processing"}}
<1>1. \A r \in S : Phase(r) \in {"owed"}
  BY DEF Phase, PhaseOf
<1>2. \A r \in Rows : Phase(r)' = IF r \in S THEN "closed" ELSE Phase(r)
  BY DEF Exists, Phase, PhaseOf
<1>3. Contract!Close(S)
  BY <1>1, <1>2, MoveMaps DEF Contract!Close
<1> QED BY <1>3 DEF Contract!Next

LEMMA PendingMaps ==
  ASSUME TypeOK, NEW q \in Rows, MarkOutboxPending(q), UNCHANGED acked
  PROVE  [Contract!Next]_(Contract!contractVars)
<1>1. \A r \in Rows \ {q} : Phase(r)' = Phase(r)
  BY DEF MarkOutboxPending, Phase, PhaseOf, TypeOK
<1>2. CASE status[q] = "delivered"
  <2>1. Phase(q) = "closed" /\ Phase(q)' = "owed"
    BY <1>2 DEF MarkOutboxPending, Exists, Phase, PhaseOf, TypeOK
  <2>2. Contract!Reopen(q)
    BY <1>1, <2>1, MoveMaps DEF Contract!Reopen
  <2> QED BY <2>2 DEF Contract!Next
<1>3. CASE status[q] # "delivered"
  <2>1. Phase(q)' = Phase(q)
    BY <1>3 DEF MarkOutboxPending, Exists, Phase, PhaseOf, TypeOK
  <2> QED BY <1>1, <2>1 DEF Contract!contractVars
<1> QED BY <1>2, <1>3

LEMMA UnchangedMaps ==
  ASSUME \A r \in Rows : Phase(r)' = Phase(r), UNCHANGED acked
  PROVE  UNCHANGED Contract!contractVars
BY DEF Contract!contractVars

\* Only worker w's row changes, to pending, to delivered, or not at all.
LEMMA WorkerMaps ==
  ASSUME ContractInv, TypeOK', NEW w \in Workers, WorkerStep(w)
  PROVE  [Contract!Next]_(Contract!contractVars)
<1>t. TypeOK
  BY DEF ContractInv, EventInv
<1>1. CASE TakeJob(w) \/ LoadLive(w) \/ LoadUnwanted(w) \/ PostFails(w) \/ GiveUp(w)
  <2>1. UNCHANGED <<status, acked>>
    BY <1>1 DEF TakeJob, LoadLive, LoadUnwanted, PostFails, GiveUp
  <2> QED BY <2>1, UnchangedMaps DEF Phase
<1>2. ASSUME pc[w] # "idle" PROVE job[w].row \in Rows
  BY <1>t, <1>2 DEF TypeOK, Jobs
<1>3. CASE PostAccepted(w)
  <2> DEFINE r == job[w].row
  <2>1. r \in Rows /\ status[r] # "none"
    <3>1. pc[w] # "idle"
      BY <1>3 DEF PostAccepted
    <3> QED BY <1>2, <3>1 DEF ContractInv, HeldExists, Held
  <2>2. Phase(r) # "none"
    BY <1>t, <2>1 DEF Phase, PhaseOf, TypeOK
  <2>3. /\ acked' = [acked EXCEPT ![r] = TRUE]
        /\ \A q \in Rows : Phase(q)' = Phase(q)
    BY <1>3 DEF PostAccepted, Phase
  <2>4. Contract!Accept(r)
    BY <2>1, <2>2, <2>3 DEF Contract!Accept
  <2> QED BY <2>1, <2>4 DEF Contract!Next
<1>4. CASE Reschedule(w) \/ Postpone(w)
  <2>1. job[w].row \in Rows /\ MarkOutboxPending(job[w].row) /\ UNCHANGED acked
    BY <1>2, <1>4 DEF Reschedule, Postpone
  <2> QED BY <1>t, <2>1, PendingMaps
<1>5. CASE Settle(w)
  <2>1. job[w].row \in Rows /\ MarkOutboxDelivered(job[w].row) /\ UNCHANGED acked
    BY <1>2, <1>5 DEF Settle
  <2>2. \A r \in Rows : status'[r] = IF r \in {job[w].row} /\ Exists(r)
                                      THEN "delivered" ELSE status[r]
    BY <1>t, <2>1 DEF MarkOutboxDelivered, TypeOK
  <2> QED BY <1>t, <2>1, <2>2, CloseMaps
<1> QED BY <1>1, <1>3, <1>4, <1>5 DEF WorkerStep

LEMMA StepMaps ==
  ASSUME ContractInv, TypeOK', [Next]_vars
  PROVE  [Contract!Next]_(Contract!contractVars)
<1>t. TypeOK
  BY DEF ContractInv, EventInv
<1>1. ASSUME UNCHANGED <<status, acked>>
      PROVE  UNCHANGED Contract!contractVars
  BY <1>1, UnchangedMaps DEF Phase
<1>2. ASSUME NEW h \in Hooks, CreateWebhook(h) \/ UpdateWebhook(h)
      PROVE  UNCHANGED Contract!contractVars
  BY <1>1, <1>2 DEF CreateWebhook, UpdateWebhook
<1>3. ASSUME NEW h \in Hooks, DeleteWebhook(h) PROVE Contract!Next
  <2>1. DropRows({r \in Rows : r[2] = h}) /\ UNCHANGED acked
    BY <1>3 DEF DeleteWebhook
  <2> QED BY <1>t, <2>1, DropMaps
<1>4. ASSUME NEW e \in Events, EmitEvent(e) \/ EmitTestEvent(e) PROVE Contract!Next
  <2>1. UNCHANGED acked /\ (CreateEvent(e, "ordinary") \/ CreateEvent(e, "test"))
    BY <1>4 DEF EmitEvent, EmitTestEvent
  <2> QED BY <2>1, CreateMaps
<1>5. ASSUME NEW e \in Events, MarkEventOutboxDelivered(e) PROVE Contract!Next
  <2> DEFINE T == {r \in Rows : r[1] = e}
  <2>1. \A r \in Rows : status'[r] = IF r \in T /\ Exists(r) THEN "delivered"
                                                             ELSE status[r]
    BY <1>5 DEF MarkEventOutboxDelivered
  <2>2. UNCHANGED acked
    BY <1>5 DEF MarkEventOutboxDelivered
  <2> QED BY <1>t, <2>1, <2>2, CloseMaps
<1>6. ASSUME NEW e \in Events, PruneEvent(e) PROVE Contract!Next
  <2>1. DropRows({r \in Rows : r[1] = e}) /\ UNCHANGED acked
    BY <1>6 DEF PruneEvent
  <2> QED BY <1>t, <2>1, DropMaps
<1>7. CASE Clock \/ DrainBegin \/ UNCHANGED vars
  BY <1>1, <1>7 DEF Clock, RetryTimeComes, LeaseExpires, DrainBegin, vars
<1>8. CASE ClaimPendingOutboxEvents
  <2>1. PICK S \in Claims(room) :
          status' = [r \in Rows |-> IF r \in S THEN "processing" ELSE status[r]]
    BY <1>8 DEF ClaimPendingOutboxEvents
  <2>2. \A r \in S : status[r] \in {"pending", "processing"}
    BY <2>1 DEF Claims, Claimable
  <2>3. \A r \in Rows : Phase(r)' = Phase(r)
    BY <2>1, <2>2 DEF Phase, PhaseOf
  <2>4. UNCHANGED acked
    BY <1>8 DEF ClaimPendingOutboxEvents
  <2> QED BY <2>3, <2>4, UnchangedMaps
<1>9. ASSUME NEW r \in Rows, Enqueue(r)
      PROVE  [Contract!Next]_(Contract!contractVars)
  <2>1. UNCHANGED acked /\ (UNCHANGED status \/ MarkOutboxPending(r))
    BY <1>9 DEF Enqueue
  <2> QED BY <1>t, <1>1, <2>1, PendingMaps
<1>10. CASE Failure
  <2>1. UNCHANGED <<status, acked>>
    BY <1>10 DEF Failure, Crash, ClaimFails, MarkTestFails, LoadError, DecryptFails,
      RescheduleFails, StoreFails
  <2> QED BY <1>1, <2>1
<1>11. ASSUME Handlers PROVE [Contract!Next]_(Contract!contractVars)
  BY <1>2, <1>3, <1>4, <1>5, <1>6, <1>11 DEF Handlers
<1> QED BY <1>7, <1>8, <1>9, <1>10, <1>11, WorkerMaps DEF Next, Drain

\* With every fault allowed, the tables, the drainer and the workers together
\* implement the safety part of DeliveryContract: no late worker's update
\* (MarkOutboxPending and MarkOutboxDelivered go by id alone) resurrects a row
\* deleted by retention or with its webhook, and nothing is posted for a row
\* that was never queued.
THEOREM HonoursContractCorrect == Spec => HonoursContract
<1>1. Init => Contract!Init
  BY DEF Init, Contract!Init, Phase, PhaseOf
<1>2. ContractInv /\ TypeOK' /\ [Next]_vars => [Contract!Next]_(Contract!contractVars)
  BY StepMaps
<1>3. ContractInv => TypeOK
  BY DEF ContractInv, EventInv
<1> QED
  BY <1>1, <1>2, <1>3, ContractInvInit, ContractInvStep, PTL
     DEF Spec, HonoursContract, Contract!SafeSpec

-----------------------------------------------------------------------------
-----------------------------------------------------------------------------
(* The retry policy, as long as nothing failed.  A claim is followed from   *)
(* the batch to the worker that ends it: its attempt is the row's, and the  *)
(* row was tried once for each claim before it.                             *)

\* The claim's one request is still to be made.
DueTry(r) == attempts[r] \in 1..Retries + 1 /\ tries[r] = attempts[r] - 1 /\ ~acked[r]

WorkerDocumented(w) ==
  LET r == job[w].row IN
  pc[w] # "idle" =>
    /\ pc[w] # "postpone"
    /\ job[w].attempt = attempts[r]
    /\ pc[w] \in {"load", "post"} => DueTry(r)
    /\ pc[w] = "failed" =>
         attempts[r] \in 1..Retries + 1 /\ tries[r] = attempts[r] /\ ~acked[r]
    /\ pc[w] = "settle" => acked[r] \/ waived[r] \/ tries[r] >= Retries + 1

RowDocumented(r) ==
  /\ status[r] = "processing" => Held(r)
  /\ status[r] \in {"none", "pending"} =>
       tries[r] = attempts[r] /\ attempts[r] <= Retries /\ ~acked[r]
  /\ Abandoned(r) => tries[r] >= Retries + 1
  /\ tries[r] <= Retries + 1

ClaimsDocumented ==
  /\ \A r \in DOMAIN batch : batch[r] = attempts[r] /\ DueTry(r)
  /\ \A r \in Rows : \A i \in 1..Len(queue) :
       queue[i].row = r => queue[i].attempt = attempts[r] /\ DueTry(r)

Documented ==
  /\ ClaimsDocumented
  /\ \A w \in Workers : WorkerDocumented(w)
  /\ \A r \in Rows : RowDocumented(r)

LEMMA DocumentedInit == Init => Documented
<1> SUFFICES ASSUME Init PROVE Documented
  OBVIOUS
<1>1. Retries \in Nat
  BY ParametersAssumption
<1>2. ClaimsDocumented
  BY DEF Init, ClaimsDocumented
<1>3. \A w \in Workers : WorkerDocumented(w)
  BY DEF Init, WorkerDocumented
<1>4. \A r \in Rows : RowDocumented(r)
  BY <1>1 DEF Init, RowDocumented, Abandoned
<1> QED BY <1>2, <1>3, <1>4 DEF Documented

\* Handlers, the clock and a drain that begins leave claims and tries alone;
\* they queue, delete, or close on purpose.
LEMMA TablesMove ==
  ASSUME TypeOK, Documented, UNCHANGED <<attempts, tries, acked, batch, queue, pc, job>>,
         \A r \in Rows : waived[r] => waived'[r],
         \A r \in Rows : \/ status'[r] = status[r]
                         \/ status[r] = "none" /\ status'[r] = "pending"
                         \/ status'[r] = "gone"
                         \/ status'[r] = "delivered" /\ waived'[r]
  PROVE  Documented'
<1>1. ClaimsDocumented'
  BY DEF Documented, ClaimsDocumented, DueTry
<1>2. ASSUME NEW w \in Workers PROVE WorkerDocumented(w)'
  <2>1. CASE pc[w] = "idle"
    BY <2>1 DEF WorkerDocumented
  <2>2. CASE pc[w] # "idle"
    <3>1. job[w].row \in Rows /\ WorkerDocumented(w)
      BY <2>2, BusyJob DEF Documented
    <3> QED BY <3>1 DEF WorkerDocumented, DueTry
  <2> QED BY <2>1, <2>2
<1>3. ASSUME NEW r \in Rows PROVE RowDocumented(r)'
  <2>1. RowDocumented(r) /\ (Held(r)' <=> Held(r))
    BY DEF Documented, Held
  <2> QED BY <2>1 DEF RowDocumented, Abandoned
<1> QED BY <1>1, <1>2, <1>3 DEF Documented

LEMMA HandlersDocumented ==
  ASSUME EventInv, Documented, Handlers
  PROVE  Documented'
<1>t. TypeOK
  BY DEF EventInv
<1>1. ASSUME NEW h \in Hooks, CreateWebhook(h) \/ UpdateWebhook(h) PROVE Documented'
  BY <1>1, <1>t, TablesMove DEF CreateWebhook, UpdateWebhook
<1>2. ASSUME NEW S \in SUBSET Rows, DropRows(S), NEW r \in Rows
      PROVE  status'[r] \in {status[r], "gone"}
  BY <1>2 DEF DropRows
<1>3. ASSUME NEW h \in Hooks, DeleteWebhook(h) PROVE Documented'
  BY <1>2, <1>3, <1>t, TablesMove DEF DeleteWebhook
<1>4. ASSUME NEW e \in Events, PruneEvent(e) PROVE Documented'
  BY <1>2, <1>4, <1>t, TablesMove DEF PruneEvent
<1>5. ASSUME NEW e \in Events, MarkEventOutboxDelivered(e) PROVE Documented'
  <2>1. \A r \in Rows : waived[r] => waived'[r]
    BY <1>5 DEF MarkEventOutboxDelivered
  <2>2. \A r \in Rows : status'[r] = status[r] \/ (status'[r] = "delivered" /\ waived'[r])
    BY <1>5 DEF MarkEventOutboxDelivered
  <2> QED BY <1>5, <2>1, <2>2, <1>t, TablesMove DEF MarkEventOutboxDelivered
<1>6. ASSUME NEW e \in Events, NEW c, CreateEvent(e, c), NEW r \in Rows
      PROVE  status'[r] = status[r] \/ (status[r] = "none" /\ status'[r] = "pending")
  <2>1. r[1] = e => status[r] = "none"
    BY <1>6 DEF CreateEvent, EventInv
  <2> QED BY <1>6, <2>1 DEF CreateEvent
<1>7. ASSUME NEW e \in Events, EmitEvent(e) \/ EmitTestEvent(e) PROVE Documented'
  BY <1>6, <1>7, <1>t, TablesMove DEF EmitEvent, EmitTestEvent
<1> QED BY <1>1, <1>3, <1>4, <1>5, <1>7 DEF Handlers

\* A row in this process's hands is not waiting for a claim.
LEMMA ClaimableWaits ==
  ASSUME ExclusionInv, Documented, NEW r \in Claimable
  PROVE  ~Held(r) /\ status[r] = "pending"
<1>1. r \in Rows /\ RowDocumented(r)
  BY DEF Claimable, Documented
<1>2. ~Held(r)
  BY <1>1 DEF Claimable, ExclusionInv, HeldFresh
<1> QED BY <1>1, <1>2 DEF Claimable, RowDocumented

LEMMA ClaimDocumented ==
  ASSUME ExclusionInv, Documented, ClaimPendingOutboxEvents
  PROVE  Documented'
<1>t. TypeOK /\ Retries \in Nat /\ MaxAttempts \in Nat /\ MaxAttempts > Retries + 1
  BY ParametersAssumption DEF ExclusionInv, EventInv
<1>1. PICK S \in Claims(room) :
        /\ status' = [r \in Rows |-> IF r \in S THEN "processing" ELSE status[r]]
        /\ attempts' = [r \in Rows |-> IF r \in S THEN NextAttempt(attempts[r])
                                                  ELSE attempts[r]]
        /\ batch' = [r \in S |-> NextAttempt(attempts[r])]
  BY DEF ClaimPendingOutboxEvents
<1>2. S \subseteq Claimable /\ S \subseteq Rows /\ DOMAIN batch = {} /\ DOMAIN batch' = S
  BY <1>1 DEF Claims, Claimable, ExclusionInv, QueueInv, ClaimPendingOutboxEvents
<1>3. UNCHANGED <<queue, pc, job, tries, acked, waived>>
  BY DEF ClaimPendingOutboxEvents
<1>4. \A r \in S : ~Held(r)
  BY <1>2, ClaimableWaits
<1>5. ASSUME NEW r \in S
      PROVE  /\ tries[r] = attempts[r] /\ attempts[r] \in 0..Retries /\ ~acked[r]
             /\ attempts'[r] = attempts[r] + 1
  <2>1. status[r] = "pending" /\ RowDocumented(r) /\ attempts[r] \in 0..MaxAttempts
    BY <1>2, <1>t, ClaimableWaits DEF Documented, TypeOK
  <2>2. tries[r] = attempts[r] /\ attempts[r] \in 0..Retries /\ ~acked[r]
    BY <2>1, <1>t DEF RowDocumented
  <2>3. NextAttempt(attempts[r]) = attempts[r] + 1
    BY <2>2, <1>t DEF NextAttempt, Min2
  <2> QED BY <1>1, <1>2, <2>2, <2>3
<1>6. \A r \in S : batch'[r] = attempts'[r] /\ DueTry(r)'
  <2> SUFFICES ASSUME NEW r \in S PROVE batch'[r] = attempts'[r] /\ DueTry(r)'
    OBVIOUS
  <2>1. batch'[r] = attempts'[r]
    BY <1>1, <1>2
  <2>2. attempts'[r] \in 1..Retries + 1 /\ tries'[r] = attempts'[r] - 1 /\ ~acked'[r]
    BY <1>3, <1>5, <1>t
  <2> QED BY <2>1, <2>2 DEF DueTry
<1>7. \A r \in Rows \ S : attempts'[r] = attempts[r] /\ status'[r] = status[r]
  BY <1>1
<1>9. ClaimsDocumented'
  <2>1. ASSUME NEW r \in Rows, NEW i \in 1..Len(queue'), queue'[i].row = r
        PROVE  queue'[i].attempt = attempts'[r] /\ DueTry(r)'
    <3>1. queue' = queue /\ r \notin S
      BY <1>3, <1>4, <2>1 DEF Held
    <3>2. queue[i].attempt = attempts[r] /\ DueTry(r)
      BY <2>1, <3>1 DEF Documented, ClaimsDocumented
    <3> QED BY <1>3, <1>7, <3>1, <3>2 DEF DueTry
  <2> QED BY <1>2, <1>6, <2>1 DEF ClaimsDocumented
<1>10. ASSUME NEW w \in Workers PROVE WorkerDocumented(w)'
  <2>1. CASE pc[w] = "idle"
    BY <1>3, <2>1 DEF WorkerDocumented
  <2>2. CASE pc[w] # "idle"
    <3>1. job[w].row \in Rows /\ WorkerDocumented(w)
      BY <2>2, <1>t, BusyJob DEF Documented
    <3>2. job[w].row \notin S
      BY <1>4, <2>2 DEF Held
    <3>3. attempts'[job[w].row] = attempts[job[w].row]
      BY <1>7, <3>1, <3>2
    <3> QED BY <1>3, <3>1, <3>3 DEF WorkerDocumented, DueTry
  <2> QED BY <2>1, <2>2
<1>11. ASSUME NEW r \in Rows PROVE RowDocumented(r)'
  <2>1. CASE r \in S
    <3>1. status'[r] = "processing" /\ Held(r)'
      BY <1>1, <1>2, <2>1 DEF Held
    <3>2. tries'[r] <= Retries + 1
      BY <1>3, <1>5, <1>t, <2>1
    <3> QED BY <3>1, <3>2 DEF RowDocumented, Abandoned
  <2>2. CASE r \notin S
    <3>1. RowDocumented(r) /\ attempts'[r] = attempts[r] /\ status'[r] = status[r]
      BY <1>7, <2>2 DEF Documented
    <3>2. Held(r) => Held(r)'
      BY <1>2, <1>3 DEF Held
    <3> QED BY <1>3, <3>1, <3>2 DEF RowDocumented, Abandoned
  <2> QED BY <2>1, <2>2
<1> QED BY <1>9, <1>10, <1>11 DEF Documented

LEMMA EnqueueDocumented ==
  ASSUME ExclusionInv, Documented, NEW q \in Rows, Enqueue(q)
  PROVE  Documented'
<1> DEFINE new == [row |-> q, attempt |-> batch[q]]
<1>t. TypeOK /\ queue \in Seq(Jobs) /\ QueueNeverOverflows
  BY DEF ExclusionInv, EventInv, QueueInv, TypeOK
<1>1. /\ q \in DOMAIN batch
      /\ batch' = [p \in DOMAIN batch \ {q} |-> batch[p]]
      /\ UNCHANGED <<attempts, pc, job, tries, acked, waived>>
  BY DEF Enqueue
<1>2. Len(queue) < QueueCap
  <2>1. Len(queue) \in Nat /\ room \in Nat /\ QueueCap \in Nat
    BY <1>t, ParametersAssumption DEF TypeOK
  <2>2. room + Cardinality(DOMAIN batch) + Len(queue) <= QueueCap
    BY <1>t DEF QueueNeverOverflows
  <2>3. Cardinality(DOMAIN batch) \in Nat \ {0}
    BY <1>1, <1>t, BatchFinite, FS_EmptySet
  <2> QED BY <2>1, <2>2, <2>3
<1>3. queue' = Append(queue, new) /\ UNCHANGED status
  BY <1>2 DEF Enqueue
<1>4. /\ Len(queue') = Len(queue) + 1 /\ Len(queue) \in Nat
      /\ \A i \in 1..Len(queue) : queue'[i] = queue[i]
      /\ queue'[Len(queue) + 1] = new
  BY <1>t, <1>3
<1>5. batch[q] = attempts[q] /\ DueTry(q)
  BY <1>1 DEF Documented, ClaimsDocumented
<1>6. ASSUME NEW r \in Rows, NEW i \in 1..Len(queue'), queue'[i].row = r
      PROVE  queue'[i].attempt = attempts[r] /\ DueTry(r)
  <2>1. CASE i = Len(queue) + 1
    BY <1>4, <1>5, <1>6, <2>1
  <2>2. CASE i # Len(queue) + 1
    <3>1. i \in 1..Len(queue) /\ queue'[i] = queue[i]
      BY <1>4, <2>2
    <3> QED BY <1>6, <3>1 DEF Documented, ClaimsDocumented
  <2> QED BY <2>1, <2>2
<1>7. ClaimsDocumented'
  BY <1>1, <1>6 DEF Documented, ClaimsDocumented, DueTry
<1>8. \A w \in Workers : WorkerDocumented(w)'
  BY <1>1 DEF Documented, WorkerDocumented, DueTry
<1>9. ASSUME NEW r \in Rows PROVE RowDocumented(r)'
  <2>1. Held(r) => Held(r)'
    <3>1. CASE r = q
      <4>1. Len(queue) + 1 \in 1..Len(queue') /\ queue'[Len(queue) + 1].row = r
        BY <1>4, <3>1
      <4> QED BY <4>1 DEF Held
    <3>2. CASE r # q
      BY <1>1, <1>4, <3>2 DEF Held
    <3> QED BY <3>1, <3>2
  <2> QED BY <1>1, <1>3, <2>1 DEF Documented, RowDocumented, Abandoned
<1> QED BY <1>7, <1>8, <1>9 DEF Documented

LEMMA TakeDocumented ==
  ASSUME TypeOK, Documented, NEW w \in Workers, TakeJob(w)
  PROVE  Documented'
<1>1. queue \in Seq(Jobs) /\ queue # << >>
  BY DEF TypeOK, TakeJob
<1>2. /\ \A v \in Workers \ {w} : pc'[v] = pc[v] /\ job'[v] = job[v]
      /\ pc'[w] = "load" /\ job'[w] = queue[1] /\ pc[w] = "idle"
      /\ UNCHANGED <<batch, status, attempts, tries, acked, waived>>
      /\ queue' = Tail(queue)
  BY <1>1 DEF TakeJob, TypeOK
<1>3. /\ \A i \in 1..Len(queue') : queue'[i] = queue[i + 1] /\ i + 1 \in 1..Len(queue)
      /\ \A i \in 1..Len(queue) : i # 1 => i - 1 \in 1..Len(queue') /\ queue'[i - 1] = queue[i]
      /\ 1 \in 1..Len(queue) /\ queue[1] \in Jobs
  BY <1>1, <1>2
<1>4. ClaimsDocumented'
  BY <1>2, <1>3 DEF Documented, ClaimsDocumented, DueTry
<1>5. ASSUME NEW v \in Workers PROVE WorkerDocumented(v)'
  <2>1. CASE v = w
    <3>1. queue[1].row \in Rows
      BY <1>3 DEF Jobs
    <3>2. queue[1].attempt = attempts[queue[1].row] /\ DueTry(queue[1].row)
      BY <1>3, <3>1 DEF Documented, ClaimsDocumented
    <3> QED BY <1>2, <2>1, <3>2 DEF WorkerDocumented, DueTry
  <2>2. CASE v # w
    BY <1>2, <2>2 DEF Documented, WorkerDocumented, DueTry
  <2> QED BY <2>1, <2>2
<1>6. ASSUME NEW r \in Rows PROVE RowDocumented(r)'
  <2>1. Held(r) => Held(r)'
    <3>1. CASE r \in DOMAIN batch
      BY <1>2, <3>1 DEF Held
    <3>2. ASSUME NEW i \in 1..Len(queue), queue[i].row = r PROVE Held(r)'
      BY <1>2, <1>3, <3>2 DEF Held
    <3>3. ASSUME NEW v \in Workers, pc[v] # "idle", job[v].row = r PROVE Held(r)'
      BY <1>2, <3>3 DEF Held
    <3> QED BY <3>1, <3>2, <3>3 DEF Held
  <2> QED BY <1>2, <2>1 DEF Documented, RowDocumented, Abandoned
<1> QED BY <1>4, <1>5, <1>6 DEF Documented

\* A worker's step on its own row: every other claim is for another row.
LEMMA OwnRowMoves ==
  ASSUME ExclusionInv, Documented, NEW w \in Workers, pc[w] # "idle",
         NEW r \in Rows, job[w].row = r,
         UNCHANGED <<batch, queue, attempts>>,
         \A v \in Workers \ {w} : pc'[v] = pc[v] /\ job'[v] = job[v],
         \A q \in Rows \ {r} : /\ status'[q] = status[q] /\ tries'[q] = tries[q]
                               /\ acked'[q] = acked[q] /\ waived'[q] = waived[q],
         WorkerDocumented(w)', RowDocumented(r)'
  PROVE  Documented'
<1>t. TypeOK /\ ExclusiveClaim /\ w \in Busy
  BY DEF ExclusionInv, EventInv, Busy
<1>1. r \notin DOMAIN batch /\ \A i \in 1..Len(queue) : queue[i].row # r
  BY <1>t DEF ExclusiveClaim
<1>2. DOMAIN batch \subseteq Rows
  BY <1>t DEF TypeOK
<1>3. \A q \in Rows \ {r} : DueTry(q) => DueTry(q)'
  BY DEF DueTry
<1>4. ClaimsDocumented'
  BY <1>1, <1>2, <1>3 DEF Documented, ClaimsDocumented
<1>5. ASSUME NEW v \in Workers, v # w PROVE WorkerDocumented(v)'
  <2>1. CASE pc[v] = "idle"
    BY <1>5, <2>1 DEF WorkerDocumented
  <2>2. CASE pc[v] # "idle"
    <3>1. WorkerDocumented(v) /\ job[v].row \in Rows
      BY <1>t, <2>2, BusyJob DEF Documented
    <3>2. job[v].row # r
      BY <1>t, <1>5, <2>2 DEF ExclusiveClaim, Busy
    <3> QED BY <1>5, <3>1, <3>2 DEF WorkerDocumented, DueTry
  <2> QED BY <2>1, <2>2
<1>6. ASSUME NEW q \in Rows, q # r PROVE RowDocumented(q)'
  <2>1. Held(q) => Held(q)'
    BY <1>6 DEF Held
  <2> QED BY <1>6, <2>1 DEF Documented, RowDocumented, Abandoned
<1> QED BY <1>4, <1>5, <1>6 DEF Documented

\* The steps of dispatchEventWebhooks between taking a job and ending it.
LEMMA WorkerGoesOn ==
  ASSUME ExclusionInv, Documented, NEW w \in Workers,
         LoadLive(w) \/ LoadUnwanted(w) \/ PostAccepted(w) \/ PostFails(w) \/ GiveUp(w)
  PROVE  Documented'
<1>t. /\ TypeOK /\ pc[w] # "idle"
      /\ Retries \in Nat /\ MaxAttempts \in Nat /\ MaxAttempts > Retries + 1
  BY ParametersAssumption DEF ExclusionInv, EventInv, LoadLive, LoadUnwanted,
     PostAccepted, PostFails, GiveUp
<1>1. PICK r \in Rows : job[w].row = r
  BY <1>t, BusyJob
<1>2. /\ UNCHANGED <<batch, queue, attempts, status, job>>
      /\ \A v \in Workers \ {w} : pc'[v] = pc[v]
      /\ pc'[w] \in {"post", "settle", "failed"}
  BY <1>t DEF LoadLive, LoadUnwanted, PostAccepted, PostFails, GiveUp, TypeOK
<1>3. /\ \A q \in Rows \ {r} : /\ tries'[q] = tries[q] /\ acked'[q] = acked[q]
                               /\ waived'[q] = waived[q]
      /\ waived[r] => waived'[r]
  BY <1>t, <1>1 DEF LoadLive, LoadUnwanted, PostAccepted, PostFails, GiveUp, CountTry, TypeOK
<1>4. status[r] \notin {"none", "pending"} /\ Held(r)'
  <2>1. Held(r)
    BY <1>t, <1>1 DEF Held
  <2>2. Held(r)'
    BY <1>1, <1>2 DEF Held
  <2> QED BY <2>1, <2>2 DEF ExclusionInv, HeldFresh
<1>5. WorkerDocumented(w) /\ RowDocumented(r) /\ attempts[r] \in 0..MaxAttempts
      /\ tries[r] \in 0..MaxAttempts
  BY <1>t DEF Documented, TypeOK
<1>6. CASE LoadLive(w)
  <2>1. WorkerDocumented(w)'
    BY <1>1, <1>2, <1>5, <1>6 DEF WorkerDocumented, LoadLive, DueTry
  <2>2. RowDocumented(r)'
    BY <1>2, <1>4, <1>5, <1>6 DEF RowDocumented, Abandoned, LoadLive
  <2> QED BY <1>1, <1>2, <1>3, <1>t, <2>1, <2>2, OwnRowMoves
<1>7. CASE LoadUnwanted(w)
  <2>1. waived'[r] /\ pc'[w] = "settle"
    BY <1>1, <1>7, <1>t DEF LoadUnwanted, TypeOK
  <2>2. WorkerDocumented(w)'
    BY <1>1, <1>2, <1>5, <1>7, <1>t, <2>1 DEF WorkerDocumented, LoadUnwanted
  <2>3. RowDocumented(r)'
    BY <1>2, <1>4, <1>5, <1>7, <2>1 DEF RowDocumented, Abandoned, LoadUnwanted
  <2> QED BY <1>1, <1>2, <1>3, <1>t, <2>2, <2>3, OwnRowMoves
<1>8. CASE PostAccepted(w) \/ PostFails(w)
  <2>1. DueTry(r) /\ job[w].attempt = attempts[r]
    BY <1>1, <1>5, <1>8 DEF WorkerDocumented, PostAccepted, PostFails
  <2>2. CountTry(r)
    BY <1>1, <1>8 DEF PostAccepted, PostFails
  <2>3. tries'[r] = Min2(tries[r] + 1, MaxAttempts)
    BY <1>t, <2>2 DEF CountTry, TypeOK
  <2>4. tries'[r] = attempts[r] /\ attempts[r] \in 1..Retries + 1
    BY <1>t, <1>5, <2>1, <2>3 DEF DueTry, Min2
  <2>5. tries'[r] <= Retries + 1
    BY <2>4, <1>t
  <2>6. CASE PostAccepted(w)
    <3>1. pc'[w] = "settle" /\ acked'[r]
      BY <1>1, <1>t, <2>6 DEF PostAccepted, TypeOK
    <3>2. WorkerDocumented(w)'
      BY <1>1, <1>2, <1>t, <2>1, <3>1 DEF WorkerDocumented
    <3>3. RowDocumented(r)'
      BY <1>2, <1>4, <2>5, <3>1 DEF RowDocumented, Abandoned
    <3> QED BY <1>1, <1>2, <1>3, <1>t, <3>2, <3>3, OwnRowMoves
  <2>7. CASE PostFails(w)
    <3>1. pc'[w] = "failed" /\ acked' = acked
      BY <1>t, <2>7 DEF PostFails, TypeOK
    <3>2. WorkerDocumented(w)'
      BY <1>1, <1>2, <1>t, <2>1, <2>4, <3>1 DEF WorkerDocumented, DueTry
    <3>3. Abandoned(r)' => tries'[r] >= Retries + 1
      <4>1. Abandoned(r)' => Abandoned(r)
        BY <1>2, <1>3, <3>1, <2>7 DEF Abandoned, PostFails
      <4>2. Abandoned(r) => attempts[r] > Retries + 1
        BY <1>5, <1>t, <2>1 DEF RowDocumented, DueTry
      <4> QED BY <1>t, <2>4, <4>1, <4>2
    <3>4. RowDocumented(r)'
      BY <1>2, <1>4, <2>5, <3>3 DEF RowDocumented
    <3> QED BY <1>1, <1>2, <1>3, <1>t, <3>2, <3>4, OwnRowMoves
  <2> QED BY <1>8, <2>6, <2>7
<1>9. CASE GiveUp(w)
  <2>1. pc[w] = "failed" /\ ~MayRetry(attempts[r]) /\ pc'[w] = "settle"
        /\ UNCHANGED <<tries, acked, waived>>
    BY <1>1, <1>5, <1>9, <1>t DEF GiveUp, WorkerDocumented, TypeOK
  <2>2. tries[r] = attempts[r] /\ attempts[r] \in 1..Retries + 1
    BY <1>1, <1>5, <1>t, <2>1 DEF WorkerDocumented
  <2>3. tries[r] >= Retries + 1
    BY <1>t, <2>1, <2>2 DEF MayRetry
  <2>4. WorkerDocumented(w)'
    BY <1>1, <1>2, <1>5, <1>t, <2>1, <2>3 DEF WorkerDocumented
  <2>5. RowDocumented(r)'
    BY <1>2, <1>4, <1>5, <2>1 DEF RowDocumented, Abandoned
  <2> QED BY <1>1, <1>2, <1>3, <1>t, <2>4, <2>5, OwnRowMoves
<1> QED BY <1>6, <1>7, <1>8, <1>9

\* A job ends with its row closed, or waiting for a retry that it has left.
LEMMA WorkerEnds ==
  ASSUME ExclusionInv, Documented, NEW w \in Workers,
         Reschedule(w) \/ Settle(w) \/ Postpone(w)
  PROVE  Documented'
<1>t. /\ TypeOK /\ pc[w] # "idle" /\ Retries \in Nat
  BY ParametersAssumption DEF ExclusionInv, EventInv, Reschedule, Settle, Postpone
<1>1. PICK r \in Rows : job[w].row = r
  BY <1>t, BusyJob
<1>2. /\ UNCHANGED <<batch, queue, attempts, tries, acked, waived>>
      /\ \A v \in Workers \ {w} : pc'[v] = pc[v] /\ job'[v] = job[v]
      /\ pc'[w] = "idle"
      /\ \A q \in Rows \ {r} : status'[q] = status[q]
  BY <1>t, <1>1 DEF Reschedule, Settle, Postpone, BecomeIdle, MarkOutboxPending,
     MarkOutboxDelivered, TypeOK
<1>3. status[r] \in {"processing", "delivered", "gone"}
  <2>1. Held(r)
    BY <1>t, <1>1 DEF Held
  <2> QED BY <2>1 DEF ExclusionInv, HeldFresh
<1>4. WorkerDocumented(w) /\ RowDocumented(r) /\ attempts[r] \in 0..MaxAttempts
  BY <1>t DEF Documented, TypeOK
<1>5. WorkerDocumented(w)'
  BY <1>2 DEF WorkerDocumented
<1>6. CASE Reschedule(w)
  <2>1. pc[w] = "failed" /\ MayRetry(job[w].attempt) /\ status'[r] \in {"pending", "gone"}
    BY <1>1, <1>3, <1>6, <1>t DEF Reschedule, MarkOutboxPending, Exists, TypeOK
  <2>2. tries[r] = attempts[r] /\ attempts[r] <= Retries /\ ~acked[r]
    BY <1>1, <1>4, <1>t, <2>1 DEF WorkerDocumented, MayRetry
  <2>3. RowDocumented(r)'
    BY <1>2, <1>4, <2>1, <2>2 DEF RowDocumented, Abandoned
  <2> QED BY <1>1, <1>2, <1>5, <1>t, <2>3, OwnRowMoves
<1>7. CASE Settle(w)
  <2>1. pc[w] = "settle" /\ status'[r] \in {"delivered", "gone"}
    BY <1>1, <1>3, <1>7, <1>t DEF Settle, MarkOutboxDelivered, Exists, TypeOK
  <2>2. acked[r] \/ waived[r] \/ tries[r] >= Retries + 1
    BY <1>1, <1>4, <2>1 DEF WorkerDocumented
  <2>3. RowDocumented(r)'
    BY <1>2, <1>4, <2>1, <2>2 DEF RowDocumented, Abandoned
  <2> QED BY <1>1, <1>2, <1>5, <1>t, <2>3, OwnRowMoves
<1>8. ~Postpone(w)
  BY <1>4 DEF Postpone, WorkerDocumented
<1> QED BY <1>6, <1>7, <1>8

LEMMA OrdinaryDocumented ==
  ASSUME ExclusionInv, Documented, Ordinary
  PROVE  Documented'
<1>t. TypeOK /\ EventInv
  BY DEF ExclusionInv, EventInv
<1>1. CASE Handlers
  BY <1>1, <1>t, HandlersDocumented
<1>2. CASE Clock \/ DrainBegin
  <2>1. UNCHANGED <<attempts, tries, acked, waived, status, batch, queue, pc, job>>
    BY <1>2 DEF Clock, RetryTimeComes, LeaseExpires, DrainBegin
  <2> QED BY <1>t, <2>1, TablesMove
<1>3. CASE ClaimPendingOutboxEvents
  BY <1>3, ClaimDocumented
<1>4. ASSUME NEW r \in Rows, Enqueue(r) PROVE Documented'
  BY <1>4, EnqueueDocumented
<1>5. ASSUME NEW w \in Workers, WorkerStep(w) PROVE Documented'
  BY <1>5, <1>t, TakeDocumented, WorkerGoesOn, WorkerEnds DEF WorkerStep
<1> QED BY <1>1, <1>2, <1>3, <1>4, <1>5 DEF Ordinary, Drain

\* What was accepted is not posted again: only a due try is made.
LEMMA AcceptedOnce ==
  ASSUME ExclusionInv, Documented, Ordinary, NEW r \in Rows, acked[r]
  PROVE  tries'[r] = tries[r]
<1>t. TypeOK
  BY DEF ExclusionInv, EventInv
<1>1. ASSUME NEW w \in Workers, PostAccepted(w) \/ PostFails(w)
      PROVE  tries'[r] = tries[r]
  <2>1. pc[w] = "post" /\ CountTry(job[w].row) /\ WorkerDocumented(w)
    BY <1>1 DEF PostAccepted, PostFails, Documented
  <2>2. job[w].row # r
    BY <2>1 DEF WorkerDocumented, DueTry
  <2> QED BY <1>t, <2>1, <2>2 DEF CountTry, TypeOK
<1>2. CASE Handlers \/ Clock \/ Drain
  BY <1>2 DEF Handlers, CreateWebhook, UpdateWebhook, DeleteWebhook, EmitEvent,
    EmitTestEvent, MarkEventOutboxDelivered, PruneEvent, Clock, RetryTimeComes,
    LeaseExpires, Drain, DrainBegin, ClaimPendingOutboxEvents, Enqueue
<1>3. ASSUME NEW w \in Workers, WorkerStep(w), ~PostAccepted(w), ~PostFails(w)
      PROVE  tries'[r] = tries[r]
  BY <1>3 DEF WorkerStep, TakeJob, LoadLive, LoadUnwanted, Reschedule, GiveUp,
    Settle, Postpone
<1> QED BY <1>1, <1>2, <1>3 DEF Ordinary

HistoryInv == ExclusionInv /\ (~failed => Documented)

\* As long as every job is done within its lease: until the first failure a
\* processing row is in the process's hands, no row is given up before its last
\* retry, none is posted more often than the retries say, nor again once it was
\* accepted (ClaimPendingOutboxEvents, dispatchEventWebhooks,
\* rescheduleWebhookEvent).
THEOREM AsDocumentedUntilFailureCorrect ==
  ASSUME "slow" \notin Faults
  PROVE  HistorySpec => AsDocumentedUntilFailure
<1>1. HistoryInit => HistoryInv
  BY ExclusionInit, DocumentedInit DEF HistoryInit, HistoryInv
<1>2. HistoryNext => Next
  BY DEF HistoryNext, Ordinary, Next
<1>3. HistoryInv /\ [HistoryNext]_historyVars => HistoryInv'
  <2> SUFFICES ASSUME HistoryInv, [HistoryNext]_historyVars PROVE HistoryInv'
    OBVIOUS
  <2>1. [Next]_vars
    BY <1>2 DEF historyVars
  <2>2. ExclusionInv'
    BY <2>1, ExclusionStep DEF HistoryInv
  <2>3. CASE Ordinary /\ UNCHANGED failed
    BY <2>2, <2>3, OrdinaryDocumented DEF HistoryInv
  <2>4. CASE Failure /\ failed' = TRUE
    BY <2>2, <2>4 DEF HistoryInv
  <2>5. CASE UNCHANGED historyVars
    <3>1. ~failed => Documented'
      BY <2>5, TablesMove DEF historyVars, vars, HistoryInv, ExclusionInv, EventInv
    <3> QED BY <2>2, <2>5, <3>1 DEF HistoryInv, historyVars
  <2> QED BY <2>3, <2>4, <2>5 DEF HistoryNext
<1>5. HistoryInv /\ HistoryInv' /\ [HistoryNext]_historyVars =>
        [~failed' =>
           /\ NoOrphanedClaim' /\ FullRetryPolicy' /\ RetryBudget'
           /\ \A r \in Rows : acked[r] => tries'[r] = tries[r]]_historyVars
  <2> SUFFICES ASSUME HistoryInv, HistoryInv', HistoryNext, ~failed'
               PROVE  /\ NoOrphanedClaim' /\ FullRetryPolicy' /\ RetryBudget'
                      /\ \A r \in Rows : acked[r] => tries'[r] = tries[r]
    OBVIOUS
  <2>1. Ordinary /\ ~failed
    BY DEF HistoryNext
  <2>2. Documented' /\ Documented /\ ExclusionInv
    BY <2>1 DEF HistoryInv
  <2>3. NoOrphanedClaim' /\ FullRetryPolicy' /\ RetryBudget'
    BY <2>2 DEF Documented, RowDocumented, NoOrphanedClaim, FullRetryPolicy, RetryBudget
  <2> QED BY <2>1, <2>2, <2>3, AcceptedOnce
<1> QED
  BY <1>1, <1>3, <1>5, PTL DEF HistorySpec, AsDocumentedUntilFailure
=============================================================================
