---------------------------- MODULE WebhookOutbox ----------------------------
(***************************************************************************)
(* The transactional outbox that fans events out to webhooks: the tables   *)
(* webhooks, events and event_outbox, the single drainer goroutine, the    *)
(* bounded in-memory queue and the pool of delivery workers.               *)
(*                                                                         *)
(* The store has one connection, so each store call is one atomic step;    *)
(* everything between two store calls interleaves.  A clock is not         *)
(* modelled: "ripe" says that the time a row waits for (next_run_at of a   *)
(* pending row, updated_at plus the lease of a processing one) has come.   *)
(***************************************************************************)
EXTENDS Integers, Sequences, FiniteSets

CONSTANTS
  Events,       \* ids of the events that may be emitted
  Hooks,        \* ids of the webhooks that may be created
  Workers,      \* delivery goroutines
  QueueCap,     \* capacity of the channel between drainer and workers
  MaxBatch,     \* most rows one drain may claim
  Retries,      \* number of configured retry delays
  MaxAttempts,  \* where the model stops counting claims of one row
  Faults,       \* which failures happen: see FaultKinds
  NoJob         \* what an idle worker holds

FaultKinds == {"crash",   \* the process stops and starts again
               "slow",    \* a claimed job outlives its lease
               "db",      \* a store call made by a worker or the drainer fails
               "key"}     \* a webhook's secret cannot be decrypted

Rows == Events \X Hooks
Attempts == 1..MaxAttempts
Jobs == [row : Rows, attempt : Attempts]

ASSUME ParametersAssumption ==
  /\ QueueCap \in Nat \ {0}
  /\ MaxBatch \in Nat \ {0}
  /\ Retries \in Nat
  /\ MaxAttempts \in Nat
  /\ MaxAttempts > Retries + 1
  /\ NoJob \notin Jobs

ASSUME FiniteAssumption ==
  /\ IsFiniteSet(Events)
  /\ IsFiniteSet(Hooks)
  /\ Faults \subseteq FaultKinds

VARIABLES
  hook,      \* webhooks table: "on" is enabled and subscribed, "off" either not
  event,     \* events table, with the class of each event
  status,    \* event_outbox.status, per (event, webhook)
  attempts,  \* event_outbox.attempts
  ripe,      \* the clock has reached the time the row waits for
  unmarked,  \* webhook.test events whose emitter has yet to mark their rows
  room,      \* drainer: the limit it computed for the next claim, 0 when idle
  batch,     \* drainer: claimed rows not yet queued, with the attempt claimed
  queue,     \* channel of jobs
  pc,        \* worker: its place in dispatchEventWebhooks
  job,       \* worker: the job it handles
  tries,     \* history: delivery attempts made for the row
  acked,     \* history: some attempt for the row saw a 2xx response
  waived     \* history: the row was closed on purpose without a delivery

vars == <<hook, event, status, attempts, ripe, unmarked, room, batch, queue,
          pc, job, tries, acked, waived>>

Min2(a, b) == IF a < b THEN a ELSE b

Exists(r) == status[r] \in {"pending", "processing", "delivered"}

\* A claimed job for the row is still somewhere in this process.
Held(r) ==
  \/ r \in DOMAIN batch
  \/ \E i \in 1..Len(queue) : queue[i].row = r
  \/ \E w \in Workers : pc[w] # "idle" /\ job[w].row = r

Init ==
  /\ hook = [h \in Hooks |-> "absent"]
  /\ event = [e \in Events |-> "unborn"]
  /\ status = [r \in Rows |-> "none"]
  /\ attempts = [r \in Rows |-> 0]
  /\ ripe = [r \in Rows |-> FALSE]
  /\ unmarked = {}
  /\ room = 0
  /\ batch = [r \in {} |-> 0]
  /\ queue = << >>
  /\ pc = [w \in Workers |-> "idle"]
  /\ job = [w \in Workers |-> NoJob]
  /\ tries = [r \in Rows |-> 0]
  /\ acked = [r \in Rows |-> FALSE]
  /\ waived = [r \in Rows |-> FALSE]

-----------------------------------------------------------------------------
(* Webhook administration: the store calls of the HTTP handlers.           *)

\* ON DELETE CASCADE: the outbox rows in S disappear with what they refer to.
DropRows(S) ==
  /\ status' = [r \in Rows |-> IF r \in S /\ Exists(r) THEN "gone" ELSE status[r]]
  /\ ripe' = [r \in Rows |-> ripe[r] /\ r \notin S]

CreateWebhook(h) ==
  /\ hook[h] = "absent"
  /\ hook' = [hook EXCEPT ![h] = "on"]
  /\ UNCHANGED <<event, status, attempts, ripe, unmarked, room, batch, queue,
                 pc, job, tries, acked, waived>>

\* UPDATE webhooks and the subscription table in one transaction.
UpdateWebhook(h) ==
  /\ hook[h] \in {"on", "off"}
  /\ hook' = [hook EXCEPT ![h] = IF @ = "on" THEN "off" ELSE "on"]
  /\ UNCHANGED <<event, status, attempts, ripe, unmarked, room, batch, queue,
                 pc, job, tries, acked, waived>>

DeleteWebhook(h) ==
  /\ hook[h] \in {"on", "off"}
  /\ hook' = [hook EXCEPT ![h] = "deleted"]
  /\ DropRows({r \in Rows : r[2] = h})
  /\ UNCHANGED <<event, attempts, unmarked, room, batch, queue, pc, job,
                 tries, acked, waived>>

-----------------------------------------------------------------------------
(* Emitting and pruning events.                                            *)

\* One transaction stores the event and one pending, due row per webhook
\* that is enabled and subscribed at that moment.
CreateEvent(e, class) ==
  /\ event[e] = "unborn"
  /\ event' = [event EXCEPT ![e] = class]
  /\ LET fanout == {r \in Rows : r[1] = e /\ hook[r[2]] = "on"}
     IN  /\ status' = [r \in Rows |-> IF r \in fanout THEN "pending" ELSE status[r]]
         /\ ripe' = [r \in Rows |-> ripe[r] \/ r \in fanout]

\* emitEvent and emitExternalEvent; waking the drainer changes no state that
\* its ticker does not change a second later.
EmitEvent(e) ==
  /\ CreateEvent(e, "ordinary")
  /\ UNCHANGED <<hook, attempts, unmarked, room, batch, queue, pc, job,
                 tries, acked, waived>>

\* emitEvent of webhook.test: the rows are closed by a second store call.
EmitTestEvent(e) ==
  /\ CreateEvent(e, "test")
  /\ unmarked' = unmarked \cup {e}
  /\ UNCHANGED <<hook, attempts, room, batch, queue, pc, job,
                 tries, acked, waived>>

MarkEventOutboxDelivered(e) ==
  LET rows == {r \in Rows : r[1] = e /\ Exists(r)}
  IN  /\ e \in unmarked
      /\ unmarked' = unmarked \ {e}
      /\ status' = [r \in Rows |-> IF r \in rows THEN "delivered" ELSE status[r]]
      /\ ripe' = [r \in Rows |-> ripe[r] /\ r \notin rows]
      /\ waived' = [r \in Rows |-> waived[r] \/ r \in rows]
      /\ UNCHANGED <<hook, event, attempts, room, batch, queue, pc, job,
                     tries, acked>>

\* The second call fails: only logged, the rows stay for the drainer.
MarkTestFails(e) ==
  /\ "db" \in Faults
  /\ e \in unmarked
  /\ unmarked' = unmarked \ {e}
  /\ UNCHANGED <<hook, event, status, attempts, ripe, room, batch, queue, pc,
                 job, tries, acked, waived>>

\* Retention deletes events by age and by number, whatever became of their
\* rows.  A batch is a prefix of the event order; one event at a time covers
\* every batch.
PruneEvent(e) ==
  /\ event[e] \in {"ordinary", "test"}
  /\ event' = [event EXCEPT ![e] = "pruned"]
  /\ DropRows({r \in Rows : r[1] = e})
  /\ UNCHANGED <<hook, attempts, unmarked, room, batch, queue, pc, job,
                 tries, acked, waived>>

-----------------------------------------------------------------------------
(* The passage of time.                                                    *)

RetryTimeComes(r) ==
  /\ status[r] = "pending" /\ ~ripe[r]
  /\ ripe' = [ripe EXCEPT ![r] = TRUE]
  /\ UNCHANGED <<hook, event, status, attempts, unmarked, room, batch, queue,
                 pc, job, tries, acked, waived>>

\* Without the "slow" fault a job is finished, or lost, within its lease.
LeaseExpires(r) ==
  /\ status[r] = "processing" /\ ~ripe[r]
  /\ "slow" \in Faults \/ ~Held(r)
  /\ ripe' = [ripe EXCEPT ![r] = TRUE]
  /\ UNCHANGED <<hook, event, status, attempts, unmarked, room, batch, queue,
                 pc, job, tries, acked, waived>>

-----------------------------------------------------------------------------
(* The drainer: drainWebhookOutbox.                                        *)

\* Faulty variant: the limit is not clamped to the free places.
DrainBeginUnclamped ==
  /\ room = 0 /\ DOMAIN batch = {}
  /\ Len(queue) < QueueCap
  /\ room' = MaxBatch
  /\ UNCHANGED <<hook, event, status, attempts, ripe, unmarked, batch, queue,
                 pc, job, tries, acked, waived>>

\* The limit is read from the channel before the claim is made.
DrainBegin ==
  /\ room = 0 /\ DOMAIN batch = {}
  /\ Len(queue) < QueueCap
  /\ room' = Min2(QueueCap - Len(queue), MaxBatch)
  /\ UNCHANGED <<hook, event, status, attempts, ripe, unmarked, batch, queue,
                 pc, job, tries, acked, waived>>

\* Faulty variants: claimed rows are claimed again at once, or never again.
ClaimableUnleased ==
  {r \in Rows : status[r] = "processing" \/ (status[r] = "pending" /\ ripe[r])}
ClaimablePendingOnly == {r \in Rows : status[r] = "pending" /\ ripe[r]}

Claimable == {r \in Rows : status[r] \in {"pending", "processing"} /\ ripe[r]}

\* ORDER BY next_run_at LIMIT n: NULL sorts first, so expired claims precede
\* due rows; the order among equals is left open.
Claims(n) ==
  {S \in SUBSET Claimable :
     /\ Cardinality(S) = Min2(n, Cardinality(Claimable))
     /\ \A r \in S, q \in Claimable \ S :
          status[q] = "processing" => status[r] = "processing"}

\* attempts + 1; past MaxAttempts all numbers behave alike (Reschedule).
NextAttempt(n) == Min2(n + 1, MaxAttempts)

\* Faulty variants: the claim does not store the new attempt number, or does
\* not mark the rows.
ClaimUncounted ==
  /\ room > 0
  /\ room' = 0
  /\ \E S \in Claims(room) :
       /\ status' = [r \in Rows |-> IF r \in S THEN "processing" ELSE status[r]]
       /\ ripe' = [r \in Rows |-> ripe[r] /\ r \notin S]
       /\ batch' = [r \in S |-> NextAttempt(attempts[r])]
  /\ UNCHANGED <<hook, event, attempts, unmarked, queue, pc, job, tries, acked,
                 waived>>
ClaimUnmarked ==
  /\ room > 0
  /\ room' = 0
  /\ \E S \in Claims(room) :
       /\ attempts' = [r \in Rows |-> IF r \in S THEN NextAttempt(attempts[r])
                                                 ELSE attempts[r]]
       /\ batch' = [r \in S |-> NextAttempt(attempts[r])]
  /\ UNCHANGED <<hook, event, status, ripe, unmarked, queue, pc, job, tries,
                 acked, waived>>

ClaimPendingOutboxEvents ==
  /\ room > 0
  /\ room' = 0
  /\ \E S \in Claims(room) :
       /\ status' = [r \in Rows |-> IF r \in S THEN "processing" ELSE status[r]]
       /\ attempts' = [r \in Rows |-> IF r \in S THEN NextAttempt(attempts[r])
                                                 ELSE attempts[r]]
       /\ ripe' = [r \in Rows |-> ripe[r] /\ r \notin S]
       /\ batch' = [r \in S |-> NextAttempt(attempts[r])]
  /\ UNCHANGED <<hook, event, unmarked, queue, pc, job, tries, acked, waived>>

\* The claim's transaction fails or times out and is rolled back.
ClaimFails ==
  /\ "db" \in Faults
  /\ room > 0
  /\ room' = 0
  /\ UNCHANGED <<hook, event, status, attempts, ripe, unmarked, batch, queue,
                 pc, job, tries, acked, waived>>

\* Faulty variants: an upsert revives a deleted row; the guard on the status
\* misses claimed rows.
MarkOutboxPendingUpserts(r) ==
  /\ status' = [status EXCEPT ![r] = "pending"]
  /\ ripe' = [ripe EXCEPT ![r] = FALSE]
MarkOutboxDeliveredIfPending(r) ==
  /\ status' = [status EXCEPT ![r] = IF @ = "pending" THEN "delivered" ELSE @]
  /\ UNCHANGED ripe

\* UPDATE event_outbox SET status = 'pending', next_run_at = later, by id only.
MarkOutboxPending(r) ==
  /\ status' = [status EXCEPT ![r] = IF Exists(r) THEN "pending" ELSE @]
  /\ ripe' = [ripe EXCEPT ![r] = FALSE]

\* UPDATE event_outbox SET status = 'delivered', by id only.
MarkOutboxDelivered(r) ==
  /\ status' = [status EXCEPT ![r] = IF Exists(r) THEN "delivered" ELSE @]
  /\ ripe' = [ripe EXCEPT ![r] = FALSE]

\* A full channel sends the row back to pending.
Enqueue(r) ==
  /\ r \in DOMAIN batch
  /\ batch' = [q \in DOMAIN batch \ {r} |-> batch[q]]
  /\ IF Len(queue) < QueueCap
       THEN /\ queue' = Append(queue, [row |-> r, attempt |-> batch[r]])
            /\ UNCHANGED <<status, ripe>>
       ELSE /\ MarkOutboxPending(r)
            /\ UNCHANGED queue
  /\ UNCHANGED <<hook, event, attempts, unmarked, room, pc, job, tries, acked,
                 waived>>

-----------------------------------------------------------------------------
(* A worker: webhookWorker and dispatchEventWebhooks.  The delivery log    *)
(* (CreateWebhookDelivery) is written but never read on this path and its  *)
(* failures are ignored, so it is left out; "tries" counts its entries.    *)

TakeJob(w) ==
  /\ pc[w] = "idle"
  /\ queue # << >>
  /\ job' = [job EXCEPT ![w] = Head(queue)]
  /\ pc' = [pc EXCEPT ![w] = "load"]
  /\ queue' = Tail(queue)
  /\ UNCHANGED <<hook, event, status, attempts, ripe, unmarked, room, batch,
                 tries, acked, waived>>

\* GetWebhook finds the webhook enabled and subscribed.
LoadLive(w) ==
  /\ pc[w] = "load"
  /\ hook[job[w].row[2]] = "on"
  /\ pc' = [pc EXCEPT ![w] = "post"]
  /\ UNCHANGED <<hook, event, status, attempts, ripe, unmarked, room, batch,
                 queue, job, tries, acked, waived>>

\* The webhook is missing, disabled or no longer subscribed.
LoadUnwanted(w) ==
  /\ pc[w] = "load"
  /\ hook[job[w].row[2]] # "on"
  /\ pc' = [pc EXCEPT ![w] = "settle"]
  /\ waived' = [waived EXCEPT ![job[w].row] = TRUE]
  /\ UNCHANGED <<hook, event, status, attempts, ripe, unmarked, room, batch,
                 queue, job, tries, acked>>

LoadError(w) ==
  /\ "db" \in Faults
  /\ pc[w] = "load"
  /\ pc' = [pc EXCEPT ![w] = "postpone"]
  /\ UNCHANGED <<hook, event, status, attempts, ripe, unmarked, room, batch,
                 queue, job, tries, acked, waived>>

CountTry(r) == tries' = [tries EXCEPT ![r] = Min2(@ + 1, MaxAttempts)]

\* An undecryptable secret is logged as a failed delivery.
DecryptFails(w) ==
  /\ "key" \in Faults
  /\ pc[w] = "load"
  /\ hook[job[w].row[2]] = "on"
  /\ pc' = [pc EXCEPT ![w] = "failed"]
  /\ CountTry(job[w].row)
  /\ UNCHANGED <<hook, event, status, attempts, ripe, unmarked, room, batch,
                 queue, job, acked, waived>>

PostAccepted(w) ==
  /\ pc[w] = "post"
  /\ pc' = [pc EXCEPT ![w] = "settle"]
  /\ CountTry(job[w].row)
  /\ acked' = [acked EXCEPT ![job[w].row] = TRUE]
  /\ UNCHANGED <<hook, event, status, attempts, ripe, unmarked, room, batch,
                 queue, job, waived>>

\* No 2xx was seen: the receiver may still have had the event.
PostFails(w) ==
  /\ pc[w] = "post"
  /\ pc' = [pc EXCEPT ![w] = "failed"]
  /\ CountTry(job[w].row)
  /\ UNCHANGED <<hook, event, status, attempts, ripe, unmarked, room, batch,
                 queue, job, acked, waived>>

\* Faulty variants: one retry too few, no end of retries.
MayRetryEarlyStop(attempt) == attempt >= 1 /\ attempt < Retries
MayRetryAlways(attempt) == attempt >= 1

MayRetry(attempt) == attempt >= 1 /\ attempt <= Retries

BecomeIdle(w) ==
  /\ pc' = [pc EXCEPT ![w] = "idle"]
  /\ job' = [job EXCEPT ![w] = NoJob]

\* Faulty variant: the worker goes idle without storing the retry.
RescheduleForgets(w) ==
  /\ pc[w] = "failed"
  /\ MayRetry(job[w].attempt)
  /\ BecomeIdle(w)
  /\ UNCHANGED <<hook, event, status, attempts, ripe, unmarked, room, batch,
                 queue, tries, acked, waived>>

Reschedule(w) ==
  /\ pc[w] = "failed"
  /\ MayRetry(job[w].attempt)
  /\ MarkOutboxPending(job[w].row)
  /\ BecomeIdle(w)
  /\ UNCHANGED <<hook, event, attempts, unmarked, room, batch, queue, tries,
                 acked, waived>>

\* No retry is left: the row is closed.
GiveUp(w) ==
  /\ pc[w] = "failed"
  /\ ~MayRetry(job[w].attempt)
  /\ pc' = [pc EXCEPT ![w] = "settle"]
  /\ UNCHANGED <<hook, event, status, attempts, ripe, unmarked, room, batch,
                 queue, job, tries, acked, waived>>

\* Storing the retry fails: the code closes the row as if none were left.
RescheduleFails(w) ==
  /\ "db" \in Faults
  /\ pc[w] = "failed"
  /\ MayRetry(job[w].attempt)
  /\ pc' = [pc EXCEPT ![w] = "settle"]
  /\ UNCHANGED <<hook, event, status, attempts, ripe, unmarked, room, batch,
                 queue, job, tries, acked, waived>>

Settle(w) ==
  /\ pc[w] = "settle"
  /\ MarkOutboxDelivered(job[w].row)
  /\ BecomeIdle(w)
  /\ UNCHANGED <<hook, event, attempts, unmarked, room, batch, queue, tries,
                 acked, waived>>

\* GetWebhook failed: try again in thirty seconds.
Postpone(w) ==
  /\ pc[w] = "postpone"
  /\ MarkOutboxPending(job[w].row)
  /\ BecomeIdle(w)
  /\ UNCHANGED <<hook, event, attempts, unmarked, room, batch, queue, tries,
                 acked, waived>>

\* The worker's closing store call fails: only logged, the row stays as it is.
StoreFails(w) ==
  /\ "db" \in Faults
  /\ pc[w] \in {"settle", "postpone"}
  /\ BecomeIdle(w)
  /\ UNCHANGED <<hook, event, status, attempts, ripe, unmarked, room, batch,
                 queue, tries, acked, waived>>

-----------------------------------------------------------------------------
(* The process stops: the tables survive, everything in memory is lost.    *)

Crash ==
  /\ "crash" \in Faults
  /\ unmarked' = {}
  /\ room' = 0
  /\ batch' = [r \in {} |-> 0]
  /\ queue' = << >>
  /\ pc' = [w \in Workers |-> "idle"]
  /\ job' = [w \in Workers |-> NoJob]
  /\ UNCHANGED <<hook, event, status, attempts, ripe, tries, acked, waived>>

-----------------------------------------------------------------------------
Handlers ==
  \/ \E h \in Hooks : CreateWebhook(h) \/ UpdateWebhook(h) \/ DeleteWebhook(h)
  \/ \E e \in Events : \/ EmitEvent(e) \/ EmitTestEvent(e)
                       \/ MarkEventOutboxDelivered(e) \/ PruneEvent(e)

Clock == \E r \in Rows : RetryTimeComes(r) \/ LeaseExpires(r)

Drain == DrainBegin \/ ClaimPendingOutboxEvents \/ \E r \in Rows : Enqueue(r)

WorkerStep(w) ==
  \/ TakeJob(w) \/ LoadLive(w) \/ LoadUnwanted(w)
  \/ PostAccepted(w) \/ PostFails(w)
  \/ Reschedule(w) \/ GiveUp(w) \/ Settle(w) \/ Postpone(w)

Failure ==
  \/ Crash \/ ClaimFails
  \/ \E e \in Events : MarkTestFails(e)
  \/ \E w \in Workers : \/ LoadError(w) \/ DecryptFails(w)
                        \/ RescheduleFails(w) \/ StoreFails(w)

Next == Handlers \/ Clock \/ Drain \/ (\E w \in Workers : WorkerStep(w)) \/ Failure

Spec == Init /\ [][Next]_vars

-----------------------------------------------------------------------------
(* Properties.                                                             *)

Busy == {w \in Workers : pc[w] # "idle"}

\* Types of all variables; an idle worker holds no job and a busy one does.
TypeOK ==
  /\ hook \in [Hooks -> {"absent", "on", "off", "deleted"}]
  /\ event \in [Events -> {"unborn", "ordinary", "test", "pruned"}]
  /\ status \in [Rows -> {"none", "pending", "processing", "delivered", "gone"}]
  /\ attempts \in [Rows -> 0..MaxAttempts]
  /\ ripe \in [Rows -> BOOLEAN]
  /\ unmarked \in SUBSET Events
  /\ room \in 0..QueueCap
  /\ DOMAIN batch \in SUBSET Rows
  /\ batch \in [DOMAIN batch -> Attempts]
  /\ queue \in Seq(Jobs)
  /\ pc \in [Workers -> {"idle", "load", "post", "failed", "settle", "postpone"}]
  /\ job \in [Workers -> Jobs \cup {NoJob}]
  /\ tries \in [Rows -> 0..MaxAttempts]
  /\ acked \in [Rows -> BOOLEAN]
  /\ waived \in [Rows -> BOOLEAN]
  /\ \A w \in Workers : pc[w] = "idle" <=> job[w] = NoJob

\* The limit computed before the claim (webhook_dispatch.go:88) still fits
\* when the claimed rows are queued later, so the "queue full" branch of
\* drainWebhookOutbox is never taken and no claim is wasted on it.
QueueNeverOverflows == room + Cardinality(DOMAIN batch) + Len(queue) <= QueueCap

\* As long as every job is done within its lease, whatever crashes or fails,
\* a row has at most one claimed job in the whole process: two workers never
\* deliver the same event to the same webhook at once.
ExclusiveClaim ==
  /\ \A i, j \in 1..Len(queue) : queue[i].row = queue[j].row => i = j
  /\ \A i \in 1..Len(queue) : queue[i].row \notin DOMAIN batch
  /\ \A w \in Busy : /\ job[w].row \notin DOMAIN batch
                     /\ \A i \in 1..Len(queue) : queue[i].row # job[w].row
  /\ \A v, w \in Busy : job[v].row = job[w].row => v = w

\* Even when leases expire under live jobs, one claim of a row (one attempt
\* number, below the model's cap) is in one place only: claiming and handing
\* over never duplicates a job (TestClaimPendingOutboxEventsPreventsDuplicateClaim).
ClaimDispatchedOnce ==
  /\ \A i, j \in 1..Len(queue) :
       queue[i] = queue[j] /\ queue[i].attempt < MaxAttempts => i = j
  /\ \A r \in DOMAIN batch : batch[r] < MaxAttempts =>
       /\ \A i \in 1..Len(queue) : queue[i] # [row |-> r, attempt |-> batch[r]]
       /\ \A w \in Busy : job[w] # [row |-> r, attempt |-> batch[r]]
  /\ \A w \in Busy : job[w].attempt < MaxAttempts =>
       /\ \A i \in 1..Len(queue) : queue[i] # job[w]
       /\ \A v \in Busy : job[v] = job[w] => v = w

\* Without crashes and store failures a processing row is in the hands of
\* this process: no event waits for the two-minute lease to be picked up.
NoOrphanedClaim == \A r \in Rows : status[r] = "processing" => Held(r)

TriesWithinClaims == \A r \in Rows : tries[r] <= attempts[r]

\* Whatever fails and however late a worker is, an attempt is delivered on the
\* strength of a claim of its own (ClaimPendingOutboxEvents counts it), and one
\* claim is not spent twice.
ClaimsSpentOnce == ClaimDispatchedOnce /\ TriesWithinClaims

Abandoned(r) == status[r] = "delivered" /\ ~acked[r] /\ ~waived[r]

\* "3 retries with exponential backoff" (docs/spec/platform.md:35): a row that
\* no receiver accepted is closed only after the first try and every retry.
FullRetryPolicy == \A r \in Rows : Abandoned(r) => tries[r] >= Retries + 1

\* The same sentence read as an upper bound on the requests per row.
RetryBudget == \A r \in Rows : tries[r] <= Retries + 1

\* A delivered row of an ordinary event is not reopened by a late worker,
\* although MarkOutboxPending updates by id alone.
SettledStaysSettled ==
  [][\A r \in Rows :
       status[r] = "delivered" /\ event[r[1]] = "ordinary"
         => status'[r] \in {"delivered", "gone"}]_vars

\* The rows implement the contract: every step of the drainer, the workers,
\* retention and the handlers is one of its steps or leaves it unchanged.
PhaseOf(st) ==
  IF st \in {"pending", "processing"} THEN "owed"
  ELSE IF st = "delivered" THEN "closed"
  ELSE IF st = "gone" THEN "withdrawn" ELSE "none"

Phase(r) == PhaseOf(status[r])

Contract == INSTANCE DeliveryContract WITH
  Pairs <- Rows, phase <- [r \in Rows |-> Phase(r)], accepted <- acked

\* No late worker resurrects a row deleted with its event or webhook, closes
\* one that was never queued, or delivers one that was never promised.
HonoursContract == Contract!SafeSpec
=============================================================================
