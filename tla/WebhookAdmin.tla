----------------------------- MODULE WebhookAdmin -----------------------------
(***************************************************************************)
(* Administration of webhooks: the rows, the subscriptions kept beside     *)
(* them for the fan-out, the delivery log, and handlers that read a row,   *)
(* change their copy and write all of it back; and how one delivery is     *)
(* made, redirects included.  Each store call and each lookup is a step;   *)
(* when the others are sent is WebhookOutbox's.                            *)
(***************************************************************************)
EXTENDS Naturals, Sequences

CONSTANTS
  Hooks,       \* the ids webhooks may get
  Requests,
  Types,       \* event types: sequences of the words between their dots
  Patterns,    \* what may be asked for: [words, tail], tail one of Tails
  MaxChanges,  \* bound: secrets ever set
  LogLimit,    \* entries the log keeps per webhook
  MaxTests,   \* bound: events emitted
  None

Tails == {"", ".", ".*"}
Everything == [words |-> <<>>, tail |-> ".*"]  \* "*"

ASSUME AdminAssumption ==
  /\ Patterns \subseteq [words : Seq(STRING), tail : Tails]
  /\ {MaxChanges, LogLimit, MaxTests} \subseteq Nat
  /\ None \notin Hooks
  /\ None \notin [enabled : BOOLEAN, events : SUBSET Patterns, secret : Nat]

VARIABLES
  hook,      \* webhooks: a row [enabled, events, secret], None without one
  subs,      \* webhook_events: the patterns of a webhook
  log,       \* webhook_deliveries: the events logged of a webhook, in order
  step,        \* a request's next step
  job,       \* the webhook it is about and its copy of the row
  used,      \* history: ids that were given
  changes,   \* history: secrets set
  events,    \* history: events emitted
  reached,   \* history: addresses a delivery was sent to
  promised,  \* history: the row acknowledged changes add up to
  blurred    \* history: webhooks whose requests overlapped or failed halfway

tables == <<hook, subs, log>>
history == <<used, changes, events, reached, promised, blurred>>
adminVars == <<tables, step, job, history>>

MaxRequests == 3  \* requests of one delivery: the first and what it is redirected to

Copy(h, row, asked) == [hook |-> h, row |-> row, asked |-> asked, event |-> 0, sent |-> 0]
Test(h, n) == [hook |-> h, row |-> None, asked |-> {}, event |-> n, sent |-> 0]
NoJob == Test(None, 0)

AdminInit ==
  /\ hook = [h \in Hooks |-> None]
  /\ subs = [h \in Hooks |-> {}]
  /\ log = [h \in Hooks |-> <<>>]
  /\ step = [r \in Requests |-> "idle"] /\ job = [r \in Requests |-> NoJob]
  /\ used = {} /\ changes = 0 /\ events = 0 /\ reached = {}
  /\ promised = [h \in Hooks |-> None] /\ blurred = {}

Goto(r, next, j) == step' = [step EXCEPT ![r] = next] /\ job' = [job EXCEPT ![r] = j]
End(r) == Goto(r, "idle", NoJob)
About(h) == {r \in Requests : job[r].hook = h /\ step[r] \in {"disable", "update"}}

-----------------------------------------------------------------------------
(* Patterns and event types.                                               *)
StartsWith(t, words) == Len(t) > Len(words) /\ SubSeq(t, 1, Len(words)) = words

\* webhookSubscribesToEvent; the join in CreateEvent asks the same in SQL.
Matches(p, t) == IF p.tail = "" THEN t = p.words ELSE StartsWith(t, p.words)

\* webhookEventTypeAllowed: "*", a known type, or a prefix some known type has.
webhookEventTypeAllowed(p) ==
  p = Everything \/ (p.words # <<>> /\ \E t \in Types : Matches(p, t))

\* ValidateWebhookEvents, of what normalizing leaves: trimmed and without doubles.
EventChoices ==
  {S \in SUBSET Patterns : S # {} /\ \A p \in S : webhookEventTypeAllowed(p)}

-----------------------------------------------------------------------------
(* Store calls: one transaction each.                                      *)

\* Faulty variant: new subscriptions are added to those that are there.
replaceSubscriptionsAdding(h, S) == subs' = [subs EXCEPT ![h] = @ \cup S]

replaceWebhookEventSubscriptions(h, S) == subs' = [subs EXCEPT ![h] = S]

\* Faulty variant: a row that is missing is inserted again.
StoreUpdateUpserting(h, row) ==
  /\ h \in used
  /\ hook' = [hook EXCEPT ![h] = row]
  /\ replaceWebhookEventSubscriptions(h, row.events)

\* UpdateWebhook: without its row the subscriptions break their foreign key,
\* and the transaction is rolled back.
StoreUpdate(h, row) ==
  /\ hook[h] # None
  /\ hook' = [hook EXCEPT ![h] = row]
  /\ replaceWebhookEventSubscriptions(h, row.events)

-----------------------------------------------------------------------------
(* handleCreateWebhook: the row is inserted enabled, and a second call      *)
(* disables it where that was asked.                                       *)
CreateWebhook(r) ==
  /\ step[r] = "idle" /\ changes < MaxChanges
  /\ \E h \in Hooks \ used, S \in EventChoices, on \in BOOLEAN :
       LET row == [enabled |-> TRUE, events |-> S, secret |-> changes + 1] IN
       /\ used' = used \cup {h} /\ changes' = changes + 1
       /\ hook' = [hook EXCEPT ![h] = row]
       /\ replaceWebhookEventSubscriptions(h, S)
       /\ IF on
          THEN End(r) /\ promised' = [promised EXCEPT ![h] = row] /\ UNCHANGED blurred
          ELSE /\ Goto(r, "disable", Copy(h, [row EXCEPT !.enabled = FALSE], DOMAIN row))
               /\ blurred' = blurred \cup {h}
               /\ UNCHANGED promised
  /\ UNCHANGED <<log, events, reached>>

\* handleUpdateWebhook reads the row and applies what was asked to the copy.
GetWebhook(r) ==
  /\ step[r] = "idle"
  /\ \E h \in Hooks, asked \in {{"enabled"}, {"events"}, {"secret"}} :
       /\ hook[h] # None
       /\ asked = {"secret"} => changes < MaxChanges
       /\ changes' = IF asked = {"secret"} THEN changes + 1 ELSE changes
       /\ \E row \in {[hook[h] EXCEPT !.enabled = ~@], [hook[h] EXCEPT !.secret = changes']}
                     \cup {[hook[h] EXCEPT !.events = S] : S \in EventChoices} :
            /\ \A f \in DOMAIN row \ asked : row[f] = hook[h][f]
            /\ Goto(r, "update", Copy(h, row, asked))
       /\ blurred' = IF About(h) = {} THEN blurred ELSE blurred \cup {h}
  /\ UNCHANGED <<tables, used, events, reached, promised>>

\* History: an acknowledged change is promised; once calls that overlapped are
\* done, whatever they left is.
Acknowledge(r) ==
  LET j == job[r] IN
  /\ blurred' = IF About(j.hook) = {r} THEN blurred \ {j.hook} ELSE blurred
  /\ promised' = [promised EXCEPT ![j.hook] =
       IF j.hook \in blurred \/ @ = None THEN hook'[j.hook]
       ELSE [f \in DOMAIN @ |-> IF f \in j.asked THEN j.row[f] ELSE @[f]]]

\* Faulty variant: a secret that was not asked for is written as empty.
UpdateWebhookDropping(r) ==
  /\ step[r] \in {"update", "disable"}
  /\ StoreUpdate(job[r].hook, IF "secret" \in job[r].asked THEN job[r].row
                              ELSE [job[r].row EXCEPT !.secret = 0])
  /\ Acknowledge(r) /\ End(r)
  /\ UNCHANGED <<log, used, changes, events, reached>>

\* Faulty variant: a webhook is enabled again unless something else was asked.
UpdateWebhookEnabling(r) ==
  /\ step[r] \in {"update", "disable"}
  /\ StoreUpdate(job[r].hook, [job[r].row EXCEPT !.enabled = @ \/ "enabled" \notin job[r].asked])
  /\ Acknowledge(r) /\ End(r)
  /\ UNCHANGED <<log, used, changes, events, reached>>

UpdateWebhook(r) ==
  /\ step[r] \in {"update", "disable"}
  /\ StoreUpdate(job[r].hook, job[r].row)
  /\ Acknowledge(r) /\ End(r)
  /\ UNCHANGED <<log, used, changes, events, reached>>

\* DeleteWebhook takes subscriptions, log entries and outbox rows along.
DeleteWebhook(r) ==
  /\ step[r] = "idle"
  /\ \E h \in Hooks :
       /\ hook[h] # None
       /\ hook' = [hook EXCEPT ![h] = None]
       /\ subs' = [subs EXCEPT ![h] = {}]
       /\ log' = [log EXCEPT ![h] = <<>>]
       /\ promised' = [promised EXCEPT ![h] = None]
  /\ UNCHANGED <<step, job, used, changes, events, reached, blurred>>

-----------------------------------------------------------------------------
(* handleTestWebhook: an event, one delivery, and a log entry.             *)
BeginTest(r) ==
  /\ step[r] = "idle" /\ events < MaxTests
  /\ events' = events + 1
  /\ \E h \in Hooks :
       hook[h] # None /\ Goto(r, "check", Test(h, events'))
  /\ UNCHANGED <<tables, used, changes, reached, promised, blurred>>

\* blockedWebhookIPRanges: those of special use, and "::ffff:0:0/96", which
\* net.IPNet holds against the last four bytes: every IPv4 address is in it.
Addresses == [family : {4, 6}, special : BOOLEAN]
RangeContains(range, a) == IF range = "::ffff:0:0/96" THEN a.family = 4 ELSE a.special
blockedWebhookIP(a) == \E range \in {"special use", "::ffff:0:0/96"} : RangeContains(range, a)

\* validateWebhookURL lets pass a name without addresses.
validateWebhookURL(answer) == \A a \in answer : ~blockedWebhookIP(a)

Over(r) == Goto(r, "log", [job[r] EXCEPT !.sent = 0])

\* Each lookup may find other addresses than the one before, or fail.
CheckURL(r) ==
  /\ step[r] = "check"
  /\ \/ Over(r)
     \/ \E answer \in SUBSET Addresses : validateWebhookURL(answer) /\ Goto(r, "dial", job[r])
  /\ UNCHANGED <<tables, history>>

\* The answer ends it, or is a redirect, which is checked before it is followed.
Answered(r) ==
  \/ Over(r)
  \/ job[r].sent + 1 < MaxRequests /\ Goto(r, "check", [job[r] EXCEPT !.sent = @ + 1])

\* Faulty variant: what was checked is taken for what is dialled.
DialChecked(r) ==
  /\ step[r] = "dial"
  /\ \E answer \in SUBSET Addresses :
       IF answer # {}
       THEN Answered(r) /\ \E a \in answer : reached' = reached \cup {a}
       ELSE Over(r) /\ UNCHANGED reached
  /\ UNCHANGED <<tables, used, changes, events, promised, blurred>>

\* safeWebhookDialContext looks the name up again.
Dial(r) ==
  /\ step[r] = "dial"
  /\ \E answer \in SUBSET Addresses :
       IF answer # {} /\ \A a \in answer : ~blockedWebhookIP(a)
       THEN Answered(r) /\ \E a \in answer : reached' = reached \cup {a}
       ELSE Over(r) /\ UNCHANGED reached
  /\ UNCHANGED <<tables, used, changes, events, promised, blurred>>

Newest(s) == IF Len(s) > LogLimit THEN SubSeq(s, Len(s) - LogLimit + 1, Len(s)) ELSE s

Logged(h, s) == log' = [log EXCEPT ![h] = s]

\* Faulty variant: the log has no foreign key.
CreateWebhookDeliveryLoose(r) ==
  /\ step[r] = "log"
  /\ LET h == job[r].hook IN Logged(h, Newest(Append(log[h], job[r].event)))
  /\ End(r)
  /\ UNCHANGED <<hook, subs, history>>

\* CreateWebhookDelivery: a statement that inserts, refused without the
\* webhook, and one that prunes, whose failure is ignored.
CreateWebhookDelivery(r) ==
  /\ step[r] = "log"
  /\ LET h == job[r].hook
         longer == Append(log[h], job[r].event) IN
     hook[h] # None /\ (Logged(h, Newest(longer)) \/ Logged(h, longer))
  /\ End(r)
  /\ UNCHANGED <<hook, subs, history>>

\* A store call fails, or finds the webhook gone: the handler answers 500.
StoreFails(r) ==
  /\ step[r] \in {"disable", "update", "log"}
  /\ End(r)
  /\ UNCHANGED <<tables, history>>

\* hellingd stops and is started again.
AdminStops ==
  /\ \E r \in Requests : step[r] # "idle"
  /\ step' = [r \in Requests |-> "idle"] /\ job' = [r \in Requests |-> NoJob]
  /\ UNCHANGED <<tables, history>>

AdminNext ==
  \/ \E r \in Requests :
       \/ CreateWebhook(r) \/ GetWebhook(r) \/ UpdateWebhook(r) \/ DeleteWebhook(r)
       \/ BeginTest(r) \/ CheckURL(r) \/ Dial(r) \/ CreateWebhookDelivery(r) \/ StoreFails(r)
  \/ AdminStops

AdminSpec == AdminInit /\ [][AdminNext]_adminVars

-----------------------------------------------------------------------------
Row == [enabled : BOOLEAN, events : EventChoices, secret : 1..MaxChanges]

AdminTypeOK ==
  /\ hook \in [Hooks -> Row \cup {None}] /\ promised \in [Hooks -> Row \cup {None}]
  /\ subs \in [Hooks -> SUBSET Patterns]
  /\ \A h \in Hooks : \A i \in 1..Len(log[h]) : log[h][i] \in 1..events
  /\ \A h \in Hooks : Len(log[h]) <= events
  /\ \A r \in Requests : step[r] = "idle" <=> job[r] = NoJob
  /\ used \subseteq Hooks /\ blurred \subseteq used
  /\ changes \in 0..MaxChanges /\ events \in 0..MaxTests
  /\ reached \subseteq Addresses /\ \A r \in Requests : job[r].sent \in 0..(MaxRequests - 1)

(* An event is fanned out by webhook_events and checked against the row     *)
(* when it is sent: the two agree for every type, whatever updates overlap, *)
(* fail or are cut off, so none is missed and none is queued in vain.       *)
FanoutFollowsRow ==
  \A h \in Hooks, t \in Types :
    (\E p \in subs[h] : Matches(p, t))
      <=> (hook[h] # None /\ \E p \in hook[h].events : Matches(p, t))

(* A deletion that was acknowledged is final: no update or test that was    *)
(* under way brings the row back (handleUpdateWebhook writes a copy it read  *)
(* before), or leaves a subscription or a log entry behind.                 *)
DeletedIsGone ==
  [][\A h \in used : hook[h] = None =>
       hook'[h] = None /\ subs'[h] = {} /\ log'[h] = <<>>]_adminVars

(* The settings that were acknowledged are the row's, all of them, until    *)
(* they are changed again; only requests about one webhook that overlap, or *)
(* a creation whose second call failed, leave something else.               *)
AcknowledgedSettings ==
  \A h \in used \ blurred : promised[h] = hook[h]

(* What administrators were told is what rows and subscriptions hold.       *)
SettingsHold == AdminTypeOK /\ FanoutFollowsRow /\ AcknowledgedSettings

(* No delivery is sent to an address of special use, whatever a name        *)
(* resolves to at the check and at the connection, and wherever the         *)
(* receiver redirects to.                                                  *)
PublicOnly == \A a \in reached : ~a.special
=============================================================================
