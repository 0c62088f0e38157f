# Helling: models, checks and proofs

TLA+ models of `hellingd`, the management daemon for Incus hosts under
`src/apps/hellingd`, with TLC instances and TLAPS proofs. Paths below are
relative to `src/apps/hellingd/internal/` unless they start with `src/`.

## The system

One Go process behind a reverse proxy: an HTTP API, a SQLite store, a client of
the Incus daemon, three privileged helpers (nft, systemd units, Incus trust) and
a handful of background goroutines. Two facts shape every model:

* the store opens SQLite with **one connection** (`store/store.go`), so each
  store call, or each transaction, is one atomic step; handlers and goroutines
  interleave *between* store calls, and nothing spans a store call and a call to
  Incus, nft, systemd or a receiver;
* everything outside the database (channels, maps, a goroutine's local
  variables) is lost with the process, and the process restarts on the tables.

| component | state | operations | what is hard | what makes it correct | modelled by |
|---|---|---|---|---|---|
| webhook outbox (`server/webhook_dispatch.go`, `store/events.go`, `store/webhooks.go`, `server/events_handlers.go`) | tables `webhooks`, `events`, `event_outbox`; the queue; four workers; one drainer | emit, claim, dispatch, deliver, retry, settle, prune | claims lost in a crash, leases expiring under live jobs, late updates by id, cascades under a worker | at-least-once with the stated retries; one live claim per row; closed stays closed; everything settles | `WebhookOutbox`, `DeliveryContract` |
| operations, poller, Incus client (`poller/`, `incus/client.go`, `store/operations.go`, `server/instance_handlers.go`, `server/schedule_handlers.go`) | table `operations`; the tick's snapshot; Incus's own operations | submit, record, answer, poll, write back | submission and record are two systems; answers get lost; Incus forgets operations; stale snapshots | a final status is Incus's own and stays; what the client was told holds; every recorded operation settles | `OperationPoller`, `IncusClient` |
| event stream (`server/events_handlers.go`) | subscriber channels, `Last-Event-ID` | replay, subscribe, publish, drop | gap between replay and subscription; full buffers; replay cap | order, no duplicates, and what is lost is only what the known gaps lose | `EventStream` |
| schedules (`server/schedule_handlers.go`, `store/schedules.go`, `systemd/`) | `schedules`, unit files, timers | create, update, delete, run | row and units change in separate steps | a timer runs for every enabled row and for no other | `ScheduleUnits` |
| first administrator, users and Incus trust (`server/user_handlers.go`, `server/auth_ext_handlers.go`, `incus/user_trust.go`, `incus/trust_helper.go`, `store/incus_certs.go`) | `users`, `incus_user_certs`, the setup token, Incus's trust store, the operator's policy files | set up, create, provision, rescope, revoke, delete | two systems, compensations that may fail, concurrent administrators | no certificate without a user, no usable user without a certificate; one first administrator | `UserTrust`, `TrustHelper` |
| login, limits, MFA, enrolment (`server/auth_handlers.go`, `server/auth_ext_handlers.go`, `auth/`, `store/totp.go`) | limiter windows, challenges in memory, `totp_secrets`, `totp_recovery_codes` | login, complete, set up, verify, disable | check-then-act on limiters and challenges; several store calls per handler, none transactional | a session only after every factor; a full window admits nobody new; codes belong to the enrolment and serve once | `SignIn` |
| sessions, tokens, RBAC, middleware (`server/middleware.go`, `server/server.go`, `store/sessions.go`, `store/api_tokens.go`, `auth/jwt.go`, `proxy/`) | `sessions`, `api_tokens`, signed access tokens, a request's context | authenticate, authorise, refresh, revoke, update, forward | a request acts on copies read before; several credentials per user; revocation against use | nobody is let in who was not entitled; no token begets a wider one; what was acknowledged stands | `AccessControl` |
| firewall (`server/firewall_handlers.go`, `store/firewall.go`, `firewall/helper.go`) | `firewall_host_rules`, nft rules and handles | create, apply, look up, remove | row and rule change in separate steps; handles go stale at reboot | every acknowledged row has its rule; no rule without a row; foreign rules untouched | `FirewallRules` |
| webhook administration (`server/webhook_handlers.go`, `store/webhooks.go`) | `webhooks`, `webhook_events`, `webhook_deliveries` | create, update, delete, test, one delivery | read-modify-write across store calls; a name resolves anew between check and use | an acknowledged update is not lost; fan-out and row agree | `WebhookAdmin` |
| start-up (`src/apps/hellingd/main.go`, `store/store.go`, `store/schema_repair.go`, `store/secrets.go`, `store/migrations/`, `auth/`, `config/`) | schema version, key files, CA, socket, settings | load, open, migrate, repair, encrypt, create keys, serve | a start cut off between two steps; a database of an earlier release | taken up again; keys never replaced; what is served is encrypted and within limits | `StartUp`, `Configuration` |
| command line client (`src/apps/helling-cli/`) | the profile file | login, second factor, logout, setup | read a file, wait for a prompt and a server, write all of it back | no session forgotten, none comes back | `CommandLine` |
| lifecycle watcher (`incus/events.go`), audit, metrics, BMC and Kubernetes records, web UI, deployment | — | read-mostly | — | — | not modelled, see below |

Components interact through the store (every one), through `emitEvent`
(schedules, firewall, webhooks, users and the lifecycle watcher feed the outbox
and the stream) and through `CreateOperation` (instances and schedules feed the
poller).

## Modules

| module | what it is |
|---|---|
| `DeliveryContract` | the abstract promise of webhook delivery, per (event, webhook) pair |
| `WebhookOutbox` | tables, drainer, queue and workers; implements `DeliveryContract` |
| `WebhookOutboxLive` | the same with the end of failures as a variable, for liveness |
| `WebhookRetries` | the same with a history variable, whether a failure has happened yet: what the retry policy says until then |
| `MCWebhookOutbox` | the instance: symmetry |
| `WebhookOutboxProofs` | type correctness, queue bound, exclusive claims, settled stays settled, claims spent once, the retry policy until the first failure; `WebhookOutbox` implements `DeliveryContract` |
| `IncusClient` | what `incus.Client` makes of an answer, and what handlers make of its errors |
| `OperationPoller` | extends it: Incus operations, the handlers that start and record them, the poller that mirrors them |
| `EventStream` | emitters, the event table, the hub and one server-sent event connection per client |
| `EventStreamProofs` | type correctness with the replay and channel bounds, only committed events, accounted losses; of webhook administration: settings hold, deletions are final, deliveries go to public addresses |
| `ScheduleUnits` | schedule rows, the handlers that change them, the helper and systemd's units |
| `ScheduleUnitsProofs` | type correctness; what is in force after a request, for requests that do not overlap |
| `TrustHelper` | the set-uid helper's checks of manifest, policy and certificate |
| `UserTrust` | extends it: users, certificate rows, trust entries; set-up, creation, change of scope, deletion |
| `UserTrustProofs` | type correctness and grants by policy; nobody is stranded, one first administrator, a trust store that follows the tables and one failure that is undone, for requests that do not overlap |
| `SignIn` | password, limiters, challenges, second factor and its enrolment |
| `SignInProofs` | guesses bounded, both factors asked for, the factor as set up; of the command line client: credentials of one login, sessions accounted for |
| `AccessControl` | credentials, the middleware, and the handlers that change users and credentials |
| `AccessControlProofs` | only the entitled act, read tokens only read, acknowledged updates |
| `FirewallRules` | rows, the nft chain, the helper between them |
| `FirewallRulesProofs` | the chain follows the rows; a removal takes its own rule only; the helper takes what the handler validated |
| `WebhookAdmin` | webhooks, subscriptions, delivery log; one delivery with its lookups and redirects |
| `Configuration` | defaults, file, environment and their validation, as functions |
| `StartUp` | extends it: from the state directory an earlier run left to the socket |
| `DaemonProofs` | the start: starts go on soundly and keep the keys; the poller: type correctness, faithful and final outcomes, answers that hold |
| `CommandLine` | invocations of the client over one profile file |
| `MC…` | symmetry, and the values of constants a `.cfg` cannot write |

### WebhookOutbox: state and actions

`hook` stands for a `webhooks` row with its subscriptions ("off" is disabled or
not subscribed: both make `CreateEvent` and the worker skip it). `status`,
`attempts` and the times of an `event_outbox` row are `status`, `attempts` and
`ripe`: no clock is modelled, `ripe` says that the time the row waits for
(`next_run_at`, or `updated_at` plus the two-minute lease) has come. `room` and
`batch` are the drainer's local variables, `queue` the channel, `pc` and `job` a
worker's place in `dispatchEventWebhooks`. `tries`, `acked` and `waived` are
history the tables do not hold.

One action is one store call or one step between two: `DrainBegin` reads the
limit, `ClaimPendingOutboxEvents` is the claim transaction, `Enqueue` one push;
`TakeJob`, then `Load…` (GetWebhook and the checks on it), `Post…`, and
`Reschedule`, `GiveUp`/`Settle` or `Postpone`. Failing calls are actions of their
own (`ClaimFails`, `LoadError`, `RescheduleFails`, `StoreFails`, `MarkTestFails`,
`DecryptFails`); `Crash` loses the memory and keeps the tables. `Faults` selects
which of them happen; "slow" lets a lease expire under a live job.

Abstracted: payloads, patterns of subscriptions, HTTP, the delivery log (written,
never read here), the wake-up channel (it saves at most a tick). `PruneEvent`
deletes one event whatever its age: every batch of the code is a sequence of such
steps, and the order of age only removes behaviours. Attempt numbers are counted
up to `MaxAttempts`, which is larger than `Retries + 1`: beyond it the code treats
all numbers alike.

### OperationPoller and IncusClient: state and actions

`upstream` and `known` are Incus: the state of the operation behind a request, and
whether Incus still answers for it; "sync" is an answer without an operation id.
`handler` is the request's place between the call to Incus (`Submit`, or
`RefuseRequest` for one turned away before it) and `CreateOperation`, and then the HTTP
status it was answered with; `opID` is the id on the row. Nothing joins call and
row: a crash, a lost answer or a failing insert between them leaves an operation
without a row. `todo` and `seen` are the rows and statuses `ListActiveOperations`
gave the current tick, `reply` what `GetOperation` answered and
`UpdateOperationStatus` has not written yet.

`IncusClient` has the pure part. `Answers` are the shapes an answer of Incus may
have (an operation in the body, a URL, neither, an error); `doOperation` and
`decodeResponse` say which id the client reads from each; `CreateCode`,
`DeleteCode`, `StateCode`, `RunCode` the status each of the four handlers
(`handleCreateInstance`, `handleDeleteInstance`, `handleInstanceStateChange`,
`handleRunSchedule`) gives for an error. They look for words in its text
(`server/instance_handlers.go:265-290`), and the client wraps every error, a lost
answer too, with the name of the instance (`Wrapped`): `Misnamed` are the requests
whose instance has "conflict" in its name, the one word of these that a name can
hold. `StatusOf` is the row's status for each word of Incus. Abstracted: the rest of
the texts, timestamps, read-only endpoints.

### EventStream: state and actions

`event` is the table with the ids that are drawn and not committed; an id and a
creation time are one, since `CreateEvent` draws both together. `emitter` is the
event an emitter is about to commit or publish. A connection goes through "query"
(`QueryPage`, `QueryRecent`), "tail" (the last page is fetched and being written,
`WriteFrame`), and "live" after `Subscribe`; `buf` is its channel, `last` the
`Last-Event-ID` the client would resume with, `from` and `missed` are history.
`Publish` is the hub's loop under its mutex. Abstracted: type filters,
heartbeats, the JSON snapshot, and the mirrored Incus events, which are emitters
like any other.

### ScheduleUnits: state and actions

`status` and `calendar` are the row; `staged` is the timer file in the staging
directory, `service` and `file` the installed units, `wanted` the link that
`systemctl enable` makes, `armed` the calendar by which systemd fires the timer
now. `pc` is a request's next step, `job` its copy of the row (the handlers merge
the request into a copy and carry that), `body` the helper's buffer, `outcome` how
the last request on a schedule ended, as its client saw it.

The handlers' store calls and every call of the helper are actions of their own:
`Stage`, `PrepareService` and `InstallService`, `ReadStaged`, `PrepareTimer` and
`InstallTimer`, `Enable`, `Disable`, `Unlink`, `UnlinkService`, and `DaemonReload`
after each change of a file. `Prepare...` is the helper's removal of the installed
unit (`systemd/unit_linker.go:55`), `Install...` the rename that puts the new one
there: between them the unit is missing. Two requests interleave between any two
steps. A step may be done and yet reported as
failed ("killed": the helper's context ends with the request's), it may fail
(`HelperFails`, `StoreFails`), and the daemon or the host may stop (`Crash`,
`Reboot`). `Fail` is the answer: only a create compensates, and only by deleting
its row; `DisableRow`, the update that follows the insert of a disabled schedule,
is not compensated at all.

Systemd is external and modelled from what the helper asks of it: `enable --now` and
`disable --now` fail for a unit without a file; a timer that runs keeps running
through `enable`; a reload takes up the files of every unit, and a timer whose file
no longer parses stops; `timers.target` starts the enabled timers at boot.
`Valid` are the calendars it understands: `validateScheduleSpec` checks less than
systemd does. Abstracted: unit contents but for the calendar, the run of a schedule
(its submission is `OperationPoller`'s), `last_run_at`. Nothing in the code
reconciles rows and units at start, and no action does.

### UserTrust: state and actions

`account`, `project` and `owns` are the user's row and whether operations,
schedules or webhooks refer to it; `cert` is its `incus_user_certs` row, `trust`
Incus's trust store by fingerprint, `token` the setup token file. `pc` is a
request's next step and `job` what it carries: the certificate it drew, the one
before, whether its client has gone. `outcome` and `marks` are history, as are a
job's `ills` and `before`, which `OneFailureIsUndone` compares with the end.

A set-up goes `BeginSetup`, `CreateFirstAdmin` (count and insert, one
transaction), then through `Provision`, `RetireSetupToken`; a creation
`CreateUser`, `SetUserIncusProject`, `Provision`; a change of scope `Provision`
only. `Provision` is `Issue` (read the certificate before, make a key pair),
`Register`, `StoreCert`, `RevokePrevious`; `OnFailure` is where a failing step
leads: `RevokeNew`, `RestoreCert`, and `Undo`, the handlers' delete of the user
they inserted. A deletion is `LoadCert`, `RevokeCert`, `MarkRevoked`,
`DeleteUser`. A step fails because its object is gone (`Refused`), because the
store or the helper fails, or because the request's context was cancelled
(`HangUp`): the repairs of `Provision` run on the same context, the handlers'
`Undo` and the token's removal do not. The helper may also fail after Incus made
the change (`HelperEnds`). A creation whose project is not a valid name begins
with its undo: the handler inserts the user before it validates.

`Registers` and `Revokes` of `TrustHelper` decide whether the helper does what it is
asked: the manifest against the command line, the owner and mode of files, the
user's own policy before the default one, its projects and actions, the staged
certificate against the fingerprint. Which of `PolicyDirs` the operator has in
place is drawn anew at every run of the helper.

Assumed: the trust helper is configured (without it, users have no certificates
and nothing here happens); foreign keys are enforced, as `store.Open` sets them;
Incus refuses to remove an entry that is not there. A certificate is its
fingerprint. Passwords and administrator flags are `AccessControl`'s. Ids are drawn once, as `users.id` is, so an instance runs out of
users: that is why its runs do not check for deadlock.

### SignIn: state and actions

One account. `failures` are the two limiters' windows, `challenges` the map of
MFA tokens, both lost by `Crash`; `secret`, `enabled` and `codes` the rows of
`totp_secrets` and `totp_recovery_codes`. A login goes `Login` (the limiters'
check), `CheckPassword`, `ChargeName` and `ChargeSource` after a wrong one,
`ReadFactor` after a right one, then `StoreChallenge`, or `ResetLimiters` and
`IssueSession`. A completion goes `Complete`, `LoadChallenged`, `CheckSecond`, for a
recovery code `ListCodes` and `ConsumeCode`, then `IssueSession`. Enrolment is
`BeginSetup`, `StoreSecret`, `SaveCode` once per code; `BeginVerify`, `Enable`;
`BeginDisable`, `DropCodes`. `StoreFails` is where each handler goes when a store
call fails. `WindowPasses` and `ExpireChallenge` are the clock. `refused` and
`verdicts` are history: the wrong passwords of a name that were tested and found its
window full, and the verdicts given on a challenge. Abstracted: hashing, the
arithmetic of one-time passwords, what is said to the client.

### AccessControl: state and actions

`there`, `admin` and `password` are the users' rows; `session`, `token` and `jwts`
the three kinds of credentials, and a request's `job` the credential it came with
and the copies of rows it has read. `Begin` is the middleware up to the signature
or the lookup of the credential, `LoadUser` and `LoadUserFromClaims` its second
lookup, `Authorise` the route's group. Then one handler: `Logout`, `CreateToken`,
`BeginRevoke`/`DeleteToken`, `BeginUpdate`/`Update` (a read and a write of the whole
row), `BeginDelete`/`DeleteUser`, or `Proxy`/`Proxied` to Incus. Sessions and
tokens expire at any time; an access token is never waited for, so that one of any
age is tried. Abstracted: cookies' attributes, prefixes of tokens, `last_used_at`.

### FirewallRules: state and actions

`row` and `handle` are the table, `owner` the chain: the row whose comment the rule
with a handle bears, "foreign" for a rule of another program; `top` the kernel's
counter. A creation is `CreateFirewallRule` (validation and insert), `Apply` (base
chain and rule), `Lookup` (the handle by its comment), `SaveHandle`, with `Undo`
after a failure; a deletion `GetFirewallRule`, `Find`, `Check` (the helper looks
whose rule it is), `Remove`, `Drop`. `Fail` is a command that fails, or is done and
reported as failed; `Reboot` empties the chain and starts handles anew. `Longer`
are handles whose digits begin with another's: the helper compares text. `Rule`,
`validateFirewallRule`, `nftArgsForRule` and `validateAddRuleArgs` are the two
checks of a rule, over every shape of one.

### WebhookAdmin: state and actions

`hook` is a row of `webhooks`, with its patterns as the row's JSON has them, `subs`
its rows in `webhook_events`, `log` its deliveries. A creation is `CreateWebhook`
and, for a webhook that is to be disabled, a second store call, which `UpdateWebhook`
makes too; `GetWebhook` and `UpdateWebhook` are the read and the write of an update
(`Acknowledge`, a part of it, keeps the history of what was promised);
`DeleteWebhook` cascades. A test is
`BeginTest` and one delivery: `CheckURL` (the look-up that is validated), `Dial`
(the one that is used, checked again by the dialer; a redirect starts over, three
requests at most), `CreateWebhookDelivery` with its pruning. `Matches` is the
pattern language, `StoreFails` a store call that fails, `AdminStops` a restart.
Abstracted: bodies, signatures, timeouts.

### StartUp and Configuration: state and actions

`Configuration` computes what defaults, file and environment add up to and whether
`validate` takes it. `StartUp` goes through `run`: `LoadConfig`, `LoadIdentity`,
`Open`, `Migrate` one file at a time, `RepairOutbox` and `RepairCerts` (add a column,
then fill it; the `UPDATE` of the outbox passes over ids without a colon and fails
as a whole where a row names a webhook that is gone), `EncryptSecrets` and
`EncryptCerts` row by row,
`LoadOrCreateCertificateAuthority`, `LoadOrCreateJWTSigner`, the socket, `Serve`.
`schema`, `applied`, `columns`, `secrets`, `links` and `certs` are the database,
`files` the key files, where creating and filling one are two steps and a file cut
off in between is `Torn`. A row of `links` is `Null` while its webhook is not filled
in, `Nameless` if its id tells none. `Init` is any state an earlier release may have
left, rows of webhooks deleted meanwhile among it. `cut` and `unfilled` are history.
`Crash` stops it anywhere, `Lose` takes a key file away, `Refuse` is a start that
ends with an error. Abstracted: cryptography (a secret is the identity it is
encrypted to), the workers that are started last, and what no start reads:
`totp_secrets` and the users' `encrypted_key_pem`.

### CommandLine: state and actions

`profile` is the file, `base` the profile an invocation read and `held` the one in
its memory, `stage` its next step, `live` the servers' sessions. `LoginCommand`,
`LoginLoad` and `performLogin`
(`ObtainSession`, with the second factor) are the steps of login around its prompts; `Logout` and
`LogoutRequest`, `Setup` and `SetupRequest` those of the others; `Truncate` and
`Write` the two of `os.WriteFile`. `Cut` kills an invocation or fails its save.
`behind` are the profiles whose bytes the file may still hold: a writer that another
overtook writes over them from the first byte on. What is then read is its own
profile, nothing (`Torn`), or its own with the last lines of a longer one (`Rests`,
`Beside`), provided no field is there twice (`Parses`).

### Runs

Properties that belong together are one definition, a conjunction of named parts
with a comment each; the parts are in parentheses. Type invariants are among the
parts, or properties of their own; that of `ScheduleUnits` is proved and in no run.

| run | instance | shows |
|---|---|---|
| `outbox_restarts` | 2 events, 1 webhook, 2 workers, queue 1, batch 2, 1 retry; crashes, failing store calls, failing decryption | `ExclusiveClaim`: one claimed job per row; `QueueNeverOverflows`: the queue has room for every claim; `SettledStaysSettled`; until the first failure the documented policy holds exactly (`AsDocumentedUntilFailure`: claims are in hand, no row is given up early or posted too often, and none again once accepted) |
| `outbox_live` | 1 row, 2 workers, queue 1; crashes, failing store calls, leases that expire under live jobs | each claim is spent once (`ClaimsSpentOnce`), `DeliveryContract` is implemented (`HonoursContract`), and once failures are over nothing stays outstanding (`Quiescence`), from which the contract's `Kept` follows |
| `poller_faults` | 2 operations, one of them on an instance named like an error, every fault, every shape of Incus's answers | a final status is the one Incus ended with (`FaithfulOutcome`) and never goes back; what the client was answered holds (`AnswersHold`: only 500, 502 and a 409 about an instance with "conflict" in its name leave open whether Incus works); every recorded operation settles unless Incus drops it first |
| `stream_faults` | 5 ids, 2 emitters, 1 client, page 2, at most 3 replayed, channel 1, every fault | bounds of replay and channel (`TypeOK`); only committed events; every loss is one of the known kinds (`LossAccounted`) |
| `schedule_faults` | 2 schedules, 2 requests, a valid and a broken calendar, every fault, no overlap on a schedule | an acknowledged request is in force (`AcknowledgedInForce`); what fires is backed (`TimersBacked`: a timer is without its service only while a request replaces it, or after one that failed or was cut off, and without its row only after such a one) |
| `trust_faults` | 2 users, 2 requests, 2 certificates, 3 projects, policies that change, every fault, no overlap on a user | trust follows the rows (`TrustFollowsRows`: what was acknowledged is granted, nothing else is unless a request failed, and nothing that no policy allowed); one failure is undone; a failed change of scope leaves the identity before; one first administrator |
| `sign_in` | 2 requests, limits and limiter tables of 1, 2 codes, 2 secrets, 1 challenge, every fault | a full window admits only the guesses already on their way (`GuessesBounded`); no session with less than the account asks for (`BothFactors`: a password alone only while the factor was off, a recovery code once, verdicts on a challenge only for completions begun before the first); the factor is as set up (`FactorAsSetUp`: what is enabled was confirmed, an acknowledged enrolment works with all its codes and no others) |
| `access` | 2 users, 2 requests, 1 session, 2 API tokens beginning with one of scope write, 1 password change | `OnlyEntitled` (whoever reaches an administrator's handler or the socket was one since the request began; an ended credential stays out; no token begets a wider one); an acknowledged update of a user stands; a read token changes nothing |
| `firewall_faults` | 3 rows, 2 requests, 3 handles, a reboot, rules of others, every fault | rows and chain agree (`ChainFollowsRows`); a deletion hits the rule of its own row, and a foreign one never; the helper takes every rule the handler lets through |
| `webhook_admin` | 2 webhooks, 2 requests, 2 secrets, 2 events, log of 1 | `SettingsHold` (the fan-out agrees with the row, acknowledged settings stand); a deletion is final; no delivery reaches an address of special use |
| `daemon_start` | 2 webhooks, 1 user, 1 stop, 1 lost key file, databases of every release | `StartsSoundly` (no webhook secret, user certificate or CA key is served plain or unreadable; no outbox row whose id names a webhook is without it unless the repair was stopped or failed there; damage needs a cut between creating and filling; what is served is within limits); no key is replaced; the daemon comes to serve unless damaged or misconfigured |
| `command_line` | 2 invocations side by side, 4 in all, 2 servers, 2 sessions, 1 kill | a cookie comes with the access token of its login, also where saves overlap, and the operator's token stays while they do not (`ProfileSound`); no session is forgotten or comes back while saves do not overlap (`SessionsFollowed`) |

Where a property excepts overlapping requests (`Overlap = FALSE`, `raced`,
`blurred`, `overlap`), the exception is real: the handlers take no lock, and
"Known divergences" says what happens.

Bounds. *Outbox*: rows interact only through the queue's places, the batch and the
workers: two rows, two workers and one place already give a full queue, a batch
larger than the free places, a worker that lags behind a second claim of its row,
and a row that waits while the other is served. One retry distinguishes first,
retried and last attempt. *Poller*: operations meet only in the tick's list and its
single reply, so two show every overlap. *Stream*: five events against pages of two
and an allowance of three give a full page, a page shortened by the allowance, the
fall back to the newest events, and an event behind the replay; connections
interact only in `Publish`, which treats each subscriber alike. *Schedules*: two
requests on two schedules show every effect of one request on another: a reload
takes up the other's file between its write and its `enable`, and a broken calendar
stops a timer at a reload it did not ask for. *Trust*: two certificates are what
one change of scope has in hand; a fingerprint counts as fresh again once nobody
holds it, so two serve any number of changes one after the other and two creations
at a time. What they hide is two users changing scope at once; requests on different
users meet in the table of users only, and `Frame` proves that for any number of
certificates. *Sign-in*: with limits of one, two attempts are already one too many; two codes
and two secrets tell "this code" from "that code" and "of this enrolment" from "of
the one before". *Access*: an administrator and one who may be one, a narrower
token to widen, and two requests, of which one changes what the other has read.
*Firewall*: three handles with a third one whose digits begin with the first's, and
three rows, two of them under way while one is done. *Webhook administration*: two
secrets tell two updates apart; a log of one prunes at the second entry.
*Start-up*: one stop cuts a start off at any step, and the next takes up what it left;
a second stop finds a directory of the same kinds, and the proof holds for any number.
In `Configuration` one setting at a time differs from the default, in file and
environment independently, since `validate` looks at each alone. *Command line*: a third
invocation would only write what one of two could have written.

Fairness (`WebhookOutboxLive`). The drainer, the workers and the clock are weakly
fair: they are goroutines and timers that nothing blocks for ever (a POST has a
ten-second timeout, a claim two seconds). Handlers and the receiver's answers
are not owed. Failures end, by the variable `calm`; "eventually no Failure step"
would not do as a formula, because a crash of an idle process changes nothing and
the formula would also exclude ordinary steps that change as little.

Fairness (`OperationPoller`). The ticker fires and the poller's loop proceeds
(weak fairness of `Tick`, of each `Poll` and of the write); an answer, a write
that is tried again and again succeeds once (strong fairness of `GetOperation`,
`Bookkeep` and the write of one row), which says that no failure is permanent.

Fairness (`StartUp`). A start goes on (`Step`), and one that cannot go on ends
(`Refuse`); systemd starts the daemon again, as the unit's `Restart=on-failure` and
`RestartSec=5` say. Stops, crashes and losses are not owed, and no setting the
operator gives is. The other modules assume no fairness.

### Known divergences

Where the code does not do what a document, a comment or a reader would expect,
the properties are stated so that they hold of the code, and the exception is
named in them.

* *Retries.* `docs/spec/platform.md:35` promises "3 retries with exponential backoff
  (1s, 10s, 60s)". `claimOutboxEventIDs` counts an attempt at the claim
  (`store/events.go:175`) and `rescheduleWebhookEvent` compares that number with the
  configured delays (`server/webhook_dispatch.go:143`). A claim lost with a restart
  is counted too; after three of them the next failed attempt is the last, and the
  row is closed after one delivery. Hence "until failure" in
  `AsDocumentedUntilFailure`.
* *Stream.* `docs/spec/events.md:123` promises "at-least-once from reconnect
  boundary". The handler subscribes (`server/events_handlers.go:167`) after the last
  query of its replay; an event committed and published in between reaches neither,
  and the next frame moves the client's position past it. Also, an id is drawn before
  the transaction, so of two concurrent emitters the one with the smaller id may
  commit last; a client that resumed from the larger one never gets it.
  `LossAccounted` counts both as known. `docs/spec/events.md:114` names a `since`
  parameter that the code does not read.
* *Schedules.* `docs/spec/systemd-units.md:123` says "Delete -> helper
  disables/removes managed units". An update that read the row before a delete began
  (`server/schedule_handlers.go:136-201`) installs and enables the timer after the
  delete removed it; its `UPDATE` then changes no row and succeeds. Both requests are
  acknowledged and the timer fires for ever. `systemd/schedules.go:170` says "Missing
  units are handled by the helper", but the helper returns the error that
  `systemctl disable --now` gives for a unit without a file
  (`systemd/unit_linker.go:73-77`): a schedule that was created disabled has no timer,
  so its delete fails, and so does the repetition of a delete that failed half-way.
  An install that stops between the removal of the old unit and the rename of the new
  one (`systemd/unit_linker.go:55-58`) leaves a running timer without its service, or
  an enabled schedule without its timer file; the latter can neither be disabled nor
  deleted until an update has enabled it again.
* *Trust.* `docs/decisions/024-incus-native-auth.md:58` says that scope changes
  "revoke the previous fingerprint, so a failed replacement does not strand the user
  without an Incus identity". `Provision` reads the certificate before
  (`incus/user_trust.go:49-63`) and revokes it several calls later, under no lock. Of
  two that overlap, the second to revoke finds the entry gone, puts the row of the
  vanished certificate back over the first one's and revokes its own; each later
  change of scope fails at the same revocation. A deletion that is refused at its last
  step (operations or schedules refer to the user, `server/user_handlers.go:209`) has
  revoked the entry already, and one cut off before `MarkRevoked` cannot be repeated.
  A policy narrowed between a registration and its revocation refuses the revocation
  (`incus/trust_helper.go:205-218`): what was granted stays granted.
* *Operations.* Incus may drop an operation before the poller asks: the poller leaves a
  row alone on any error, "not found" included, so such a row stays active (`Settles`
  exempts it). An answer lost on the way (502) leaves an operation at work without a row.
  `isConflict` (`server/instance_handlers.go:281`) finds "conflict" also where the error
  only holds the instance's name: a lost answer to a change of state of an instance
  named `conflict-1` is a 409 although Incus works.
  `handleGetInstance` answers 404 for every error (`server/instance_handlers.go:67-72`).
* *Firewall.* Nothing applies the rows again after a reboot, so `AcknowledgedRule` ends
  there; a stale handle may then remove another rule of Helling's
  (`server/firewall_handlers.go:230`), and a row whose rule is gone can never be
  deleted. The error of the delete that undoes a failed creation is dropped (`:109`).
* *Sign-in.* `docs/spec/auth.md:45` says "Failed logins are rate-limited to 5 attempts per
  15 minutes per username and 20 attempts per 15 minutes per source IP". The handler
  asks the limiters before it tests the password (`server/auth_handlers.go:76`) and
  charges them after (`:100`), so attempts side by side are all tested: while no
  failure leaves a window of limit L, at most L - 1 + R wrong passwords for R requests
  (`GuessesBounded`). Over a whole window it may be more, since each failure that
  leaves opens a place which R requests may pass again. The address is charged only
  after the name had a place, so guesses that find their name's window full count for
  no address. Where a limiter's table is full, a new key is neither charged nor limited
  before its password is tested, only answered 429 if it was wrong.
  `docs/spec/auth.md:76` says "After 5 failed MFA attempts, only recovery code login is
  accepted for that challenge"; the code deletes the challenge at the first wrong
  answer, and a new one needs the password. A challenge is read
  (`server/auth_ext_handlers.go:534`) long before it is deleted: completions that
  overlap each get a verdict, and two that pass with a code of the authenticator each
  get a session. Set-up and verification write back what they read, so two that overlap
  (`raced`) may leave an acknowledged enrolment disabled, or without some of its codes or
  with those of the other. `docs/standards/security.md:42` says "sliding via
  last_seen_at"; `TouchSession` does not move `expires_at`.
* *Access control.* An update of a user writes the password hash and the administrator
  flag it read (`server/user_handlers.go:176`): of two that overlap, both acknowledged,
  the second undoes what the first changed (`raced` in `AcknowledgedUpdate`), a demotion
  or a new password included; an update of a user deleted meanwhile is acknowledged too.
  `docs/spec/auth.md:155` says of API tokens "Default expiry: 90 days (max 365)";
  `handleCreateToken` stores none (`server/auth_ext_handlers.go:326`), and such a token
  does not expire.
* *Webhook administration.* An update writes every field it read
  (`server/webhook_handlers.go:170`): of two that overlap, both acknowledged, the second
  undoes what the first changed (`blurred` in `SettingsHold`). A creation that should
  leave the webhook disabled inserts it enabled and disables it in a second call
  (`server/webhook_handlers.go:117`); where that fails, or until it comes, events are
  fanned out to it.
* *Start-up.* A key file that was created and not filled (`store/secrets.go:42`,
  `auth/jwt.go:68`), or a CA of which one file is missing, stops every later start. A
  stop between the `ALTER` and the `UPDATE` of `repairV02Schema` leaves `webhook_id`
  null for ever, and such rows are never claimed. So does an `UPDATE` that fails: one
  row whose webhook was deleted breaks the foreign key for all, that start ends with an
  error, and the next takes the column that is there as filled. Rows whose id has no
  colon stay null in any case (`store/schema_repair.go:15`). A null
  `encrypted_cert_pem` fails every start. `docs/spec/sqlite-schema.md:13` says "Secrets
  and private keys are encrypted at rest before persistence", and `:86` has an
  `encrypted_secret` in `totp_secrets`; the code stores that secret as it is
  (`store/totp.go:55`), and no start encrypts it. `encrypted_key_pem` is written
  encrypted, and no start reads it. A CA key that does not fit its certificate is
  noticed by nothing.
  `login_rate_limit_per_15m` is validated and not used: `main.go` has the limits fixed.
* *Command line.* Invocations that overlap write back whole profiles, truncating the file
  first (`src/apps/helling-cli/internal/config/config.go:99`): one loses the other's
  session, or brings back one that was logged out. Two that write at the same time may
  leave a file that does not parse, which fails every command that reads it, or one
  that is a mix: the shorter profile followed by the last lines of the longer. So a logout, or a setup of one server, may put its
  endpoint before the cookie and access token of a login to another, to which the next
  command sends them (`rebased` in `ProfileOfOneLogin`), or leave the access token
  without its cookie, or the line `access_token:` cut down to `token:`, an operator's
  token that nobody set. `setup` for another server saves the old session under the new
  endpoint; `HELLING_TOKEN` is written to the file by the next login, logout or setup;
  a logout keeps the operator's token, where `docs/spec/cli.md:27` says "Clear stored
  tokens". Outside the model: `mfa verify` sends `totp_code` where the server reads
  `code`, `token create` sends `scope` where it reads `scopes`, and `mfa disable` posts
  where it expects a DELETE.
* *Webhook addresses.* `blockedWebhookIPRanges` lists `::ffff:0:0/96`
  (`server/webhook_handlers.go:460`), which `net.IPNet` takes for the IPv4 range
  `0.0.0.0/0`: every IPv4 receiver is refused. `RangeContains` says so; `PublicOnly`
  holds either way, and the addresses that do get through in the model are IPv6.

## Proofs

`WebhookOutboxProofs` proves, for any finite sets of events and webhooks, any
workers, capacities, retries and faults:

* `TypeCorrect`: `TypeOK` is inductive;
* `QueueNeverOverflowsCorrect`: the inductive invariant is `QueueInv`: the
  property itself with finiteness of the batch and "no limit is held while rows
  are being queued", without which a second claim could start early;
* `ExclusiveClaimCorrect`, under `"slow" \notin Faults`: `ExclusionInv` joins the
  property with `HeldFresh`, "the row of a live job is processing with an
  unexpired lease, or delivered, or gone", so it is not claimable. The argument
  needs `EventInv` too: a row is without status exactly until its event exists;
* `SettledStaysSettledCorrect`, from the same invariant: the worker that could
  reopen a row is the only one that could have closed it.

* `ClaimsSpentOnceCorrect`, with every fault allowed: a row's tries never outrun
  the claims made for it. `ClaimInv` counts them: besides "no claim is dispatched
  twice", tries so far plus the claims not yet tried (`Open`) are at most the
  attempts on the row, and the attempt of a live job is one of those. Without the
  open claims in the sum a worker's try could not be accounted for;
* `HonoursContractCorrect`, again with every fault: `ContractInv` adds that the row
  of a live job was queued once, and each action maps to one step of
  `DeliveryContract` or to a stutter;
* `AsDocumentedUntilFailureCorrect`, under `"slow" \notin Faults`: until the first
  crash or failing call the retry policy holds exactly. `Documented` follows a claim
  from the batch to the worker that ends it: the attempt a claim carries is the
  row's, and the row was tried once for each claim before it and never accepted
  (`DueTry`); a row that waits was tried as often as it was claimed, and may be
  claimed once more. Without the equality a retry could be skipped or made twice;
  without `ExclusionInv`, beside it in `HistoryInv`, a late worker would change the
  row under a claim. The history variable `failed` says whether a step of `Failure`
  was taken and restricts none.

`DaemonProofs` is about the start of hellingd and the poller it then runs, and extends
both modules; for this the poller's specification is called `PollerSpec`, its types
`PollerTypeOK`.

Of the poller it proves `PollerTypeCorrect`, `FaithfulOutcomeCorrect`,
`AnswersHoldCorrect` and `NeverBackCorrect` for any operations, names and faults,
from `PollerInv`: besides types, a handler past submission has something upstream
and the id Incus gave it; an answered one has the status that goes with what it
knew; and a reply in flight, if final, is Incus's own and was asked for a row seen
active, which only the poller itself can have changed since. `ReadAnswer` and
`ReportedState` say of `IncusClient`, for every shape of an answer, what the client
reads from it.

Of the start it proves `StartsSoundlyCorrect` and `KeysKeptCorrect` for any webhooks
and users, any number of crashes and lost files, and every accepted pair of file and
environment. The invariant `StartInv` says what a start has established by the step
it is at (`PlaceInv`: the identity in memory is the one in its file once the database
is open, nothing is plain after its encryption, the file being written is still
empty); that no outbox row lacks a webhook its id names unless a start stopped or
failed at filling them in (`LinkInv`); and, while no start was
cut off where it matters and no file was lost, that only the file being written is
torn and that all that is encrypted fits the identity that is there (`KeyInv`). The
properties speak of a daemon that serves or is down; these are what the steps between
owe them. That accepted settings are within the limits
(`AcceptedWithinLimits`) follows from `validate` alone, for any setting it lets pass:
the lemmas do not look at which values `Offered` lists. TLC checked `StartInv` as an
invariant of `daemon_start` before it was proved.

`EventStreamProofs` proves `StreamTypeCorrect`, `OnlyCommittedCorrect` and
`LossAccountedCorrect` for any emitters, clients, page sizes and faults. The first
needs that a page never exceeds what is left of the allowance, a bound on the
cardinality of the `n` smallest of a set (`FirstOfBounded`). The last needs
`LossInv`: while the replay runs, everything stored up to the cursor was received,
is on the page, is missed, or is still with its emitter; and `ShortPageIsLast`, a
page that is not full holds all that is left, so that the replay may stop there.

It also extends `WebhookAdmin`, which decides what events are fanned out to (its
names are told apart by `Admin`: `AdminSpec`, `AdminTypeOK`, `AdminStops`), and
proves `SettingsHoldCorrect`, `DeletedIsGoneCorrect` and `PublicOnlyCorrect` for any
webhooks, requests, event types, patterns and log limit. `AdminInv` ties what a
request holds to the tables. `TablesInv`: the subscriptions are the row's patterns,
and without a row there is neither subscription nor log entry. `SettingsInv`: of a
webhook whose requests have not overlapped the promised row is the row, at most one
request is about to write it, and that request's copy agrees with the row outside
what it was asked to change, or the row is gone; so adding up the change
(`RowMerge`) gives what is written. `LogInv`: a test's event is in no log yet and no
other request has it, so a log's entries are apart and, by the pigeonhole principle,
no more than the events there were (`LogLength`). That dropping the oldest keeps this
is `NewestIsTail`. TLC checked `AdminInv` as an invariant of `webhook_admin` first.

`ScheduleUnitsProofs` proves `ScheduleTypeCorrect` for every instance, and
`AcknowledgedInForceCorrect` and `TimersBackedCorrect` (from
`ServiceBehindTimerCorrect` and `OrphansAreAnsweredCorrect`) for any schedules,
requests, calendars and faults under `~Overlap`. They share the invariant `ForceInv`: no two requests work on one
schedule (`Alone`); each request's place says what its earlier steps have achieved
(`JobInv`), for instance that the file about to be enabled holds the request's
calendar and that a timer still running by then runs by it; and each schedule is in
the state its last outcome promises (`SchedInv`). Until a request is past `service`
its timer may run without one, left so by a request before it that was cut off; from
`InstallService` on, and after `disable`, it may not. Only `daemon-reload` reaches
beyond the request's own schedule; `OneAtATime` shows once that it disturbs neither,
so each action needs to be looked at for its own request and schedule only.

`UserTrustProofs` proves `UserTrustTypeCorrect` for every instance, overlap
included, and `NeverStrandedCorrect` and `OneFirstAdminCorrect` for any users,
requests, certificates and faults under `Overlap = FALSE`. The invariant `IInv` says
that no two requests work on one user (`Exclusive`); that a fingerprint is in one
user's hands only, row or request (`OneOwner`); how far each request has come, for
instance that the certificate before is still backed by its entry while a request is
about to revoke it (`RequestOK`); and that an unexposed user's row is backed
(`UserOK`). `Frame` shows once that a step on one user leaves the others' parts
alone, `OwnStep` and `HelperStep` reduce an action to its own request and user, and
`FailureOK` treats all repairs together. One first administrator follows because a
request's user is there while it works, so the transaction that finds no user finds
no other set-up past its insert.

`TrustFollowsRowsCorrect`, under the same hypothesis, needs a second invariant on top
of `IInv`. `NeverStranded` excepts users with a deletion or a broken repair behind
them; what is acknowledged later must hold of those too. So `FollowInv` says of each
request what it has itself achieved on the way to "ok" (`Sure`: the entry it
registered is there when it stores the row, the row is its own when it revokes the
one before), and of each user none of whose requests failed, what Incus may grant
meanwhile (`OnTrack`: the row's grant, and the one being registered or revoked);
between requests both collapse to the property (`UserKept`). A failed step leads to
repairs of which nothing is asked, except for the set-up token that could not be
removed: that set-up is acknowledged. TLC checked `FollowInv` as an invariant of
`trust_faults` before it was proved. `GrantedByPolicyCorrect` needs no hypothesis:
only a registration adds an entry, and it asks the policy.

`OneFailureIsUndoneCorrect` compares the end of a request with the picture of its user
that the request took at its start, so `UndoInv`, on top of `FollowInv`, carries that
picture along. `Undoable` says of a request with at most one ill behind it how far its
user is from the picture: the entries are those of the picture, with the new one added
from the registration on; the rows are those of the picture until `StoreCert`, and
after it the certificate before is the picture's. `Ordered` says which requests reach
which repair: what is created has no certificate to restore, and no repair runs
without an ill, so that a second failure in a repair is the second ill and the answer
"ragged". `UserClean` (users row and certificate row name one project) is what makes
the restored project the old one: `RestoreCert` takes it from the certificate row,
not from the users row that was overwritten. `EntriesHeld` keeps other users' requests
from changing what this one is granted. TLC checked `UndoInv` on `trust_faults` first.

`AccessControlProofs` proves `OnlyEntitledHolds`, `ReadTokensOnlyReadHolds` and
`AcknowledgedUpdateHolds` for any users, requests and bounds. `EntitledInv` adds to
the types what the middleware has established of whoever is past it
(`PastMiddleware`, `Presented`, `SeenInTime`), that no token allows more than the
one at its root (`RowsCreated`), and that a credential that has ended has lost its
row or its user (`EndedIsGone`), so that a request made with it stops at the lookup
of the user (`StaleStopped`). `UpdateInv` adds `LoneUpdate`: the row that an update
alone with its user is about to write back is what the table says, but for the field
it was asked to change; this is what a second update in between takes away.

`SignInProofs` proves `GuessesBoundedHolds`, `BothFactorsHolds` and
`FactorAsSetUpHolds` for any names, sources, limits, secrets and faults, from
`SignInInv`. That the guesses are bounded takes two facts: no window holds more than
its limit (`LimitHeld`), and whoever finds a full one, or may yet, was on the way when
its last place was taken, by a request that is itself past it (`WindowsShared`, which
counts refused guesses and those under way together). Likewise the verdicts on a
challenge and the completions on their way to one are at most the requests there are
(`VerdictsShared`), and none sets out after the first. A login that skips the second
factor has seen it off (`OffKnown`), and a code that may yet be saved or used has let nobody pass
(`CodesFresh`, which covers the codes still to be saved, without which it would not be
inductive). Of the enrolment, `Orderly` holds as long as no two enrolment requests
have overlapped (`~raced`): the one that runs finds the secret and the codes as it
left them.

It also extends `CommandLine`, the client's side of signing in (`ClientSpec`,
`ClientTypeOK`), and proves `ProfileSoundCorrect` and `SessionsFollowedCorrect` for
any number of invocations, servers and sessions, killed or overlapping. In `ClientInv` both
credentials of every profile, on file or in memory, are of one session that was
issued (`Paired`), of the server it names once it may be saved (`OfServer`).
`Invocation` says what each command owes at its step: a logout about to save has left
its session ended or given up, a setup still has the session it read, a login's new
session is `Fresh`, which is that no file, no memory and no logout has seen it, so
that it cannot have been logged out already. `WriterInv`: without overlap there is one writer, the file
is empty under it, and a setup brings back nothing that was cleared. `BehindInv`: the
profiles whose bytes the file may still hold are `Paired` and `OfServer` too, and no
login about to save has a session that is in one of them, so that a mix of two has a
cookie with its own token (`WriteReads`). `TokenInv`: while
the file is truncated, its writer has the operator's token. `QuietStep` treats all
steps that only read at once, `OthersStep` what a step leaves alone in the other
invocations. TLC checked `ClientInv` as an invariant of `command_line` first.

`FirewallRulesProofs` proves `ChainFollowsRowsHolds` and `OwnRuleOnlyHolds` for any
rows, requests, reboots and faults, and however handles collide after a reboot. In
`FirewallInv` a row has one rule at most, and its handle, unless a reboot made it
stale, numbers that rule or none that will ever be (`RowKnown`); and each request is
known by its step (`RequestKnown`), for instance a creation that has not applied its
rule is alone with the row and nobody is removing the rule yet. That the kernel gives
no number twice without a reboot (`top`) is what keeps a handle from naming another's
rule between the check and the removal.
`HelperAcceptsValidRulesHolds` needs no invariant but a lemma about every rule,
`ValidAccepted`: `ArgsLaidOut` gives the places at which the optional parts of a rule's
arguments end, and the helper is followed from the last part back to the first. Its
walk over the tokens is a recursive function; that such a function exists is not
taken for granted but shown without induction, as the least set of places closed under
the walk's step (`LookHasFixpoint`).

Bounds that only keep TLC's runs finite (`MaxAttempts` claims, `MaxUpdates`,
`MaxSetups`, `MaxHandle`, ...) are constants of the theorems like any other: they
hold for every value.

Model-checked only: liveness (`Quiescence`, `Settles`, `ServesUnlessDamaged`), which
is out of the prover's reach. Every other property a run checks is a theorem.

For overlapping requests on one schedule or one user only the types are proved, and
`GrantedByPolicy`: the rest needs `Alone` and `Exclusive`, and the divergences above
say what the overlap does.

## Not modelled

* The lifecycle watcher (`incus/events.go`) copies Incus's events into `emitEvent`;
  they are emitters of `EventStream` like any other, and its reconnects lose what
  happened in between, as it says.
* The bytes that the Incus proxy forwards: `AccessControl` has who may ask for what
  and by which identity, `Configuration` when there is a delegated transport.
* Audit writes lines to journald and asks journalctl for them; metrics are counters
  under one mutex; no step of anything waits for either.
* The BMC and Kubernetes handlers answer 501, and nothing calls their statements.
* The remaining commands of the command line client read the profile, send one
  request and print the answer. The web UI and the deployment scripts are clients.
* Generated code (`api/server.gen.go`, `store/sqlc`) and the listings of every
  component, which change nothing.

## Plan

Done: a model of every component above, and a proof of every safety property and
action property the runs check. What is left is liveness, which stays with TLC, and the remaining components under "Not
modelled", which keep no state of their own.
