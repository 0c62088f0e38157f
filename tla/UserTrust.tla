------------------------------ MODULE UserTrust ------------------------------
(***************************************************************************)
(* A user is a row in the database, a certificate row beside it, and an    *)
(* entry in Incus's trust store that restricts the certificate to the      *)
(* user's project.  The handlers that set up the first administrator,      *)
(* create, rescope and delete users change database and trust store in     *)
(* separate steps, and undo what they did when a later step fails.         *)
(***************************************************************************)
EXTENDS TrustHelper, Naturals

CONSTANTS
  Requests,  \* requests that may be in flight
  Default,   \* the project of a user who was given none
  NoJob,     \* no request
  Overlap,   \* requests on one user may overlap
  Faults     \* which failures happen: see FaultKinds

FaultKinds == {"crash",   \* the daemon stops and starts again
               "store",   \* a store call, or a file, fails
               "helper",  \* the trust helper fails and has changed nothing
               "late",    \* it fails after Incus made the change
               "hangup"}  \* the client goes away: its request is cancelled

Rows == [fp : Certs, project : Projects, revoked : BOOLEAN]
Entries == [user : Users, project : Projects]
Ops == {"setup", "create", "scope", "delete"}
Images == BOOLEAN \X Projects \X (Rows \cup {None}) \X SUBSET (Certs \X Projects)
Jobs == [op : Ops, user : Users \cup {None}, project : Projects,
         fp : Certs \cup {None}, prev : Rows \cup {None},
         hungup : BOOLEAN,                   \* the client has gone
         ills : 0..2, before : Images]       \* history: see Advance, Image

ASSUME TrustAssumption ==
  /\ Default \in Projects
  /\ None \notin Users \cup Certs \cup Rows \cup Entries
  /\ NoJob \notin Jobs
  /\ Overlap \in BOOLEAN
  /\ Faults \subseteq FaultKinds

VARIABLES
  account,  \* a user's row: "none" yet, "present", "gone"
  project,  \* its incus_project
  owns,     \* rows of other tables refer to the user, and do not cascade
  cert,     \* its certificate row
  trust,    \* Incus's trust entries, by fingerprint
  token,    \* the setup token is there
  pc,       \* a request's next step
  job,      \* what it does: its project, its new certificate, the one before
  outcome,  \* history: how the last request on a user ended
  marks     \* history: what happened to a user's requests so far

tables == <<account, project, owns, cert>>
history == <<outcome, marks>>
vars == <<tables, trust, token, pc, job, history>>

HelperSteps == {"register", "revokePrev", "revokeNew", "revoke"}
StoreSteps == {"first", "assign", "issue", "store", "restore", "load", "mark", "remove"}
Uncancelled == {"undo", "retire"}  \* steps that outlive the client
Steps == HelperSteps \cup StoreSteps \cup Uncancelled
Marks == {"failed",   \* a request was answered with an error or cut off
          "exposed"}  \* a deletion began, the helper failed after the change, or
                      \* the row of the certificate before was not restored

-----------------------------------------------------------------------------
Present(u) == account[u] = "present"
SetupRequired == \A u \in Users : ~Present(u)
Busy(u) == \E r \in Requests : pc[r] # "idle" /\ job[r].user = u

\* What Incus grants on behalf of a user.
Granted(u) ==
  {<<f, trust[f].project>> : f \in {g \in Certs : trust[g] # None /\ trust[g].user = u}}

Image(u) == <<Present(u), project[u], cert[u], Granted(u)>>

Blank == <<FALSE, Default, None, {}>>

Job(op, u, p, ills, before) ==
  [op |-> op, user |-> u, project |-> p, fp |-> None, prev |-> None,
   hungup |-> FALSE, ills |-> ills, before |-> before]

Init ==
  /\ account = [u \in Users |-> "none"]
  /\ project = [u \in Users |-> Default]
  /\ owns = [u \in Users |-> FALSE]
  /\ cert = [u \in Users |-> None]
  /\ trust = [f \in Certs |-> None]
  /\ token = TRUE
  /\ pc = [r \in Requests |-> "idle"]
  /\ job = [r \in Requests |-> NoJob]
  /\ outcome = [u \in Users |-> "none"]
  /\ marks = [u \in Users |-> {}]

\* A request on a user starts; one that starts with an undo was a mistake.
Begin(r, op, u, p, first) ==
  /\ pc[r] = "idle"
  /\ Overlap \/ ~Busy(u)
  /\ pc' = [pc EXCEPT ![r] = first]
  /\ job' = [job EXCEPT ![r] = Job(op, u, p, IF first = "undo" THEN 1 ELSE 0, Image(u))]
  /\ outcome' = [outcome EXCEPT ![u] = "pending"]
  /\ marks' = [marks EXCEPT ![u] = IF op = "delete" THEN @ \cup {"exposed"} ELSE @]

\* A request goes on as j with a step, or is answered.  Its ills count up to 2
\* what went wrong, twice what no repair can see through (a late failure, a
\* cancelled request); "ragged" is an error after more than one.
Advance(r, j, next, ills, mark) ==
  LET u == j.user
      sum == IF j.ills + ills < 2 THEN j.ills + ills ELSE 2
      failed == IF next = "failed" THEN {"failed"} ELSE {}
  IN
  /\ marks' = [marks EXCEPT ![u] = @ \cup mark \cup failed]
  /\ IF next \in {"ok", "failed"}
     THEN /\ pc' = [pc EXCEPT ![r] = "idle"]
          /\ job' = [job EXCEPT ![r] = NoJob]
          /\ outcome' = [outcome EXCEPT ![u] =
                           IF next = "failed" /\ sum = 2 THEN "ragged" ELSE next]
     ELSE /\ pc' = [pc EXCEPT ![r] = next]
          /\ job' = [job EXCEPT ![r] = [j EXCEPT !.ills = sum]]
          /\ UNCHANGED outcome

Succeed(r, next) == Advance(r, job[r], next, 0, {})

\* Faulty variant: the row of the certificate before is not restored.
OnFailureUnrestored(r) ==
  CASE pc[r] \in {"store", "revokePrev", "restore"} -> "revokeNew"
    [] pc[r] = "retire" -> "ok"
    [] pc[r] \in {"assign", "issue", "register", "revokeNew"} ->
         IF job[r].op \in {"setup", "create"} THEN "undo" ELSE "failed"
    [] OTHER -> "failed"

\* Faulty variant: a certificate that could not be stored stays registered.
OnFailureUnrevoked(r) ==
  CASE pc[r] = "revokePrev" -> "restore"
    [] pc[r] = "restore" -> "revokeNew"
    [] pc[r] = "retire" -> "ok"
    [] pc[r] \in {"assign", "issue", "register", "store", "revokeNew"} ->
         IF job[r].op \in {"setup", "create"} THEN "undo" ELSE "failed"
    [] OTHER -> "failed"

\* Where a failing step leads: Provision revokes and restores, a handler that
\* inserted the user deletes it, and nobody looks at the errors of these repairs.
OnFailure(r) ==
  CASE pc[r] = "store" -> "revokeNew"
    [] pc[r] = "revokePrev" -> "restore"
    [] pc[r] = "restore" -> "revokeNew"
    [] pc[r] = "retire" -> "ok"
    [] pc[r] \in {"assign", "issue", "register", "revokeNew"} ->
         IF job[r].op \in {"setup", "create"} THEN "undo" ELSE "failed"
    [] OTHER -> "failed"

Fail(r) ==
  Advance(r, job[r], OnFailure(r), 1, IF pc[r] = "restore" THEN {"exposed"} ELSE {})

\* A step of a request whose context is still alive.
At(r, step) == pc[r] = step /\ ~job[r].hungup

\* The helper has done its work: it says so, it fails all the same, or it is
\* killed because the client went away.
HelperEnds(r, next) ==
  \/ Succeed(r, next)
  \/ /\ "late" \in Faults
     /\ Advance(r, job[r], OnFailure(r), 2, {"exposed"})
  \/ /\ "hangup" \in Faults
     /\ Advance(r, [job[r] EXCEPT !.hungup = TRUE], OnFailure(r), 2, {})

-----------------------------------------------------------------------------
(* The first administrator, and users created by an administrator.         *)

\* handleSetup: no users, and the setup token is right.
BeginSetup(r) ==
  /\ pc[r] = "idle"
  /\ SetupRequired
  /\ token
  /\ pc' = [pc EXCEPT ![r] = "first"]
  /\ job' = [job EXCEPT ![r] = Job("setup", None, Default, 0, Blank)]
  /\ UNCHANGED <<tables, trust, token, history>>

\* Faulty variant: the insert relies on the handler's check.
CreateFirstAdminUnchecked(r, u) ==
  /\ At(r, "first")
  /\ account[u] = "none"
  /\ account' = [account EXCEPT ![u] = "present"]
  /\ pc' = [pc EXCEPT ![r] = "issue"]
  /\ job' = [job EXCEPT ![r] = Job("setup", u, Default, 0, Blank)]
  /\ outcome' = [outcome EXCEPT ![u] = "pending"]
  /\ UNCHANGED <<project, owns, cert, trust, token, marks>>

\* The count and the insert are one transaction.
CreateFirstAdmin(r, u) ==
  /\ At(r, "first")
  /\ SetupRequired
  /\ account[u] = "none"
  /\ account' = [account EXCEPT ![u] = "present"]
  /\ pc' = [pc EXCEPT ![r] = "issue"]
  /\ job' = [job EXCEPT ![r] = Job("setup", u, Default, 0, Blank)]
  /\ outcome' = [outcome EXCEPT ![u] = "pending"]
  /\ UNCHANGED <<project, owns, cert, trust, token, marks>>

\* A user exists by now, or the transaction fails.
DismissSetup(r) ==
  /\ pc[r] = "first"
  /\ ~SetupRequired \/ "store" \in Faults \/ job[r].hungup
  /\ pc' = [pc EXCEPT ![r] = "idle"]
  /\ job' = [job EXCEPT ![r] = NoJob]
  /\ UNCHANGED <<tables, trust, token, history>>

\* handleCreateUser inserts the user before it looks at the project's name.
CreateUser(r, u) ==
  /\ ~SetupRequired
  /\ account[u] = "none"
  /\ account' = [account EXCEPT ![u] = "present"]
  /\ \/ Begin(r, "create", u, Default, "issue")
     \/ \E p \in Projects : Begin(r, "create", u, p, "assign")
     \/ Begin(r, "create", u, Default, "undo")
  /\ UNCHANGED <<project, owns, cert, trust, token>>

SetUserIncusProject(r) ==
  LET u == job[r].user IN
  /\ At(r, "assign")
  /\ Present(u)
  /\ project' = [project EXCEPT ![u] = job[r].project]
  /\ Succeed(r, "issue")
  /\ UNCHANGED <<account, owns, cert, trust, token>>

\* DeleteUser: the certificate row goes with the user.
Drop(u) ==
  /\ account' = [account EXCEPT ![u] = "gone"]
  /\ project' = [project EXCEPT ![u] = Default]
  /\ cert' = [cert EXCEPT ![u] = None]

\* Rows that refer to the user forbid the deletion.
Deletable(u) == ~(Present(u) /\ owns[u])

Undo(r) ==
  LET u == job[r].user IN
  /\ pc[r] = "undo"
  /\ Deletable(u)
  /\ Drop(u)
  /\ Succeed(r, "failed")
  /\ UNCHANGED <<owns, trust, token>>

\* A token that cannot be removed is only logged.
RetireSetupToken(r) ==
  /\ pc[r] = "retire"
  /\ token' = FALSE
  /\ Succeed(r, "ok")
  /\ UNCHANGED <<tables, trust>>

-----------------------------------------------------------------------------
(* UserTrustService.Provision                                              *)

\* Faulty variant: an empty scope is accepted.
UpdateUserScopeUnchecked(r, u, p) ==
  /\ Present(u)
  /\ Begin(r, "scope", u, None, "issue")
  /\ UNCHANGED <<tables, trust, token>>

UpdateUserScope(r, u, p) ==
  /\ Present(u)
  /\ Begin(r, "scope", u, p, "issue")
  /\ UNCHANGED <<tables, trust, token>>

\* A fingerprint that is in nobody's hands.
Fresh(f) ==
  /\ trust[f] = None
  /\ f \notin {row.fp : row \in {cert[u] : u \in Users} \ {None}}
  /\ LET held == {job[r] : r \in Requests} \ {NoJob} IN
     f \notin {j.fp : j \in held} \cup {row.fp : row \in {j.prev : j \in held} \ {None}}

CurrentTrust(u) == IF cert[u] # None /\ ~cert[u].revoked THEN cert[u] ELSE None

Issue(r, f) ==
  /\ At(r, "issue")
  /\ Fresh(f)
  /\ Advance(r, [job[r] EXCEPT !.fp = f, !.prev = CurrentTrust(job[r].user)],
             "register", 0, {})
  /\ UNCHANGED <<tables, trust, token>>

Register(r) ==
  /\ At(r, "register")
  /\ MayRun("register", job[r].user, job[r].fp, job[r].project)
  /\ trust' = [trust EXCEPT ![job[r].fp] =
                 [user |-> job[r].user, project |-> job[r].project]]
  /\ HelperEnds(r, "store")
  /\ UNCHANGED <<tables, token>>

Provisioned(r) == IF job[r].op = "setup" THEN "retire" ELSE "ok"

\* Faulty variant: UpsertIncusUserCert, which leaves the user's project alone.
StoreCertRowOnly(r) ==
  LET u == job[r].user IN
  /\ At(r, "store")
  /\ Present(u)
  /\ cert' = [cert EXCEPT ![u] =
                [fp |-> job[r].fp, project |-> job[r].project, revoked |-> FALSE]]
  /\ Succeed(r, IF job[r].prev # None THEN "revokePrev" ELSE Provisioned(r))
  /\ UNCHANGED <<account, project, owns, trust, token>>

\* Faulty variant: the certificate before is not revoked.
StoreCertKeepingPrevious(r) ==
  LET u == job[r].user IN
  /\ At(r, "store")
  /\ Present(u)
  /\ project' = [project EXCEPT ![u] = job[r].project]
  /\ cert' = [cert EXCEPT ![u] =
                [fp |-> job[r].fp, project |-> job[r].project, revoked |-> FALSE]]
  /\ Succeed(r, Provisioned(r))
  /\ UNCHANGED <<account, owns, trust, token>>

\* UpsertIncusUserCertAndProject; without the user the foreign key refuses.
StoreCert(r) ==
  LET u == job[r].user IN
  /\ At(r, "store")
  /\ Present(u)
  /\ project' = [project EXCEPT ![u] = job[r].project]
  /\ cert' = [cert EXCEPT ![u] =
                [fp |-> job[r].fp, project |-> job[r].project, revoked |-> FALSE]]
  /\ Succeed(r, IF job[r].prev # None THEN "revokePrev" ELSE Provisioned(r))
  /\ UNCHANGED <<account, owns, trust, token>>

RevokePrevious(r) ==
  /\ At(r, "revokePrev")
  /\ MayRun("revoke", job[r].user, job[r].prev.fp, job[r].prev.project)
  /\ trust[job[r].prev.fp] # None
  /\ trust' = [trust EXCEPT ![job[r].prev.fp] = None]
  /\ HelperEnds(r, Provisioned(r))
  /\ UNCHANGED <<tables, token>>

RestoreCert(r) ==
  LET u == job[r].user IN
  /\ At(r, "restore")
  /\ Present(u)
  /\ project' = [project EXCEPT ![u] = job[r].prev.project]
  /\ cert' = [cert EXCEPT ![u] = job[r].prev]
  /\ Succeed(r, "revokeNew")
  /\ UNCHANGED <<account, owns, trust, token>>

RevokeNew(r) ==
  /\ At(r, "revokeNew")
  /\ MayRun("revoke", job[r].user, job[r].fp, job[r].project)
  /\ trust[job[r].fp] # None
  /\ trust' = [trust EXCEPT ![job[r].fp] = None]
  /\ HelperEnds(r, OnFailure(r))
  /\ UNCHANGED <<tables, token>>

-----------------------------------------------------------------------------
(* handleDeleteUser and UserTrustService.Revoke                            *)

BeginDelete(r, u) ==
  /\ Present(u)
  /\ Begin(r, "delete", u, Default, "load")
  /\ UNCHANGED <<tables, trust, token>>

LoadCert(r) ==
  LET prev == CurrentTrust(job[r].user) IN
  /\ At(r, "load")
  /\ Advance(r, [job[r] EXCEPT !.prev = prev],
             IF prev = None THEN "remove" ELSE "revoke", 0, {})
  /\ UNCHANGED <<tables, trust, token>>

RevokeCert(r) ==
  /\ At(r, "revoke")
  /\ MayRun("revoke", job[r].user, job[r].prev.fp, job[r].prev.project)
  /\ trust[job[r].prev.fp] # None
  /\ trust' = [trust EXCEPT ![job[r].prev.fp] = None]
  /\ HelperEnds(r, "mark")
  /\ UNCHANGED <<tables, token>>

MarkRevoked(r) ==
  LET u == job[r].user IN
  /\ At(r, "mark")
  /\ cert' = [cert EXCEPT ![u] = IF @ = None THEN None ELSE [@ EXCEPT !.revoked = TRUE]]
  /\ Succeed(r, "remove")
  /\ UNCHANGED <<account, project, owns, trust, token>>

DeleteUser(r) ==
  LET u == job[r].user IN
  /\ At(r, "remove")
  /\ Deletable(u)
  /\ Drop(u)
  /\ Succeed(r, "ok")
  /\ UNCHANGED <<owns, trust, token>>

-----------------------------------------------------------------------------
(* What fails, and what the users do meanwhile.                            *)

\* The helper finds that its policy is against it.
PolicyRefuses(r) ==
  LET j == job[r] IN
  \/ pc[r] = "register" /\ MayRefuse("register", j.user, j.fp, j.project)
  \/ pc[r] \in {"revokePrev", "revoke"} /\ MayRefuse("revoke", j.user, j.prev.fp, j.prev.project)
  \/ pc[r] = "revokeNew" /\ MayRefuse("revoke", j.user, j.fp, j.project)

\* The database, the policy or Incus does not do what the step asks for.
Refused(r) ==
  LET u == job[r].user IN
  \/ pc[r] \in {"assign", "store", "restore"} /\ ~Present(u)
  \/ pc[r] \in {"undo", "remove"} /\ ~Deletable(u)
  \/ pc[r] \in {"revokePrev", "revoke"} /\ trust[job[r].prev.fp] = None
  \/ pc[r] = "revokeNew" /\ trust[job[r].fp] = None
  \/ PolicyRefuses(r)

StepFails(r) ==
  /\ pc[r] \notin {"idle", "first"}
  /\ \/ Refused(r)
     \/ job[r].hungup /\ pc[r] \notin Uncancelled
     \/ "store" \in Faults /\ pc[r] \in StoreSteps \cup Uncancelled
     \/ "helper" \in Faults /\ pc[r] \in HelperSteps
  /\ Fail(r)
  /\ UNCHANGED <<tables, trust, token>>

HangUp(r) ==
  /\ "hangup" \in Faults
  /\ pc[r] # "idle"
  /\ ~job[r].hungup
  /\ IF job[r].user = None
     THEN /\ job' = [job EXCEPT ![r].hungup = TRUE]
          /\ UNCHANGED <<pc, history>>
     ELSE Advance(r, [job[r] EXCEPT !.hungup = TRUE], pc[r], 2, {})
  /\ UNCHANGED <<tables, trust, token>>

\* All requests end where they are.
Crash ==
  /\ "crash" \in Faults
  /\ \E r \in Requests : pc[r] # "idle"
  /\ pc' = [r \in Requests |-> "idle"]
  /\ job' = [r \in Requests |-> NoJob]
  /\ outcome' = [u \in Users |-> IF Busy(u) THEN "ragged" ELSE outcome[u]]
  /\ marks' = [u \in Users |-> IF Busy(u) THEN marks[u] \cup {"failed"} ELSE marks[u]]
  /\ UNCHANGED <<tables, trust, token>>

\* The user starts an operation, adds a schedule, a webhook, ...; operations are
\* never deleted.
OwnRow(u) ==
  /\ Present(u)
  /\ ~owns[u]
  /\ owns' = [owns EXCEPT ![u] = TRUE]
  /\ UNCHANGED <<account, project, cert, trust, token, pc, job, history>>

Next ==
  \/ \E r \in Requests :
       \/ BeginSetup(r) \/ DismissSetup(r)
       \/ \E u \in Users :
            \/ CreateFirstAdmin(r, u) \/ CreateUser(r, u) \/ BeginDelete(r, u)
            \/ \E p \in Projects : UpdateUserScope(r, u, p)
       \/ \E f \in Certs : Issue(r, f)
       \/ SetUserIncusProject(r) \/ Undo(r) \/ RetireSetupToken(r)
       \/ Register(r) \/ StoreCert(r) \/ RevokePrevious(r)
       \/ RestoreCert(r) \/ RevokeNew(r)
       \/ LoadCert(r) \/ RevokeCert(r) \/ MarkRevoked(r) \/ DeleteUser(r)
       \/ StepFails(r) \/ HangUp(r)
  \/ \E u \in Users : OwnRow(u)
  \/ Crash

Spec == Init /\ [][Next]_vars

-----------------------------------------------------------------------------
(* What must hold of it.                                                   *)

\* The values the variables may take.
TypeOK ==
  /\ account \in [Users -> {"none", "present", "gone"}]
  /\ project \in [Users -> Projects]
  /\ owns \in [Users -> BOOLEAN]
  /\ cert \in [Users -> Rows \cup {None}]
  /\ trust \in [Certs -> Entries \cup {None}]
  /\ token \in BOOLEAN
  /\ pc \in [Requests -> Steps \cup {"idle"}]
  /\ job \in [Requests -> Jobs \cup {NoJob}]
  /\ outcome \in [Users -> {"none", "pending", "ok", "failed", "ragged"}]
  /\ marks \in [Users -> SUBSET Marks]

\* The user's certificate is one Incus accepts, for the project on the row.
Trusted(u) ==
  /\ cert[u] # None
  /\ ~cert[u].revoked
  /\ trust[cert[u].fp] = [user |-> u, project |-> cert[u].project]

\* A user whose last request was acknowledged can use Incus, in the project the
\* users table names (handleCreateUser, handleUpdateUserScope and handleSetup
\* answer after Provision).
AcknowledgedTrust ==
  \A u \in Users :
    Present(u) /\ outcome[u] = "ok" /\ ~Busy(u)
      => Trusted(u) /\ cert[u].project = project[u]

\* "Scope changes register a replacement trust entry first and then revoke the
\* previous fingerprint, so a failed replacement does not strand the user without
\* an Incus identity" (docs/decisions/024-incus-native-auth.md): whatever fails or
\* is cut off in Provision, a user who has a certificate row has the entry that
\* goes with it.  Excepted are deletions, a helper that reports a failure after
\* the change, and a restore that fails after a failure: Provision then revokes
\* the certificate whose row it left in place.
NeverStranded ==
  \A u \in Users : cert[u] # None /\ "exposed" \notin marks[u] => Trusted(u)

\* While no request on a user was refused or cut off, Incus grants nothing but
\* what the certificate row says, and nothing on behalf of a deleted user.
GrantsAccounted ==
  \A u \in Users :
    ~Busy(u) /\ "failed" \notin marks[u]
      => Granted(u) \subseteq
           IF cert[u] = None THEN {} ELSE {<<cert[u].fp, cert[u].project>>}

\* One failure is undone: a set-up, a creation or a change of scope that meets
\* one and is answered with an error leaves the user as it was before (the
\* repairs in Provision, handleSetup and handleCreateUser).
OneFailureIsUndone ==
  [][\A r \in Requests, u \in Users :
       /\ pc[r] # "idle" /\ pc'[r] = "idle"
       /\ job[r].user = u /\ job[r].op # "delete" /\ outcome'[u] = "failed"
       => Image(u)' = job[r].before]_vars

\* "concurrent first-boot setup requests cannot create multiple bootstrap
\* admins" (CreateFirstAdmin): two set-ups never both own a user.
OneFirstAdmin ==
  \A r, s \in Requests :
    /\ pc[r] \notin {"idle", "first"} /\ job[r].op = "setup"
    /\ pc[s] \notin {"idle", "first"} /\ job[s].op = "setup"
    => r = s

\* Incus grants a user no project but those the operator's policy for that user
\* allowed to register, whatever scope the administrators asked for and whichever
\* failure a repair met; what a policy no longer allows stays granted.
GrantedByPolicy ==
  \A u \in Users : \A grant \in Granted(u) : \E dir \in PolicyDirs :
    grant[2] \in (IF dir.files[u] # None THEN dir.files[u] ELSE dir.files["default"]).projects

\* Incus's trust store follows the tables: what was acknowledged is granted, and
\* what is granted is a row's, by a policy's leave, unless a request failed.
TrustFollowsRows == AcknowledgedTrust /\ GrantsAccounted /\ GrantedByPolicy
=============================================================================
