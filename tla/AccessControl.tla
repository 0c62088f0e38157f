---------------------------- MODULE AccessControl ----------------------------
(***************************************************************************)
(* Who may do what: sessions, access tokens (JWTs) and API tokens, the     *)
(* middleware that turns one of them into a user and a scope, and the      *)
(* handlers that change users and credentials while other requests are     *)
(* under way.  Each store call is a step; a request acts on the copy of    *)
(* the user its middleware read.  How a session is earned is SignIn's.     *)
(***************************************************************************)
EXTENDS Naturals

CONSTANTS
  Users,
  Root,         \* the first administrator
  Requests,
  MaxSessions,  \* bound: sessions ever created
  Given,        \* the scope of the API token the administrator begins with
  MaxTokens,    \* bound: API tokens ever created
  MaxUpdates,   \* bound: passwords ever set
  None

Scopes == {"read", "write", "admin"}
SessionIds == 1..MaxSessions
TokenIds == 1..MaxTokens

AdminRoutes == {"updateUser", "deleteUser"}
WriteRoutes == {"createToken", "revokeToken"}
OpenRoutes == {"logout", "incusRead", "incusWrite"}
Routes == AdminRoutes \cup WriteRoutes \cup OpenRoutes

Cookie(s) == [kind |-> "cookie", id |-> s]
Access(u, a) == [kind |-> "jwt", user |-> u, admin |-> a]
ApiToken(t) == [kind |-> "token", id |-> t]
Credentials == {Cookie(s) : s \in SessionIds} \cup {ApiToken(t) : t \in TokenIds}
               \cup {Access(u, a) : u \in Users, a \in BOOLEAN}

\* What an update is about to write, and what a request carries.
Changes == [user : Users, asks : {"admin", "password"},
            row : [admin : BOOLEAN, password : 0..MaxUpdates]]
Jobs(targets) ==
  [cred : Credentials \cup {None}, route : Routes \cup {"none"}, user : Users,
   admin : BOOLEAN, scope : Scopes \cup {"none"}, wasAdmin : BOOLEAN,
   stale : BOOLEAN, target : targets]

ASSUME AccessAssumption ==
  /\ Root \in Users
  /\ {MaxSessions, MaxTokens, MaxUpdates} \subseteq Nat /\ MaxTokens > 0
  /\ Given \in Scopes
  /\ None \notin Users \cup [user : Users, scope : Scopes]
  /\ None \notin Credentials
  /\ None \notin Jobs(Changes \cup TokenIds \cup Users \cup {None})

VARIABLES
  there,      \* the users that have a row
  admin,      \* those whose is_admin is set
  password,   \* a user's password_hash: which password it is of
  session,    \* a session's user, None without a row
  token,      \* an API token's [user, scope], None without a row
  jwts,       \* the access tokens issued; no step waits for one to expire
  pc,         \* a request's next step
  job,        \* what it carries: credential, route, copies it has read
  sessions,   \* history: sessions created
  tokens,     \* history: API tokens created
  updates,    \* history: passwords set
  ended,      \* history: credentials that ran out or were ended
  root,       \* history: the widest scope behind an API token
  promised,   \* history: the row an acknowledged update left, per user
  raced       \* history: users whose updates overlapped

userVars == <<there, admin, password>>
credVars == <<session, token, jwts>>
counters == <<sessions, tokens, updates>>
history == <<ended, root, promised, raced>>
vars == <<userVars, credVars, counters, history, pc, job>>

Init ==
  /\ there = Users /\ admin = {Root}
  /\ password = [u \in Users |-> 0]
  /\ session = [s \in SessionIds |-> None]
  /\ token = [t \in TokenIds |->
                IF t = 1 THEN [user |-> Root, scope |-> Given] ELSE None]
  /\ jwts = {}
  /\ pc = [r \in Requests |-> "idle"]
  /\ job = [r \in Requests |-> None]
  /\ sessions = 0 /\ tokens = 1 /\ updates = 0
  /\ ended = {} /\ root = [t \in TokenIds |-> IF t = 1 THEN Given ELSE "none"]
  /\ promised = [u \in Users |-> [admin |-> u = Root, password |-> 0]]
  /\ raced = {}

Goto(r, next) == pc' = [pc EXCEPT ![r] = next]
Carry(r, j) == job' = [job EXCEPT ![r] = j]
End(r) == Goto(r, "idle") /\ Carry(r, None)

-----------------------------------------------------------------------------
(* Whether a request has what its route asks for.                          *)
ScopeAllows(have, required) ==
  \/ have = "admin"
  \/ have = "write" /\ required \in {"read", "write"}
  \/ have = "read" /\ required = "read"

\* Only API tokens carry a scope; a session and a JWT are the whole user.
Scoped(j) == j.scope # "none"

\* Faulty variant: the tokens' routes are mounted without their middleware.
PermittedOpen(j) ==
  j.route \in AdminRoutes =>
    (Scoped(j) => j.scope = "admin") /\ j.admin

Permitted(j) ==
  /\ j.route \in AdminRoutes =>
       (Scoped(j) => j.scope = "admin") /\ j.admin
  /\ j.route \in WriteRoutes => (Scoped(j) => ScopeAllows(j.scope, "write"))

-----------------------------------------------------------------------------
(* Rows, one statement each.                                               *)
GetUserByID(u) == u \in there

\* A session that is not there is not missed.
DeleteSession(s) == session' = [session EXCEPT ![s] = None]

CreateAPIToken(u, scope) ==
  /\ tokens' = tokens + 1
  /\ token' = [token EXCEPT ![tokens'] = [user |-> u, scope |-> scope]]

ListAPITokensByUser(u) == {t \in TokenIds : token[t] # None /\ token[t].user = u}

\* By the id alone.
DeleteAPIToken(t) == token' = [token EXCEPT ![t] = None]

-----------------------------------------------------------------------------
(* Credentials are issued and run out.                                     *)

Issued ==
  {Cookie(s) : s \in 1..sessions} \cup {ApiToken(t) : t \in 1..tokens} \cup jwts

OwnerOf(c) ==
  CASE c.kind = "cookie" -> session[c.id]
    [] c.kind = "token" -> IF token[c.id] = None THEN None ELSE token[c.id].user
    [] c.kind = "jwt" -> c.user

\* issueSession, for a user that has just proved who it is.
IssueSession(u) ==
  /\ u \in there /\ sessions < MaxSessions
  /\ sessions' = sessions + 1
  /\ session' = [session EXCEPT ![sessions'] = u]
  /\ jwts' = jwts \cup {Access(u, u \in admin)}
  /\ UNCHANGED <<userVars, token, tokens, updates, history, pc, job>>

\* GetSessionByTokenHash removes an expired row when it meets one.
SessionExpires(s) ==
  /\ session[s] # None
  /\ DeleteSession(s)
  /\ ended' = ended \cup {Cookie(s)}
  /\ UNCHANGED <<userVars, token, jwts, counters, root, promised, raced, pc, job>>

-----------------------------------------------------------------------------
(* authMiddleware                                                          *)

\* The credential's row names the user: GetSessionByTokenHash and
\* GetAPITokenByHash (this code creates no token with an end); a JWT names it
\* itself.  Without one the answer is 401.
Begin(r) ==
  /\ pc[r] = "idle"
  /\ \E c \in Issued :
       LET u == OwnerOf(c) IN
       /\ u # None
       /\ Carry(r, [cred |-> c, route |-> "none", user |-> u, admin |-> FALSE,
                    scope |-> IF c.kind = "token" THEN token[c.id].scope ELSE "none",
                    wasAdmin |-> u \in admin, stale |-> c \in ended, target |-> None])
       /\ Goto(r, "user")
  /\ UNCHANGED <<userVars, credVars, counters, history>>

\* adminMiddleware and tokenScopeMiddleware go by what the context carries.
\* The route plays no part before; only two handlers look at the credential.
Authorise(r, isAdmin) ==
  \/ \E route \in Routes :
       LET j == [job[r] EXCEPT !.route = route, !.admin = isAdmin,
                   !.cred = IF route \in {"logout", "createToken"} THEN @ ELSE None] IN
       Permitted(j) /\ Carry(r, j) /\ Goto(r, route)
  \/ End(r)

\* Faulty variant: an access token's own claims are believed.
LoadUserFromClaims(r) ==
  /\ pc[r] = "user"
  /\ LET j == job[r] IN
     IF j.cred.kind = "jwt" THEN Authorise(r, j.cred.admin)
     ELSE IF j.user \in there THEN Authorise(r, j.user \in admin) ELSE End(r)
  /\ UNCHANGED <<userVars, credVars, counters, history>>

\* Faulty variant: TouchSession writes the session back whole.
LoadUserUpserting(r) ==
  /\ pc[r] = "user"
  /\ LET j == job[r] IN
     IF j.user \in there
     THEN /\ Authorise(r, j.user \in admin)
          /\ session' = IF j.cred.kind = "cookie"
                         THEN [session EXCEPT ![j.cred.id] = j.user] ELSE session
     ELSE End(r) /\ UNCHANGED session
  /\ UNCHANGED <<userVars, token, jwts, counters, history>>

\* GetUserByID: the copy the rest of the request goes by.  Sessions and API
\* tokens of a deleted user are gone with it, a JWT is not.  TouchSession and
\* TouchAPIToken, which follow, revive no row; their failure is only logged.
LoadUser(r) ==
  /\ pc[r] = "user"
  /\ IF GetUserByID(job[r].user) THEN Authorise(r, job[r].user \in admin) ELSE End(r)
  /\ UNCHANGED <<userVars, credVars, counters, history>>

-----------------------------------------------------------------------------
(* Handlers of credentials.                                                *)

Logout(r) ==
  /\ pc[r] = "logout"
  /\ LET c == job[r].cred IN
     IF c.kind = "cookie"
     THEN /\ DeleteSession(c.id)
          /\ ended' = ended \cup {c}
     ELSE UNCHANGED <<session, ended>>
  /\ End(r)
  /\ UNCHANGED <<userVars, token, jwts, counters, root, promised, raced>>

\* Faulty variant: the scope asked for is not held against the request's own.
CreateTokenUnchecked(r) ==
  /\ pc[r] = "createToken" /\ tokens < MaxTokens
  /\ LET j == job[r] IN
     \E scope \in Scopes :
       /\ CreateAPIToken(j.user, scope)
       /\ root' = [root EXCEPT ![tokens'] =
                     IF Scoped(j) THEN root[j.cred.id] ELSE scope]
  /\ End(r)
  /\ UNCHANGED <<userVars, session, jwts, sessions, updates, ended, promised, raced>>

\* handleCreateToken: a scope wider than the request's own is refused, and so
\* is the row of a user deleted meanwhile.
CreateToken(r) ==
  /\ pc[r] = "createToken" /\ tokens < MaxTokens
  /\ LET j == job[r] IN
     \E scope \in Scopes :
       IF j.user \in there /\ (Scoped(j) => ScopeAllows(j.scope, scope))
       THEN /\ CreateAPIToken(j.user, scope)
            /\ root' = [root EXCEPT ![tokens'] =
                          IF Scoped(j) THEN root[j.cred.id] ELSE scope]
       ELSE UNCHANGED <<token, tokens, root>>
  /\ End(r)
  /\ UNCHANGED <<userVars, session, jwts, sessions, updates, ended, promised, raced>>

\* handleRevokeToken lists the user's tokens to see that the token is its own ...
BeginRevoke(r) ==
  /\ pc[r] = "revokeToken"
  /\ \E t \in ListAPITokensByUser(job[r].user) :
       /\ Carry(r, [job[r] EXCEPT !.target = t])
       /\ Goto(r, "deleteToken")
  /\ UNCHANGED <<userVars, credVars, counters, history>>

\* ... and deletes it.
DeleteToken(r) ==
  /\ pc[r] = "deleteToken"
  /\ DeleteAPIToken(job[r].target)
  /\ ended' = ended \cup {ApiToken(job[r].target)}
  /\ End(r)
  /\ UNCHANGED <<userVars, session, jwts, counters, root, promised, raced>>

-----------------------------------------------------------------------------
(* Handlers of users; what they ask of Incus is UserTrust's.               *)

Row(u) == [admin |-> u \in admin, password |-> password[u]]

Updating(u) == {q \in Requests : pc[q] = "update" /\ job[q].target.user = u}

\* handleUpdateUser: the fields that are not given are those read here.
BeginUpdate(r) ==
  /\ pc[r] = "updateUser"
  /\ \E u \in there, isAdmin \in BOOLEAN, asks \in {"admin", "password"} :
       LET overlap == Updating(u) # {} IN
       /\ asks = "password" => updates < MaxUpdates
       /\ updates' = IF asks = "password" THEN updates + 1 ELSE updates
       /\ Carry(r, [job[r] EXCEPT !.target = [user |-> u, asks |-> asks, row |->
              IF asks = "admin" THEN [Row(u) EXCEPT !.admin = isAdmin]
              ELSE [Row(u) EXCEPT !.password = updates']]])
       /\ raced' = IF overlap THEN raced \cup {u} ELSE raced
  /\ Goto(r, "update")
  /\ UNCHANGED <<userVars, credVars, sessions, tokens, ended, root, promised>>

\* History: from now on a request of u may say that it was an administrator.
SeenAdmin(u, r) ==
  job' = [q \in Requests |->
            IF q = r THEN None
            ELSE IF job[q] # None /\ job[q].user = u
                 THEN [job[q] EXCEPT !.wasAdmin = TRUE] ELSE job[q]]

\* Faulty variant: the row of a deleted user is written again.
WriteReviving(u, row) ==
  /\ admin' = IF row.admin THEN admin \cup {u} ELSE admin \ {u}
  /\ password' = [password EXCEPT ![u] = row.password]

\* UpdateUser's statement; of a row deleted meanwhile it writes none.
Write(u, row) ==
  /\ admin' = IF row.admin /\ u \in there THEN admin \cup {u} ELSE admin \ {u}
  /\ password' = IF u \in there THEN [password EXCEPT ![u] = row.password] ELSE password

\* History: what was acknowledged is promised; once updates that overlapped
\* are done, whatever they left is.
Acknowledge(r, t) ==
  LET u == t.user IN
  /\ raced' = IF Updating(u) = {r} THEN raced \ {u} ELSE raced
  /\ promised' = [promised EXCEPT ![u] =
       IF u \in raced THEN [admin |-> u \in admin', password |-> password'[u]]
       ELSE IF t.asks = "admin" THEN [@ EXCEPT !.admin = t.row.admin]
       ELSE [@ EXCEPT !.password = t.row.password]]

\* Faulty variant: the administrator flag is written as given, or cleared.
UpdateDropping(r) ==
  /\ pc[r] = "update"
  /\ LET t == job[r].target
         row == [t.row EXCEPT !.admin = @ /\ t.asks = "admin"] IN
       /\ Write(t.user, row)
       /\ IF row.admin THEN SeenAdmin(t.user, r) ELSE Carry(r, None)
       /\ Goto(r, "idle")
       /\ Acknowledge(r, t)
  /\ UNCHANGED <<there, credVars, counters, ended, root>>

\* UpdateUser writes both columns and succeeds whether or not there is a row.
Update(r) ==
  /\ pc[r] = "update"
  /\ LET t == job[r].target IN
       /\ Write(t.user, t.row)
       /\ IF t.row.admin THEN SeenAdmin(t.user, r) ELSE Carry(r, None)
       /\ Goto(r, "idle")
       /\ Acknowledge(r, t)
  /\ UNCHANGED <<there, credVars, counters, ended, root>>

\* handleDeleteUser loads the user; its certificate is revoked in between.
BeginDelete(r) ==
  /\ pc[r] = "deleteUser"
  /\ \E u \in there : Carry(r, [job[r] EXCEPT !.target = u])
  /\ Goto(r, "delete")
  /\ UNCHANGED <<userVars, credVars, counters, history>>

\* DeleteUser cascades to sessions and API tokens; ids are not used again.
DeleteUser(r) ==
  /\ pc[r] = "delete"
  /\ LET u == job[r].target
         own == {c \in Issued : OwnerOf(c) = u} IN
       /\ there' = there \ {u} /\ admin' = admin \ {u}
       /\ password' = [password EXCEPT ![u] = 0]
       /\ session' = [s \in SessionIds |-> IF session[s] = u THEN None ELSE session[s]]
       /\ token' = [t \in TokenIds |->
                      IF ApiToken(t) \in own THEN None ELSE token[t]]
       /\ ended' = ended \cup own
  /\ End(r)
  /\ UNCHANGED <<jwts, counters, root, promised, raced>>

-----------------------------------------------------------------------------
(* handleIncusProxy: administrators reach the raw socket, other users the  *)
(* HTTPS listener with a certificate of their own.                         *)
Proxy(r) ==
  /\ pc[r] \in {"incusRead", "incusWrite"}
  /\ LET j == job[r]
         mayWrite == Scoped(j) => ScopeAllows(j.scope, "write")
         mayAdmin == Scoped(j) => j.scope = "admin" IN
     IF (pc[r] = "incusWrite" => mayWrite) /\ (j.admin => mayAdmin)
     THEN Goto(r, IF j.admin THEN "socket" ELSE "delegated") /\ UNCHANGED job
     ELSE End(r)
  /\ UNCHANGED <<userVars, credVars, counters, history>>

\* The upstream answers; without a usable certificate nothing is forwarded.
Proxied(r) ==
  /\ pc[r] \in {"socket", "delegated"}
  /\ End(r)
  /\ UNCHANGED <<userVars, credVars, counters, history>>

\* A handler refuses its input, finds nothing, or a store call of it fails.
Refuse(r) ==
  /\ pc[r] \in {"user", "deleteToken", "update", "delete"}
             \cup (Routes \ {"incusRead", "incusWrite"})
  /\ End(r)
  /\ UNCHANGED <<userVars, credVars, counters, history>>

Step(r) ==
  \/ Begin(r) \/ LoadUser(r)
  \/ Logout(r) \/ CreateToken(r) \/ BeginRevoke(r) \/ DeleteToken(r)
  \/ BeginUpdate(r) \/ Update(r) \/ BeginDelete(r) \/ DeleteUser(r)
  \/ Proxy(r) \/ Proxied(r) \/ Refuse(r)

Next ==
  \/ \E u \in Users : IssueSession(u)
  \/ \E s \in SessionIds : SessionExpires(s)
  \/ \E r \in Requests : Step(r)

Spec == Init /\ [][Next]_vars

-----------------------------------------------------------------------------
Handling == Routes \cup {"deleteToken", "update", "delete", "socket", "delegated"}

Carries(step, j) ==
  CASE step = "idle" -> j = None
    [] step = "deleteToken" -> j \in Jobs(TokenIds)
    [] step = "update" -> j \in Jobs(Changes)
    [] step = "delete" -> j \in Jobs(Users)
    [] OTHER -> j \in Jobs({None})

TypeOK ==
  /\ there \subseteq Users /\ admin \subseteq there
  /\ password \in [Users -> 0..updates]
  /\ session \in [SessionIds -> Users \cup {None}]
  /\ token \in [TokenIds -> [user : Users, scope : Scopes] \cup {None}]
  /\ jwts \subseteq {Access(u, a) : u \in Users, a \in BOOLEAN}
  /\ ended \subseteq Credentials
  /\ sessions \in 0..MaxSessions /\ tokens \in 0..MaxTokens
  /\ updates \in 0..MaxUpdates /\ raced \subseteq Users
  /\ root \in [TokenIds -> Scopes \cup {"none"}]
  /\ promised \in [Users -> [admin : BOOLEAN, password : Nat]]
  /\ pc \in [Requests -> {"idle", "user"} \cup Handling]
  /\ job = [r \in Requests |-> job[r]]
  /\ \A r \in Requests : Carries(pc[r], job[r])

(* Whoever reaches an administrator's handler or the raw Incus socket was   *)
(* an administrator at some time since the request began, and holds no API  *)
(* token narrower than that: what an older token claims does not count.     *)
AdminOnly ==
  \A r \in Requests :
    pc[r] \in AdminRoutes \cup {"update", "delete", "socket"} =>
      job[r].wasAdmin /\ job[r].scope \in {"none", "admin"}

(* A credential that has ended, by expiry, by logout, by revocation or with *)
(* its user, lets no request in that is made afterwards.                    *)
EndedStaysOut ==
  \A r \in Requests : pc[r] \in Handling => ~job[r].stale

(* However many tokens are made with tokens, none is wider than the one     *)
(* its family was started with.                                             *)
TokenFamilies ==
  \A t \in TokenIds : token[t] # None => ScopeAllows(root[t], token[t].scope)

(* A change of a user that was acknowledged is in the row, all of it, until *)
(* it is changed again: only updates of one user that overlap lose one.     *)
AcknowledgedUpdate ==
  \A u \in there \ raced :
    promised[u] = Row(u)

(* A request with a read token changes no user and no credential, and is    *)
(* not forwarded to Incus with a method that does.                          *)
ReadTokensOnlyRead ==
  [][\A r \in Requests :
       pc'[r] # pc[r] /\ pc[r] \in Handling /\ job[r].scope = "read" =>
         /\ UNCHANGED <<userVars, session, token>>
         /\ pc[r] = "incusWrite" => pc'[r] = "idle"]_vars

(* Nobody is let in on a credential that ended, nor into an administrator's *)
(* handler without having been one, nor by a token wider than the one it    *)
(* was made with: the middleware and the handlers behind it, together.      *)
OnlyEntitled == TypeOK /\ AdminOnly /\ EndedStaysOut /\ TokenFamilies
=============================================================================
