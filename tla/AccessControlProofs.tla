-------------------------- MODULE AccessControlProofs --------------------------
(***************************************************************************)
(* Theorems about AccessControl, for any users, requests and bounds.       *)
(***************************************************************************)
EXTENDS AccessControl, TLAPS

-----------------------------------------------------------------------------
(* The inductive invariant: what each request carries, and what the rows   *)
(* of credentials and users say of it.                                     *)

\* A user that is an administrator while its request runs is known to have
\* been one, and so is one whose copy says so.
SeenInTime ==
  \A r \in Requests :
    pc[r] # "idle" /\ (job[r].user \in admin \/ job[r].admin) => job[r].wasAdmin

\* What the middleware and the proxy have asked of whoever is past them.
PastMiddleware ==
  \A r \in Requests :
    /\ pc[r] \in AdminRoutes \cup {"update", "delete", "socket"} =>
         job[r].admin /\ job[r].scope \in {"none", "admin"}
    /\ pc[r] \in WriteRoutes \cup {"deleteToken"} => job[r].scope # "read"

\* Rows of credentials have been created, and none under an API token that
\* was created as something narrower.
RowsCreated ==
  /\ \A s \in SessionIds : session[s] # None => s <= sessions
  /\ \A t \in TokenIds : token[t] # None =>
       t <= tokens /\ ScopeAllows(root[t], token[t].scope)

\* The scope a request carries is that of the API token it presented.
Presented ==
  \A r \in Requests : pc[r] \in {"user", "logout", "createToken"} =>
    /\ job[r].cred \in Issued
    /\ job[r].scope # "none" =>
         /\ job[r].cred.kind = "token"
         /\ ScopeAllows(root[job[r].cred.id], job[r].scope)

\* A credential that has ended has no row, or names a user that has none.
EndedIsGone ==
  \A c \in ended :
    \/ \E s \in 1..sessions : c = Cookie(s) /\ session[s] = None
    \/ \E t \in 1..tokens : c = ApiToken(t) /\ token[t] = None
    \/ \E u \in Users \ there, b \in BOOLEAN : c = Access(u, b)

\* A request made with one has not got, and will not get, past the user's row.
StaleStopped ==
  \A r \in Requests : pc[r] # "idle" /\ job[r].stale =>
    pc[r] = "user" /\ job[r].user \notin there

\* What an update writes has been set, and what a revocation deletes created.
TargetsExist ==
  \A r \in Requests :
    /\ pc[r] = "update" => job[r].target.row.password <= updates
    /\ pc[r] = "deleteToken" => job[r].target <= tokens

EntitledInv ==
  TypeOK /\ TargetsExist /\ SeenInTime /\ PastMiddleware /\ RowsCreated /\ Presented
  /\ EndedIsGone /\ StaleStopped

\* An update alone with its user would write back what the row says now, but
\* for the field it is asked to change.
LoneUpdate ==
  \A r \in Requests :
    LET t == job[r].target IN
    pc[r] = "update" /\ t.user \in there \ raced =>
      /\ \A q \in Requests : pc[q] = "update" /\ job[q].target.user = t.user => q = r
      /\ t.asks = "admin" => t.row.password = password[t.user]
      /\ t.asks = "password" => (t.row.admin <=> t.user \in admin)

-----------------------------------------------------------------------------
(* Types.                                                                  *)

Targets == Changes \cup TokenIds \cup Users \cup {None}

\* A request under way carries a job, whatever its target is.
LEMMA JobTyped ==
  ASSUME TypeOK, NEW r \in Requests, pc[r] # "idle"
  PROVE  job[r] \in Jobs(Targets) /\ job[r] # None
  <1>1. job[r] \in Jobs(Targets)
    BY DEF TypeOK, Targets, Jobs, Carries
  <1> QED
    BY <1>1, AccessAssumption DEF Targets

\* What a credential is, by its kind.
LEMMA CredentialKinds ==
  ASSUME NEW c \in Credentials
  PROVE  \/ c.kind = "cookie" /\ c.id \in SessionIds /\ c = Cookie(c.id)
         \/ c.kind = "token" /\ c.id \in TokenIds /\ c = ApiToken(c.id)
         \/ c.kind = "jwt" /\ c.user \in Users /\ c.admin \in BOOLEAN
              /\ c = Access(c.user, c.admin)
  BY DEF Credentials, Cookie, ApiToken, Access

\* The counters and what is numbered by them.
LEMMA CountersTyped ==
  ASSUME TypeOK
  PROVE  /\ sessions \in Nat /\ tokens \in Nat /\ updates \in Nat
         /\ 1..sessions \subseteq SessionIds
         /\ 1..tokens \subseteq TokenIds
         /\ MaxSessions \in Nat /\ MaxTokens \in Nat /\ MaxUpdates \in Nat
         /\ 0..updates \subseteq 0..MaxUpdates
  <1>1. /\ sessions \in 0..MaxSessions /\ tokens \in 0..MaxTokens
        /\ updates \in 0..MaxUpdates
    BY DEF TypeOK
  <1> QED
    BY <1>1, AccessAssumption DEF SessionIds, TokenIds

\* Issued credentials are credentials, of one of the kinds.
LEMMA IssuedTyped ==
  ASSUME TypeOK, NEW c \in Issued
  PROVE  /\ c \in Credentials
         /\ OwnerOf(c) \in Users \cup {None}
         /\ \/ c.kind = "cookie" /\ c.id \in 1..sessions /\ c = Cookie(c.id)
            \/ c.kind = "token" /\ c.id \in 1..tokens /\ c = ApiToken(c.id)
            \/ c.kind = "jwt" /\ c \in jwts /\ c.user \in Users /\ c.admin \in BOOLEAN
                 /\ c = Access(c.user, c.admin)
  <1>1. c \in Credentials
    <2>1. jwts \subseteq Credentials
      BY DEF TypeOK, Credentials
    <2>2. \A s \in 1..sessions : Cookie(s) \in Credentials
      BY CountersTyped DEF Credentials
    <2>3. \A t \in 1..tokens : ApiToken(t) \in Credentials
      BY CountersTyped DEF Credentials
    <2> QED
      BY <2>1, <2>2, <2>3 DEF Issued
  <1>2. \/ c.kind = "cookie" /\ c.id \in 1..sessions /\ c = Cookie(c.id)
        \/ c.kind = "token" /\ c.id \in 1..tokens /\ c = ApiToken(c.id)
        \/ c.kind = "jwt" /\ c \in jwts /\ c.user \in Users /\ c.admin \in BOOLEAN
             /\ c = Access(c.user, c.admin)
    <2>1. CASE c \in jwts
      <3>1. jwts \subseteq {Access(u, a) : u \in Users, a \in BOOLEAN}
        BY DEF TypeOK
      <3> QED
        BY <2>1, <3>1 DEF Access
    <2>2. CASE \E s \in 1..sessions : c = Cookie(s)
      BY <2>2 DEF Cookie
    <2>3. CASE \E t \in 1..tokens : c = ApiToken(t)
      BY <2>3 DEF ApiToken
    <2> QED
      BY <2>1, <2>2, <2>3 DEF Issued
  <1>3. OwnerOf(c) \in Users \cup {None}
    BY <1>1, CredentialKinds DEF OwnerOf, TypeOK
  <1> QED
    BY <1>1, <1>2, <1>3

\* A request that ends, and one that goes on with a job of the right type.
LEMMA EndTyped ==
  ASSUME TypeOK, NEW r \in Requests, End(r)
  PROVE  /\ pc' \in [Requests -> {"idle", "user"} \cup Handling]
         /\ job' = [q \in Requests |-> job'[q]]
         /\ pc'[r] = "idle" /\ job'[r] = None
         /\ \A q \in Requests \ {r} : pc'[q] = pc[q] /\ job'[q] = job[q]
  BY DEF TypeOK, End, Goto, Carry

LEMMA CarryTyped ==
  ASSUME TypeOK, NEW r \in Requests, NEW j, NEW next \in {"user"} \cup Handling,
         Goto(r, next), Carry(r, j)
  PROVE  /\ pc' \in [Requests -> {"idle", "user"} \cup Handling]
         /\ job' = [q \in Requests |-> job'[q]]
         /\ pc'[r] = next /\ job'[r] = j
         /\ \A q \in Requests \ {r} : pc'[q] = pc[q] /\ job'[q] = job[q]
  BY DEF TypeOK, Goto, Carry

LEMMA TypeInit == Init => TypeOK
  <1> SUFFICES ASSUME Init PROVE TypeOK
    OBVIOUS
  <1>1. Root \in Users /\ Given \in Scopes /\ {MaxSessions, MaxTokens, MaxUpdates} \subseteq Nat
        /\ MaxTokens > 0
    BY AccessAssumption
  <1>2. token \in [TokenIds -> [user : Users, scope : Scopes] \cup {None}]
    BY <1>1 DEF Init
  <1>3. promised \in [Users -> [admin : BOOLEAN, password : Nat]]
    BY DEF Init
  <1>4. root \in [TokenIds -> Scopes \cup {"none"}]
    BY <1>1 DEF Init
  <1> QED
    BY <1>1, <1>2, <1>3, <1>4 DEF Init, TypeOK, Handling, Carries

\* A change of a request's own job and step, with well-typed rows.
RowsTyped ==
  /\ there \subseteq Users /\ admin \subseteq there
  /\ password \in [Users -> 0..updates]
  /\ session \in [SessionIds -> Users \cup {None}]
  /\ token \in [TokenIds -> [user : Users, scope : Scopes] \cup {None}]
  /\ jwts \subseteq {Access(u, a) : u \in Users, a \in BOOLEAN}
  /\ ended \subseteq Credentials
  /\ sessions \in 0..MaxSessions /\ tokens \in 0..MaxTokens
  /\ updates \in 0..MaxUpdates /\ raced \subseteq Users
  /\ root \in [TokenIds -> Scopes \cup {"none"}]
  /\ promised \in [Users -> [admin : BOOLEAN, password : Nat]]

RequestsTyped ==
  /\ pc \in [Requests -> {"idle", "user"} \cup Handling]
  /\ job = [r \in Requests |-> job[r]]
  /\ \A r \in Requests : Carries(pc[r], job[r])

LEMMA TypeParts == TypeOK <=> RowsTyped /\ RequestsTyped
  BY DEF TypeOK, RowsTyped, RequestsTyped

\* The rows do not depend on the requests.
LEMMA RowsUnchanged ==
  ASSUME RowsTyped, UNCHANGED <<userVars, credVars, counters, history>>
  PROVE  RowsTyped'
  BY DEF RowsTyped, userVars, credVars, counters, history

LEMMA RequestsUnchanged ==
  ASSUME RequestsTyped, UNCHANGED <<pc, job>>
  PROVE  RequestsTyped'
  BY DEF RequestsTyped

LEMMA EndKeepsTypes ==
  ASSUME TypeOK, NEW r \in Requests, End(r)
  PROVE  RequestsTyped'
  <1>1. \A q \in Requests : Carries(pc[q], job[q])'
    <2>1. Carries(pc'[r], job'[r])
      BY EndTyped DEF Carries
    <2>2. \A q \in Requests \ {r} : Carries(pc'[q], job'[q])
      BY EndTyped DEF TypeOK
    <2> QED
      BY <2>1, <2>2
  <1> QED
    BY <1>1, EndTyped DEF RequestsTyped

LEMMA CarryKeepsTypes ==
  ASSUME TypeOK, NEW r \in Requests, NEW j, NEW next \in {"user"} \cup Handling,
         Goto(r, next), Carry(r, j),
         Carries(next, j)
  PROVE  RequestsTyped'
  <1>1. \A q \in Requests : Carries(pc[q], job[q])'
    BY CarryTyped DEF TypeOK
  <1> QED
    BY <1>1, CarryTyped DEF RequestsTyped

\* A job with no target yet, and the one it becomes.
LEMMA PlainJob ==
  ASSUME TypeOK, NEW r \in Requests, pc[r] # "idle",
         pc[r] \notin {"deleteToken", "update", "delete"}
  PROVE  job[r] \in Jobs({None})
  <1>1. Carries(pc[r], job[r])
    BY DEF TypeOK
  <1> QED
    BY <1>1 DEF Carries

\* What an update does to the requests: the one that writes ends, the others
\* may learn that their user has been an administrator.
LEMMA UpdateMoves ==
  ASSUME TypeOK, NEW r \in Requests, Update(r)
  PROVE  /\ pc' \in [Requests -> {"idle", "user"} \cup Handling]
         /\ job' = [q \in Requests |-> job'[q]]
         /\ pc'[r] = "idle" /\ job'[r] = None
         /\ \A q \in Requests \ {r} :
              /\ pc'[q] = pc[q]
              /\ IF job[r].target.row.admin /\ job[q] # None /\ job[q].user = job[r].target.user
                 THEN job'[q] = [job[q] EXCEPT !.wasAdmin = TRUE]
                 ELSE job'[q] = job[q]
         /\ \A q \in Requests : Carries(pc'[q], job'[q])
  <1>1. pc' = [pc EXCEPT ![r] = "idle"]
    BY DEF Update, Goto
  <1>2. /\ job' = [q \in Requests |-> job'[q]]
        /\ job'[r] = None
        /\ \A q \in Requests \ {r} :
              IF job[r].target.row.admin /\ job[q] # None /\ job[q].user = job[r].target.user
                 THEN job'[q] = [job[q] EXCEPT !.wasAdmin = TRUE]
                 ELSE job'[q] = job[q]
    <2>1. CASE job[r].target.row.admin
      BY <2>1 DEF Update, SeenAdmin
    <2>2. CASE ~job[r].target.row.admin
      <3>1. job = [q \in Requests |-> job[q]] /\ job' = [job EXCEPT ![r] = None]
        BY <2>2 DEF Update, Carry, TypeOK
      <3> QED
        BY <2>2, <3>1
    <2> QED
      BY <2>1, <2>2
  <1>3. pc \in [Requests -> {"idle", "user"} \cup Handling]
    BY DEF TypeOK
  <1>4. \A q \in Requests \ {r} : Carries(pc[q], job'[q])
    <2> SUFFICES ASSUME NEW q \in Requests \ {r},
                        job'[q] = [job[q] EXCEPT !.wasAdmin = TRUE], job[q] # None
                 PROVE  Carries(pc[q], job'[q])
      BY <1>2 DEF TypeOK
    <2>1. Carries(pc[q], job[q])
      BY DEF TypeOK
    <2>2. \A targets : job[q] \in Jobs(targets) => job'[q] \in Jobs(targets)
      BY DEF Jobs
    <2> QED
      BY <2>1, <2>2 DEF Carries
  <1>5. Carries("idle", None)
    BY DEF Carries
  <1> QED
    BY <1>1, <1>2, <1>3, <1>4, <1>5

\* Each action keeps the types.
LEMMA TypeStep == TypeOK /\ TargetsExist /\ Presented /\ [Next]_vars => TypeOK'
  <1> SUFFICES ASSUME TypeOK, TargetsExist, Presented, [Next]_vars
               PROVE  RowsTyped' /\ RequestsTyped'
    BY TypeParts DEF TypeOK, RowsTyped, RequestsTyped
  <1>0. RowsTyped /\ RequestsTyped
    BY TypeParts
  <1> USE DEF userVars, credVars, counters, history
  <1>1. ASSUME NEW u \in Users, IssueSession(u)
        PROVE  RowsTyped' /\ RequestsTyped'
    <2>1. session' \in [SessionIds -> Users \cup {None}] /\ sessions' \in 0..MaxSessions
      <3>1. /\ session' = [session EXCEPT ![sessions + 1] = u]
            /\ sessions' = sessions + 1 /\ sessions < MaxSessions
        BY <1>1 DEF IssueSession
      <3>2. session \in [SessionIds -> Users \cup {None}]
        BY DEF TypeOK
      <3>3. sessions + 1 \in 0..MaxSessions
        BY <3>1, CountersTyped
      <3>4. session' \in [SessionIds -> Users \cup {None}]
        BY <3>1, <3>2
      <3> QED
        BY <3>1, <3>3, <3>4
    <2>2. jwts' \subseteq {Access(v, a) : v \in Users, a \in BOOLEAN}
      <3>1. jwts' = jwts \cup {Access(u, u \in admin)} /\ (u \in admin) \in BOOLEAN
        BY <1>1 DEF IssueSession
      <3>2. jwts \subseteq {Access(v, a) : v \in Users, a \in BOOLEAN}
        BY DEF TypeOK
      <3>3. PICK b \in BOOLEAN : jwts' = jwts \cup {Access(u, b)}
        BY <3>1, Zenon
      <3> QED
        BY <3>2, <3>3
    <2> QED
      BY <1>0, <1>1, <2>1, <2>2, RequestsUnchanged DEF RowsTyped, IssueSession
  <1>2. ASSUME NEW s \in SessionIds, SessionExpires(s)
        PROVE  RowsTyped' /\ RequestsTyped'
    <2>1. Cookie(s) \in Credentials
      BY DEF Credentials
    <2> QED
      BY <1>0, <1>2, <2>1, RequestsUnchanged DEF RowsTyped, SessionExpires, DeleteSession
  <1>3. ASSUME NEW r \in Requests, Step(r)
        PROVE  RowsTyped' /\ RequestsTyped'
    <2>1. CASE Begin(r)
      <3>1. PICK c \in Issued :
              /\ OwnerOf(c) # None
              /\ Goto(r, "user")
              /\ Carry(r, [cred |-> c, route |-> "none", user |-> OwnerOf(c), admin |-> FALSE,
                    scope |-> IF c.kind = "token" THEN token[c.id].scope ELSE "none",
                    wasAdmin |-> OwnerOf(c) \in admin, stale |-> c \in ended,
                    target |-> None])
        BY <2>1 DEF Begin
      <3>2. c \in Credentials /\ OwnerOf(c) \in Users
        BY <3>1, IssuedTyped
      <3>3. (IF c.kind = "token" THEN token[c.id].scope ELSE "none") \in Scopes \cup {"none"}
        BY <3>1, <3>2, CredentialKinds DEF OwnerOf, TypeOK
      <3>4. Carries("user", [cred |-> c, route |-> "none", user |-> OwnerOf(c), admin |-> FALSE,
                    scope |-> IF c.kind = "token" THEN token[c.id].scope ELSE "none",
                    wasAdmin |-> OwnerOf(c) \in admin, stale |-> c \in ended,
                    target |-> None])
        BY <3>2, <3>3 DEF Carries, Jobs
      <3>5. RequestsTyped'
        BY <3>1, <3>4, CarryKeepsTypes
      <3> QED
        BY <1>0, <2>1, <3>5, RowsUnchanged DEF Begin
    <2>2. CASE LoadUser(r)
      <3>1. RequestsTyped'
        <4>1. ASSUME NEW route \in Routes, NEW isAdmin \in BOOLEAN, NEW j,
                     j = [job[r] EXCEPT !.route = route, !.admin = isAdmin,
                            !.cred = IF route \in {"logout", "createToken"} THEN @ ELSE None],
                     Carry(r, j), Goto(r, route)
              PROVE  RequestsTyped'
          <5>1. job[r] \in Jobs({None})
            BY <2>2, PlainJob DEF LoadUser
          <5>2. j \in Jobs({None})
            BY <4>1, <5>1 DEF Jobs
          <5>3. Carries(route, j) /\ route \in Handling
            BY <5>2 DEF Carries, Handling, Routes, AdminRoutes, WriteRoutes, OpenRoutes
          <5> QED
            BY <4>1, <5>3, CarryKeepsTypes
        <4>2. (job[r].user \in admin) \in BOOLEAN
          OBVIOUS
        <4>3. CASE End(r)
          BY <4>3, EndKeepsTypes
        <4>4. CASE Authorise(r, job[r].user \in admin)
          BY <4>1, <4>2, <4>3, <4>4 DEF Authorise
        <4> QED
          BY <2>2, <4>3, <4>4 DEF LoadUser
      <3> QED
        BY <1>0, <2>2, <3>1, RowsUnchanged DEF LoadUser
    <2>3. CASE Logout(r)
      <3>1. job[r] \in Jobs({None}) /\ job[r].cred \in Credentials \cup {None}
        BY <2>3, PlainJob DEF Logout, Jobs
      <3>2. End(r) /\ UNCHANGED <<userVars, token, jwts, counters, root, promised, raced>>
        BY <2>3 DEF Logout
      <3>3. CASE job[r].cred.kind = "cookie" /\ job[r].cred \in Credentials
        <4>1. job[r].cred.id \in SessionIds
          BY <3>3, CredentialKinds
        <4>2. /\ session' = [session EXCEPT ![job[r].cred.id] = None]
              /\ ended' = ended \cup {job[r].cred}
          BY <2>3, <3>3 DEF Logout, DeleteSession
        <4> QED
          BY <1>0, <3>2, <3>3, <4>1, <4>2, EndKeepsTypes DEF RowsTyped
      <3>4. CASE UNCHANGED <<session, ended>>
        BY <1>0, <3>2, <3>4, RowsUnchanged, EndKeepsTypes
      <3> QED
        <4>1. job[r].cred \in Credentials
          BY <2>3, IssuedTyped DEF Logout, Presented
        <4> QED
          BY <2>3, <3>3, <3>4, <4>1 DEF Logout
    <2>4. CASE CreateToken(r)
      <3>1. /\ tokens < MaxTokens /\ End(r)
            /\ UNCHANGED <<userVars, session, jwts, sessions, updates, ended, promised, raced>>
        BY <2>4 DEF CreateToken
      <3>2. PICK scope \in Scopes :
              \/ /\ job[r].user \in there /\ CreateAPIToken(job[r].user, scope)
                 /\ root' = [root EXCEPT ![tokens'] =
                               IF Scoped(job[r]) THEN root[job[r].cred.id] ELSE scope]
              \/ UNCHANGED <<token, tokens, root>>
        BY <2>4 DEF CreateToken
      <3>3. CASE UNCHANGED <<token, tokens, root>>
        BY <1>0, <3>1, <3>3, RowsUnchanged, EndKeepsTypes
      <3>4. CASE /\ job[r].user \in there /\ CreateAPIToken(job[r].user, scope)
                 /\ root' = [root EXCEPT ![tokens'] =
                               IF Scoped(job[r]) THEN root[job[r].cred.id] ELSE scope]
        <4>1. tokens' = tokens + 1 /\ tokens' \in TokenIds /\ tokens' \in 0..MaxTokens
          BY <3>1, <3>4, CountersTyped DEF CreateAPIToken, TokenIds
        <4>2. token' \in [TokenIds -> [user : Users, scope : Scopes] \cup {None}]
          BY <1>0, <3>4, <4>1 DEF CreateAPIToken, RowsTyped
        <4>3. (IF Scoped(job[r]) THEN root[job[r].cred.id] ELSE scope) \in Scopes \cup {"none"}
          <5>1. CASE Scoped(job[r])
            <6>1. job[r].cred \in Issued /\ job[r].cred.kind = "token"
              BY <2>4, <5>1 DEF CreateToken, Presented, Scoped
            <6>2. job[r].cred.id \in TokenIds
              BY <6>1, IssuedTyped, CredentialKinds
            <6> QED
              BY <1>0, <5>1, <6>2 DEF RowsTyped
          <5> QED
            BY <5>1
        <4>4. root' \in [TokenIds -> Scopes \cup {"none"}]
          BY <1>0, <3>4, <4>1, <4>3 DEF RowsTyped
        <4> QED
          BY <1>0, <3>1, <4>1, <4>2, <4>4, EndKeepsTypes DEF RowsTyped
      <3> QED
        BY <3>2, <3>3, <3>4
    <2>5. CASE BeginRevoke(r)
      <3>1. PICK t \in TokenIds :
              Carry(r, [job[r] EXCEPT !.target = t]) /\ Goto(r, "deleteToken")
        BY <2>5 DEF BeginRevoke, ListAPITokensByUser
      <3>2. Carries("deleteToken", [job[r] EXCEPT !.target = t])
        BY <2>5, PlainJob DEF BeginRevoke, Carries, Jobs
      <3>3. RequestsTyped'
        BY <3>1, <3>2, CarryKeepsTypes DEF Handling
      <3> QED
        BY <1>0, <2>5, <3>3, RowsUnchanged DEF BeginRevoke
    <2>6. CASE DeleteToken(r)
      <3>1. job[r].target \in TokenIds
        BY <2>6 DEF DeleteToken, TypeOK, Carries, Jobs
      <3>2. ApiToken(job[r].target) \in Credentials
        BY <3>1 DEF Credentials
      <3> QED
        BY <1>0, <2>6, <3>1, <3>2, EndKeepsTypes DEF DeleteToken, DeleteAPIToken, RowsTyped
    <2>7. CASE BeginUpdate(r)
      <3>1. PICK u \in there, isAdmin \in BOOLEAN, asks \in {"admin", "password"} :
              /\ asks = "password" => updates < MaxUpdates
              /\ updates' = IF asks = "password" THEN updates + 1 ELSE updates
              /\ Carry(r, [job[r] EXCEPT !.target = [user |-> u, asks |-> asks, row |->
                     IF asks = "admin" THEN [Row(u) EXCEPT !.admin = isAdmin]
                     ELSE [Row(u) EXCEPT !.password = updates']]])
              /\ raced' = IF Updating(u) # {} THEN raced \cup {u} ELSE raced
        BY <2>7 DEF BeginUpdate
      <3>2. u \in Users /\ password[u] \in 0..updates /\ updates \in 0..MaxUpdates
        BY DEF TypeOK
      <3>3. updates' \in 0..MaxUpdates /\ updates <= updates'
        BY <3>1, <3>2, CountersTyped
      <3>4. Row(u) \in [admin : BOOLEAN, password : 0..MaxUpdates]
        BY <3>2, CountersTyped DEF Row
      <3>5. (IF asks = "admin" THEN [Row(u) EXCEPT !.admin = isAdmin]
             ELSE [Row(u) EXCEPT !.password = updates'])
               \in [admin : BOOLEAN, password : 0..MaxUpdates]
        BY <3>3, <3>4
      <3>6. Carries("update", [job[r] EXCEPT !.target = [user |-> u, asks |-> asks, row |->
                     IF asks = "admin" THEN [Row(u) EXCEPT !.admin = isAdmin]
                     ELSE [Row(u) EXCEPT !.password = updates']]])
        BY <2>7, <3>2, <3>5, PlainJob DEF BeginUpdate, Carries, Jobs, Changes
      <3>7. RequestsTyped'
        BY <2>7, <3>1, <3>6, CarryKeepsTypes DEF Handling, BeginUpdate
      <3>8. password' \in [Users -> 0..updates']
        BY <2>7, <3>3, <1>0, CountersTyped DEF RowsTyped, BeginUpdate
      <3> QED
        BY <1>0, <2>7, <3>1, <3>2, <3>3, <3>7, <3>8 DEF BeginUpdate, RowsTyped
    <2>8. CASE Update(r)
      <3> DEFINE t == job[r].target
      <3>1. /\ t \in Changes /\ t.user \in Users /\ t.row.admin \in BOOLEAN
            /\ t.row.password \in 0..updates
        <4>1. Carries(pc[r], job[r]) /\ pc[r] = "update"
          BY <2>8 DEF TypeOK, Update
        <4>2. t \in Changes
          BY <4>1 DEF Carries, Jobs
        <4>3. t.row.password \in Nat /\ t.row.password <= updates
          BY <4>1, <4>2 DEF TargetsExist, Changes
        <4> QED
          BY <4>2, <4>3, CountersTyped DEF Changes
      <3> HIDE DEF t
      <3>2. Write(t.user, t.row) /\ Acknowledge(r, t)
        BY <2>8 DEF Update, t
      <3>3. password' \in [Users -> 0..updates]
        BY <1>0, <3>1, <3>2 DEF Write, RowsTyped
      <3>4. admin' \subseteq there
        BY <1>0, <3>2 DEF Write, RowsTyped
      <3>5. raced' \subseteq Users
        BY <1>0, <3>2 DEF Acknowledge, RowsTyped
      <3>6. promised' \in [Users -> [admin : BOOLEAN, password : Nat]]
        <4>1. promised \in [Users -> [admin : BOOLEAN, password : Nat]]
          BY <1>0 DEF RowsTyped
        <4>2. [admin |-> t.user \in admin', password |-> password'[t.user]]
                \in [admin : BOOLEAN, password : Nat]
          BY <3>1, <3>3, CountersTyped
        <4>3. /\ [promised[t.user] EXCEPT !.admin = t.row.admin] \in [admin : BOOLEAN, password : Nat]
              /\ [promised[t.user] EXCEPT !.password = t.row.password] \in [admin : BOOLEAN, password : Nat]
          BY <3>1, <4>1, CountersTyped
        <4> QED
          BY <3>1, <3>2, <4>1, <4>2, <4>3 DEF Acknowledge
      <3>7. RequestsTyped'
        BY <2>8, UpdateMoves DEF RequestsTyped
      <3> QED
        BY <1>0, <2>8, <3>3, <3>4, <3>5, <3>6, <3>7 DEF Update, RowsTyped
    <2>9. CASE BeginDelete(r)
      <3>1. PICK u \in Users : Carry(r, [job[r] EXCEPT !.target = u]) /\ Goto(r, "delete")
        <4>1. there \subseteq Users
          BY DEF TypeOK
        <4>2. PICK u \in there : Carry(r, [job[r] EXCEPT !.target = u])
          BY <2>9 DEF BeginDelete
        <4> QED
          BY <2>9, <4>1, <4>2 DEF BeginDelete
      <3>2. Carries("delete", [job[r] EXCEPT !.target = u])
        BY <2>9, PlainJob DEF BeginDelete, Carries, Jobs
      <3>3. RequestsTyped'
        BY <3>1, <3>2, CarryKeepsTypes DEF Handling
      <3> QED
        BY <1>0, <2>9, <3>3, RowsUnchanged DEF BeginDelete
    <2>10. CASE DeleteUser(r)
      <3> DEFINE own == {c \in Issued : OwnerOf(c) = job[r].target}
      <3>1. ended \cup own \subseteq Credentials
        BY <1>0, IssuedTyped DEF RowsTyped
      <3>2. /\ session' \in [SessionIds -> Users \cup {None}]
            /\ token' \in [TokenIds -> [user : Users, scope : Scopes] \cup {None}]
        BY <1>0, <2>10 DEF DeleteUser, RowsTyped
      <3>3. password' \in [Users -> 0..updates] /\ there' \subseteq Users /\ admin' \subseteq there'
        <4>1. /\ there \subseteq Users /\ admin \subseteq there
              /\ password \in [Users -> 0..updates] /\ 0 \in 0..updates
          BY <1>0, CountersTyped DEF RowsTyped
        <4> QED
          BY <2>10, <4>1 DEF DeleteUser
      <3> QED
        BY <1>0, <2>10, <3>1, <3>2, <3>3, EndKeepsTypes DEF DeleteUser, RowsTyped
    <2>11. CASE Proxy(r)
      <3>1. RequestsTyped'
        <4>1. CASE End(r)
          BY <4>1, EndKeepsTypes
        <4>2. ASSUME NEW next \in {"socket", "delegated"}, Goto(r, next), UNCHANGED job
              PROVE  RequestsTyped'
          <5>1. Carry(r, job[r])
            BY <4>2 DEF TypeOK, Carry
          <5>2. Carries(next, job[r])
            BY <2>11, <4>2, PlainJob DEF Proxy, Carries
          <5> QED
            BY <4>2, <5>1, <5>2, CarryKeepsTypes DEF Handling
        <4> QED
          BY <2>11, <4>1, <4>2 DEF Proxy
      <3> QED
        BY <1>0, <2>11, <3>1, RowsUnchanged DEF Proxy
    <2>12. CASE Proxied(r)
      BY <1>0, <2>12, RowsUnchanged, EndKeepsTypes DEF Proxied
    <2>13. CASE Refuse(r)
      BY <1>0, <2>13, RowsUnchanged, EndKeepsTypes DEF Refuse
    <2> QED
      BY <1>3, <2>1, <2>2, <2>3, <2>4, <2>5, <2>6, <2>7, <2>8, <2>9, <2>10, <2>11,
         <2>12, <2>13 DEF Step
  <1>4. CASE UNCHANGED vars
    BY <1>0, <1>4, RowsUnchanged, RequestsUnchanged DEF vars
  <1> QED
    BY <1>1, <1>2, <1>3, <1>4 DEF Next

-----------------------------------------------------------------------------
(* How a step moves the request that takes it, and the others.             *)

\* What of a job its request never changes once it has been let in.
SameJob(j, k) ==
  /\ j.user = k.user /\ j.admin = k.admin /\ j.scope = k.scope
  /\ j.stale = k.stale

\* Another request's step changes nothing a request carries, but may set wasAdmin.
LEMMA StepFrame ==
  ASSUME TypeOK, NEW r \in Requests, Step(r), NEW q \in Requests, q # r
  PROVE  /\ pc'[q] = pc[q]
         /\ pc[q] # "idle" =>
              /\ SameJob(job'[q], job[q])
              /\ job'[q].cred = job[q].cred /\ job'[q].target = job[q].target
              /\ job[q].wasAdmin => job'[q].wasAdmin
  <1> DEFINE P == /\ pc'[q] = pc[q]
                  /\ pc[q] # "idle" =>
                       /\ SameJob(job'[q], job[q])
                       /\ job'[q].cred = job[q].cred /\ job'[q].target = job[q].target
                       /\ job[q].wasAdmin => job'[q].wasAdmin
  <1>1. CASE End(r)
    BY <1>1, EndTyped DEF SameJob
  <1>2. ASSUME NEW j, NEW next \in {"user"} \cup Handling, Carry(r, j), Goto(r, next)
        PROVE  P
    BY <1>2, CarryTyped DEF SameJob
  <1>3. CASE Update(r)
    <2>1. pc[q] # "idle" => job[q] \in Jobs(Targets)
      BY JobTyped
    <2>2. /\ pc'[q] = pc[q]
          /\ job'[q] \in {job[q], [job[q] EXCEPT !.wasAdmin = TRUE]}
      BY <1>3, UpdateMoves
    <2>3. \A j \in Jobs(Targets) :
            LET k == [j EXCEPT !.wasAdmin = TRUE] IN
            SameJob(k, j) /\ k.cred = j.cred /\ k.target = j.target /\ k.wasAdmin
      BY DEF SameJob, Jobs
    <2>4. \A j : SameJob(j, j)
      BY DEF SameJob
    <2> QED
      BY <2>1, <2>2, <2>3, <2>4
  <1>4. CASE Proxy(r)
    BY <1>1, <1>4 DEF Proxy, Goto, SameJob, TypeOK
  <1>5. CASE Begin(r)
    BY <1>2, <1>5 DEF Begin
  <1>6. CASE LoadUser(r)
    BY <1>1, <1>2, <1>6 DEF LoadUser, Authorise, Handling
  <1>7. CASE BeginRevoke(r) \/ BeginUpdate(r) \/ BeginDelete(r)
    BY <1>2, <1>7 DEF BeginRevoke, BeginUpdate, BeginDelete, Handling
  <1> QED
    BY <1>1, <1>3, <1>4, <1>5, <1>6, <1>7
    DEF Step, Logout, CreateToken, DeleteToken, DeleteUser, Proxied, Refuse

\* The moves of a request: it ends, begins, is let through to a handler, reads
\* what it will change, or is forwarded.
Moves(r) ==
  \/ pc'[r] = "idle"
  \/ /\ pc[r] = "idle" /\ pc'[r] = "user"
     /\ job'[r].cred \in Issued
     /\ job'[r].user = OwnerOf(job'[r].cred) /\ job'[r].user # None
     /\ job'[r].admin = FALSE
     /\ job'[r].scope = IF job'[r].cred.kind = "token"
                        THEN token[job'[r].cred.id].scope ELSE "none"
     /\ job'[r].user \in admin => job'[r].wasAdmin
     /\ job'[r].stale => job'[r].cred \in ended
  \/ /\ pc[r] = "user" /\ pc'[r] \in Routes
     /\ job[r].user \in there
     /\ job'[r].user = job[r].user /\ job'[r].scope = job[r].scope
     /\ job'[r].stale = job[r].stale /\ job'[r].wasAdmin = job[r].wasAdmin
     /\ job'[r].admin => job[r].user \in admin
     /\ pc'[r] \in {"logout", "createToken"} => job'[r].cred = job[r].cred
     /\ pc'[r] \in AdminRoutes => job'[r].admin /\ job'[r].scope \in {"none", "admin"}
     /\ pc'[r] \in WriteRoutes => job'[r].scope # "read"
  \/ /\ \/ pc[r] = "revokeToken" /\ pc'[r] = "deleteToken"
        \/ pc[r] = "updateUser" /\ pc'[r] = "update"
        \/ pc[r] = "deleteUser" /\ pc'[r] = "delete"
     /\ SameJob(job'[r], job[r]) /\ job'[r].wasAdmin = job[r].wasAdmin
  \/ /\ pc[r] \in {"incusRead", "incusWrite"} /\ pc'[r] \in {"socket", "delegated"}
     /\ job'[r] = job[r]
     /\ pc'[r] = "socket" => job[r].admin /\ job[r].scope \in {"none", "admin"}
     /\ pc[r] = "incusWrite" => job[r].scope # "read"

LEMMA StepMoves ==
  ASSUME TypeOK, NEW r \in Requests, Step(r)
  PROVE  Moves(r)
  <1>1. CASE End(r)
    BY <1>1, EndTyped DEF Moves
  <1>2. CASE Update(r)
    BY <1>2, UpdateMoves DEF Moves
  <1>3. CASE Begin(r)
    <2>0. PICK c \in Issued :
              \E j :
                /\ OwnerOf(c) # None
                /\ Goto(r, "user")
                /\ Carry(r, j)
                /\ j = [cred |-> c, route |-> "none", user |-> OwnerOf(c), admin |-> FALSE,
                      scope |-> IF c.kind = "token" THEN token[c.id].scope ELSE "none",
                      wasAdmin |-> OwnerOf(c) \in admin, stale |-> c \in ended, target |-> None]
      BY <1>3 DEF Begin
    <2>1. PICK j :
              /\ OwnerOf(c) # None
              /\ Goto(r, "user")
              /\ Carry(r, j)
              /\ j = [cred |-> c, route |-> "none", user |-> OwnerOf(c), admin |-> FALSE,
                    scope |-> IF c.kind = "token" THEN token[c.id].scope ELSE "none",
                    wasAdmin |-> OwnerOf(c) \in admin, stale |-> c \in ended, target |-> None]
      BY <2>0
    <2>2. job'[r] = j /\ pc'[r] = "user"
      BY <2>1, CarryTyped
    <2>3. /\ j.cred = c /\ j.user = OwnerOf(c) /\ j.admin = FALSE
          /\ j.scope = IF c.kind = "token" THEN token[c.id].scope ELSE "none"
      BY <2>1
    <2>4. j.wasAdmin <=> OwnerOf(c) \in admin
      BY <2>1
    <2>5. j.stale <=> c \in ended
      BY <2>1
    <2> QED
      BY <1>3, <2>1, <2>2, <2>3, <2>4, <2>5 DEF Begin, Moves
  <1>4. CASE LoadUser(r)
    <2>1. ASSUME job[r].user \in there, Authorise(r, job[r].user \in admin)
          PROVE  Moves(r)
      <3> SUFFICES ASSUME ~End(r) PROVE Moves(r)
        BY <1>1
      <3>0. PICK route \in Routes :
                \E j :
                  /\ j = [job[r] EXCEPT !.route = route, !.admin = job[r].user \in admin,
                           !.cred = IF route \in {"logout", "createToken"} THEN @ ELSE None]
                  /\ Permitted(j) /\ Carry(r, j) /\ Goto(r, route)
        BY <2>1 DEF Authorise
      <3>1. PICK j :
              /\ j = [job[r] EXCEPT !.route = route, !.admin = job[r].user \in admin,
                       !.cred = IF route \in {"logout", "createToken"} THEN @ ELSE None]
              /\ Permitted(j) /\ Carry(r, j) /\ Goto(r, route)
        BY <3>0
      <3>2. job[r] \in Jobs({None}) /\ pc[r] = "user"
        BY <1>4, PlainJob DEF LoadUser
      <3>3. /\ j.route = route /\ (j.admin <=> job[r].user \in admin)
            /\ route \in {"logout", "createToken"} => j.cred = job[r].cred
            /\ j.user = job[r].user /\ j.scope = job[r].scope
            /\ j.stale = job[r].stale /\ j.wasAdmin = job[r].wasAdmin
            /\ j.scope \in Scopes \cup {"none"}
        BY <3>1, <3>2 DEF Jobs
      <3>4. pc'[r] = route /\ job'[r] = j
        BY <3>1, CarryTyped DEF Handling
      <3>5. /\ route \in AdminRoutes => j.admin /\ j.scope \in {"none", "admin"}
            /\ route \in WriteRoutes => j.scope # "read"
        BY <3>1, <3>3 DEF Permitted, Scoped, ScopeAllows, Scopes
      <3> QED
        BY <2>1, <3>1, <3>2, <3>3, <3>4, <3>5 DEF Moves
    <2> QED
      BY <1>1, <1>4, <2>1 DEF LoadUser, GetUserByID
  <1>5. CASE BeginRevoke(r)
    <2>1. pc[r] = "revokeToken" /\ job[r] \in Jobs({None})
      BY <1>5, PlainJob DEF BeginRevoke
    <2>2. PICK t : Carry(r, [job[r] EXCEPT !.target = t]) /\ Goto(r, "deleteToken")
      BY <1>5 DEF BeginRevoke
    <2>3. pc'[r] = "deleteToken" /\ job'[r] = [job[r] EXCEPT !.target = t]
      BY <2>2, CarryTyped DEF Handling
    <2> QED
      BY <2>1, <2>3 DEF Moves, SameJob, Jobs
  <1>6. CASE BeginUpdate(r)
    <2>1. pc[r] = "updateUser" /\ job[r] \in Jobs({None})
      BY <1>6, PlainJob DEF BeginUpdate
    <2>2. PICK t : Carry(r, [job[r] EXCEPT !.target = t]) /\ Goto(r, "update")
      BY <1>6 DEF BeginUpdate
    <2>3. pc'[r] = "update" /\ job'[r] = [job[r] EXCEPT !.target = t]
      BY <2>2, CarryTyped DEF Handling
    <2> QED
      BY <2>1, <2>3 DEF Moves, SameJob, Jobs
  <1>7. CASE BeginDelete(r)
    <2>1. pc[r] = "deleteUser" /\ job[r] \in Jobs({None})
      BY <1>7, PlainJob DEF BeginDelete
    <2>2. PICK t : Carry(r, [job[r] EXCEPT !.target = t]) /\ Goto(r, "delete")
      BY <1>7 DEF BeginDelete
    <2>3. pc'[r] = "delete" /\ job'[r] = [job[r] EXCEPT !.target = t]
      BY <2>2, CarryTyped DEF Handling
    <2> QED
      BY <2>1, <2>3 DEF Moves, SameJob, Jobs
  <1>8. CASE Proxy(r)
    <2>1. job[r] \in Jobs({None})
      BY <1>8, PlainJob DEF Proxy
    <2>2. job[r].scope \in Scopes \cup {"none"}
      BY <2>1 DEF Jobs
    <2>3. CASE Goto(r, IF job[r].admin THEN "socket" ELSE "delegated") /\ UNCHANGED job
               /\ (pc[r] = "incusWrite" /\ Scoped(job[r]) => ScopeAllows(job[r].scope, "write"))
               /\ (job[r].admin /\ Scoped(job[r]) => job[r].scope = "admin")
      <3>1. pc'[r] = IF job[r].admin THEN "socket" ELSE "delegated"
        BY <2>3 DEF Goto, TypeOK
      <3> QED
        BY <1>8, <2>2, <2>3, <3>1 DEF Moves, Proxy, Scoped, ScopeAllows, Scopes
    <2> QED
      BY <1>1, <1>8, <2>3 DEF Proxy
  <1> QED
    BY <1>1, <1>2, <1>3, <1>4, <1>5, <1>6, <1>7, <1>8
    DEF Step, Logout, CreateToken, DeleteToken, DeleteUser, Proxied, Refuse

\* An update that begins has read the row of a user there is.
LEMMA UpdateRead ==
  ASSUME TypeOK, NEW r \in Requests, Step(r), pc'[r] = "update"
  PROVE  /\ job'[r].target.user \in there
         /\ job'[r].target.asks \in {"admin", "password"}
         /\ job'[r].target.row.password \in {password[job'[r].target.user], updates'}
         /\ job'[r].target.asks = "admin" =>
              job'[r].target.row.password = password[job'[r].target.user]
         /\ job'[r].target.asks = "password" =>
              (job'[r].target.row.admin <=> job'[r].target.user \in admin)
         /\ raced' = IF Updating(job'[r].target.user) # {}
                     THEN raced \cup {job'[r].target.user} ELSE raced
         /\ pc[r] = "updateUser"
  <1>1. pc[r] = "updateUser"
    BY StepMoves DEF Moves, Routes, AdminRoutes, WriteRoutes, OpenRoutes
  <1>2. ~End(r)
    BY EndTyped
  <1>3. BeginUpdate(r)
    BY <1>1, <1>2 DEF Step, Begin, LoadUser, Logout, CreateToken, BeginRevoke, DeleteToken,
       Update, BeginDelete, DeleteUser, Proxy, Proxied, Refuse
  <1>0. PICK u \in there, isAdmin \in BOOLEAN, asks \in {"admin", "password"} :
            \E row :
              /\ row = IF asks = "admin" THEN [Row(u) EXCEPT !.admin = isAdmin]
                       ELSE [Row(u) EXCEPT !.password = updates']
              /\ Carry(r, [job[r] EXCEPT !.target = [user |-> u, asks |-> asks, row |-> row]])
              /\ raced' = IF Updating(u) # {} THEN raced \cup {u} ELSE raced
    BY <1>3 DEF BeginUpdate
  <1>4. PICK row :
          /\ row = IF asks = "admin" THEN [Row(u) EXCEPT !.admin = isAdmin]
                   ELSE [Row(u) EXCEPT !.password = updates']
          /\ Carry(r, [job[r] EXCEPT !.target = [user |-> u, asks |-> asks, row |-> row]])
          /\ raced' = IF Updating(u) # {} THEN raced \cup {u} ELSE raced
    BY <1>0
  <1>5. job'[r].target = [user |-> u, asks |-> asks, row |-> row]
    <2>1. job[r] \in Jobs({None})
      BY <1>1, PlainJob
    <2>2. Goto(r, "update") /\ "update" \in Handling
      BY <1>3 DEF BeginUpdate, Handling
    <2>3. job'[r] = [job[r] EXCEPT !.target = [user |-> u, asks |-> asks, row |-> row]]
      BY <1>4, <2>2, CarryTyped
    <2> QED
      BY <2>1, <2>3 DEF Jobs
  <1>6. /\ asks = "admin" => row.password = password[u]
        /\ asks = "password" => row.password = updates'
    BY <1>4 DEF Row
  <1>7. asks = "password" => (row.admin <=> u \in admin)
    BY <1>4 DEF Row
  <1> QED
    BY <1>1, <1>4, <1>5, <1>6, <1>7

\* A revocation that goes on has found the token among its user's.
LEMMA RevokeRead ==
  ASSUME TypeOK, NEW r \in Requests, Step(r), pc'[r] = "deleteToken"
  PROVE  job'[r].target \in TokenIds /\ token[job'[r].target] # None
  <1>1. pc[r] = "revokeToken"
    BY StepMoves DEF Moves, Routes, AdminRoutes, WriteRoutes, OpenRoutes
  <1>2. ~End(r)
    BY EndTyped
  <1>3. BeginRevoke(r)
    BY <1>1, <1>2 DEF Step, Begin, LoadUser, Logout, CreateToken, DeleteToken, BeginUpdate,
       Update, BeginDelete, DeleteUser, Proxy, Proxied, Refuse
  <1>4. PICK t \in TokenIds : token[t] # None /\ Carry(r, [job[r] EXCEPT !.target = t])
    BY <1>3 DEF BeginRevoke, ListAPITokensByUser
  <1>5. job'[r] = [job[r] EXCEPT !.target = t]
    BY <1>3, <1>4, CarryTyped DEF BeginRevoke, Handling
  <1>6. job[r] \in Jobs({None})
    BY <1>1, PlainJob
  <1> QED
    BY <1>4, <1>5, <1>6 DEF Jobs

\* A request that goes on has changed nothing but itself and the history of updates.
LEMMA OnlyEndsChange ==
  ASSUME TypeOK, NEW r \in Requests, Step(r), pc'[r] # "idle"
  PROVE  UNCHANGED <<userVars, credVars, sessions, tokens, ended, root, promised>>
  <1>1. ~End(r) /\ ~Update(r)
    BY EndTyped, UpdateMoves
  <1> QED
    BY <1>1 DEF Step, Begin, LoadUser, Logout, CreateToken, BeginRevoke, DeleteToken,
       BeginUpdate, BeginDelete, DeleteUser, Proxy, Proxied, Refuse, userVars, credVars,
       counters, history

\* Rows of users and credentials that have existed are never written again,
\* but to be deleted.
RowsOnlyEnd ==
  /\ there' \subseteq there
  /\ sessions <= sessions' /\ tokens <= tokens' /\ updates <= updates'
  /\ sessions' \in Nat /\ tokens' \in Nat /\ updates' \in Nat
  /\ jwts \subseteq jwts'
  /\ \A s \in 1..sessions : session'[s] \in {session[s], None}
  /\ \A t \in 1..tokens : token'[t] \in {token[t], None} /\ root'[t] = root[t]

LEMMA NextOnlyEndsRows ==
  ASSUME TypeOK, [Next]_vars
  PROVE  RowsOnlyEnd
  <1> USE CountersTyped DEF RowsOnlyEnd, userVars, credVars, counters, history
  <1>0. /\ session \in [SessionIds -> Users \cup {None}]
        /\ token \in [TokenIds -> [user : Users, scope : Scopes] \cup {None}]
        /\ root \in [TokenIds -> Scopes \cup {"none"}]
    BY DEF TypeOK
  <1>1. ASSUME NEW u \in Users, IssueSession(u) PROVE RowsOnlyEnd
    BY <1>0, <1>1 DEF IssueSession
  <1>2. ASSUME NEW s \in SessionIds, SessionExpires(s) PROVE RowsOnlyEnd
    BY <1>0, <1>2 DEF SessionExpires, DeleteSession
  <1>3. ASSUME NEW r \in Requests, Step(r) PROVE RowsOnlyEnd
    <2>1. CASE Logout(r)
      BY <1>0, <2>1 DEF Logout, DeleteSession
    <2>2. CASE CreateToken(r)
      BY <1>0, <2>2 DEF CreateToken, CreateAPIToken
    <2>3. CASE DeleteToken(r)
      BY <1>0, <2>3 DEF DeleteToken, DeleteAPIToken
    <2>4. CASE DeleteUser(r)
      BY <1>0, <2>4 DEF DeleteUser
    <2>5. CASE BeginUpdate(r)
      BY <1>0, <2>5 DEF BeginUpdate
    <2>6. CASE UNCHANGED <<there, credVars, counters, ended, root>>
      BY <1>0, <2>6
    <2> QED
      BY <1>3, <2>1, <2>2, <2>3, <2>4, <2>5, <2>6
      DEF Step, Begin, LoadUser, BeginRevoke, Update, BeginDelete, Proxy, Proxied, Refuse
  <1>4. CASE UNCHANGED vars
    BY <1>0, <1>4 DEF vars
  <1> QED
    BY <1>1, <1>2, <1>3, <1>4 DEF Next

\* What has been issued stays named.
LEMMA IssuedGrows ==
  ASSUME TypeOK, RowsOnlyEnd
  PROVE  Issued \subseteq Issued'
  <1>1. 1..sessions \subseteq 1..sessions' /\ 1..tokens \subseteq 1..tokens'
    BY CountersTyped DEF RowsOnlyEnd
  <1> QED
    BY <1>1 DEF Issued, RowsOnlyEnd

-----------------------------------------------------------------------------
(* The parts of the invariant, one by one.                                 *)

LEMMA InvInit == Init => EntitledInv
  <1> SUFFICES ASSUME Init PROVE EntitledInv
    OBVIOUS
  <1>1. \A r \in Requests : pc[r] = "idle"
    BY DEF Init
  <1>2. TypeOK
    BY TypeInit
  <1>3. RowsCreated
    BY AccessAssumption DEF Init, RowsCreated, ScopeAllows, Scopes, TokenIds
  <1>4. SeenInTime /\ StaleStopped
    BY <1>1 DEF SeenInTime, StaleStopped
  <1>5. PastMiddleware /\ Presented /\ TargetsExist
    BY <1>1 DEF PastMiddleware, Presented, TargetsExist, AdminRoutes, WriteRoutes
  <1>6. EndedIsGone
    BY DEF Init, EndedIsGone
  <1> QED
    BY <1>2, <1>3, <1>4, <1>5, <1>6 DEF EntitledInv

\* Only an update makes an administrator, and then tells its requests.
LEMMA SeenStep == EntitledInv /\ [Next]_vars => SeenInTime'
  <1> SUFFICES ASSUME TypeOK, SeenInTime, [Next]_vars PROVE SeenInTime'
    BY DEF EntitledInv
  <1>1. CASE UNCHANGED <<pc, job, admin>>
    BY <1>1 DEF SeenInTime
  <1>2. ASSUME NEW r \in Requests, Step(r) PROVE SeenInTime'
    <2> SUFFICES ASSUME NEW q \in Requests, pc'[q] # "idle",
                        job'[q].user \in admin' \/ job'[q].admin
                 PROVE  job'[q].wasAdmin
      BY DEF SeenInTime
    <2>1. CASE q = r
      <3>1. admin' = admin
        BY <1>2, <2>1, OnlyEndsChange DEF userVars
      <3> QED
        BY <1>2, <2>1, <3>1, StepMoves DEF Moves, SeenInTime, SameJob
    <2>2. CASE q # r
      <3>1. /\ pc[q] # "idle" /\ SameJob(job'[q], job[q])
            /\ job[q].wasAdmin => job'[q].wasAdmin
        BY <1>2, <2>2, StepFrame
      <3>2. CASE job[q].user \in admin \/ job[q].admin
        BY <3>1, <3>2 DEF SeenInTime
      <3>3. CASE job[q].user \in admin' \ admin
        <4>1. /\ Update(r) /\ job[r].target.row.admin
              /\ job[q].user = job[r].target.user
          BY <1>2, <3>3 DEF Step, Begin, LoadUser, Logout, CreateToken, BeginRevoke,
             DeleteToken, BeginUpdate, Update, Write, BeginDelete, DeleteUser, Proxy,
             Proxied, Refuse, userVars
        <4>2. job[q] \in Jobs(Targets) /\ job[q] # None
          BY <3>1, JobTyped
        <4>3. job'[q] = [job[q] EXCEPT !.wasAdmin = TRUE]
          BY <2>2, <4>1, <4>2, UpdateMoves
        <4> QED
          BY <4>2, <4>3 DEF Jobs
      <3> QED
        BY <3>1, <3>2, <3>3 DEF SameJob
    <2> QED
      BY <2>1, <2>2
  <1> QED
    BY <1>1, <1>2 DEF Next, vars, IssueSession, SessionExpires, userVars

LEMMA PastMiddlewareStep == EntitledInv /\ [Next]_vars => PastMiddleware'
  <1> SUFFICES ASSUME TypeOK, PastMiddleware, [Next]_vars PROVE PastMiddleware'
    BY DEF EntitledInv
  <1>1. CASE UNCHANGED <<pc, job>>
    BY <1>1 DEF PastMiddleware
  <1>2. ASSUME NEW r \in Requests, Step(r) PROVE PastMiddleware'
    <2> SUFFICES ASSUME NEW q \in Requests
                 PROVE  /\ pc'[q] \in AdminRoutes \cup {"update", "delete", "socket"} =>
                             job'[q].admin /\ job'[q].scope \in {"none", "admin"}
                        /\ pc'[q] \in WriteRoutes \cup {"deleteToken"} =>
                             job'[q].scope # "read"
      BY DEF PastMiddleware
    <2>1. CASE q = r
      BY <1>2, <2>1, StepMoves
      DEF Moves, PastMiddleware, SameJob, AdminRoutes, WriteRoutes, OpenRoutes, Routes
    <2>2. CASE q # r
      BY <1>2, <2>2, StepFrame DEF PastMiddleware, SameJob, AdminRoutes, WriteRoutes
    <2> QED
      BY <2>1, <2>2
  <1> QED
    BY <1>1, <1>2 DEF Next, vars, IssueSession, SessionExpires

LEMMA TargetsExistStep == EntitledInv /\ [Next]_vars => TargetsExist'
  <1> SUFFICES ASSUME TypeOK, RowsCreated, TargetsExist, [Next]_vars
               PROVE  TargetsExist'
    BY DEF EntitledInv
  <1>a. /\ updates <= updates' /\ updates \in Nat /\ updates' \in Nat
        /\ tokens <= tokens' /\ tokens \in Nat /\ tokens' \in Nat
    BY NextOnlyEndsRows, CountersTyped DEF RowsOnlyEnd
  <1>1. CASE UNCHANGED <<pc, job, updates, tokens>>
    BY <1>1 DEF TargetsExist
  <1>2. ASSUME NEW r \in Requests, Step(r) PROVE TargetsExist'
    <2>1. ASSUME NEW q \in Requests, pc'[q] = "update"
          PROVE  job'[q].target.row.password <= updates'
      <3>1. CASE q = r
        <4>1. /\ job'[r].target.user \in there
              /\ job'[r].target.row.password \in {password[job'[r].target.user], updates'}
          BY <1>2, <2>1, <3>1, UpdateRead
        <4>2. \A u \in there : password[u] \in 0..updates
          BY DEF TypeOK
        <4> QED
          BY <1>a, <3>1, <4>1, <4>2
      <3>2. CASE q # r
        <4>1. job'[q].target.row.password = job[q].target.row.password /\ pc[q] = "update"
          BY <1>2, <2>1, <3>2, StepFrame
        <4>2. job[q].target.row.password \in Nat
          BY <4>1, CountersTyped DEF TypeOK, Carries, Jobs, Changes
        <4> QED
          BY <1>a, <4>1, <4>2 DEF TargetsExist
      <3> QED
        BY <3>1, <3>2
    <2>2. ASSUME NEW q \in Requests, pc'[q] = "deleteToken"
          PROVE  job'[q].target <= tokens'
      <3>1. CASE q = r
        <4>1. job'[r].target \in TokenIds /\ token[job'[r].target] # None
          BY <1>2, <2>2, <3>1, RevokeRead
        <4> QED
          BY <1>a, <3>1, <4>1 DEF RowsCreated, TokenIds
      <3>2. CASE q # r
        <4>1. job'[q].target = job[q].target /\ pc[q] = "deleteToken"
          BY <1>2, <2>2, <3>2, StepFrame
        <4>2. job[q].target \in Nat
          BY <4>1 DEF TypeOK, Carries, Jobs, TokenIds
        <4> QED
          BY <1>a, <4>1, <4>2 DEF TargetsExist
      <3> QED
        BY <3>1, <3>2
    <2> QED
      BY <2>1, <2>2 DEF TargetsExist
  <1> QED
    BY <1>1, <1>2 DEF Next, vars, IssueSession, SessionExpires, counters

LEMMA StaleStep == EntitledInv /\ [Next]_vars => StaleStopped'
  <1> SUFFICES ASSUME TypeOK, EndedIsGone, StaleStopped, [Next]_vars PROVE StaleStopped'
    BY DEF EntitledInv
  <1>0. there' \subseteq there
    BY NextOnlyEndsRows DEF RowsOnlyEnd
  <1>1. CASE UNCHANGED <<pc, job>>
    BY <1>0, <1>1 DEF StaleStopped
  <1>2. ASSUME NEW r \in Requests, Step(r) PROVE StaleStopped'
    <2> SUFFICES ASSUME NEW q \in Requests, pc'[q] # "idle", job'[q].stale
                 PROVE  pc'[q] = "user" /\ job'[q].user \notin there'
      BY DEF StaleStopped
    <2>1. CASE q = r
      <3>1. CASE pc[r] = "idle" /\ pc'[r] = "user"
        <4>1. /\ job'[r].cred \in ended
              /\ job'[r].user = OwnerOf(job'[r].cred) /\ job'[r].user # None
          BY <1>2, <2>1, <3>1, StepMoves DEF Moves, Routes, AdminRoutes, WriteRoutes, OpenRoutes
        <4>2. PICK u \in Users \ there, b \in BOOLEAN : job'[r].cred = Access(u, b)
          BY <4>1, CountersTyped DEF EndedIsGone, OwnerOf, Cookie, ApiToken
        <4> QED
          BY <1>0, <2>1, <3>1, <4>1, <4>2 DEF OwnerOf, Access
      <3>2. CASE pc[r] # "idle"
        <4>1. job[r].stale
          BY <1>2, <2>1, <3>2, StepMoves DEF Moves, SameJob
        <4>2. pc[r] = "user" /\ job[r].user \notin there
          BY <3>2, <4>1 DEF StaleStopped
        <4> QED
          BY <1>2, <2>1, <4>2, StepMoves DEF Moves
      <3> QED
        BY <1>2, <2>1, <3>1, <3>2, StepMoves DEF Moves
    <2>2. CASE q # r
      <3>1. pc'[q] = pc[q] /\ SameJob(job'[q], job[q])
        BY <1>2, <2>2, StepFrame
      <3> QED
        BY <1>0, <3>1 DEF StaleStopped, SameJob
    <2> QED
      BY <2>1, <2>2
  <1> QED
    BY <1>1, <1>2 DEF Next, vars, IssueSession, SessionExpires

\* The scope of an API token is held against that of the token before it.
LEMMA ScopesNarrow ==
  ASSUME NEW a \in Scopes \cup {"none"}, NEW b \in Scopes, NEW c \in Scopes,
         ScopeAllows(a, b), ScopeAllows(b, c)
  PROVE  ScopeAllows(a, c)
  BY DEF Scopes, ScopeAllows

LEMMA PresentedStep == EntitledInv /\ [Next]_vars => Presented'
  <1> SUFFICES ASSUME TypeOK, RowsCreated, Presented, [Next]_vars PROVE Presented'
    BY DEF EntitledInv
  <1>0. RowsOnlyEnd /\ Issued \subseteq Issued'
    BY NextOnlyEndsRows, IssuedGrows
  <1>1. ASSUME NEW q \in Requests, NEW j,
               j.cred \in Issued,
               j.scope # "none" => /\ j.cred.kind = "token"
                                   /\ ScopeAllows(root[j.cred.id], j.scope)
        PROVE  /\ j.cred \in Issued'
               /\ j.scope # "none" => /\ j.cred.kind = "token"
                                      /\ ScopeAllows(root'[j.cred.id], j.scope)
    BY <1>0, <1>1, IssuedTyped DEF RowsOnlyEnd
  <1>2. CASE UNCHANGED <<pc, job>>
    BY <1>1, <1>2 DEF Presented
  <1>3. ASSUME NEW r \in Requests, Step(r) PROVE Presented'
    <2> SUFFICES ASSUME NEW q \in Requests, pc'[q] \in {"user", "logout", "createToken"}
                 PROVE  /\ job'[q].cred \in Issued
                        /\ job'[q].scope # "none" =>
                             /\ job'[q].cred.kind = "token"
                             /\ ScopeAllows(root[job'[q].cred.id], job'[q].scope)
      BY <1>1 DEF Presented
    <2>1. CASE q = r
      <3>1. CASE pc[r] = "idle"
        <4>1. /\ job'[r].cred \in Issued /\ OwnerOf(job'[r].cred) # None
              /\ job'[r].scope = IF job'[r].cred.kind = "token"
                                 THEN token[job'[r].cred.id].scope ELSE "none"
          BY <1>3, <2>1, <3>1, StepMoves DEF Moves
        <4>2. CASE job'[r].cred.kind = "token"
          <5>1. job'[r].cred.id \in TokenIds /\ token[job'[r].cred.id] # None
            BY <4>1, <4>2, IssuedTyped, CountersTyped DEF OwnerOf
          <5> QED
            BY <2>1, <4>1, <4>2, <5>1 DEF RowsCreated
        <4> QED
          BY <2>1, <4>1, <4>2
      <3>2. CASE pc[r] # "idle"
        BY <1>3, <2>1, <3>2, StepMoves
        DEF Moves, Presented, Routes, AdminRoutes, WriteRoutes, OpenRoutes
      <3> QED
        BY <3>1, <3>2
    <2>2. CASE q # r
      <3>1. pc'[q] = pc[q] /\ SameJob(job'[q], job[q]) /\ job'[q].cred = job[q].cred
        BY <1>3, <2>2, StepFrame
      <3> QED
        BY <3>1 DEF Presented, SameJob
    <2> QED
      BY <2>1, <2>2
  <1> QED
    BY <1>2, <1>3 DEF Next, vars, IssueSession, SessionExpires

LEMMA RowsCreatedStep == EntitledInv /\ [Next]_vars => RowsCreated'
  <1> SUFFICES ASSUME TypeOK, RowsCreated, Presented, [Next]_vars PROVE RowsCreated'
    BY DEF EntitledInv
  <1> USE CountersTyped DEF userVars, credVars, counters, history
  <1>0. /\ session \in [SessionIds -> Users \cup {None}]
        /\ token \in [TokenIds -> [user : Users, scope : Scopes] \cup {None}]
        /\ root \in [TokenIds -> Scopes \cup {"none"}]
    BY DEF TypeOK
  <1>1. ASSUME NEW u \in Users, IssueSession(u) PROVE RowsCreated'
    <2>1. /\ sessions' = sessions + 1
          /\ session' = [session EXCEPT ![sessions + 1] = u]
          /\ UNCHANGED <<token, tokens, root>>
      BY <1>1 DEF IssueSession
    <2>2. \A s \in SessionIds : session'[s] # None => s <= sessions'
      BY <1>0, <2>1 DEF RowsCreated, SessionIds
    <2> QED
      BY <2>1, <2>2 DEF RowsCreated
  <1>2. ASSUME NEW s \in SessionIds, SessionExpires(s) PROVE RowsCreated'
    BY <1>0, <1>2 DEF SessionExpires, DeleteSession, RowsCreated
  <1>3. ASSUME NEW r \in Requests, Step(r) PROVE RowsCreated'
    <2>1. CASE Logout(r)
      BY <1>0, <2>1 DEF Logout, DeleteSession, RowsCreated
    <2>2. CASE CreateToken(r)
      <3>1. PICK scope \in Scopes :
              \/ /\ job[r].user \in there
                 /\ Scoped(job[r]) => ScopeAllows(job[r].scope, scope)
                 /\ CreateAPIToken(job[r].user, scope)
                 /\ root' = [root EXCEPT ![tokens'] =
                               IF Scoped(job[r]) THEN root[job[r].cred.id] ELSE scope]
              \/ UNCHANGED <<token, tokens, root>>
        BY <2>2 DEF CreateToken
      <3>2. UNCHANGED <<session, sessions>> /\ tokens < MaxTokens
        BY <2>2 DEF CreateToken
      <3>3. CASE UNCHANGED <<token, tokens, root>>
        BY <3>2, <3>3 DEF RowsCreated
      <3>4. CASE /\ job[r].user \in there
                 /\ Scoped(job[r]) => ScopeAllows(job[r].scope, scope)
                 /\ CreateAPIToken(job[r].user, scope)
                 /\ root' = [root EXCEPT ![tokens'] =
                               IF Scoped(job[r]) THEN root[job[r].cred.id] ELSE scope]
        <4>1. /\ tokens' = tokens + 1 /\ tokens + 1 \in TokenIds
              /\ token' = [token EXCEPT ![tokens + 1] =
                             [user |-> job[r].user, scope |-> scope]]
              /\ root' = [root EXCEPT ![tokens + 1] =
                             IF Scoped(job[r]) THEN root[job[r].cred.id] ELSE scope]
          BY <3>2, <3>4 DEF CreateAPIToken, TokenIds
        <4>2. ScopeAllows(IF Scoped(job[r]) THEN root[job[r].cred.id] ELSE scope, scope)
          <5>1. CASE Scoped(job[r])
            <6>1. /\ job[r].cred \in Issued /\ job[r].cred.kind = "token"
                  /\ ScopeAllows(root[job[r].cred.id], job[r].scope)
              BY <2>2, <5>1 DEF CreateToken, Presented, Scoped
            <6>2. job[r].cred.id \in TokenIds
              BY <6>1, IssuedTyped
            <6>3. job[r].scope \in Scopes
              <7>1. job[r] \in Jobs({None})
                BY <2>2, PlainJob DEF CreateToken
              <7> QED
                BY <5>1, <7>1 DEF Jobs, Scoped
            <6> QED
              BY <1>0, <3>4, <5>1, <6>1, <6>2, <6>3, ScopesNarrow
          <5>2. CASE ~Scoped(job[r])
            BY <5>2 DEF ScopeAllows, Scopes
          <5> QED
            BY <5>1, <5>2
        <4>3. ASSUME NEW t \in TokenIds, token'[t] # None
              PROVE  t <= tokens' /\ ScopeAllows(root'[t], token'[t].scope)
          <5>1. CASE t = tokens + 1
            BY <1>0, <4>1, <4>2, <5>1
          <5>2. CASE t # tokens + 1
            BY <1>0, <4>1, <4>3, <5>2 DEF RowsCreated, TokenIds
          <5> QED
            BY <5>1, <5>2
        <4> QED
          BY <3>2, <4>3 DEF RowsCreated
      <3> QED
        BY <3>1, <3>3, <3>4
    <2>3. CASE DeleteToken(r)
      BY <1>0, <2>3 DEF DeleteToken, DeleteAPIToken, RowsCreated
    <2>4. CASE DeleteUser(r)
      BY <1>0, <2>4 DEF DeleteUser, RowsCreated
    <2>5. CASE UNCHANGED <<session, token, root, sessions, tokens>>
      BY <2>5 DEF RowsCreated
    <2> QED
      BY <1>3, <2>1, <2>2, <2>3, <2>4, <2>5
      DEF Step, Begin, LoadUser, BeginRevoke, BeginUpdate, Update, BeginDelete, Proxy,
          Proxied, Refuse
  <1>4. CASE UNCHANGED vars
    BY <1>4 DEF vars, RowsCreated
  <1> QED
    BY <1>1, <1>2, <1>3, <1>4 DEF Next

\* What ends has no row from the step on, and what has none never gets one again.
LEMMA EndedStep == EntitledInv /\ [Next]_vars => EndedIsGone'
  <1> SUFFICES ASSUME TypeOK, RowsCreated, TargetsExist, Presented, EndedIsGone, [Next]_vars
               PROVE  EndedIsGone'
    BY DEF EntitledInv
  <1> DEFINE Gone(c) ==
        \/ \E s \in 1..sessions' : c = Cookie(s) /\ session'[s] = None
        \/ \E t \in 1..tokens' : c = ApiToken(t) /\ token'[t] = None
        \/ \E u \in Users \ there', b \in BOOLEAN : c = Access(u, b)
  <1> SUFFICES ASSUME NEW c \in ended' PROVE Gone(c)
    BY DEF EndedIsGone
  <1> USE DEF userVars, credVars, counters, history
  <1>0. RowsOnlyEnd
    BY NextOnlyEndsRows
  <1>a. /\ session \in [SessionIds -> Users \cup {None}]
        /\ token \in [TokenIds -> [user : Users, scope : Scopes] \cup {None}]
    BY DEF TypeOK
  <1>1. CASE c \in ended
    <2>1. CASE \E s \in 1..sessions : c = Cookie(s) /\ session[s] = None
      BY <1>0, <2>1, CountersTyped DEF RowsOnlyEnd
    <2>2. CASE \E t \in 1..tokens : c = ApiToken(t) /\ token[t] = None
      BY <1>0, <2>2, CountersTyped DEF RowsOnlyEnd
    <2>3. CASE \E u \in Users \ there, b \in BOOLEAN : c = Access(u, b)
      BY <1>0, <2>3 DEF RowsOnlyEnd
    <2> QED
      BY <1>1, <2>1, <2>2, <2>3 DEF EndedIsGone
  <1>2. ASSUME NEW s \in SessionIds, SessionExpires(s), c \notin ended PROVE Gone(c)
    <2>1. c = Cookie(s) /\ session'[s] = None /\ sessions' = sessions /\ s <= sessions
      BY <1>a, <1>2 DEF SessionExpires, DeleteSession, RowsCreated
    <2>2. s \in 1..sessions'
      BY <2>1, CountersTyped DEF SessionIds
    <2> QED
      BY <2>1, <2>2
  <1>3. ASSUME NEW r \in Requests, Step(r), c \notin ended PROVE Gone(c)
    <2>1. CASE Logout(r)
      <3>1. /\ c = job[r].cred /\ c.kind = "cookie"
            /\ session' = [session EXCEPT ![c.id] = None] /\ UNCHANGED sessions
        BY <1>3, <2>1 DEF Logout, DeleteSession
      <3>2. c \in Issued
        BY <2>1, <3>1 DEF Logout, Presented
      <3>3. c.id \in 1..sessions /\ c = Cookie(c.id) /\ c.id \in SessionIds
        BY <3>1, <3>2, IssuedTyped, CountersTyped
      <3> QED
        BY <1>a, <3>1, <3>3
    <2>2. CASE DeleteToken(r)
      <3>1. /\ c = ApiToken(job[r].target) /\ UNCHANGED tokens
            /\ token' = [token EXCEPT ![job[r].target] = None]
        BY <1>3, <2>2 DEF DeleteToken, DeleteAPIToken
      <3>2. job[r].target \in TokenIds /\ job[r].target <= tokens
        BY <2>2 DEF DeleteToken, TargetsExist, TypeOK, Carries, Jobs
      <3> QED
        BY <1>a, <3>1, <3>2, CountersTyped DEF TokenIds
    <2>3. CASE DeleteUser(r)
      <3>1. /\ c \in Issued /\ OwnerOf(c) = job[r].target
            /\ there' = there \ {job[r].target}
            /\ session' = [s \in SessionIds |-> IF session[s] = job[r].target THEN None ELSE session[s]]
            /\ token' = [t \in TokenIds |->
                  IF ApiToken(t) \in {d \in Issued : OwnerOf(d) = job[r].target}
                  THEN None ELSE token[t]]
            /\ UNCHANGED <<sessions, tokens>>
        BY <1>3, <2>3 DEF DeleteUser
      <3>2. CASE c.kind = "cookie"
        BY <1>a, <3>1, <3>2, IssuedTyped, CountersTyped DEF OwnerOf
      <3>3. CASE c.kind = "token"
        BY <1>a, <3>1, <3>3, IssuedTyped, CountersTyped DEF OwnerOf
      <3>4. CASE c.kind = "jwt"
        BY <3>1, <3>4, IssuedTyped DEF OwnerOf
      <3> QED
        BY <3>1, <3>2, <3>3, <3>4, IssuedTyped
    <2> QED
      BY <1>3, <2>1, <2>2, <2>3
      DEF Step, Begin, LoadUser, CreateToken, BeginRevoke, BeginUpdate, Update, BeginDelete,
          Proxy, Proxied, Refuse
  <1> QED
    BY <1>1, <1>2, <1>3 DEF Next, vars, IssueSession

-----------------------------------------------------------------------------
(* The theorems on who is let in.                                          *)

LEMMA InvStep == EntitledInv /\ [Next]_vars => EntitledInv'
  BY TypeStep, SeenStep, PastMiddlewareStep, TargetsExistStep, StaleStep, PresentedStep,
     RowsCreatedStep, EndedStep DEF EntitledInv

\* The invariant of the requests and of the rows of credentials.
THEOREM EntitledInvHolds == Spec => []EntitledInv
  BY InvInit, InvStep, PTL DEF Spec

\* No request acts as an administrator that was none since it began, none is
\* let in on what had ended, and no API token is wider than its family's first.
THEOREM OnlyEntitledHolds == Spec => []OnlyEntitled
  <1>1. EntitledInv => OnlyEntitled
    <2> SUFFICES ASSUME EntitledInv PROVE OnlyEntitled
      OBVIOUS
    <2>1. TypeOK
      BY DEF EntitledInv
    <2>2. AdminOnly
      <3> SUFFICES ASSUME NEW r \in Requests,
                          pc[r] \in AdminRoutes \cup {"update", "delete", "socket"}
                   PROVE  job[r].wasAdmin /\ job[r].scope \in {"none", "admin"}
        BY DEF AdminOnly
      <3> QED
        BY DEF EntitledInv, SeenInTime, PastMiddleware, AdminRoutes
    <2>3. EndedStaysOut
      BY DEF EntitledInv, EndedStaysOut, StaleStopped, Handling, Routes, AdminRoutes,
         WriteRoutes, OpenRoutes
    <2>4. TokenFamilies
      BY DEF EntitledInv, RowsCreated, TokenFamilies
    <2> QED
      BY <2>1, <2>2, <2>3, <2>4 DEF OnlyEntitled
  <1> QED
    BY <1>1, EntitledInvHolds, PTL

\* A request with a read token leaves every row of users and credentials as it
\* is and is forwarded with no method that changes something.
THEOREM ReadTokensOnlyReadHolds == Spec => ReadTokensOnlyRead
  <1>1. ASSUME EntitledInv, [Next]_vars
        PROVE  [\A r \in Requests :
                 pc'[r] # pc[r] /\ pc[r] \in Handling /\ job[r].scope = "read" =>
                   /\ UNCHANGED <<userVars, session, token>>
                   /\ pc[r] = "incusWrite" => pc'[r] = "idle"]_vars
    <2> SUFFICES ASSUME NEW r \in Requests, pc'[r] # pc[r], pc[r] \in Handling,
                        job[r].scope = "read"
                 PROVE  /\ UNCHANGED <<userVars, session, token>>
                        /\ pc[r] = "incusWrite" => pc'[r] = "idle"
      OBVIOUS
    <2>0. TypeOK /\ PastMiddleware /\ Presented
      BY <1>1 DEF EntitledInv
    <2>1. Step(r)
      BY <1>1, <2>0, StepFrame DEF Next, vars, IssueSession, SessionExpires
    <2>2. pc[r] \in {"logout", "incusRead", "incusWrite", "socket", "delegated"}
      BY <2>0 DEF PastMiddleware, Handling, Routes, AdminRoutes, WriteRoutes, OpenRoutes
    <2>3. UNCHANGED <<userVars, session, token>>
      <3>1. CASE Logout(r)
        <4>1. job[r].cred \in Issued /\ job[r].cred.kind = "token"
          BY <2>0, <3>1 DEF Logout, Presented
        <4> QED
          BY <3>1, <4>1 DEF Logout
      <3> QED
        BY <2>1, <2>2, <3>1 DEF Step, Begin, LoadUser, CreateToken, BeginRevoke, DeleteToken,
           BeginUpdate, Update, BeginDelete, DeleteUser, Proxy, Proxied, Refuse, credVars
    <2>4. ASSUME pc[r] = "incusWrite" PROVE pc'[r] = "idle"
      BY <2>0, <2>1, <2>4, StepMoves DEF Moves
    <2> QED
      BY <2>3, <2>4
  <1> QED
    BY <1>1, EntitledInvHolds, PTL DEF Spec, ReadTokensOnlyRead

-----------------------------------------------------------------------------
(* What an acknowledged update left.                                       *)

UpdateInv == EntitledInv /\ LoneUpdate /\ AcknowledgedUpdate

\* A user's row stays as it is while nobody's update of it is written.
LEMMA RowStays ==
  ASSUME TypeOK, NEW r \in Requests, Step(r), NEW u \in there',
         ~(pc[r] = "update" /\ job[r].target.user = u)
  PROVE  /\ u \in admin' <=> u \in admin
         /\ password'[u] = password[u] /\ promised'[u] = promised[u]
         /\ u \in raced => u \in raced'
  <1> USE DEF userVars, history
  <1>0. /\ u \in Users /\ password \in [Users -> 0..updates]
        /\ promised \in [Users -> [admin : BOOLEAN, password : Nat]]
    BY NextOnlyEndsRows DEF TypeOK, RowsOnlyEnd, Next
  <1>1. CASE Update(r)
    <2>1. job[r].target.user # u
      BY <1>1 DEF Update
    <2> QED
      BY <1>0, <1>1, <2>1 DEF Update, Write, Acknowledge
  <1>2. CASE DeleteUser(r)
    BY <1>0, <1>2 DEF DeleteUser
  <1>3. CASE BeginUpdate(r)
    BY <1>3 DEF BeginUpdate
  <1> QED
    BY <1>1, <1>2, <1>3 DEF Step, Begin, LoadUser, Logout, CreateToken, BeginRevoke,
       DeleteToken, BeginDelete, Proxy, Proxied, Refuse

LEMMA LoneUpdateStep == UpdateInv /\ [Next]_vars => LoneUpdate'
  <1> SUFFICES ASSUME TypeOK, LoneUpdate, [Next]_vars PROVE LoneUpdate'
    BY DEF UpdateInv, EntitledInv
  <1>1. CASE UNCHANGED <<pc, job, userVars, raced>>
    BY <1>1 DEF LoneUpdate, userVars
  <1>2. ASSUME NEW r \in Requests, Step(r) PROVE LoneUpdate'
    <2> SUFFICES ASSUME NEW q \in Requests, NEW t, t = job'[q].target,
                        pc'[q] = "update", t.user \in there', t.user \notin raced'
                 PROVE  /\ \A p \in Requests :
                             pc'[p] = "update" /\ job'[p].target.user = t.user => p = q
                        /\ t.asks = "admin" => t.row.password = password'[t.user]
                        /\ t.asks = "password" => (t.row.admin <=> t.user \in admin')
      BY DEF LoneUpdate
    <2>0. \A p \in Requests \ {r} :
            /\ pc'[p] = pc[p]
            /\ pc[p] = "update" => job'[p].target = job[p].target
      BY <1>2, StepFrame
    <2>1. CASE q = r
      <3>1. Updating(t.user) = {} /\ UNCHANGED userVars
        BY <1>2, <2>1, UpdateRead, OnlyEndsChange
      <3>2. \A p \in Requests :
              pc'[p] = "update" /\ job'[p].target.user = t.user => p = q
        BY <2>0, <2>1, <3>1 DEF Updating
      <3> QED
        BY <1>2, <2>1, <3>1, <3>2, UpdateRead DEF userVars
    <2>2. CASE q # r
      <3>1. pc[q] = "update" /\ t = job[q].target /\ t.user \in there
        BY <1>2, <2>0, <2>2, NextOnlyEndsRows DEF RowsOnlyEnd
      <3>2. q \in Updating(t.user)
        BY <3>1 DEF Updating
      <3>3. t.user \notin raced
        <4>1. CASE pc[r] = "update" /\ job[r].target.user = t.user
          <5>1. Updating(t.user) # {r}
            BY <2>2, <3>2
          <5>2. t.user \in raced => t.user \in raced'
            BY <1>2, <4>1, <5>1
            DEF Step, Begin, LoadUser, Logout, CreateToken, BeginRevoke, DeleteToken,
                BeginUpdate, Update, Acknowledge, BeginDelete, DeleteUser, Proxy, Proxied,
                Refuse, history
          <5> QED
            BY <5>2
        <4>2. CASE ~(pc[r] = "update" /\ job[r].target.user = t.user)
          BY <1>2, <4>2, RowStays
        <4> QED
          BY <4>1, <4>2
      <3>4. ~(pc[r] = "update" /\ job[r].target.user = t.user)
        BY <2>2, <3>1, <3>3 DEF LoneUpdate
      <3>5. ~(pc'[r] = "update" /\ job'[r].target.user = t.user)
        BY <1>2, <3>2, UpdateRead
      <3>6. \A p \in Requests :
              pc'[p] = "update" /\ job'[p].target.user = t.user => p = q
        BY <2>0, <3>1, <3>3, <3>5 DEF LoneUpdate
      <3> QED
        BY <1>2, <3>1, <3>3, <3>4, <3>6, RowStays DEF LoneUpdate
    <2> QED
      BY <2>1, <2>2
  <1> QED
    BY <1>1, <1>2 DEF Next, vars, IssueSession, SessionExpires, history

\* A promise is kept by the row when both of its fields are.
LEMMA KeptByFields ==
  ASSUME TypeOK, NEW u \in Users
  PROVE  promised[u] = Row(u) <=>
           (promised[u].admin <=> u \in admin) /\ promised[u].password = password[u]
  <1>1. promised[u] \in [admin : BOOLEAN, password : Nat]
    BY DEF TypeOK
  <1> QED
    BY <1>1 DEF Row

LEMMA AcknowledgedStep == UpdateInv /\ [Next]_vars => AcknowledgedUpdate'
  <1> SUFFICES ASSUME TypeOK, TypeOK', LoneUpdate, AcknowledgedUpdate, [Next]_vars
               PROVE  AcknowledgedUpdate'
    BY InvStep DEF UpdateInv, EntitledInv
  <1> SUFFICES ASSUME NEW u \in there', u \notin raced'
               PROVE  /\ promised'[u].admin <=> u \in admin'
                      /\ promised'[u].password = password'[u]
    <2>1. ASSUME NEW w \in Users
          PROVE  promised'[w] = Row(w)' <=>
                   (promised'[w].admin <=> w \in admin') /\ promised'[w].password = password'[w]
      <3>1. promised'[w] \in [admin : BOOLEAN, password : Nat]
        BY DEF TypeOK
      <3> QED
        BY <3>1 DEF Row
    <2> QED
      BY <2>1 DEF AcknowledgedUpdate, TypeOK
  <1>0. /\ u \in there /\ u \in Users
        /\ u \notin raced => (promised[u].admin <=> u \in admin)
        /\ u \notin raced => promised[u].password = password[u]
    <2>1. u \in there /\ u \in Users
      BY NextOnlyEndsRows DEF RowsOnlyEnd, TypeOK
    <2> QED
      BY <2>1, KeptByFields DEF AcknowledgedUpdate
  <1>1. CASE UNCHANGED <<userVars, promised, raced>>
    BY <1>0, <1>1 DEF userVars
  <1>2. ASSUME NEW r \in Requests, Step(r)
        PROVE  /\ promised'[u].admin <=> u \in admin'
               /\ promised'[u].password = password'[u]
    <2>1. CASE ~(pc[r] = "update" /\ job[r].target.user = u)
      BY <1>0, <1>2, <2>1, RowStays
    <2>2. CASE pc[r] = "update" /\ job[r].target.user = u /\ Update(r)
      <3> DEFINE t == job[r].target
      <3>0. t \in Changes /\ t.user = u
        BY <2>2 DEF TypeOK, Carries, Jobs
      <3> HIDE DEF t
      <3>1. Write(u, t.row) /\ Acknowledge(r, t)
        BY <2>2, <3>0 DEF Update, t
      <3>2. /\ password'[u] = t.row.password
            /\ u \in admin' <=> t.row.admin
        BY <1>0, <3>1 DEF Write, TypeOK
      <3>3. promised'[u] =
              IF u \in raced THEN [admin |-> u \in admin', password |-> password'[u]]
              ELSE IF t.asks = "admin" THEN [promised[u] EXCEPT !.admin = t.row.admin]
              ELSE [promised[u] EXCEPT !.password = t.row.password]
        BY <1>0, <3>0, <3>1 DEF Acknowledge, TypeOK
      <3>4. CASE u \in raced
        <4>1. promised'[u] = [admin |-> u \in admin', password |-> password'[u]]
          BY <3>3, <3>4
        <4>2. promised'[u].admin = (u \in admin')
          BY <4>1
        <4>3. promised'[u].password = password'[u]
          BY <4>1
        <4> QED
          BY <4>2, <4>3
      <3>5. CASE u \notin raced
        <4>1. /\ t.asks = "admin" => t.row.password = password[u]
              /\ t.asks = "password" => (t.row.admin <=> u \in admin)
          BY <1>0, <2>2, <3>0, <3>5 DEF LoneUpdate, t
        <4>2. promised[u] \in [admin : BOOLEAN, password : Nat] /\ t.row.admin \in BOOLEAN
              /\ t.asks \in {"admin", "password"}
          BY <1>0, <3>0 DEF TypeOK, Changes
        <4> QED
          BY <1>0, <3>2, <3>3, <3>5, <4>1, <4>2
      <3> QED
        BY <3>4, <3>5
    <2>3. CASE UNCHANGED <<userVars, promised, raced>>
      BY <1>0, <2>3 DEF userVars
    <2> QED
      BY <1>2, <2>1, <2>2, <2>3
      DEF Step, Begin, LoadUser, Logout, CreateToken, BeginRevoke, DeleteToken, BeginUpdate,
          BeginDelete, DeleteUser, Proxy, Proxied, Refuse, history
  <1> QED
    BY <1>1, <1>2 DEF Next, vars, IssueSession, SessionExpires, history

\* An acknowledged change of a user's flag or password is in the row, until it
\* is changed again or updates of that user overlap.
THEOREM AcknowledgedUpdateHolds == Spec => []AcknowledgedUpdate
  <1>1. Init => UpdateInv
    <2> SUFFICES ASSUME Init PROVE UpdateInv
      OBVIOUS
    <2>1. EntitledInv
      BY InvInit
    <2>2. LoneUpdate
      BY DEF Init, LoneUpdate
    <2>3. AcknowledgedUpdate
      <3> SUFFICES ASSUME NEW u \in Users PROVE promised[u] = Row(u)
        BY DEF Init, AcknowledgedUpdate
      <3>1. promised[u] = [admin |-> u = Root, password |-> 0]
        BY DEF Init
      <3>2. promised[u].password = 0
        BY <3>1
      <3>3. promised[u].admin = (u = Root)
        BY <3>1
      <3> QED
        BY <3>2, <3>3, KeptByFields, TypeInit DEF Init
    <2> QED
      BY <2>1, <2>2, <2>3 DEF UpdateInv
  <1>2. UpdateInv /\ [Next]_vars => UpdateInv'
    BY InvStep, LoneUpdateStep, AcknowledgedStep DEF UpdateInv
  <1>3. UpdateInv => AcknowledgedUpdate
    BY DEF UpdateInv
  <1> QED
    BY <1>1, <1>2, <1>3, PTL DEF Spec
=============================================================================
