----------------------------- MODULE CommandLine -----------------------------
(***************************************************************************)
(* The command line client's sign-in: the profile file that every          *)
(* invocation reads when it starts and login, logout and setup write back  *)
(* as a whole, and the sessions the servers keep for it.  Invocations run  *)
(* side by side; writing the file truncates it first, so two that write    *)
(* together may leave the end of one profile behind the other.  All other  *)
(* commands read the profile, send one request and print: they change      *)
(* nothing here.                                                           *)
(***************************************************************************)
EXTENDS Naturals

CONSTANTS
  Commands,     \* invocations that run side by side
  Endpoints,    \* servers: values of --api and HELLING_API
  MaxSessions,  \* bound: sessions ever issued
  MaxRuns,      \* bound: invocations in all
  MaxCuts,      \* bound: invocations killed, or whose save fails
  None,         \* no endpoint, no profile
  Torn          \* a file that two writers left unreadable

ASSUME ClientAssumption ==
  /\ MaxSessions \in Nat /\ MaxRuns \in Nat /\ MaxCuts \in Nat
  /\ None \notin Endpoints /\ None # Torn
  /\ {None, Torn} \cap [api : Endpoints \cup {None}, cookie : Nat, access : Nat,
                        token : BOOLEAN] = {}

VARIABLES
  profile,   \* the file as it is read: None is missing or empty
  behind,    \* profiles written since it was last emptied, whose bytes it may hold
  stage, op, \* an invocation's next step and its command
  base,      \* the profile it read
  held,      \* the profile it has in memory
  live,      \* sessions the servers hold
  issuer,    \* the server a session is of
  abandoned, \* history: live sessions given up by a step that says so
  left,      \* history: sessions a logout has cleared from the profile
  runs, cuts, overlap, rebased, tokened  \* history, see the properties

server == <<live, issuer>>
clientHistory == <<abandoned, left, runs, cuts, overlap, rebased, tokened>>
clientVars == <<profile, behind, stage, op, base, held, server, clientHistory>>

Sessions == 1..MaxSessions
Profiles == [api : Endpoints \cup {None}, cookie : 0..MaxSessions,
             access : 0..MaxSessions, token : BOOLEAN]
Blank == [api |-> None, cookie |-> 0, access |-> 0, token |-> FALSE]
Issued == {n \in Sessions : issuer[n] # None}

ClientInit ==
  /\ profile = None /\ behind = {}
  /\ stage = [c \in Commands |-> "idle"] /\ op = [c \in Commands |-> "none"]
  /\ base = [c \in Commands |-> Blank] /\ held = [c \in Commands |-> Blank]
  /\ live = {} /\ issuer = [n \in Sessions |-> None]
  /\ abandoned = {} /\ left = {} /\ runs = 0 /\ cuts = 0
  /\ overlap = FALSE /\ rebased = FALSE /\ tokened = FALSE

-----------------------------------------------------------------------------
(* The profile.                                                            *)
Stored == IF profile = None THEN Blank ELSE profile

\* HELLING_API and HELLING_TOKEN, where set, win over the file.
applyEnv(p) ==
  {[p EXCEPT !.api = IF e[1] = None THEN @ ELSE e[1], !.token = @ \/ e[2]] :
     e \in (Endpoints \cup {None}) \X BOOLEAN}

\* A profile that does not parse is an error.
Load == IF profile = Torn THEN {} ELSE applyEnv(Stored)

Exit(c) ==
  /\ stage' = [stage EXCEPT ![c] = "idle"] /\ op' = [op EXCEPT ![c] = "none"]
  /\ base' = [base EXCEPT ![c] = Blank] /\ held' = [held EXCEPT ![c] = Blank]

Proceed(c, next) == stage' = [stage EXCEPT ![c] = next]

Invoke(c, name, first) ==
  /\ stage[c] = "idle" /\ Proceed(c, first)
  /\ op' = [op EXCEPT ![c] = name]
  /\ runs < MaxRuns /\ runs' = runs + 1

GiveUp(p) == abandoned' = abandoned \cup ({p.cookie} \cap live)

-----------------------------------------------------------------------------
(* login                                                                   *)

\* Faulty variant: a login that has no endpoint goes on.
TargetAny == Endpoints \cup {p.api : p \in Load}

\* --api, or the profile's; an unreadable profile has none.
Target == Endpoints \cup ({p.api : p \in Load} \ {None})

\* The prompts take the user's time; the profile is read again after them.
LoginCommand(c) ==
  /\ Invoke(c, "login", "prompt")
  /\ \E a \in Target : held' = [held EXCEPT ![c] = [Blank EXCEPT !.api = a]]
  /\ UNCHANGED <<profile, behind, base, server, abandoned, left, cuts, overlap, rebased, tokened>>

\* Faulty variant: the profile keeps the endpoint it had.
ReloadElsewhere(c, p) == p

Reload(c, p) == [p EXCEPT !.api = held[c].api]

LoginLoad(c) ==
  /\ stage[c] = "prompt"
  /\ \/ /\ profile = Torn /\ Exit(c)
     \/ \E p \in Load :
          /\ held' = [held EXCEPT ![c] = Reload(c, p)]
          /\ base' = [base EXCEPT ![c] = Stored]
          /\ Proceed(c, "login") /\ UNCHANGED op
  /\ UNCHANGED <<profile, behind, server, clientHistory>>

\* Faulty variants: only the access token is taken over; what is saved is the
\* fresh profile the request was made with.
SignedInByToken(p, n) == [p EXCEPT !.access = n]
SignedInAfresh(p, n) == [Blank EXCEPT !.api = p.api, !.access = n, !.cookie = n]

SignedIn(p, n) == [p EXCEPT !.access = n, !.cookie = n]

NextSession == CHOOSE n \in Sessions \ Issued : TRUE

\* performLogin with a client of its own, so that nothing stored is sent: the
\* server issues a session, and the answer arrives or is lost.
ObtainSession(c) ==
  /\ Sessions # Issued
  /\ live' = live \cup {NextSession}
  /\ issuer' = [issuer EXCEPT ![NextSession] = held[c].api]
  /\ \/ /\ held' = [held EXCEPT ![c] = SignedIn(@, NextSession)]
        /\ Proceed(c, "save") /\ UNCHANGED <<op, base, abandoned>>
     \/ Exit(c) /\ abandoned' = abandoned \cup {NextSession}

\* Refused, or a second factor is asked for.  What is answered there goes out
\* as totp_code: a recovery code is one of the refusals.
performLogin(c) ==
  /\ stage[c] \in {"login", "factor"}
  /\ \/ ObtainSession(c)
     \/ /\ stage[c] = "login" /\ Proceed(c, "factor")
        /\ UNCHANGED <<op, base, held, live, issuer, abandoned>>
     \/ Exit(c) /\ UNCHANGED <<live, issuer, abandoned>>
  /\ UNCHANGED <<profile, behind, left, runs, cuts, overlap, rebased, tokened>>

-----------------------------------------------------------------------------
(* logout                                                                  *)

\* Without an endpoint: "Already logged out."
Logout(c) ==
  /\ Invoke(c, "logout", "logout")
  /\ \E p \in Load : p.api # None /\ held' = [held EXCEPT ![c] = p]
  /\ base' = [base EXCEPT ![c] = Stored]
  /\ UNCHANGED <<profile, behind, server, abandoned, left, cuts, overlap, rebased, tokened>>

\* What a client made from a profile sends, and where.
New(p) == [to |-> p.api, cookie |-> p.cookie]

\* The server ends the session whose cookie reaches it.
Accepted(r) == r.cookie \in live /\ issuer[r.cookie] = r.to

\* Faulty variant: the access token is cleared, the cookie is not.
ClearedToken(p) == [p EXCEPT !.access = 0]

Cleared(p) == [p EXCEPT !.access = 0, !.cookie = 0]

\* A refusal or a silent server is a warning; the credentials go all the same.
LogoutRequest(c) ==
  /\ stage[c] = "logout"
  /\ \/ /\ Accepted(New(held[c])) /\ live' = live \ {held[c].cookie}
        /\ abandoned' = abandoned \ {held[c].cookie}
     \/ GiveUp(held[c]) /\ UNCHANGED live
  /\ held' = [held EXCEPT ![c] = Cleared(@)] /\ Proceed(c, "save")
  /\ UNCHANGED <<profile, behind, op, base, issuer, left, runs, cuts, overlap, rebased, tokened>>

-----------------------------------------------------------------------------
(* setup                                                                   *)

\* The profile is loaded, given the endpoint, and the request made with what
\* it holds; only the endpoint is new in what is saved.
Setup(c) ==
  /\ Invoke(c, "setup", "setup")
  /\ \E p \in Load, a \in Target :
       /\ held' = [held EXCEPT ![c] = [p EXCEPT !.api = a]]
       /\ base' = [base EXCEPT ![c] = Stored]
       /\ rebased' = (rebased \/ (p.cookie # 0 /\ Stored.api # a))
  /\ UNCHANGED <<profile, behind, server, abandoned, left, cuts, overlap, tokened>>

\* The first administrator is created, or there is one already.
SetupRequest(c) ==
  /\ stage[c] = "setup"
  /\ \/ Proceed(c, "save") /\ UNCHANGED <<op, base, held>>
     \/ Exit(c)
  /\ UNCHANGED <<profile, behind, server, clientHistory>>

-----------------------------------------------------------------------------
(* Save: os.WriteFile truncates, then writes.                               *)

\* What a login gives up is the session its profile had.  History: the file
\* is no longer what the invocation read, or another is about to write it.
Truncate(c) ==
  /\ stage[c] = "save"
  /\ profile' = None /\ behind' = {} /\ Proceed(c, "write")
  /\ overlap' = (overlap \/ Stored # base[c] \/ \E d \in Commands : stage[d] = "write")
  /\ IF op[c] = "login" THEN GiveUp(base[c]) ELSE UNCHANGED abandoned
  /\ UNCHANGED <<op, base, held, server, left, runs, cuts, rebased, tokened>>

\* What can be read of the end of a longer file: the last n of the lines that
\* follow the endpoint, a line to a field, or the line access_token cut before
\* its last word, which makes it a token.  Other words are ignored.
Rests(p) ==
  {[cookie |-> IF n > 2 THEN p.cookie ELSE 0, access |-> IF n > 1 THEN p.access ELSE 0,
    token |-> p.token] : n \in 1..3}
  \cup {[cookie |-> 0, access |-> 0, token |-> p.token \/ p.access # 0]}

\* No field is there twice, which would not parse.
Parses(p, rest) ==
  /\ p.cookie = 0 \/ rest.cookie = 0
  /\ p.access = 0 \/ rest.access = 0
  /\ ~(p.token /\ rest.token)

\* What is read then: the rest's fields beside those of the shorter profile.
Beside(p, rest) ==
  [p EXCEPT !.cookie = IF @ = 0 THEN rest.cookie ELSE @,
            !.access = IF @ = 0 THEN rest.access ELSE @,
            !.token = @ \/ rest.token]

\* A writer that was overtaken puts its bytes over the other's.  The rest of
\* these, if they were longer, makes the file unreadable, or is read with it
\* from a whole line on.
Write(c) ==
  /\ stage[c] = "write"
  /\ \/ profile' = held[c] /\ UNCHANGED rebased
     \/ profile # None /\ profile' = Torn /\ UNCHANGED rebased
     \/ /\ profile # None
        /\ \E p \in behind : \E rest \in Rests(p) :
             /\ Parses(held[c], rest)
             /\ profile' = Beside(held[c], rest)
             /\ rebased' = (rebased \/ (profile'.cookie # held[c].cookie /\ p.api # held[c].api))
  /\ behind' = behind \cup ({held[c], profile'} \ {Torn})
  /\ overlap' = (overlap \/ profile # None)
  /\ left' = IF op[c] = "logout" THEN left \cup {base[c].cookie} ELSE left
  /\ tokened' = (tokened \/ held[c].token)
  /\ Exit(c)
  /\ UNCHANGED <<server, abandoned, runs, cuts>>

\* Killed, or the save fails: a session it was given is in no file.
Cut(c) ==
  /\ stage[c] # "idle" /\ cuts < MaxCuts /\ cuts' = cuts + 1
  /\ IF stage[c] \in {"save", "write"} THEN GiveUp(held[c]) ELSE UNCHANGED abandoned
  /\ tokened' = (tokened /\ stage[c] # "write")
  /\ Exit(c)
  /\ UNCHANGED <<profile, behind, server, left, runs, overlap, rebased>>

\* A session's time is over, or the server dropped it.
Expire ==
  /\ \E n \in live : live' = live \ {n} /\ abandoned' = abandoned \ {n}
  /\ UNCHANGED <<profile, behind, stage, op, base, held, issuer, left, runs, cuts, overlap, rebased, tokened>>

ClientNext ==
  \/ \E c \in Commands :
       \/ LoginCommand(c) \/ LoginLoad(c) \/ performLogin(c)
       \/ Logout(c) \/ LogoutRequest(c)
       \/ Setup(c) \/ SetupRequest(c)
       \/ Truncate(c) \/ Write(c) \/ Cut(c)
  \/ Expire

ClientSpec == ClientInit /\ [][ClientNext]_clientVars

-----------------------------------------------------------------------------
Whole == profile \notin {None, Torn}

\* Types; a profile that was written names an endpoint.
ClientTypeOK ==
  /\ Whole => profile \in Profiles /\ profile.api # None
  /\ behind \subseteq Profiles
  /\ stage \in [Commands -> {"idle", "prompt", "login", "factor", "logout", "setup",
                          "save", "write"}]
  /\ \A c \in Commands : op[c] = "none" <=> stage[c] = "idle"
  /\ base \in [Commands -> Profiles] /\ held \in [Commands -> Profiles]
  /\ live \subseteq Issued /\ abandoned \subseteq live

(* A cookie in the profile comes with the access token of the same login,   *)
(* also when the file was left by two writers or by invocations that were   *)
(* killed.  The login was to the endpoint the profile names, unless one was *)
(* put before the session of another: by a setup of another server, or by   *)
(* a save over the longer profile of an invocation for another server.      *)
ProfileOfOneLogin ==
  Whole /\ profile.cookie # 0 =>
    /\ profile.access = profile.cookie
    /\ rebased \/ issuer[profile.cookie] = profile.api

Keeps(c, n) == stage[c] \in {"save", "write"} /\ held[c].cookie = n

(* No session is forgotten: the user can end it by a logout, or was told,   *)
(* by a failed login or a warned logout, or replaced it.  Overlapping       *)
(* invocations lose sessions without a word.                               *)
SessionsAccounted ==
  ~overlap =>
    \A n \in live \ abandoned :
      Stored.cookie = n \/ \E c \in Commands : Keeps(c, n)

(* A session a logout cleared does not come back into the profile, unless   *)
(* an invocation that read it before writes after the logout.              *)
LeftStaysLeft ==
  ~overlap /\ Whole => {profile.cookie, profile.access} \cap (left \ {0}) = {}

(* The operator's API token stays in the profile through every login,       *)
(* logout and setup that runs alone.                                       *)
TokenKept ==
  tokened /\ ~overlap /\ Whole => profile.token

(* What the profile holds is of one login and of one server, and what the   *)
(* operator put there stays.                                                *)
ProfileSound == ClientTypeOK /\ ProfileOfOneLogin /\ TokenKept

(* Sessions are neither forgotten nor brought back.                         *)
SessionsFollowed == SessionsAccounted /\ LeftStaysLeft
=============================================================================
