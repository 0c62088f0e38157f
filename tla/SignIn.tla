------------------------------- MODULE SignIn -------------------------------
(***************************************************************************)
(* Signing in to hellingd: the password with its two rate limiters, the    *)
(* challenge and its answer by authenticator or recovery code, and the     *)
(* enrolment of the second factor.  One account; every store call of a     *)
(* handler is a step of its own, so requests interleave between them.      *)
(* Sessions, once issued, are AccessControl's.                             *)
(***************************************************************************)
EXTENDS Naturals, FiniteSets

CONSTANTS
  Requests,
  Account,        \* the name of the one account there is
  Names,          \* user names that are tried, Account among them
  Sources,        \* addresses the attempts come from
  NameLimit,      \* failures the user limiter admits in its window
  SourceLimit,    \* the same for the address limiter
  TableSize,      \* keys a limiter keeps (maxRateLimiterKeys)
  CodeCount,      \* recovery codes of an enrolment
  MaxSetups,      \* bound: secrets ever generated
  MaxChallenges,  \* bound: challenges ever created
  Faults          \* of "crash" (the daemon restarts), "db" (a store call fails)

ASSUME SignInAssumption ==
  /\ Account \in Names
  /\ Names \cap Sources = {}
  /\ {NameLimit, SourceLimit, TableSize, CodeCount} \subseteq Nat \ {0}
  /\ {MaxSetups, MaxChallenges} \subseteq Nat
  /\ Faults \subseteq {"crash", "db"}
  /\ IsFiniteSet(Requests)

VARIABLES
  failures,    \* the limiters: failures of a key inside the window
  refused,     \* history: wrong passwords of a name that were tested and found
               \* no place in its full window, since a failure last left it
  alive,       \* the users row exists
  secret,      \* totp_secrets: the account's secret, 0 for no row
  enabled,     \* its enabled column
  codes,       \* totp_recovery_codes: a code's row
  challenges,  \* mfaTokens: the challenges that can be answered
  pc,          \* a request's next step
  job,         \* what it has read so far
  generated,   \* history: secrets generated
  minted,      \* history: challenges created
  shown,       \* history: secrets handed to the user with all their codes
  confirmed,   \* history: secrets a code was validated for
  spent,       \* history: completions a recovery code let pass
  verdicts,    \* history: verdicts on a challenge
  promised,    \* history: enabling was acknowledged, no removal begun since
  raced,       \* history: two enrolment requests overlapped
  leftover     \* history: a removal of the codes did not happen

limiterVars == <<failures, refused>>
rowVars == <<alive, secret, enabled, codes>>
enrolmentHistory ==
  <<generated, shown, confirmed, spent, promised, leftover>>
history == <<enrolmentHistory, raced>>
mfaVars == <<challenges, minted, verdicts>>
vars == <<limiterVars, rowVars, mfaVars, history, pc, job>>

Secrets == 1..MaxSetups
Codes == Secrets \X (1..CodeCount)
Challenges == 1..MaxChallenges

NoJob == [op |-> "none"]

Init ==
  /\ failures = [k \in Names \cup Sources |-> 0]
  /\ refused = [n \in Names |-> 0]
  /\ alive = TRUE /\ secret = 0 /\ enabled = FALSE
  /\ codes = [c \in Codes |-> "none"]
  /\ challenges = {} /\ minted = 0 /\ verdicts = [c \in Challenges |-> 0]
  /\ pc = [r \in Requests |-> "idle"]
  /\ job = [r \in Requests |-> NoJob]
  /\ generated = 0 /\ shown = {} /\ confirmed = {}
  /\ spent = [c \in Codes |-> 0]
  /\ promised = FALSE /\ raced = FALSE /\ leftover = FALSE

-----------------------------------------------------------------------------
Goto(r, next) == pc' = [pc EXCEPT ![r] = next] /\ UNCHANGED job
End(r) ==
  /\ pc' = [pc EXCEPT ![r] = "idle"]
  /\ job' = [job EXCEPT ![r] = NoJob]

Enrolments == {"store", "codes", "enable", "dropCodes"}
Enrolling == \E r \in Requests : pc[r] \in Enrolments

Begin(r, j, first) ==
  /\ pc[r] = "idle"
  /\ pc' = [pc EXCEPT ![r] = first]
  /\ job' = [job EXCEPT ![r] = j]
  /\ raced' = (raced \/ (first \in Enrolments /\ Enrolling))

\* History: no login under way from here can tell that the factor was on
\* all the time.
SwitchedOff ==
  job' = [r \in Requests |->
            IF job[r].op = "login" THEN [job[r] EXCEPT !.off = TRUE] ELSE job[r]]

-----------------------------------------------------------------------------
(* The limiters: sliding windows of failures, in memory.                   *)
LimitOf(k) == IF k \in Names THEN NameLimit ELSE SourceLimit
Table(k) == IF k \in Names THEN Names ELSE Sources

\* Faulty variant: a window one failure past its limit is still admitted.
HitLimitLate(k) == failures[k] > LimitOf(k)

HitLimit(k) == failures[k] >= LimitOf(k)

\* A key without live failures needs a free place once the rest is collected.
Room(k) ==
  failures[k] > 0 \/
  Cardinality({l \in Table(k) : failures[l] > 0}) < TableSize

Allow(k) == Room(k) /\ ~HitLimit(k)

\* Faulty variant: a window ends that holds no failure.
WindowPassesUnchecked(k) ==
  /\ failures' = [failures EXCEPT ![k] = @ - 1]
  /\ UNCHANGED <<refused, rowVars, mfaVars, history, pc, job>>

\* The oldest failure of a key leaves the window.
WindowPasses(k) ==
  /\ failures[k] > 0
  /\ failures' = [failures EXCEPT ![k] = @ - 1]
  /\ refused' = [n \in Names |-> IF n = k THEN 0 ELSE refused[n]]
  /\ UNCHANGED <<rowVars, mfaVars, history, pc, job>>

-----------------------------------------------------------------------------
(* handleLogin                                                             *)

\* A limited attempt is answered at once and changes nothing.
Login(r) ==
  /\ \E n \in Names, s \in Sources, right \in BOOLEAN :
       /\ right => n = Account
       /\ ~HitLimit(n) /\ ~HitLimit(s)
       /\ Begin(r, [op |-> "login", name |-> n, source |-> s,
                 right |-> right, off |-> ~enabled], "account")
  /\ UNCHANGED <<limiterVars, rowVars, mfaVars, enrolmentHistory>>

\* Only one name is an account's, and only while it is not deleted.
GetUserByUsername(n) == n = Account /\ alive

\* The hash of the guess, made with the stored hash's salt and costs, is it.
Verify(r) == job[r].right

CheckPassword(r) ==
  /\ pc[r] = "account"
  /\ IF GetUserByUsername(job[r].name) /\ Verify(r)
     THEN Goto(r, "factor") ELSE Goto(r, "chargeName")
  /\ UNCHANGED <<limiterVars, rowVars, mfaVars, history>>

\* A name at its limit is not charged to the address as well.  One that finds
\* the table full is not counted at all.
ChargeName(r) ==
  /\ pc[r] = "chargeName"
  /\ LET n == job[r].name IN
       IF Allow(n)
       THEN /\ failures' = [failures EXCEPT ![n] = @ + 1]
            /\ Goto(r, "chargeSource") /\ UNCHANGED refused
       ELSE /\ refused' = IF HitLimit(n) THEN [refused EXCEPT ![n] = @ + 1]
                          ELSE refused
            /\ End(r) /\ UNCHANGED failures
  /\ UNCHANGED <<rowVars, mfaVars, history>>

ChargeSource(r) ==
  /\ pc[r] = "chargeSource"
  /\ failures' = IF Allow(job[r].source)
                 THEN [failures EXCEPT ![job[r].source] = @ + 1]
                 ELSE failures
  /\ End(r)
  /\ UNCHANGED <<refused, rowVars, mfaVars, history>>

\* GetTOTPSecret: whether there is a row and its owner has verified it.
Enrolled == secret # 0 /\ enabled

\* Faulty variant: a lookup that fails counts as not enrolled.
ReadFactorLenient(r) ==
  /\ pc[r] = "factor"
  /\ \E known \in {TRUE, "db" \notin Faults} :
       Goto(r, IF known /\ Enrolled THEN "challenge" ELSE "reset")
  /\ UNCHANGED <<limiterVars, rowVars, mfaVars, history>>

\* No row, or one not enabled yet, asks for no challenge.
ReadFactor(r) ==
  /\ pc[r] = "factor"
  /\ Goto(r, IF Enrolled THEN "challenge" ELSE "reset")
  /\ UNCHANGED <<limiterVars, rowVars, mfaVars, history>>

StoreChallenge(r) ==
  /\ pc[r] = "challenge"
  /\ minted < MaxChallenges
  /\ minted' = minted + 1
  /\ challenges' = challenges \cup {minted'}
  /\ End(r)
  /\ UNCHANGED <<limiterVars, rowVars, verdicts, history>>

\* Only a login without a challenge forgives the failures before it.
ResetLimiters(r) ==
  /\ pc[r] = "reset"
  /\ failures' = [failures EXCEPT ![job[r].name] = 0, ![job[r].source] = 0]
  /\ refused' = [refused EXCEPT ![job[r].name] = 0]
  /\ Goto(r, "issue")
  /\ UNCHANGED <<rowVars, mfaVars, history>>

\* CreateSession: refused by the foreign key once the account is deleted.
IssueSession(r) ==
  /\ pc[r] = "issue"
  /\ End(r)
  /\ UNCHANGED <<limiterVars, rowVars, mfaVars, history>>

-----------------------------------------------------------------------------
(* handleMFAComplete                                                       *)

\* An answer is a code of the authenticator that holds a secret, a recovery
\* code from a list the user was given, or neither.
Answers == [kind : {"totp"}, of : shown] \cup [kind : {"recovery"},
            of : shown \X (1..CodeCount)] \cup [kind : {"wrong"}, of : {0}]

\* ValidateTOTP: six digits computed from the same secret, in this period or
\* one next to it.
ValidateTOTP(s, a) == a.kind = "totp" /\ a.of = s

\* getMFAChallenge.
Complete(r) ==
  /\ \E c \in challenges, a \in Answers :
       Begin(r, [op |-> "complete", challenge |-> c, answer |-> a], "challenged")
  /\ UNCHANGED <<limiterVars, rowVars, mfaVars, enrolmentHistory>>

\* The verdict, and deleteMFAChallenge with it, which finds nothing when
\* another completion of the challenge had its verdict first.
Answer(r, passed) ==
  /\ challenges' = challenges \ {job[r].challenge}
  /\ verdicts' = [verdicts EXCEPT ![job[r].challenge] = @ + 1]
  /\ IF passed
     THEN /\ pc' = [pc EXCEPT ![r] = "issue"]
          /\ job' = [job EXCEPT ![r] = [op |-> "passed"]]
     ELSE End(r)
  /\ UNCHANGED minted

\* GetUserByID.
LoadChallenged(r) ==
  /\ pc[r] = "challenged"
  /\ IF alive THEN Goto(r, "second") /\ UNCHANGED mfaVars ELSE Answer(r, FALSE)
  /\ UNCHANGED <<limiterVars, rowVars, history>>

\* Faulty variant: a wrong code leaves the challenge to be tried again.
CheckSecondKeeping(r) ==
  /\ pc[r] = "second"
  /\ LET a == job[r].answer IN
     CASE Enrolled /\ ValidateTOTP(secret, a) -> Answer(r, TRUE)
       [] Enrolled /\ a.kind = "recovery" ->
            Goto(r, "list") /\ UNCHANGED mfaVars
       [] OTHER -> /\ verdicts' = [verdicts EXCEPT ![job[r].challenge] = @ + 1]
                   /\ End(r) /\ UNCHANGED <<challenges, minted>>
  /\ UNCHANGED <<limiterVars, rowVars, history>>

\* GetTOTPSecret and ValidateTOTP.
CheckSecond(r) ==
  /\ pc[r] = "second"
  /\ LET a == job[r].answer IN
     CASE Enrolled /\ ValidateTOTP(secret, a) -> Answer(r, TRUE)
       [] Enrolled /\ a.kind = "recovery" ->
            Goto(r, "list") /\ UNCHANGED mfaVars
       [] OTHER -> Answer(r, FALSE)
  /\ UNCHANGED <<limiterVars, rowVars, history>>

\* ConsumeRecoveryCode: the unused codes are listed ...
ListCodes(r) ==
  /\ pc[r] = "list"
  /\ IF codes[job[r].answer.of] = "unused"
     THEN Goto(r, "consume") /\ UNCHANGED mfaVars
     ELSE Answer(r, FALSE)
  /\ UNCHANGED <<limiterVars, rowVars, history>>

\* Faulty variant: the row is marked whatever its state.
ConsumeCodeUnguarded(r) ==
  /\ pc[r] = "consume"
  /\ LET c == job[r].answer.of IN
       /\ codes' = [codes EXCEPT ![c] = "used"]
       /\ spent' = [spent EXCEPT ![c] = @ + 1]
  /\ Answer(r, TRUE)
  /\ UNCHANGED <<limiterVars, alive, secret, enabled, generated, shown,
                 confirmed, promised, raced, leftover>>

\* ... and the one that matched is marked, if it is still unused then.
ConsumeCode(r) ==
  /\ pc[r] = "consume"
  /\ LET c == job[r].answer.of
         unused == codes[c] = "unused" IN
       /\ codes' = IF unused THEN [codes EXCEPT ![c] = "used"] ELSE codes
       /\ spent' = IF unused THEN [spent EXCEPT ![c] = @ + 1] ELSE spent
       /\ Answer(r, unused)
  /\ UNCHANGED <<limiterVars, alive, secret, enabled, generated, shown,
                 confirmed, promised, raced, leftover>>

\* Five minutes pass: getMFAChallenge and storeMFAChallenge drop it.
ExpireChallenge(c) ==
  /\ c \in challenges
  /\ challenges' = challenges \ {c}
  /\ UNCHANGED <<limiterVars, rowVars, minted, verdicts, history, pc, job>>

-----------------------------------------------------------------------------
(* Enrolment: handleTOTPSetup, handleTOTPVerify, handleTOTPDelete.         *)

\* A row, enabled or not, refuses the set-up; the secret is generated here.
BeginSetup(r) ==
  /\ alive /\ secret = 0 /\ generated < MaxSetups
  /\ generated' = generated + 1
  /\ Begin(r, [op |-> "setup", secret |-> generated', n |-> 1], "store")
  /\ UNCHANGED <<limiterVars, rowVars, mfaVars, shown, confirmed, spent,
                 promised, leftover>>

\* SetTOTPSecret, an upsert; the foreign key wants the account.
StoreSecret(r) ==
  /\ pc[r] = "store" /\ alive
  /\ secret' = job[r].secret /\ enabled' = FALSE
  /\ pc' = [pc EXCEPT ![r] = "codes"]
  /\ SwitchedOff
  /\ UNCHANGED <<limiterVars, alive, codes, mfaVars, enrolmentHistory, raced>>

\* SaveRecoveryCodes, an insert at a time; the last one ends the set-up.
SaveCode(r) ==
  /\ pc[r] = "codes" /\ alive
  /\ LET j == job[r] IN
       /\ codes' = [codes EXCEPT ![<<j.secret, j.n>>] = "unused"]
       /\ IF j.n < CodeCount
          THEN /\ job' = [job EXCEPT ![r].n = @ + 1]
               /\ UNCHANGED <<pc, shown>>
          ELSE End(r) /\ shown' = shown \cup {j.secret}
  /\ UNCHANGED <<limiterVars, alive, secret, enabled, mfaVars, generated,
                 confirmed, spent, promised, raced, leftover>>

\* GetTOTPSecret and ValidateTOTP; only who was shown the secret has a code.
BeginVerify(r) ==
  /\ alive /\ secret \in shown
  /\ confirmed' = confirmed \cup {secret}
  /\ Begin(r, [op |-> "verify", secret |-> secret], "enable")
  /\ UNCHANGED <<limiterVars, rowVars, mfaVars, generated, shown, spent,
                 promised, leftover>>

\* Faulty variant: the flag is set on whatever secret is there by now.
EnableCurrent(r) ==
  /\ pc[r] = "enable" /\ alive
  /\ enabled' = (secret # 0)
  /\ promised' = TRUE
  /\ End(r)
  /\ UNCHANGED <<limiterVars, alive, secret, codes, mfaVars, generated, shown,
                 confirmed, spent, raced, leftover>>

\* SetTOTPSecret again, with the secret that was validated.
Enable(r) ==
  /\ pc[r] = "enable" /\ alive
  /\ secret' = job[r].secret /\ enabled' = TRUE
  /\ promised' = TRUE
  /\ End(r)
  /\ UNCHANGED <<limiterVars, alive, codes, mfaVars, generated, shown,
                 confirmed, spent, raced, leftover>>

\* DeleteTOTPSecret; the handler asks for neither a code nor a row.
DeleteTOTPSecret == secret' = 0 /\ enabled' = FALSE

BeginDisable(r) ==
  /\ pc[r] = "idle" /\ alive
  /\ DeleteTOTPSecret /\ promised' = FALSE
  /\ pc' = [pc EXCEPT ![r] = "dropCodes"]
  /\ SwitchedOff
  /\ raced' = (raced \/ Enrolling)
  /\ UNCHANGED <<limiterVars, alive, codes, mfaVars, generated, shown,
                 confirmed, spent, leftover>>

\* Faulty variant: the recovery codes are left behind.
DropCodesKeeping(r) ==
  /\ pc[r] = "dropCodes"
  /\ End(r)
  /\ UNCHANGED <<limiterVars, rowVars, mfaVars, history>>

DropCodes(r) ==
  /\ pc[r] = "dropCodes"
  /\ codes' = [c \in Codes |-> "none"]
  /\ End(r)
  /\ UNCHANGED <<limiterVars, alive, secret, enabled, mfaVars, history>>

-----------------------------------------------------------------------------
(* The account is deleted, with all that refers to it.                     *)
DeleteAccount ==
  /\ alive
  /\ alive' = FALSE /\ secret' = 0 /\ enabled' = FALSE /\ promised' = FALSE
  /\ codes' = [c \in Codes |-> "none"]
  /\ SwitchedOff
  /\ UNCHANGED <<limiterVars, mfaVars, generated, shown, confirmed, spent,
                 raced, leftover, pc>>

StoreSteps ==
  {"account", "factor", "issue", "challenged", "second", "list", "consume"}
  \cup Enrolments

\* A store call fails, or its foreign key refuses: the handler answers 500.
\* Codes that could not be dropped are only logged.
StoreFails(r) ==
  /\ pc[r] \in StoreSteps
  /\ "db" \in Faults \/ ~alive
  /\ leftover' = (leftover \/ pc[r] = "dropCodes")
  /\ End(r)
  /\ UNCHANGED <<limiterVars, rowVars, mfaVars, generated, shown, confirmed,
                 spent, promised, raced>>

\* The limiters, the challenges and the requests are lost.
Crash ==
  /\ "crash" \in Faults
  /\ failures' = [k \in DOMAIN failures |-> 0]
  /\ refused' = [n \in Names |-> 0]
  /\ challenges' = {}
  /\ pc' = [r \in Requests |-> "idle"]
  /\ job' = [r \in Requests |-> NoJob]
  /\ leftover' = (leftover \/ \E r \in Requests : pc[r] = "dropCodes")
  /\ UNCHANGED <<rowVars, minted, verdicts, generated, shown, confirmed, spent,
                 promised, raced>>

Step(r) ==
  \/ Login(r) \/ CheckPassword(r) \/ ChargeName(r) \/ ChargeSource(r)
  \/ ReadFactor(r) \/ StoreChallenge(r) \/ ResetLimiters(r) \/ IssueSession(r)
  \/ Complete(r) \/ LoadChallenged(r) \/ CheckSecond(r) \/ ListCodes(r)
  \/ ConsumeCode(r) \/ BeginSetup(r) \/ StoreSecret(r) \/ SaveCode(r)
  \/ BeginVerify(r) \/ Enable(r) \/ BeginDisable(r) \/ DropCodes(r)
  \/ StoreFails(r)

Next ==
  \/ \E r \in Requests : Step(r)
  \/ \E k \in Names \cup Sources : WindowPasses(k)
  \/ \E c \in Challenges : ExpireChallenge(c)
  \/ DeleteAccount
  \/ Crash

Spec == Init /\ [][Next]_vars

-----------------------------------------------------------------------------
TypeOK ==
  /\ failures \in [Names \cup Sources -> Nat] /\ refused \in [Names -> Nat]
  /\ alive \in BOOLEAN /\ enabled \in BOOLEAN
  /\ secret \in 0..MaxSetups
  /\ codes \in [Codes -> {"none", "unused", "used"}]
  /\ challenges \subseteq 1..minted /\ verdicts \in [Challenges -> Nat]
  /\ minted \in 0..MaxChallenges /\ generated \in 0..MaxSetups
  /\ pc \in [Requests -> {"idle", "chargeName", "chargeSource", "challenge",
                         "reset"} \cup StoreSteps]
  /\ {shown, confirmed} \subseteq SUBSET (1..generated)
  /\ spent \in [Codes -> Nat]
  /\ {promised, raced, leftover} \subseteq BOOLEAN

(* A limiter never holds more failures than its limit, though the attempts  *)
(* side by side were all admitted by the check before the password.         *)
LimitHeld == \A k \in Names \cup Sources : failures[k] <= LimitOf(k)

(* The wrong passwords tested for a name while no failure leaves its window *)
(* are at most its limit, and those of the other requests that were on      *)
(* their way when the last place was taken: whoever comes after that is     *)
(* turned away untested.  That is more than docs/spec/auth.md:45 allows.    *)
(* Attempts that find the table full are not counted by the code, nor here. *)
GuessesBounded ==
  \A n \in Names :
    failures[n] + refused[n] <= NameLimit - 1 + Cardinality(Requests)

(* A request about to get a session without an answered challenge saw the   *)
(* second factor switched off at some moment: a lookup that fails, or an    *)
(* enrolment in between, never lets the password alone through.             *)
PasswordAloneNotEnough ==
  \A r \in Requests :
    pc[r] = "issue" /\ job[r].op = "login" => job[r].off

(* A recovery code lets one completion pass, also when two present it at    *)
(* the same time and both find it unused.                                   *)
RecoveryCodeOnce == \A c \in Codes : spent[c] <= 1

(* A challenge with a verdict, whatever it was, is gone, so that only the   *)
(* completions that had read it by then get one too: at most one for each   *)
(* request that can run.  Two of them may both pass and get a session each. *)
ChallengeTries ==
  \A c \in Challenges :
    /\ verdicts[c] > 0 => c \notin challenges
    /\ verdicts[c] <= Cardinality(Requests)

(* What is enabled is a secret its user has shown to hold, through any      *)
(* interleaving of set-ups, verifications and removals.                     *)
EnabledSecretConfirmed == enabled => secret \in confirmed

(* An acknowledged enrolment stays in force until it is removed, has every  *)
(* recovery code it was issued with and, unless the codes of a removed one  *)
(* could not be deleted, no others.  Enrolment requests that overlap can    *)
(* break it.                                                                *)
AcknowledgedEnrolment ==
  promised /\ ~raced =>
    /\ enabled
    /\ \A c \in Codes :
         IF c[1] = secret THEN codes[c] # "none"
         ELSE leftover \/ codes[c] = "none"

(* No session without what the account asks for: the second factor unless   *)
(* it was off, a recovery code that passes once, and a challenge that only  *)
(* completions begun before its first verdict can still answer.             *)
BothFactors == PasswordAloneNotEnough /\ RecoveryCodeOnce /\ ChallengeTries

(* The rows of the second factor are what its user set up and confirmed,    *)
(* whatever requests overlap, fail or are cut off.                          *)
FactorAsSetUp == TypeOK /\ EnabledSecretConfirmed /\ AcknowledgedEnrolment
=============================================================================
