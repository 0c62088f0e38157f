----------------------------- MODULE SignInProofs -----------------------------
(***************************************************************************)
(* Theorems about SignIn, for any requests, names, limits and failures.    *)
(***************************************************************************)
EXTENDS SignIn, CommandLine, FiniteSetTheorems, TLAPS

-----------------------------------------------------------------------------
(* The inductive invariant: what each request carries, what that says of   *)
(* the rows, and what enrolments that do not overlap leave behind.         *)

Logins == [op : {"login"}, name : Names, source : Sources, right : BOOLEAN, off : BOOLEAN]
AnswerKinds == [kind : {"totp"}, of : Secrets] \cup [kind : {"recovery"}, of : Codes]
               \cup [kind : {"wrong"}, of : {0}]
Completions == [op : {"complete"}, challenge : Challenges, answer : AnswerKinds]
SetUps == [op : {"setup"}, secret : Secrets, n : 1..CodeCount]
Verifications == [op : {"verify"}, secret : Secrets]

PasswordSteps == {"account", "factor", "chargeName", "chargeSource", "challenge", "reset"}
AnswerSteps == {"challenged", "second", "list", "consume"}
SetUpSteps == {"store", "codes"}

\* A request carries what its step needs.
Carries(step, j) ==
  /\ step \in {"idle", "dropCodes"} => j = NoJob
  /\ step \in PasswordSteps => j \in Logins
  /\ step = "issue" => j \in Logins \cup {[op |-> "passed"]}
  /\ step \in AnswerSteps => j \in Completions
  /\ step \in {"list", "consume"} => j.answer.of \in Codes
  /\ step \in SetUpSteps => j \in SetUps
  /\ step = "store" => j.n = 1
  /\ step = "enable" => j \in Verifications

Typed ==
  /\ TypeOK
  /\ job = [r \in Requests |-> job[r]]
  /\ \A r \in Requests : Carries(pc[r], job[r])

\* Challenges that are being answered were created, secrets of set-ups
\* generated, each for one set-up that has not shown it; those of
\* verifications shown and confirmed.
JobsKnown ==
  \A r \in Requests :
    /\ pc[r] \in AnswerSteps => job[r].challenge <= minted
    /\ pc[r] \in SetUpSteps =>
         /\ job[r].secret <= generated /\ job[r].secret \notin shown
         /\ \A q \in Requests :
              pc[q] \in SetUpSteps /\ job[q].secret = job[r].secret => q = r
    /\ pc[r] = "enable" => job[r].secret \in shown \cap confirmed

\* A login knows that the factor is off when it is, and is not past the
\* question without knowing that it was.
OffKnown ==
  \A r \in Requests :
    job[r].op = "login" /\ (~enabled \/ pc[r] \in {"reset", "issue"}) => job[r].off

\* A set-up has yet to save the code, or its secret is yet to be generated.
Pending(c) ==
  \/ c[1] > generated
  \/ \E r \in Requests :
       pc[r] \in SetUpSteps /\ c[1] = job[r].secret /\ c[2] >= job[r].n

\* A code that can still be used has let nothing pass, nor has a pending one.
CodesFresh ==
  \A c \in Codes :
    /\ codes[c] = "unused" => spent[c] = 0
    /\ Pending(c) => codes[c] = "none" /\ spent[c] = 0

\* While no two enrolment requests have overlapped.
OneEnrols ==
  \A r, q \in Requests : pc[r] \in Enrolments /\ pc[q] \in Enrolments => r = q

\* An enrolment request finds the rows as it left them, unless the account went.
FindsItsRows(r) ==
  /\ pc[r] \in {"store", "dropCodes"} => secret = 0
  /\ pc[r] = "codes" /\ alive =>
       /\ secret = job[r].secret
       /\ \A m \in 1..CodeCount : m < job[r].n => codes[<<secret, m>>] # "none"
  /\ pc[r] = "enable" /\ alive => secret = job[r].secret

EnrolmentKept == \A r \in Requests : FindsItsRows(r)

CodesOfSecret ==
  /\ secret \in shown => \A m \in 1..CodeCount : codes[<<secret, m>>] # "none"
  /\ \A c \in Codes :
       codes[c] # "none" => \/ leftover
                            \/ c[1] = secret
                            \/ \E r \in Requests : pc[r] = "dropCodes"

PromiseKept == promised => enabled /\ secret \in shown

Orderly == OneEnrols /\ EnrolmentKept /\ CodesOfSecret /\ PromiseKept

\* Wrong passwords of a name on their way to its window, and completions on
\* their way to a verdict on a challenge.
Guessing(n) == {r \in Requests : pc[r] \in {"account", "chargeName"} /\ job[r].name = n}
Answering(c) == {r \in Requests : pc[r] \in AnswerSteps /\ job[r].challenge = c}

\* Who is refused, or may yet be, was on the way when the last place was taken.
WindowsShared ==
  \A n \in Names :
    /\ failures[n] < NameLimit => refused[n] = 0
    /\ failures[n] >= NameLimit =>
         refused[n] + Cardinality(Guessing(n)) <= Cardinality(Requests) - 1

\* Who has a verdict, or may yet get one, read the challenge before the first.
VerdictsShared ==
  \A c \in Challenges :
    /\ verdicts[c] > 0 => c \notin challenges /\ c <= minted
    /\ verdicts[c] + Cardinality(Answering(c)) <= Cardinality(Requests)

SignInInv ==
  /\ Typed /\ LimitHeld /\ WindowsShared /\ JobsKnown /\ OffKnown
  /\ RecoveryCodeOnce /\ CodesFresh /\ VerdictsShared
  /\ EnabledSecretConfirmed
  /\ ~raced => Orderly

-----------------------------------------------------------------------------
(* Types.                                                                  *)

Steps == {"idle", "chargeName", "chargeSource", "challenge", "reset"} \cup StoreSteps

RowsTyped ==
  /\ failures \in [Names \cup Sources -> Nat] /\ refused \in [Names -> Nat]
  /\ alive \in BOOLEAN /\ enabled \in BOOLEAN
  /\ secret \in 0..MaxSetups
  /\ codes \in [Codes -> {"none", "unused", "used"}]
  /\ challenges \subseteq 1..minted /\ verdicts \in [Challenges -> Nat]
  /\ minted \in 0..MaxChallenges /\ generated \in 0..MaxSetups
  /\ shown \subseteq 1..generated /\ confirmed \subseteq 1..generated
  /\ spent \in [Codes -> Nat]
  /\ promised \in BOOLEAN /\ raced \in BOOLEAN /\ leftover \in BOOLEAN

RequestsTyped ==
  /\ pc \in [Requests -> Steps]
  /\ job = [r \in Requests |-> job[r]]
  /\ \A r \in Requests : Carries(pc[r], job[r])

LEMMA TypeParts == Typed <=> RowsTyped /\ RequestsTyped
  BY DEF Typed, TypeOK, RowsTyped, RequestsTyped, Steps

\* The bounds are numbers.
LEMMA BoundsTyped ==
  /\ MaxSetups \in Nat /\ MaxChallenges \in Nat
  /\ NameLimit \in Nat /\ SourceLimit \in Nat /\ CodeCount \in Nat
  /\ NameLimit > 0 /\ SourceLimit > 0 /\ CodeCount > 0
  BY SignInAssumption

LEMMA RowsUnchanged ==
  ASSUME RowsTyped, UNCHANGED <<limiterVars, rowVars, mfaVars, history>>
  PROVE  RowsTyped'
  BY DEF RowsTyped, limiterVars, rowVars, mfaVars, history, enrolmentHistory

\* How a request moves: it ends, goes on with what it carries, or begins.
LEMMA EndMoves ==
  ASSUME RequestsTyped, NEW r \in Requests, End(r)
  PROVE  /\ RequestsTyped'
         /\ pc'[r] = "idle" /\ job'[r] = NoJob
         /\ \A q \in Requests \ {r} : pc'[q] = pc[q] /\ job'[q] = job[q]
  <1>1. Carries("idle", NoJob) /\ "idle" \in Steps
    BY DEF Carries, Steps, PasswordSteps, AnswerSteps, SetUpSteps
  <1> QED
    BY <1>1 DEF RequestsTyped, End

LEMMA GotoMoves ==
  ASSUME RequestsTyped, NEW r \in Requests, NEW next \in Steps, Goto(r, next),
         Carries(next, job[r])
  PROVE  /\ RequestsTyped'
         /\ pc'[r] = next /\ job' = job
         /\ \A q \in Requests \ {r} : pc'[q] = pc[q]
  BY DEF RequestsTyped, Goto

LEMMA BeginMoves ==
  ASSUME RequestsTyped, NEW r \in Requests, NEW j, NEW first \in Steps,
         Begin(r, j, first), Carries(first, j)
  PROVE  /\ RequestsTyped'
         /\ pc[r] = "idle" /\ pc'[r] = first /\ job'[r] = j
         /\ \A q \in Requests \ {r} : pc'[q] = pc[q] /\ job'[q] = job[q]
  BY DEF RequestsTyped, Begin

\* A verdict ends the request or lets it have a session.
LEMMA AnswerMoves ==
  ASSUME RequestsTyped, NEW r \in Requests, NEW passed, Answer(r, passed)
  PROVE  /\ RequestsTyped'
         /\ \/ pc'[r] = "idle" /\ job'[r] = NoJob
            \/ pc'[r] = "issue" /\ job'[r] = [op |-> "passed"]
         /\ \A q \in Requests \ {r} : pc'[q] = pc[q] /\ job'[q] = job[q]
         /\ challenges' = challenges \ {job[r].challenge}
         /\ verdicts' = [verdicts EXCEPT ![job[r].challenge] = @ + 1]
         /\ minted' = minted
  <1>1. Carries("issue", [op |-> "passed"]) /\ "issue" \in Steps
    BY DEF Carries, Steps, PasswordSteps, AnswerSteps, SetUpSteps, StoreSteps
  <1>2. CASE passed
    BY <1>1, <1>2 DEF RequestsTyped, Answer
  <1>3. CASE ~passed
    BY <1>3, EndMoves DEF Answer
  <1> QED
    BY <1>2, <1>3

\* What a request carries at each of its steps.
LEMMA JobAt ==
  ASSUME RequestsTyped, NEW r \in Requests
  PROVE  /\ pc[r] \in {"idle", "dropCodes"} => job[r] = NoJob
         /\ pc[r] \in PasswordSteps => job[r] \in Logins
         /\ pc[r] = "issue" => job[r] \in Logins \cup {[op |-> "passed"]}
         /\ pc[r] \in AnswerSteps => job[r] \in Completions
         /\ pc[r] \in {"list", "consume"} => job[r].answer.of \in Codes
         /\ pc[r] \in SetUpSteps => job[r] \in SetUps
         /\ pc[r] = "store" => job[r].n = 1
         /\ pc[r] = "enable" => job[r] \in Verifications
  <1>1. Carries(pc[r], job[r])
    BY DEF RequestsTyped
  <1> QED
    BY <1>1 DEF Carries

\* Logins that learn that the factor is off stay logins; nothing else changes.
LEMMA SwitchedMoves ==
  ASSUME RequestsTyped, SwitchedOff
  PROVE  /\ job' = [r \in Requests |-> job'[r]]
         /\ \A r \in Requests :
              IF job[r].op = "login"
              THEN job'[r] = [job[r] EXCEPT !.off = TRUE] ELSE job'[r] = job[r]
         /\ \A r \in Requests : Carries(pc[r], job'[r])
  <1>1. /\ job' = [r \in Requests |-> job'[r]]
        /\ \A r \in Requests :
              IF job[r].op = "login"
              THEN job'[r] = [job[r] EXCEPT !.off = TRUE] ELSE job'[r] = job[r]
    BY DEF SwitchedOff
  <1>2. ASSUME NEW r \in Requests PROVE Carries(pc[r], job'[r])
    <2>1. Carries(pc[r], job[r])
      BY DEF RequestsTyped
    <2>2. CASE job[r].op = "login"
      <3>1. pc[r] \in PasswordSteps \cup {"issue"} /\ job[r] \in Logins
        BY <2>1, <2>2, JobAt DEF RequestsTyped, Steps, StoreSteps, Enrolments, PasswordSteps,
           AnswerSteps, SetUpSteps, NoJob, Completions, SetUps, Verifications
      <3>2. job'[r] \in Logins
        BY <1>1, <2>2, <3>1 DEF Logins
      <3> QED
        BY <3>1, <3>2 DEF Carries, PasswordSteps, AnswerSteps, SetUpSteps
    <2> QED
      BY <1>1, <2>1, <2>2
  <1> QED
    BY <1>1, <1>2

-----------------------------------------------------------------------------
(* How a step moves the request that takes it, and the others.             *)

\* Another request stays where it is; a login may learn that the factor is off.
Kept(q) ==
  /\ pc'[q] = pc[q]
  /\ \/ job'[q] = job[q]
     \/ job[q].op = "login" /\ job'[q] = [job[q] EXCEPT !.off = TRUE]

PasswordMove(from, to) ==
  \/ from = "account" /\ to \in {"factor", "chargeName"}
  \/ from = "chargeName" /\ to = "chargeSource"
  \/ from = "factor" /\ to = "challenge"
  \/ from = "factor" /\ to = "reset" /\ ~Enrolled
  \/ from = "reset" /\ to = "issue"

AnswerMove(from, to) ==
  \/ from = "challenged" /\ to = "second"
  \/ from = "second" /\ to = "list"
  \/ from = "list" /\ to = "consume"

Moves(r) ==
  \/ pc'[r] = "idle"
  \/ /\ pc[r] = "idle" /\ pc'[r] = "account" /\ (enabled \/ job'[r].off)
     /\ ~HitLimit(job'[r].name)
  \/ pc[r] = "idle" /\ pc'[r] = "challenged" /\ job'[r].challenge \in challenges
  \/ job'[r] = job[r] /\ PasswordMove(pc[r], pc'[r])
  \/ job'[r] = job[r] /\ AnswerMove(pc[r], pc'[r])
  \/ pc'[r] = "issue" /\ job'[r] = [op |-> "passed"]
  \/ /\ pc[r] = "idle" /\ pc'[r] = "store" /\ job'[r].secret = generated'
     /\ generated' = generated + 1 /\ secret = 0
  \/ pc[r] = "store" /\ pc'[r] = "codes" /\ job'[r] = job[r]
  \/ /\ pc[r] = "codes" /\ pc'[r] = "codes"
     /\ job'[r].secret = job[r].secret /\ job'[r].n = job[r].n + 1
  \/ /\ pc[r] = "idle" /\ pc'[r] = "enable" /\ job'[r].secret = secret
     /\ secret \in shown \cap confirmed'
  \/ pc[r] = "idle" /\ pc'[r] = "dropCodes"

LEMMA StepMoves ==
  ASSUME Typed, NEW r \in Requests, Step(r)
  PROVE  /\ RequestsTyped' /\ Moves(r)
         /\ \A q \in Requests \ {r} : Kept(q)
  <1> DEFINE P == /\ RequestsTyped' /\ Moves(r)
                  /\ \A q \in Requests \ {r} : Kept(q)
  <1>0. RowsTyped /\ RequestsTyped
    BY TypeParts
  <1> USE DEF PasswordSteps, AnswerSteps, SetUpSteps
  <1>a. /\ "account" \in Steps /\ "factor" \in Steps /\ "chargeName" \in Steps
        /\ "chargeSource" \in Steps /\ "challenge" \in Steps /\ "reset" \in Steps
        /\ "issue" \in Steps /\ "challenged" \in Steps /\ "second" \in Steps
        /\ "list" \in Steps /\ "consume" \in Steps /\ "store" \in Steps
        /\ "codes" \in Steps /\ "enable" \in Steps /\ "dropCodes" \in Steps
    BY DEF Steps, StoreSteps, Enrolments
  <1>b. CASE End(r)
    BY <1>0, <1>b, EndMoves DEF Moves, Kept
  <1>c. ASSUME NEW next \in Steps, Goto(r, next),
               PasswordMove(pc[r], next) \/ AnswerMove(pc[r], next),
               next \in {"list", "consume"} => job[r].answer.of \in Codes
        PROVE  P
    <2>1. Carries(next, job[r])
      BY <1>0, <1>c, JobAt DEF PasswordMove, AnswerMove, Carries
    <2> QED
      BY <1>0, <1>c, <2>1, GotoMoves DEF Moves, Kept
  <1>d. ASSUME NEW passed, Answer(r, passed) PROVE P
    BY <1>0, <1>d, AnswerMoves DEF Moves, Kept
  <1>1. CASE Login(r)
    <2>0. PICK n \in Names, s \in Sources, right \in BOOLEAN :
            /\ ~HitLimit(n)
            /\ Begin(r, [op |-> "login", name |-> n, source |-> s,
                         right |-> right, off |-> ~enabled], "account")
      BY <1>1 DEF Login
    <2>1. PICK j :
            /\ j = [op |-> "login", name |-> n, source |-> s, right |-> right, off |-> ~enabled]
            /\ Begin(r, j, "account")
      BY <2>0
    <2>2. (~enabled) \in BOOLEAN
      OBVIOUS
    <2>3. j \in Logins /\ (enabled \/ j.off) /\ ~HitLimit(j.name)
      BY <2>0, <2>1, <2>2 DEF Logins
    <2>4. Carries("account", j)
      BY <2>3 DEF Carries
    <2> QED
      BY <1>0, <1>a, <2>1, <2>3, <2>4, BeginMoves DEF Moves, Kept
  <1>2. CASE CheckPassword(r)
    BY <1>a, <1>c, <1>2 DEF CheckPassword, PasswordMove
  <1>3. CASE ChargeName(r)
    BY <1>a, <1>b, <1>c, <1>3 DEF ChargeName, PasswordMove
  <1>4. CASE ChargeSource(r)
    BY <1>b, <1>4 DEF ChargeSource
  <1>5. CASE ReadFactor(r)
    BY <1>a, <1>c, <1>5 DEF ReadFactor, PasswordMove
  <1>6. CASE StoreChallenge(r)
    BY <1>b, <1>6 DEF StoreChallenge
  <1>7. CASE ResetLimiters(r)
    BY <1>a, <1>c, <1>7 DEF ResetLimiters, PasswordMove
  <1>8. CASE IssueSession(r)
    BY <1>b, <1>8 DEF IssueSession
  <1>9. CASE Complete(r)
    <2>0. PICK c \in challenges, a \in Answers :
            Begin(r, [op |-> "complete", challenge |-> c, answer |-> a], "challenged")
      BY <1>9 DEF Complete
    <2>1. PICK j :
            /\ j = [op |-> "complete", challenge |-> c, answer |-> a]
            /\ Begin(r, j, "challenged")
      BY <2>0
    <2>2. c \in Challenges
      BY <1>0, BoundsTyped DEF RowsTyped, Challenges
    <2>3. a \in AnswerKinds
      <3>1. shown \subseteq Secrets
        BY <1>0, BoundsTyped DEF RowsTyped, Secrets
      <3> QED
        BY <3>1 DEF Answers, AnswerKinds, Codes
    <2>4. Carries("challenged", j) /\ j.challenge = c
      BY <2>1, <2>2, <2>3 DEF Carries, Completions
    <2> QED
      BY <1>0, <1>a, <2>1, <2>4, BeginMoves DEF Moves, Kept
  <1>10. CASE LoadChallenged(r)
    BY <1>a, <1>c, <1>d, <1>10 DEF LoadChallenged, AnswerMove
  <1>11. CASE CheckSecond(r)
    <2>1. CASE \E passed \in BOOLEAN : Answer(r, passed)
      BY <1>d, <2>1
    <2>2. CASE job[r].answer.kind = "recovery" /\ Goto(r, "list")
      <3>1. job[r].answer \in AnswerKinds /\ pc[r] = "second"
        BY <1>0, <1>11, JobAt DEF CheckSecond, Completions
      <3>2. job[r].answer.of \in Codes
        BY <2>2, <3>1 DEF AnswerKinds
      <3> QED
        BY <1>a, <1>c, <2>2, <3>1, <3>2 DEF AnswerMove
    <2> QED
      BY <1>11, <2>1, <2>2 DEF CheckSecond
  <1>12. CASE ListCodes(r)
    <2>1. job[r].answer.of \in Codes /\ pc[r] = "list"
      BY <1>0, <1>12, JobAt DEF ListCodes
    <2> QED
      BY <1>a, <1>c, <1>d, <1>12, <2>1 DEF ListCodes, AnswerMove
  <1>13. CASE ConsumeCode(r)
    BY <1>d, <1>13 DEF ConsumeCode
  <1>14. CASE BeginSetup(r)
    <2>1. PICK j : /\ j = [op |-> "setup", secret |-> generated + 1, n |-> 1]
                   /\ Begin(r, j, "store")
      BY <1>14 DEF BeginSetup
    <2>2. generated + 1 \in Secrets /\ 1 \in 1..CodeCount
      BY <1>0, <1>14, BoundsTyped DEF BeginSetup, RowsTyped, Secrets
    <2>3. Carries("store", j) /\ j.secret = generated + 1
      BY <2>1, <2>2 DEF Carries, SetUps
    <2> QED
      BY <1>0, <1>a, <1>14, <2>1, <2>3, BeginMoves DEF Moves, Kept, BeginSetup
  <1>15. CASE StoreSecret(r)
    <2>1. job[r] \in SetUps /\ pc[r] = "store"
      BY <1>0, <1>15, JobAt DEF StoreSecret
    <2>2. pc' = [pc EXCEPT ![r] = "codes"] /\ SwitchedOff
      BY <1>15 DEF StoreSecret
    <2>3. job'[r] = job[r]
      BY <1>0, <2>1, <2>2, SwitchedMoves DEF SetUps
    <2>4. Carries("codes", job[r])
      BY <2>1 DEF Carries
    <2>5. RequestsTyped'
      BY <1>0, <1>a, <2>2, <2>3, <2>4, SwitchedMoves DEF RequestsTyped
    <2> QED
      BY <1>0, <2>1, <2>2, <2>3, <2>5, SwitchedMoves DEF Moves, Kept, RequestsTyped
  <1>16. CASE SaveCode(r)
    <2>1. CASE job[r].n < CodeCount
      <3>1. job[r] \in SetUps /\ pc[r] = "codes"
        BY <1>0, <1>16, JobAt DEF SaveCode
      <3>2. job' = [job EXCEPT ![r].n = @ + 1] /\ pc' = pc
        BY <1>16, <2>1 DEF SaveCode
      <3>3. job[r].n \in Nat /\ job[r].n + 1 \in 1..CodeCount
        BY <2>1, <3>1, BoundsTyped DEF SetUps
      <3>4. /\ job' = [q \in Requests |-> job'[q]]
            /\ job'[r] = [job[r] EXCEPT !.n = job[r].n + 1]
            /\ \A q \in Requests \ {r} : job'[q] = job[q]
        BY <1>0, <3>2 DEF RequestsTyped
      <3>5. /\ job'[r] \in SetUps /\ job'[r].secret = job[r].secret
            /\ job'[r].n = job[r].n + 1
        BY <3>1, <3>3, <3>4 DEF SetUps
      <3>6. Carries("codes", job'[r])
        BY <3>5 DEF Carries
      <3> QED
        BY <1>0, <3>1, <3>2, <3>4, <3>5, <3>6 DEF RequestsTyped, Moves, Kept
    <2> QED
      BY <1>b, <1>16, <2>1 DEF SaveCode
  <1>17. CASE BeginVerify(r)
    <2>1. PICK j : /\ j = [op |-> "verify", secret |-> secret]
                   /\ Begin(r, j, "enable")
      BY <1>17 DEF BeginVerify
    <2>2. secret \in Secrets /\ secret \in shown \cap confirmed'
      BY <1>0, <1>17, BoundsTyped DEF BeginVerify, RowsTyped, Secrets
    <2>3. Carries("enable", j) /\ j.secret = secret
      BY <2>1, <2>2 DEF Carries, Verifications
    <2> QED
      BY <1>0, <1>a, <2>1, <2>2, <2>3, BeginMoves DEF Moves, Kept
  <1>18. CASE Enable(r)
    BY <1>b, <1>18 DEF Enable
  <1>19. CASE BeginDisable(r)
    <2>1. pc[r] = "idle" /\ pc' = [pc EXCEPT ![r] = "dropCodes"] /\ SwitchedOff
      BY <1>19 DEF BeginDisable
    <2>2. job[r] = NoJob /\ job'[r] = NoJob
      BY <1>0, <2>1, JobAt, SwitchedMoves DEF NoJob
    <2>3. Carries("dropCodes", NoJob)
      BY DEF Carries
    <2>4. RequestsTyped'
      BY <1>0, <1>a, <2>1, <2>2, <2>3, SwitchedMoves DEF RequestsTyped
    <2> QED
      BY <1>0, <2>1, <2>4, SwitchedMoves DEF Moves, Kept, RequestsTyped
  <1>20. CASE DropCodes(r)
    BY <1>b, <1>20 DEF DropCodes
  <1>21. CASE StoreFails(r)
    BY <1>b, <1>21 DEF StoreFails
  <1> QED
    BY <1>1, <1>2, <1>3, <1>4, <1>5, <1>6, <1>7, <1>8, <1>9, <1>10, <1>11, <1>12, <1>13,
       <1>14, <1>15, <1>16, <1>17, <1>18, <1>19, <1>20, <1>21 DEF Step

-----------------------------------------------------------------------------
(* Types are kept.                                                         *)

\* A verdict is about a challenge that was created.
LEMMA AnswerKnown ==
  ASSUME Typed, JobsKnown, NEW r \in Requests, pc[r] \in AnswerSteps
  PROVE  job[r].challenge \in 1..minted
  <1>1. job[r].challenge \in Challenges /\ job[r].challenge <= minted
    BY TypeParts, JobAt DEF Completions, JobsKnown
  <1>2. minted \in Nat
    BY BoundsTyped DEF Typed, TypeOK
  <1> QED
    BY <1>1, <1>2, BoundsTyped DEF Challenges

LEMMA AnswerTyped ==
  ASSUME Typed, JobsKnown, NEW r \in Requests, pc[r] \in AnswerSteps,
         NEW passed, Answer(r, passed)
  PROVE  /\ challenges' \subseteq 1..minted' /\ verdicts' \in [Challenges -> Nat]
         /\ minted' = minted
  <1>1. /\ challenges' = challenges \ {job[r].challenge}
        /\ verdicts' = [verdicts EXCEPT ![job[r].challenge] = @ + 1] /\ minted' = minted
    BY TypeParts, AnswerMoves
  <1>2. verdicts \in [Challenges -> Nat] /\ \A c \in Challenges : verdicts[c] + 1 \in Nat
    BY TypeParts DEF RowsTyped
  <1>3. verdicts' \in [Challenges -> Nat]
    BY <1>1, <1>2
  <1> QED
    BY <1>1, <1>3, AnswerKnown, TypeParts DEF RowsTyped

LEMMA RowsStep == Typed /\ JobsKnown /\ [Next]_vars => RowsTyped'
  <1> SUFFICES ASSUME Typed, JobsKnown, [Next]_vars PROVE RowsTyped'
    OBVIOUS
  <1>0. RowsTyped /\ RequestsTyped
    BY TypeParts
  <1> USE DEF limiterVars, rowVars, mfaVars, history, enrolmentHistory
  <1>1. ASSUME NEW r \in Requests, Step(r) PROVE RowsTyped'
    <2>1. CASE Login(r)
      BY <1>0, <2>1 DEF Login, Begin, RowsTyped
    <2>2. CASE CheckPassword(r) \/ ReadFactor(r) \/ IssueSession(r)
      BY <1>0, <2>2, RowsUnchanged DEF CheckPassword, ReadFactor, IssueSession
    <2>3. CASE ChargeName(r)
      <3>1. failures' \in [Names \cup Sources -> Nat] /\ refused' \in [Names -> Nat]
        BY <1>0, <2>3 DEF ChargeName, RowsTyped
      <3> QED
        BY <1>0, <2>3, <3>1 DEF ChargeName, RowsTyped
    <2>4. CASE ChargeSource(r)
      <3>1. failures' \in [Names \cup Sources -> Nat]
        <4>1. \A k \in Names \cup Sources : failures[k] + 1 \in Nat
          BY <1>0 DEF RowsTyped
        <4>2. \/ failures' = [failures EXCEPT ![job[r].source] = @ + 1]
              \/ failures' = failures
          BY <2>4 DEF ChargeSource
        <4> QED
          BY <1>0, <4>1, <4>2 DEF RowsTyped
      <3> QED
        BY <1>0, <2>4, <3>1 DEF ChargeSource, RowsTyped
    <2>5. CASE StoreChallenge(r)
      <3>1. minted' = minted + 1 /\ minted < MaxChallenges
            /\ challenges' = challenges \cup {minted + 1} /\ verdicts' = verdicts
        BY <2>5 DEF StoreChallenge
      <3>2. minted \in Nat /\ challenges \subseteq 1..minted
        BY <1>0, BoundsTyped DEF RowsTyped
      <3>3. /\ minted' \in 0..MaxChallenges /\ challenges' \subseteq 1..minted'
        BY <3>1, <3>2, BoundsTyped
      <3> QED
        BY <1>0, <2>5, <3>3 DEF StoreChallenge, RowsTyped
    <2>6. CASE ResetLimiters(r)
      <3>1. failures' \in [Names \cup Sources -> Nat] /\ refused' \in [Names -> Nat]
        BY <1>0, <2>6 DEF ResetLimiters, RowsTyped
      <3> QED
        BY <1>0, <2>6, <3>1 DEF ResetLimiters, RowsTyped
    <2>7. CASE Complete(r)
      BY <1>0, <2>7 DEF Complete, Begin, RowsTyped
    <2>8. CASE LoadChallenged(r) \/ CheckSecond(r) \/ ListCodes(r)
      <3>1. pc[r] \in AnswerSteps
        BY <2>8 DEF LoadChallenged, CheckSecond, ListCodes, AnswerSteps
      <3>2. CASE UNCHANGED mfaVars
        BY <1>0, <2>8, <3>2, RowsUnchanged DEF LoadChallenged, CheckSecond, ListCodes
      <3>3. CASE \E passed \in BOOLEAN : Answer(r, passed)
        BY <1>0, <2>8, <3>1, <3>3, AnswerTyped
        DEF LoadChallenged, CheckSecond, ListCodes, RowsTyped
      <3> QED
        BY <2>8, <3>2, <3>3 DEF LoadChallenged, CheckSecond, ListCodes
    <2>9. CASE ConsumeCode(r)
      <3>1. job[r].answer.of \in Codes /\ pc[r] \in AnswerSteps
        BY <1>0, <2>9, JobAt DEF ConsumeCode, AnswerSteps
      <3>2. PICK passed : Answer(r, passed)
        BY <2>9 DEF ConsumeCode
      <3>3. /\ codes' \in [Codes -> {"none", "unused", "used"}]
            /\ spent' \in [Codes -> Nat]
        BY <1>0, <2>9, <3>1 DEF ConsumeCode, RowsTyped
      <3> QED
        BY <1>0, <2>9, <3>1, <3>2, <3>3, AnswerTyped DEF ConsumeCode, RowsTyped
    <2>10. CASE BeginSetup(r)
      <3>1. generated' = generated + 1 /\ generated' \in 0..MaxSetups
        BY <1>0, <2>10, BoundsTyped DEF BeginSetup, RowsTyped
      <3>2. shown \subseteq 1..generated' /\ confirmed \subseteq 1..generated'
        BY <1>0, <3>1, BoundsTyped DEF RowsTyped
      <3> QED
        BY <1>0, <2>10, <3>1, <3>2 DEF BeginSetup, Begin, RowsTyped
    <2>11. CASE StoreSecret(r)
      <3>1. job[r].secret \in 0..MaxSetups
        BY <1>0, <2>11, JobAt, BoundsTyped DEF StoreSecret, SetUpSteps, SetUps, Secrets
      <3> QED
        BY <1>0, <2>11, <3>1 DEF StoreSecret, RowsTyped
    <2>12. CASE SaveCode(r)
      <3>1. job[r] \in SetUps /\ job[r].secret <= generated
        BY <1>0, <2>12, JobAt DEF SaveCode, SetUpSteps, JobsKnown
      <3>2. job[r].secret \in 1..generated
        BY <1>0, <3>1, BoundsTyped DEF SetUps, Secrets, RowsTyped
      <3>3. codes' \in [Codes -> {"none", "unused", "used"}]
        BY <1>0, <2>12 DEF SaveCode, RowsTyped
      <3>4. shown' \subseteq 1..generated
        BY <1>0, <2>12, <3>2 DEF SaveCode, RowsTyped
      <3> QED
        BY <1>0, <2>12, <3>3, <3>4 DEF SaveCode, RowsTyped
    <2>13. CASE BeginVerify(r)
      <3>1. confirmed' \subseteq 1..generated
        BY <1>0, <2>13 DEF BeginVerify, RowsTyped
      <3> QED
        BY <1>0, <2>13, <3>1 DEF BeginVerify, Begin, RowsTyped
    <2>14. CASE Enable(r)
      <3>1. job[r].secret \in 0..MaxSetups
        BY <1>0, <2>14, JobAt, BoundsTyped DEF Enable, Verifications, Secrets
      <3> QED
        BY <1>0, <2>14, <3>1 DEF Enable, RowsTyped
    <2>15. CASE BeginDisable(r)
      <3>1. secret' = 0 /\ enabled' = FALSE /\ promised' = FALSE /\ raced' \in BOOLEAN
        BY <2>15 DEF BeginDisable, DeleteTOTPSecret
      <3>2. 0 \in 0..MaxSetups
        BY BoundsTyped
      <3> QED
        BY <1>0, <2>15, <3>1, <3>2 DEF BeginDisable, RowsTyped
    <2>16. CASE DropCodes(r)
      BY <1>0, <2>16 DEF DropCodes, RowsTyped
    <2>17. CASE StoreFails(r)
      BY <1>0, <2>17 DEF StoreFails, RowsTyped
    <2> QED
      BY <1>1, <2>1, <2>2, <2>3, <2>4, <2>5, <2>6, <2>7, <2>8, <2>9, <2>10, <2>11, <2>12,
         <2>13, <2>14, <2>15, <2>16, <2>17 DEF Step
  <1>2. ASSUME NEW k \in Names \cup Sources, WindowPasses(k) PROVE RowsTyped'
    <2>1. failures[k] \in Nat /\ failures[k] > 0
      BY <1>0, <1>2 DEF WindowPasses, RowsTyped
    <2>2. failures' \in [Names \cup Sources -> Nat] /\ refused' \in [Names -> Nat]
      BY <1>0, <1>2, <2>1 DEF WindowPasses, RowsTyped
    <2> QED
      BY <1>0, <1>2, <2>2 DEF WindowPasses, RowsTyped
  <1>3. ASSUME NEW c \in Challenges, ExpireChallenge(c) PROVE RowsTyped'
    BY <1>0, <1>3 DEF ExpireChallenge, RowsTyped
  <1>4. CASE DeleteAccount
    <2>1. 0 \in 0..MaxSetups
      BY BoundsTyped
    <2>2. codes' \in [Codes -> {"none", "unused", "used"}]
      BY <1>4 DEF DeleteAccount
    <2> QED
      BY <1>0, <1>4, <2>1, <2>2 DEF DeleteAccount, RowsTyped
  <1>5. CASE Crash
    BY <1>0, <1>5 DEF Crash, RowsTyped
  <1>6. CASE UNCHANGED vars
    BY <1>0, <1>6, RowsUnchanged DEF vars
  <1> QED
    BY <1>1, <1>2, <1>3, <1>4, <1>5, <1>6 DEF Next

LEMMA TypedStep == Typed /\ JobsKnown /\ [Next]_vars => Typed'
  <1> SUFFICES ASSUME Typed, JobsKnown, [Next]_vars PROVE RequestsTyped'
    BY RowsStep, TypeParts
    DEF Typed, TypeOK, RowsTyped, RequestsTyped, Steps
  <1>0. RequestsTyped
    BY TypeParts
  <1>1. ASSUME NEW r \in Requests, Step(r) PROVE RequestsTyped'
    BY <1>1, StepMoves
  <1>2. CASE UNCHANGED <<pc, job>>
    BY <1>0, <1>2 DEF RequestsTyped
  <1>3. CASE DeleteAccount
    BY <1>0, <1>3, SwitchedMoves DEF DeleteAccount, RequestsTyped
  <1>4. CASE Crash
    <2>1. Carries("idle", NoJob) /\ "idle" \in Steps
      BY DEF Carries, Steps, PasswordSteps, AnswerSteps, SetUpSteps
    <2> QED
      BY <1>4, <2>1 DEF Crash, RequestsTyped
  <1> QED
    BY <1>1, <1>2, <1>3, <1>4 DEF Next, WindowPasses, ExpireChallenge, vars

-----------------------------------------------------------------------------
(* The limiters.                                                           *)

\* A failure is added only below the limit.
LEMMA LimitStep == Typed /\ LimitHeld /\ [Next]_vars => LimitHeld'
  <1> SUFFICES ASSUME Typed, LimitHeld, [Next]_vars,
                      NEW k \in Names \cup Sources
               PROVE  failures'[k] <= LimitOf(k)
    BY DEF LimitHeld
  <1>0. /\ failures \in [Names \cup Sources -> Nat] /\ failures[k] <= LimitOf(k)
        /\ LimitOf(k) \in Nat /\ failures[k] \in Nat
    BY BoundsTyped DEF Typed, TypeOK, LimitHeld, LimitOf
  <1>1. ASSUME NEW r \in Requests, Step(r), failures' # failures
        PROVE  failures'[k] <= LimitOf(k)
    <2>1. CASE ChargeName(r)
      BY <1>0, <1>1, <2>1 DEF ChargeName, Allow, HitLimit
    <2>2. CASE ChargeSource(r)
      BY <1>0, <1>1, <2>2 DEF ChargeSource, Allow, HitLimit
    <2>3. CASE ResetLimiters(r)
      BY <1>0, <2>3 DEF ResetLimiters
    <2> QED
      BY <1>1, <2>1, <2>2, <2>3
      DEF Step, Login, CheckPassword, ReadFactor, StoreChallenge, IssueSession, Complete,
          LoadChallenged, CheckSecond, ListCodes, ConsumeCode, BeginSetup, StoreSecret,
          SaveCode, BeginVerify, Enable, BeginDisable, DropCodes, StoreFails, limiterVars
  <1>2. ASSUME NEW l \in Names \cup Sources, WindowPasses(l)
        PROVE  failures'[k] <= LimitOf(k)
    BY <1>0, <1>2 DEF WindowPasses
  <1>3. CASE Crash
    BY <1>0, <1>3 DEF Crash
  <1>4. CASE UNCHANGED failures
    BY <1>0, <1>4
  <1> QED
    BY <1>1, <1>2, <1>3, <1>4 DEF Next, ExpireChallenge, DeleteAccount, limiterVars, vars

\* Sets of requests have sizes.
LEMMA Counted ==
  /\ Cardinality(Requests) \in Nat
  /\ \A S \in SUBSET Requests :
       Cardinality(S) \in Nat /\ Cardinality(S) <= Cardinality(Requests)
  /\ \A T \in SUBSET Requests : \A S \in SUBSET T : Cardinality(S) <= Cardinality(T)
  <1>1. IsFiniteSet(Requests)
    BY SignInAssumption
  <1>2. \A S \in SUBSET Requests : IsFiniteSet(S)
    BY <1>1, FS_Subset
  <1> QED
    BY <1>1, <1>2, FS_Subset, FS_CardinalityType

\* A set that lost a request has one less.
LEMMA CountedWithout ==
  ASSUME NEW T \in SUBSET Requests, NEW S \in SUBSET T, NEW r \in T, r \notin S
  PROVE  Cardinality(S) <= Cardinality(T) - 1
  <1>1. IsFiniteSet(Requests)
    BY SignInAssumption
  <1>2. IsFiniteSet(T)
    BY <1>1, FS_Subset
  <1>3. /\ IsFiniteSet(T \ {r})
        /\ Cardinality(T \ {r}) = Cardinality(T) - 1
    BY <1>2, FS_RemoveElement
  <1>4. S \subseteq T \ {r}
    OBVIOUS
  <1> QED
    BY <1>3, <1>4, FS_Subset

\* Who changes the limiters.
LEMMA LimiterChanges ==
  ASSUME NEW r \in Requests, Step(r)
  PROVE  \/ UNCHANGED <<failures, refused>>
         \/ ChargeName(r) \/ ChargeSource(r) \/ ResetLimiters(r)
  BY DEF Step, Login, CheckPassword, ReadFactor, StoreChallenge, IssueSession, Complete,
      LoadChallenged, CheckSecond, ListCodes, ConsumeCode, BeginSetup, StoreSecret,
      SaveCode, BeginVerify, Enable, BeginDisable, DropCodes, StoreFails, limiterVars

\* A guess on its way was so before, or begins while the window has room.
LEMMA GuessingMoves ==
  ASSUME Typed, NEW r \in Requests, Step(r), NEW n \in Names
  PROVE  /\ Guessing(n)' \subseteq Guessing(n) \/ ~HitLimit(n)
         /\ pc[r] # "idle" => Guessing(n)' \subseteq Guessing(n)
  <1>0. Moves(r) /\ \A q \in Requests \ {r} : Kept(q)
    BY StepMoves
  <1>1. ASSUME NEW q \in Requests \ {r}, q \in Guessing(n)' PROVE q \in Guessing(n)
    <2>1. pc[q] \in {"account", "chargeName"}
      BY <1>0, <1>1 DEF Guessing, Kept
    <2>2. job[q] \in Logins
      BY <2>1, TypeParts, JobAt DEF PasswordSteps
    <2>3. job'[q].name = job[q].name
      BY <1>0, <2>2 DEF Kept, Logins
    <2> QED
      BY <1>1, <2>1, <2>3 DEF Guessing
  <1>2. ASSUME r \in Guessing(n)', r \notin Guessing(n)
        PROVE  ~HitLimit(n) /\ pc[r] = "idle"
    <2>1. pc'[r] \in {"account", "chargeName"} /\ job'[r].name = n
      BY <1>2 DEF Guessing
    <2> QED
      BY <1>0, <1>2, <2>1 DEF Moves, PasswordMove, AnswerMove, Guessing
  <1> QED
    BY <1>1, <1>2 DEF Guessing

\* Once a window is full only guesses already on their way can find it so.
LEMMA WindowsStep ==
  Typed /\ LimitHeld /\ WindowsShared /\ [Next]_vars => WindowsShared'
  <1> DEFINE Shared(n) ==
        /\ failures'[n] < NameLimit => refused'[n] = 0
        /\ failures'[n] >= NameLimit =>
             refused'[n] + Cardinality(Guessing(n)') <= Cardinality(Requests) - 1
  <1> SUFFICES ASSUME Typed, LimitHeld, WindowsShared, [Next]_vars, NEW n \in Names
               PROVE  Shared(n)
    BY DEF WindowsShared
  <1>0. /\ failures \in [Names \cup Sources -> Nat] /\ refused \in [Names -> Nat]
        /\ failures[n] \in Nat /\ refused[n] \in Nat
        /\ failures[n] <= NameLimit /\ LimitOf(n) = NameLimit
        /\ NameLimit \in Nat /\ NameLimit > 0
        /\ failures[n] < NameLimit => refused[n] = 0
        /\ failures[n] >= NameLimit =>
             refused[n] + Cardinality(Guessing(n)) <= Cardinality(Requests) - 1
        /\ n \notin Sources
    BY BoundsTyped, SignInAssumption DEF Typed, TypeOK, LimitHeld, LimitOf, WindowsShared
  <1>a. /\ Cardinality(Guessing(n)) \in Nat /\ Cardinality(Guessing(n)') \in Nat
        /\ Cardinality(Requests) \in Nat
    BY Counted DEF Guessing
  <1>b. ASSUME Guessing(n)' \subseteq Guessing(n)
        PROVE  Cardinality(Guessing(n)') <= Cardinality(Guessing(n))
    BY <1>b, Counted DEF Guessing
  <1>c. ASSUME failures'[n] = failures[n], refused'[n] = refused[n],
               Guessing(n)' \subseteq Guessing(n) \/ failures[n] < NameLimit
        PROVE  Shared(n)
    BY <1>0, <1>a, <1>b, <1>c
  <1>d. ASSUME NEW q \in Requests, pc[q] \in {"chargeName", "chargeSource", "reset"}
        PROVE  job[q].name \in Names /\ job[q].source \in Sources
    BY <1>d, TypeParts, JobAt DEF PasswordSteps, Logins
  <1>1. ASSUME NEW r \in Requests, Step(r) PROVE Shared(n)
    <2>1. CASE UNCHANGED <<failures, refused>>
      BY <1>0, <1>1, <1>c, <2>1, GuessingMoves DEF HitLimit
    <2>2. CASE ChargeName(r)
      <3>0. pc[r] = "chargeName" /\ Guessing(n)' \subseteq Guessing(n)
        BY <1>1, <2>2, GuessingMoves DEF ChargeName
      <3>1. CASE job[r].name # n
        BY <1>0, <1>c, <1>d, <2>2, <3>0, <3>1 DEF ChargeName
      <3>2. CASE job[r].name = n
        <4>1. r \in Guessing(n) /\ r \notin Guessing(n)'
          <5>1. pc'[r] \in {"idle", "chargeSource"}
            BY <2>2, TypeParts DEF ChargeName, End, Goto, RequestsTyped
          <5> QED
            BY <3>0, <3>2, <5>1 DEF Guessing
        <4>2. Cardinality(Guessing(n)') <= Cardinality(Guessing(n)) - 1
          BY <3>0, <4>1, CountedWithout DEF Guessing
        <4>3. Cardinality(Guessing(n)) <= Cardinality(Requests)
          BY Counted DEF Guessing
        <4>4. CASE Allow(n)
          <5>1. failures'[n] = failures[n] + 1 /\ refused'[n] = refused[n]
                /\ failures[n] < NameLimit
            BY <1>0, <2>2, <3>2, <4>4 DEF ChargeName, Allow, HitLimit
          <5> QED
            BY <1>0, <1>a, <4>2, <4>3, <5>1
        <4>5. CASE ~Allow(n) /\ HitLimit(n)
          <5>1. failures'[n] = failures[n] /\ refused'[n] = refused[n] + 1
                /\ failures[n] >= NameLimit
            BY <1>0, <2>2, <3>2, <4>5 DEF ChargeName, HitLimit
          <5> QED
            BY <1>0, <1>a, <4>2, <5>1
        <4>6. CASE ~Allow(n) /\ ~HitLimit(n)
          <5>1. failures'[n] = failures[n] /\ refused'[n] = refused[n]
            BY <2>2, <3>2, <4>6 DEF ChargeName
          <5> QED
            BY <1>c, <3>0, <5>1
        <4> QED
          BY <4>4, <4>5, <4>6
      <3> QED
        BY <3>1, <3>2
    <2>3. CASE ChargeSource(r)
      <3>1. pc[r] = "chargeSource" /\ Guessing(n)' \subseteq Guessing(n)
        BY <1>1, <2>3, GuessingMoves DEF ChargeSource
      <3>2. failures'[n] = failures[n] /\ refused'[n] = refused[n]
        BY <1>0, <1>d, <2>3, <3>1 DEF ChargeSource
      <3> QED
        BY <1>c, <3>1, <3>2
    <2>4. CASE ResetLimiters(r)
      <3>1. pc[r] = "reset" /\ Guessing(n)' \subseteq Guessing(n)
        BY <1>1, <2>4, GuessingMoves DEF ResetLimiters
      <3>2. CASE job[r].name = n
        <4>1. failures'[n] = 0 /\ refused'[n] = 0
          BY <1>0, <2>4, <3>2 DEF ResetLimiters
        <4> QED
          BY <1>0, <4>1
      <3>3. CASE job[r].name # n
        <4>1. failures'[n] = failures[n] /\ refused'[n] = refused[n]
          BY <1>0, <1>d, <2>4, <3>1, <3>3 DEF ResetLimiters
        <4> QED
          BY <1>c, <3>1, <4>1
      <3> QED
        BY <3>2, <3>3
    <2> QED
      BY <1>1, <2>1, <2>2, <2>3, <2>4, LimiterChanges
  <1>3. CASE Crash
    <2>1. failures'[n] = 0 /\ refused'[n] = 0
      BY <1>0, <1>3 DEF Crash
    <2> QED
      BY <1>0, <2>1
  <1>4. CASE DeleteAccount
    <2>1. UNCHANGED <<pc, limiterVars>> /\ \A q \in Requests : Kept(q)
      BY <1>4, TypeParts, SwitchedMoves DEF DeleteAccount, Kept
    <2>2. Guessing(n)' \subseteq Guessing(n)
      <3>1. ASSUME NEW q \in Guessing(n)' PROVE q \in Guessing(n)
        <4>1. pc[q] \in {"account", "chargeName"} /\ q \in Requests
          BY <2>1, <3>1 DEF Guessing
        <4>2. job[q] \in Logins
          BY <4>1, TypeParts, JobAt DEF PasswordSteps
        <4> QED
          BY <2>1, <3>1, <4>1, <4>2 DEF Guessing, Kept, Logins
      <3> QED
        BY <3>1
    <2> QED
      BY <1>c, <2>1, <2>2 DEF limiterVars
  <1>5. CASE UNCHANGED <<pc, job>>
    <2>0. Guessing(n)' \subseteq Guessing(n)
      BY <1>5 DEF Guessing
    <2>1. ASSUME NEW k \in Names \cup Sources, WindowPasses(k) PROVE Shared(n)
      <3>1. CASE k = n
        <4>1. failures'[n] = failures[n] - 1 /\ refused'[n] = 0
          BY <1>0, <2>1, <3>1 DEF WindowPasses
        <4> QED
          BY <1>0, <4>1
      <3>2. CASE k # n
        <4>1. failures'[n] = failures[n] /\ refused'[n] = refused[n]
          BY <1>0, <2>1, <3>2 DEF WindowPasses
        <4> QED
          BY <1>c, <2>0, <4>1
      <3> QED
        BY <3>1, <3>2
    <2>2. CASE UNCHANGED limiterVars
      BY <1>c, <2>0, <2>2 DEF limiterVars
    <2> QED
      BY <1>1, <1>3, <1>4, <2>1, <2>2 DEF Next, ExpireChallenge, vars
  <1> QED
    BY <1>1, <1>3, <1>4, <1>5 DEF Next, WindowPasses, ExpireChallenge, vars

-----------------------------------------------------------------------------
(* What a step changes in the rows and in the history.                     *)

LEMMA HistoryGrows ==
  ASSUME Typed, [Next]_vars
  PROVE  /\ minted <= minted' /\ generated <= generated' /\ generated' \in Nat
         /\ shown \subseteq shown' /\ confirmed \subseteq confirmed'
         /\ raced => raced'
         /\ alive' => alive
  <1>0. minted \in Nat /\ generated \in Nat
    BY BoundsTyped DEF Typed, TypeOK
  <1> USE DEF limiterVars, rowVars, mfaVars, history, enrolmentHistory
  <1>1. ASSUME NEW r \in Requests, Step(r)
        PROVE  /\ minted <= minted' /\ generated <= generated' /\ generated' \in Nat
               /\ shown \subseteq shown' /\ confirmed \subseteq confirmed'
               /\ raced => raced'
               /\ alive' => alive
    <2>1. minted <= minted'
      BY <1>0, <1>1 DEF Step, Login, CheckPassword, ChargeName, ChargeSource, ReadFactor,
          StoreChallenge, ResetLimiters, IssueSession, Complete, LoadChallenged,
          CheckSecond, ListCodes, ConsumeCode, BeginSetup, StoreSecret, SaveCode,
          BeginVerify, Enable, BeginDisable, DropCodes, StoreFails, Answer
    <2>2. generated' = generated \/ generated' = generated + 1
      BY <1>1 DEF Step, Login, CheckPassword, ChargeName, ChargeSource, ReadFactor,
          StoreChallenge, ResetLimiters, IssueSession, Complete, LoadChallenged,
          CheckSecond, ListCodes, ConsumeCode, BeginSetup, StoreSecret, SaveCode,
          BeginVerify, Enable, BeginDisable, DropCodes, StoreFails
    <2>5. alive' = alive
      BY <1>1 DEF Step, Login, CheckPassword, ChargeName, ChargeSource, ReadFactor,
          StoreChallenge, ResetLimiters, IssueSession, Complete, LoadChallenged,
          CheckSecond, ListCodes, ConsumeCode, BeginSetup, StoreSecret, SaveCode,
          BeginVerify, Enable, BeginDisable, DropCodes, StoreFails
    <2>3. shown \subseteq shown' /\ confirmed \subseteq confirmed'
      BY <1>1 DEF Step, Login, CheckPassword, ChargeName, ChargeSource, ReadFactor,
          StoreChallenge, ResetLimiters, IssueSession, Complete, LoadChallenged,
          CheckSecond, ListCodes, ConsumeCode, BeginSetup, StoreSecret, SaveCode,
          BeginVerify, Enable, BeginDisable, DropCodes, StoreFails
    <2>4. raced => raced'
      BY <1>1 DEF Step, Login, CheckPassword, ChargeName, ChargeSource, ReadFactor,
          StoreChallenge, ResetLimiters, IssueSession, Complete, LoadChallenged,
          CheckSecond, ListCodes, ConsumeCode, BeginSetup, StoreSecret, SaveCode,
          BeginVerify, Enable, BeginDisable, DropCodes, StoreFails, Begin
    <2> QED
      BY <1>0, <2>1, <2>2, <2>3, <2>4, <2>5
  <1> QED
    BY <1>0, <1>1 DEF Next, WindowPasses, ExpireChallenge, DeleteAccount, Crash, vars

\* Who turns the factor on and off.
LEMMA FactorChanges ==
  ASSUME NEW r \in Requests, Step(r)
  PROVE  \/ UNCHANGED <<secret, enabled, promised>>
         \/ StoreSecret(r) \/ Enable(r) \/ BeginDisable(r)
  BY DEF Step, Login, CheckPassword, ChargeName, ChargeSource, ReadFactor,
        StoreChallenge, ResetLimiters, IssueSession, Complete, LoadChallenged,
        CheckSecond, ListCodes, ConsumeCode, BeginSetup, SaveCode, BeginVerify,
        DropCodes, StoreFails, rowVars, history, enrolmentHistory

\* Who writes recovery codes, and who counts what they let pass.
LEMMA CodesChange ==
  ASSUME NEW r \in Requests, Step(r)
  PROVE  \/ UNCHANGED <<codes, spent, shown>>
         \/ SaveCode(r) \/ ConsumeCode(r)
         \/ DropCodes(r)
  BY DEF Step, Login, CheckPassword, ChargeName, ChargeSource, ReadFactor,
        StoreChallenge, ResetLimiters, IssueSession, Complete, LoadChallenged,
        CheckSecond, ListCodes, BeginSetup, StoreSecret, BeginVerify, Enable,
        BeginDisable, StoreFails, rowVars, history, enrolmentHistory

\* Who answers challenges, and who creates them.
LEMMA ChallengesChange ==
  ASSUME NEW r \in Requests, Step(r)
  PROVE  \/ UNCHANGED <<challenges, verdicts>>
         \/ /\ minted' = minted + 1 /\ challenges' = challenges \cup {minted'}
            /\ verdicts' = verdicts
         \/ pc[r] \in AnswerSteps /\ \E passed \in BOOLEAN : Answer(r, passed)
  BY DEF Step, Login, CheckPassword, ChargeName, ChargeSource, ReadFactor,
        StoreChallenge, ResetLimiters, IssueSession, Complete, LoadChallenged,
        CheckSecond, ListCodes, ConsumeCode, BeginSetup, StoreSecret, SaveCode,
        BeginVerify, Enable, BeginDisable, DropCodes, StoreFails, AnswerSteps, mfaVars

\* A request that is not signing in carries what it did before another's step.
LEMMA KeptExact ==
  ASSUME Typed, NEW q \in Requests, Kept(q),
         pc[q] \in AnswerSteps \cup Enrolments
  PROVE  pc'[q] = pc[q] /\ job'[q] = job[q]
  <1>1. job[q].op # "login"
    BY TypeParts, JobAt DEF AnswerSteps, Enrolments, SetUpSteps, NoJob, Completions, SetUps,
       Verifications
  <1> QED
    BY <1>1 DEF Kept

-----------------------------------------------------------------------------
(* What requests carry.                                                    *)

LEMMA JobsStep == Typed /\ JobsKnown /\ [Next]_vars => JobsKnown'
  <1> SUFFICES ASSUME Typed, JobsKnown, [Next]_vars PROVE JobsKnown'
    OBVIOUS
  <1>0. RowsTyped /\ RequestsTyped /\ minted \in Nat /\ generated \in Nat
        /\ minted' \in Nat /\ generated' \in Nat
    BY TypeParts, RowsStep, BoundsTyped DEF RowsTyped
  <1>1. ASSUME NEW r \in Requests, Step(r) PROVE JobsKnown'
    <2>0. Moves(r) /\ \A q \in Requests \ {r} : Kept(q)
      BY <1>1, StepMoves
    <2>a. \A q \in Requests \ {r} :
            pc'[q] \in AnswerSteps \cup Enrolments => pc[q] = pc'[q] /\ job'[q] = job[q]
      BY <2>0, KeptExact DEF Kept
    <2>1. ASSUME NEW q \in Requests, pc'[q] \in AnswerSteps
          PROVE  job'[q].challenge <= minted'
      <3>1. job'[q].challenge \in 1..minted
        <4>1. CASE q = r
          <5>1. CASE pc'[r] = "challenged"
            BY <1>0, <2>0, <4>1, <5>1 DEF Moves, PasswordMove, AnswerMove, RowsTyped
          <5>2. CASE pc'[r] # "challenged"
            <6>1. job'[r] = job[r] /\ pc[r] \in AnswerSteps
              BY <2>0, <2>1, <4>1, <5>2 DEF Moves, PasswordMove, AnswerMove, AnswerSteps
            <6> QED
              BY <4>1, <6>1, AnswerKnown
          <5> QED
            BY <5>1, <5>2
        <4>2. CASE q # r
          BY <2>a, <2>1, <4>2, AnswerKnown
        <4> QED
          BY <4>1, <4>2
      <3> QED
        BY <1>0, <3>1, HistoryGrows
    <2>2. ASSUME NEW q \in Requests, pc'[q] \in SetUpSteps
          PROVE  /\ job'[q].secret <= generated' /\ job'[q].secret \notin shown'
                 /\ \A p \in Requests :
                      pc'[p] \in SetUpSteps /\ job'[p].secret = job'[q].secret => p = q
      <3>1. \A p \in Requests : pc[p] \in SetUpSteps =>
              job[p].secret \in Nat /\ job[p].secret <= generated
        BY <1>0, JobAt DEF JobsKnown, SetUps, Secrets
      <3>2. shown \subseteq 1..generated
        BY <1>0 DEF RowsTyped
      <3>3. CASE pc[r] = "idle" /\ pc'[r] = "store"
        <4>1. job'[r].secret = generated + 1 /\ generated' = generated + 1
          BY <2>0, <3>3 DEF Moves, PasswordMove, AnswerMove
        <4>2. shown' = shown
          BY <1>1, <3>3, CodesChange DEF SaveCode, ConsumeCode, DropCodes
        <4>3. \A p \in Requests \ {r} : pc'[p] \in SetUpSteps =>
                pc[p] \in SetUpSteps /\ job'[p] = job[p]
          BY <2>a DEF SetUpSteps, Enrolments
        <4> QED
          BY <1>0, <2>2, <3>1, <3>2, <4>1, <4>2, <4>3 DEF JobsKnown
      <3>4. CASE ~(pc[r] = "idle" /\ pc'[r] = "store")
        <4>1. \A p \in Requests : pc'[p] \in SetUpSteps =>
                pc[p] \in SetUpSteps /\ job'[p].secret = job[p].secret
          <5>1. pc'[r] \in SetUpSteps =>
                  pc[r] \in SetUpSteps /\ job'[r].secret = job[r].secret
            BY <2>0, <3>4 DEF Moves, PasswordMove, AnswerMove, SetUpSteps
          <5> QED
            BY <2>a, <5>1 DEF SetUpSteps, Enrolments
        <4>2. \/ shown' = shown
              \/ /\ shown' = shown \cup {job[r].secret}
                 /\ pc[r] \in SetUpSteps /\ pc'[r] \notin SetUpSteps
          <5>1. CASE SaveCode(r)
            <6>1. pc[r] \in SetUpSteps /\ pc \in [Requests -> Steps]
              BY <1>0, <5>1 DEF SaveCode, SetUpSteps, RequestsTyped
            <6> QED
              BY <5>1, <6>1 DEF SaveCode, End, SetUpSteps
          <5> QED
            BY <1>1, <5>1, CodesChange DEF ConsumeCode, DropCodes, history, enrolmentHistory
        <4>3. /\ job[q].secret <= generated /\ job[q].secret \notin shown
              /\ pc[q] \in SetUpSteps /\ job'[q].secret = job[q].secret
              /\ \A p \in Requests :
                   pc[p] \in SetUpSteps /\ job[p].secret = job[q].secret => p = q
          BY <2>2, <4>1 DEF JobsKnown
        <4>4. job[q].secret \notin shown'
          BY <2>2, <4>2, <4>3
        <4> QED
          BY <1>0, <3>1, <4>1, <4>3, <4>4, HistoryGrows
      <3> QED
        BY <3>3, <3>4
    <2>3. ASSUME NEW q \in Requests, pc'[q] = "enable"
          PROVE  job'[q].secret \in shown' \cap confirmed'
      <3>1. CASE q = r
        BY <2>0, <2>3, <3>1, HistoryGrows DEF Moves, PasswordMove, AnswerMove
      <3>2. CASE q # r
        BY <2>a, <2>3, <3>2, HistoryGrows DEF JobsKnown, Enrolments
      <3> QED
        BY <3>1, <3>2
    <2> QED
      BY <2>1, <2>2, <2>3 DEF JobsKnown
  <1>2. CASE UNCHANGED <<pc, job, minted, generated, shown, confirmed>>
    BY <1>2 DEF JobsKnown
  <1>3. CASE DeleteAccount
    <2>1. \A q \in Requests : pc[q] \in AnswerSteps \cup Enrolments => job'[q] = job[q]
      <3>1. \A q \in Requests : Kept(q)
        BY <1>0, <1>3, SwitchedMoves DEF DeleteAccount, Kept
      <3> QED
        BY <3>1, KeptExact
    <2>2. UNCHANGED <<pc, minted, generated, shown, confirmed>>
      BY <1>3 DEF DeleteAccount, mfaVars
    <2> QED
      BY <2>1, <2>2 DEF JobsKnown, Enrolments, SetUpSteps
  <1>4. CASE Crash
    BY <1>4 DEF Crash, JobsKnown, AnswerSteps, SetUpSteps
  <1> QED
    BY <1>1, <1>2, <1>3, <1>4
    DEF Next, WindowPasses, ExpireChallenge, vars, mfaVars, history, enrolmentHistory

-----------------------------------------------------------------------------
(* What is enabled, which challenges are open, what a login knows.         *)

LEMMA EnabledStep ==
  Typed /\ JobsKnown /\ EnabledSecretConfirmed /\ [Next]_vars => EnabledSecretConfirmed'
  <1> SUFFICES ASSUME Typed, JobsKnown, EnabledSecretConfirmed, [Next]_vars, enabled'
               PROVE  secret' \in confirmed'
    BY DEF EnabledSecretConfirmed
  <1>1. ASSUME NEW r \in Requests, Step(r) PROVE secret' \in confirmed'
    <2>1. CASE UNCHANGED <<secret, enabled, promised>>
      BY <2>1, HistoryGrows DEF EnabledSecretConfirmed
    <2>2. CASE Enable(r)
      BY <2>2 DEF Enable, JobsKnown
    <2> QED
      BY <1>1, <2>1, <2>2, FactorChanges DEF StoreSecret, BeginDisable, DeleteTOTPSecret
  <1>2. CASE UNCHANGED <<secret, enabled, confirmed>>
    BY <1>2 DEF EnabledSecretConfirmed
  <1>3. CASE DeleteAccount
    BY <1>3 DEF DeleteAccount
  <1> QED
    BY <1>1, <1>2, <1>3
    DEF Next, WindowPasses, ExpireChallenge, Crash, vars, rowVars, history, enrolmentHistory

\* A completion on its way to a verdict was so before, or begins with an open
\* challenge.
LEMMA AnsweringMoves ==
  ASSUME Typed, NEW r \in Requests, Step(r), NEW c \in Challenges
  PROVE  Answering(c)' \subseteq Answering(c) \/ c \in challenges
  <1>0. Moves(r) /\ \A q \in Requests \ {r} : Kept(q)
    BY StepMoves
  <1>1. ASSUME NEW q \in Requests \ {r}, q \in Answering(c)' PROVE q \in Answering(c)
    BY <1>0, <1>1, KeptExact DEF Answering, Kept
  <1>2. ASSUME r \in Answering(c)' PROVE r \in Answering(c) \/ c \in challenges
    <2>1. pc'[r] \in AnswerSteps /\ job'[r].challenge = c
      BY <1>2 DEF Answering
    <2> QED
      BY <1>0, <2>1 DEF Moves, PasswordMove, AnswerMove, AnswerSteps, Answering
  <1> QED
    BY <1>1, <1>2 DEF Answering

LEMMA VerdictsStep ==
  Typed /\ JobsKnown /\ VerdictsShared /\ [Next]_vars => VerdictsShared'
  <1> SUFFICES ASSUME Typed, JobsKnown, VerdictsShared, [Next]_vars,
                      NEW c \in Challenges
               PROVE  /\ verdicts'[c] > 0 => c \notin challenges' /\ c <= minted'
                      /\ verdicts'[c] + Cardinality(Answering(c)') <= Cardinality(Requests)
    BY DEF VerdictsShared
  <1>0. /\ minted \in Nat /\ minted' \in Nat /\ minted <= minted'
        /\ verdicts \in [Challenges -> Nat] /\ c \in Nat
        /\ verdicts[c] > 0 => c \notin challenges /\ c <= minted
        /\ verdicts[c] + Cardinality(Answering(c)) <= Cardinality(Requests)
    <2>1. RowsTyped /\ RowsTyped' /\ minted <= minted'
      BY HistoryGrows, RowsStep, TypeParts
    <2>2. minted \in Nat /\ minted' \in Nat /\ verdicts \in [Challenges -> Nat] /\ c \in Nat
      BY <2>1, BoundsTyped DEF RowsTyped, Challenges
    <2> QED
      BY <2>1, <2>2 DEF VerdictsShared
  <1>a. /\ Cardinality(Answering(c)) \in Nat /\ Cardinality(Answering(c)') \in Nat
        /\ Cardinality(Answering(c)') <= Cardinality(Requests)
        /\ Cardinality(Requests) \in Nat
    BY Counted DEF Answering
  <1>b. ASSUME Answering(c)' \subseteq Answering(c)
        PROVE  Cardinality(Answering(c)') <= Cardinality(Answering(c))
    BY <1>b, Counted DEF Answering
  <1>1. ASSUME NEW r \in Requests, Step(r)
        PROVE  /\ verdicts'[c] > 0 => c \notin challenges' /\ c <= minted'
               /\ verdicts'[c] + Cardinality(Answering(c)') <= Cardinality(Requests)
    <2>1. verdicts[c] + Cardinality(Answering(c)') <= Cardinality(Requests)
      BY <1>0, <1>a, <1>b, <1>1, AnsweringMoves
    <2>2. CASE \/ UNCHANGED <<challenges, verdicts>>
               \/ /\ minted' = minted + 1 /\ challenges' = challenges \cup {minted'}
                  /\ verdicts' = verdicts
      BY <1>0, <2>1, <2>2
    <2>3. CASE pc[r] \in AnswerSteps /\ \E passed \in BOOLEAN : Answer(r, passed)
      <3>1. /\ challenges' = challenges \ {job[r].challenge}
            /\ verdicts' = [verdicts EXCEPT ![job[r].challenge] = @ + 1]
            /\ pc'[r] \notin AnswerSteps /\ job[r].challenge \in 1..minted
        BY <2>3, TypeParts, AnswerMoves, AnswerKnown DEF AnswerSteps
      <3>2. CASE c = job[r].challenge
        <4>1. r \in Answering(c) /\ r \notin Answering(c)'
          BY <2>3, <3>1, <3>2 DEF Answering
        <4>2. Answering(c)' \subseteq Answering(c)
          <5>1. \A q \in Requests \ {r} : Kept(q)
            BY <1>1, StepMoves
          <5>2. \A q \in Requests \ {r} : q \in Answering(c)' => q \in Answering(c)
            BY <5>1, KeptExact DEF Answering, Kept
          <5> QED
            BY <4>1, <5>2 DEF Answering
        <4>3. Cardinality(Answering(c)') <= Cardinality(Answering(c)) - 1
          BY <4>1, <4>2, CountedWithout DEF Answering
        <4> QED
          BY <1>0, <1>a, <3>1, <3>2, <4>3
      <3>3. CASE c # job[r].challenge
        BY <1>0, <2>1, <3>1, <3>3
      <3> QED
        BY <3>2, <3>3
    <2> QED
      BY <1>1, <2>2, <2>3, ChallengesChange
  <1>2. CASE /\ verdicts' = verdicts /\ challenges' \subseteq challenges
             /\ Answering(c)' \subseteq Answering(c)
    BY <1>0, <1>a, <1>b, <1>2
  <1>3. CASE DeleteAccount
    <2>1. UNCHANGED <<pc, mfaVars>> /\ \A q \in Requests : Kept(q)
      BY <1>3, TypeParts, SwitchedMoves DEF DeleteAccount, Kept
    <2>2. Answering(c)' \subseteq Answering(c)
      BY <2>1, KeptExact DEF Answering
    <2> QED
      BY <1>2, <2>1, <2>2 DEF mfaVars
  <1>4. CASE Crash
    <2>1. Answering(c)' = {}
      BY <1>4 DEF Crash, Answering, AnswerSteps
    <2> QED
      BY <1>2, <1>4, <2>1 DEF Crash
  <1>5. CASE UNCHANGED <<pc, job>>
    <2>1. Answering(c)' \subseteq Answering(c)
      BY <1>5 DEF Answering
    <2>2. CASE UNCHANGED vars \/ \E k \in Names \cup Sources : WindowPasses(k)
      BY <1>2, <2>1, <2>2 DEF WindowPasses, vars, mfaVars
    <2>3. CASE \E d \in Challenges : ExpireChallenge(d)
      BY <1>2, <2>1, <2>3 DEF ExpireChallenge
    <2> QED
      BY <1>1, <1>3, <1>4, <2>2, <2>3 DEF Next
  <1> QED
    BY <1>1, <1>3, <1>4, <1>5 DEF Next, WindowPasses, ExpireChallenge, vars

\* Only the password's steps and the session's are a login's.
LEMMA LoginCarries ==
  ASSUME NEW step \in Steps, NEW j, Carries(step, j), j.op = "login"
  PROVE  step \in PasswordSteps \cup {"issue"} /\ j \in Logins
  BY DEF Carries, Steps, StoreSteps, Enrolments, PasswordSteps, AnswerSteps, SetUpSteps,
     NoJob, Completions, SetUps, Verifications

\* Every login learns that the factor is off.
LEMMA SwitchedKnown ==
  ASSUME Typed, SwitchedOff, NEW q \in Requests, job'[q].op = "login"
  PROVE  job'[q].off
  <1>0. RequestsTyped
    BY TypeParts
  <1>1. IF job[q].op = "login"
        THEN job'[q] = [job[q] EXCEPT !.off = TRUE] ELSE job'[q] = job[q]
    BY <1>0, SwitchedMoves
  <1>2. job[q].op = "login"
    BY <1>1
  <1>3. job[q] \in Logins
    BY <1>0, <1>2, LoginCarries DEF RequestsTyped
  <1> QED
    BY <1>1, <1>2, <1>3 DEF Logins

LEMMA KeptLogin ==
  ASSUME Typed, NEW q \in Requests, Kept(q), job'[q].op = "login"
  PROVE  job[q].op = "login" /\ (job[q].off => job'[q].off)
  <1>0. RequestsTyped
    BY TypeParts
  <1>1. CASE job'[q] = job[q]
    BY <1>1
  <1>2. CASE job[q].op = "login" /\ job'[q] = [job[q] EXCEPT !.off = TRUE]
    <2>1. job[q] \in Logins
      BY <1>0, <1>2, LoginCarries DEF RequestsTyped
    <2> QED
      BY <1>2, <2>1 DEF Logins
  <1> QED
    BY <1>1, <1>2 DEF Kept

LEMMA OffStep ==
  Typed /\ JobsKnown /\ EnabledSecretConfirmed /\ OffKnown /\ [Next]_vars => OffKnown'
  <1> SUFFICES ASSUME Typed, JobsKnown, EnabledSecretConfirmed, OffKnown, [Next]_vars,
                      NEW q \in Requests, job'[q].op = "login",
                      ~enabled' \/ pc'[q] \in {"reset", "issue"}
               PROVE  job'[q].off
    BY DEF OffKnown
  <1>0. RowsTyped /\ RequestsTyped
    BY TypeParts
  <1>1. ASSUME NEW r \in Requests, Step(r) PROVE job'[q].off
    <2>0. Moves(r) /\ RequestsTyped' /\ \A p \in Requests \ {r} : Kept(p)
      BY <1>1, StepMoves
    <2>1. CASE SwitchedOff
      BY <2>1, SwitchedKnown
    <2>2. CASE ~SwitchedOff
      <3>1. ~enabled' => ~enabled
        BY <1>1, <2>2, FactorChanges DEF StoreSecret, Enable, BeginDisable
      <3>2. CASE q # r
        BY <2>0, <3>1, <3>2, KeptLogin DEF Kept, OffKnown
      <3>3. CASE q = r
        <4>1. pc'[r] \in PasswordSteps \cup {"issue"}
          <5>1. pc'[r] \in Steps /\ Carries(pc'[r], job'[r])
            BY <2>0 DEF RequestsTyped
          <5> QED
            BY <3>3, <5>1, LoginCarries
        <4>2. CASE pc[r] = "idle" /\ pc'[r] = "account" /\ (enabled \/ job'[r].off)
          BY <3>1, <3>3, <4>2
        <4>3. CASE job'[r] = job[r] /\ PasswordMove(pc[r], pc'[r])
          <5>1. ~enabled => job[r].off
            BY <3>3, <4>3 DEF OffKnown
          <5>2. CASE pc[r] = "factor" /\ pc'[r] = "reset" /\ ~Enrolled
            <6>1. enabled => secret \in 1..generated
              BY <1>0 DEF EnabledSecretConfirmed, RowsTyped
            <6>2. generated \in Nat
              BY <1>0, BoundsTyped DEF RowsTyped
            <6>3. ~enabled
              BY <5>2, <6>1, <6>2 DEF Enrolled
            <6> QED
              BY <3>3, <4>3, <5>1, <6>3
          <5>3. CASE pc[r] = "reset"
            BY <3>3, <4>3, <5>3 DEF OffKnown
          <5>4. CASE ~enabled'
            BY <3>1, <3>3, <4>3, <5>1, <5>4
          <5> QED
            BY <3>3, <4>3, <5>2, <5>3, <5>4 DEF PasswordMove
        <4>4. job'[r] # [op |-> "passed"]
          BY <3>3
        <4> QED
          BY <2>0, <4>1, <4>2, <4>3, <4>4 DEF Moves, AnswerMove, PasswordSteps
      <3> QED
        BY <3>2, <3>3
    <2> QED
      BY <2>1, <2>2
  <1>2. CASE UNCHANGED <<pc, job, enabled>>
    BY <1>2 DEF OffKnown
  <1>3. CASE DeleteAccount
    BY <1>3, SwitchedKnown DEF DeleteAccount
  <1>4. CASE Crash
    BY <1>4 DEF Crash, NoJob
  <1> QED
    BY <1>1, <1>2, <1>3, <1>4 DEF Next, WindowPasses, ExpireChallenge, vars, rowVars

-----------------------------------------------------------------------------
(* Recovery codes.                                                         *)

\* What a step leaves as it was of the requests in the middle of something.
LEMMA OthersExact ==
  ASSUME Typed, NEW r \in Requests, Step(r), NEW q \in Requests \ {r},
         pc[q] \in AnswerSteps \cup Enrolments \/ pc'[q] \in AnswerSteps \cup Enrolments
  PROVE  pc'[q] = pc[q] /\ job'[q] = job[q]
  <1>1. Kept(q)
    BY StepMoves
  <1> QED
    BY <1>1, KeptExact DEF Kept

\* No code becomes pending.
LEMMA PendingShrinks ==
  ASSUME Typed, [Next]_vars, NEW c \in Codes, Pending(c)'
  PROVE  Pending(c)
  <1>0. /\ generated \in Nat /\ c[1] \in Nat /\ c[2] \in Nat
        /\ generated <= generated' /\ generated' \in Nat
    <2>1. generated \in Nat /\ c[1] \in Nat /\ c[2] \in Nat
      BY BoundsTyped DEF Typed, TypeOK, Codes, Secrets
    <2> QED
      BY <2>1, HistoryGrows
  <1>1. CASE c[1] > generated'
    BY <1>0, <1>1 DEF Pending
  <1>2. CASE \E r \in Requests : Step(r) /\ c[1] <= generated'
    <2>1. PICK r \in Requests : Step(r)
      BY <1>2
    <2>2. PICK q \in Requests : /\ pc'[q] \in SetUpSteps
                                /\ c[1] = job'[q].secret /\ c[2] >= job'[q].n
      BY <1>0, <1>2 DEF Pending
    <2>3. CASE q # r
      BY <2>1, <2>2, <2>3, OthersExact DEF Pending, SetUpSteps, Enrolments
    <2>4. CASE q = r
      <3>1. Moves(r)
        BY <2>1, StepMoves
      <3>2. CASE pc'[r] = "store" /\ job'[r].secret = generated' /\ generated' = generated + 1
        BY <1>0, <2>2, <2>4, <3>2 DEF Pending
      <3>3. CASE pc[r] = "store" /\ pc'[r] = "codes" /\ job'[r] = job[r]
        BY <2>2, <2>4, <3>3 DEF Pending, SetUpSteps
      <3>4. CASE /\ pc[r] = "codes" /\ pc'[r] = "codes"
                 /\ job'[r].secret = job[r].secret /\ job'[r].n = job[r].n + 1
        <4>1. job[r].n \in Nat
          BY <3>4, TypeParts, JobAt, BoundsTyped DEF SetUpSteps, SetUps
        <4> QED
          BY <1>0, <2>2, <2>4, <3>4, <4>1 DEF Pending, SetUpSteps
      <3> QED
        BY <2>2, <2>4, <3>1, <3>2, <3>3, <3>4 DEF Moves, PasswordMove, AnswerMove, SetUpSteps
    <2> QED
      BY <2>3, <2>4
  <1>3. CASE DeleteAccount
    <2>1. \A q \in Requests : pc[q] \in SetUpSteps => job'[q] = job[q]
      <3>1. \A q \in Requests : Kept(q)
        BY <1>3, TypeParts, SwitchedMoves DEF DeleteAccount, Kept
      <3> QED
        BY <3>1, KeptExact DEF SetUpSteps, Enrolments
    <2> QED
      BY <1>3, <2>1 DEF DeleteAccount, Pending
  <1>4. CASE Crash
    BY <1>4 DEF Crash, Pending, SetUpSteps
  <1>5. CASE UNCHANGED <<pc, job, generated>>
    BY <1>5 DEF Pending
  <1> QED
    BY <1>0, <1>1, <1>2, <1>3, <1>4, <1>5
    DEF Next, WindowPasses, ExpireChallenge, vars, history, enrolmentHistory

LEMMA CodesStep ==
  Typed /\ JobsKnown /\ RecoveryCodeOnce /\ CodesFresh /\ [Next]_vars
    => RecoveryCodeOnce' /\ CodesFresh'
  <1> SUFFICES ASSUME Typed, JobsKnown, RecoveryCodeOnce, CodesFresh, [Next]_vars,
                      NEW c \in Codes
               PROVE  /\ spent'[c] <= 1
                      /\ codes'[c] = "unused" => spent'[c] = 0
                      /\ Pending(c)' => codes'[c] = "none" /\ spent'[c] = 0
    BY DEF RecoveryCodeOnce, CodesFresh
  <1> DEFINE P == /\ spent'[c] <= 1
                  /\ codes'[c] = "unused" => spent'[c] = 0
                  /\ Pending(c)' => codes'[c] = "none" /\ spent'[c] = 0
  <1>0. /\ codes \in [Codes -> {"none", "unused", "used"}] /\ spent \in [Codes -> Nat]
        /\ spent[c] <= 1 /\ spent[c] \in Nat /\ generated \in Nat
        /\ codes[c] = "unused" => spent[c] = 0
        /\ Pending(c) => codes[c] = "none" /\ spent[c] = 0
    BY BoundsTyped DEF Typed, TypeOK, RecoveryCodeOnce, CodesFresh
  <1>1. CASE UNCHANGED <<codes, spent>>
    BY <1>0, <1>1, PendingShrinks
  <1>2. ASSUME NEW r \in Requests, Step(r), SaveCode(r) PROVE P
    <2>1. job[r] \in SetUps /\ pc[r] = "codes"
      BY <1>2, TypeParts, JobAt DEF SaveCode, SetUpSteps
    <2>2. codes' = [codes EXCEPT ![<<job[r].secret, job[r].n>>] = "unused"] /\ spent' = spent
      BY <1>2 DEF SaveCode
    <2>3. CASE c = <<job[r].secret, job[r].n>>
      <3>1. c[1] = job[r].secret /\ c[2] = job[r].n /\ job[r].n \in Nat
        BY <2>1, <2>3, BoundsTyped DEF SetUps
      <3>2. spent[c] = 0
        BY <1>0, <2>1, <3>1 DEF Pending, SetUpSteps
      <3>3. ~Pending(c)'
        <4>1. c[1] <= generated'
          BY <1>0, <1>2, <2>1, <3>1 DEF SaveCode, JobsKnown, SetUpSteps
        <4>2. ASSUME NEW q \in Requests, pc'[q] \in SetUpSteps, c[1] = job'[q].secret
              PROVE  ~(c[2] >= job'[q].n)
          <5>1. CASE q # r
            <6>1. pc[q] \in SetUpSteps /\ job[q].secret = job[r].secret
              BY <1>2, <3>1, <4>2, <5>1, OthersExact DEF SetUpSteps, Enrolments
            <6> QED
              BY <2>1, <5>1, <6>1 DEF JobsKnown, SetUpSteps
          <5>2. CASE q = r
            <6>1. Moves(r)
              BY <1>2, StepMoves
            <6>2. job'[r].n = job[r].n + 1
              BY <2>1, <4>2, <5>2, <6>1 DEF Moves, PasswordMove, AnswerMove, SetUpSteps
            <6> QED
              BY <3>1, <5>2, <6>2
          <5> QED
            BY <5>1, <5>2
        <4>3. c[1] \in Nat /\ generated' \in Nat
          BY <1>0, <1>2, BoundsTyped DEF Codes, Secrets, SaveCode
        <4> QED
          BY <4>1, <4>2, <4>3 DEF Pending
      <3> QED
        BY <1>0, <2>2, <3>2, <3>3
    <2>4. CASE c # <<job[r].secret, job[r].n>>
      BY <1>0, <2>2, <2>4, PendingShrinks
    <2> QED
      BY <2>3, <2>4
  <1>3. ASSUME NEW r \in Requests, Step(r), ConsumeCode(r) PROVE P
    <2>1. \/ UNCHANGED <<codes, spent>>
          \/ /\ codes[job[r].answer.of] = "unused"
             /\ codes' = [codes EXCEPT ![job[r].answer.of] = "used"]
             /\ spent' = [spent EXCEPT ![job[r].answer.of] = @ + 1]
      BY <1>3 DEF ConsumeCode
    <2>2. CASE codes[job[r].answer.of] = "unused" /\ c = job[r].answer.of
      BY <1>0, <1>1, <2>1, <2>2, PendingShrinks
    <2>3. CASE c # job[r].answer.of
      BY <1>0, <1>1, <2>1, <2>3, PendingShrinks
    <2> QED
      BY <1>1, <2>1, <2>2, <2>3
  <1>4. ASSUME codes' = [d \in Codes |-> "none"], spent' = spent PROVE P
    BY <1>0, <1>4, PendingShrinks
  <1>5. ASSUME NEW r \in Requests, Step(r) PROVE P
    BY <1>1, <1>2, <1>3, <1>4, <1>5, CodesChange DEF DropCodes, history, enrolmentHistory
  <1> QED
    BY <1>1, <1>4, <1>5
    DEF Next, WindowPasses, ExpireChallenge, DeleteAccount, Crash, vars, rowVars, history,
        enrolmentHistory

-----------------------------------------------------------------------------
(* Enrolments that do not overlap.                                         *)

\* Whose steps an enrolment is made of.
LEMMA EnrolmentSteps ==
  ASSUME Typed, NEW r \in Requests, Step(r),
         pc[r] \in Enrolments \/ pc'[r] \in Enrolments
  PROVE  \/ BeginSetup(r) \/ StoreSecret(r) \/ SaveCode(r) \/ BeginVerify(r)
         \/ Enable(r) \/ BeginDisable(r) \/ DropCodes(r) \/ StoreFails(r)
  <1>1. pc \in [Requests -> Steps]
    BY DEF Typed, TypeOK, Steps
  <1> QED
    BY <1>1
      DEF Step, Login, CheckPassword, ChargeName, ChargeSource, ReadFactor,
          StoreChallenge, ResetLimiters, IssueSession, Complete, LoadChallenged,
          CheckSecond, ListCodes, ConsumeCode, Goto, End, Begin, Answer, Enrolments

\* Only codes that could not be dropped are left over.
LEMMA LeftoverChanges ==
  ASSUME Typed, NEW r \in Requests, Step(r)
  PROVE  /\ alive' = alive
         /\ \/ leftover' = leftover
            \/ pc[r] = "dropCodes" /\ leftover' = TRUE
  <1> USE DEF rowVars, history, enrolmentHistory
  <1>1. alive' = alive
    BY DEF Step, Login, CheckPassword, ChargeName, ChargeSource, ReadFactor,
          StoreChallenge, ResetLimiters, IssueSession, Complete, LoadChallenged,
          CheckSecond, ListCodes, ConsumeCode, BeginSetup, StoreSecret, SaveCode,
          BeginVerify, Enable, BeginDisable, DropCodes, StoreFails
  <1>2. StoreFails(r) \/ leftover' = leftover
    BY DEF Step, Login, CheckPassword, ChargeName, ChargeSource, ReadFactor,
          StoreChallenge, ResetLimiters, IssueSession, Complete, LoadChallenged,
          CheckSecond, ListCodes, ConsumeCode, BeginSetup, StoreSecret, SaveCode,
          BeginVerify, Enable, BeginDisable, DropCodes
  <1>3. CASE StoreFails(r)
    <2>1. leftover \in BOOLEAN
      BY DEF Typed, TypeOK
    <2> QED
      BY <1>1, <1>3, <2>1 DEF StoreFails
  <1> QED
    BY <1>1, <1>2, <1>3

\* While nothing has overlapped, an enrolment's step is taken alone.
LEMMA EnrolsAlone ==
  ASSUME Typed, OneEnrols, NEW r \in Requests, Step(r), ~raced',
         pc[r] \in Enrolments \/ pc'[r] \in Enrolments,
         NEW q \in Requests \ {r}
  PROVE  pc[q] \notin Enrolments /\ pc'[q] \notin Enrolments
  <1>1. pc[q] \notin Enrolments
    <2>1. CASE pc[r] \in Enrolments
      BY <2>1 DEF OneEnrols
    <2>2. CASE pc[r] \notin Enrolments
      <3>1. BeginSetup(r) \/ BeginVerify(r) \/ BeginDisable(r)
        BY <2>2, EnrolmentSteps DEF StoreSecret, SaveCode, Enable, DropCodes, StoreFails, End,
           Enrolments, Typed, TypeOK
      <3>2. ~Enrolling
        BY <3>1 DEF BeginSetup, BeginVerify, BeginDisable, Begin, Enrolments
      <3> QED
        BY <3>2 DEF Enrolling
    <2> QED
      BY <2>1, <2>2
  <1> QED
    BY <1>1, OthersExact

\* What does not concern the enrolment keeps it in order.
LEMMA OrderlySame ==
  ASSUME Typed, Orderly, UNCHANGED <<alive, secret, enabled, promised, shown, leftover>>,
         \A c \in Codes : codes'[c] = "none" <=> codes[c] = "none",
         \A q \in Requests : pc[q] \in Enrolments \/ pc'[q] \in Enrolments =>
                               pc'[q] = pc[q] /\ job'[q] = job[q]
  PROVE  Orderly'
  <1>1. OneEnrols'
    BY DEF Orderly, OneEnrols
  <1>2. ASSUME NEW q \in Requests PROVE FindsItsRows(q)'
    <2>1. FindsItsRows(q)
      BY DEF Orderly, EnrolmentKept
    <2>2. CASE pc'[q] = "codes" /\ alive'
      <3>1. /\ secret = job[q].secret /\ job'[q] = job[q] /\ job[q] \in SetUps
            /\ \A m \in 1..CodeCount : m < job[q].n => codes[<<secret, m>>] # "none"
        BY <2>1, <2>2, TypeParts, JobAt DEF FindsItsRows, Enrolments, SetUpSteps
      <3>2. \A m \in 1..CodeCount : <<secret, m>> \in Codes
        BY <3>1 DEF Codes, SetUps
      <3> QED
        BY <2>2, <3>1, <3>2 DEF FindsItsRows
    <2>3. CASE ~(pc'[q] = "codes" /\ alive')
      BY <2>1, <2>3 DEF FindsItsRows, Enrolments
    <2> QED
      BY <2>2, <2>3
  <1>3. CodesOfSecret'
    <2>1. secret' \in shown' => \A m \in 1..CodeCount : codes'[<<secret', m>>] # "none"
      <3>1. secret \in shown => \A m \in 1..CodeCount : <<secret, m>> \in Codes
        BY BoundsTyped DEF Typed, TypeOK, Codes, Secrets
      <3> QED
        BY <3>1 DEF Orderly, CodesOfSecret
    <2>2. \A q \in Requests : pc[q] = "dropCodes" => pc'[q] = "dropCodes"
      BY DEF Enrolments
    <2> QED
      BY <2>1, <2>2 DEF Orderly, CodesOfSecret
  <1>4. PromiseKept'
    BY DEF Orderly, PromiseKept
  <1> QED
    BY <1>1, <1>2, <1>3, <1>4 DEF Orderly, EnrolmentKept

\* A request that signs in does not concern the enrolment.
LEMMA OrderlyElsewhere ==
  ASSUME Typed, Orderly, NEW r \in Requests, Step(r),
         pc[r] \notin Enrolments, pc'[r] \notin Enrolments
  PROVE  Orderly'
  <1>1. ~StoreSecret(r) /\ ~Enable(r) /\ ~SaveCode(r) /\ ~DropCodes(r)
    BY DEF StoreSecret, Enable, SaveCode, DropCodes, Enrolments
  <1>2. ~BeginDisable(r)
    BY DEF BeginDisable, Enrolments, Typed, TypeOK
  <1>3. UNCHANGED <<alive, secret, enabled, promised, leftover>>
    BY <1>1, <1>2, FactorChanges, LeftoverChanges DEF Enrolments
  <1>4. shown' = shown /\ \A c \in Codes : codes'[c] = "none" <=> codes[c] = "none"
    <2>1. CASE ConsumeCode(r)
      <3>1. codes \in [Codes -> {"none", "unused", "used"}]
        BY DEF Typed, TypeOK
      <3> QED
        BY <2>1, <3>1 DEF ConsumeCode
    <2> QED
      BY <1>1, <2>1, CodesChange
  <1> QED
    BY <1>3, <1>4, OthersExact, OrderlySame

\* An enrolment's step, taken alone, finds the rows in order and leaves them so.
LEMMA OrderlyAlone ==
  ASSUME Typed, JobsKnown, Orderly, NEW r \in Requests, Step(r), ~raced',
         pc[r] \in Enrolments \/ pc'[r] \in Enrolments
  PROVE  Orderly'
  <1>0. /\ secret \in 0..MaxSetups /\ shown \subseteq 1..generated /\ generated \in 0..MaxSetups
        /\ codes \in [Codes -> {"none", "unused", "used"}]
        /\ pc \in [Requests -> Steps] /\ RequestsTyped /\ 0 \notin shown
    BY TypeParts, BoundsTyped DEF RowsTyped, RequestsTyped
  <1>1. \A q \in Requests \ {r} : pc[q] \notin Enrolments /\ pc'[q] \notin Enrolments
    BY EnrolsAlone DEF Orderly
  <1>2. OneEnrols'
    BY <1>1 DEF OneEnrols
  <1>3. FindsItsRows(r) /\ CodesOfSecret /\ PromiseKept
    BY DEF Orderly, EnrolmentKept
  <1>4. (\E q \in Requests : pc[q] = "dropCodes") <=> pc[r] = "dropCodes"
    BY <1>1 DEF Enrolments
  <1>5. SUFFICES FindsItsRows(r)' /\ CodesOfSecret' /\ PromiseKept'
    <2>1. ASSUME NEW q \in Requests \ {r} PROVE FindsItsRows(q)'
      BY <1>1 DEF FindsItsRows, Enrolments
    <2> QED
      BY <1>2, <2>1 DEF Orderly, EnrolmentKept
  <1> USE DEF rowVars, history, enrolmentHistory
  <1>6. CASE BeginSetup(r)
    <2>1. UNCHANGED <<alive, secret, enabled, codes, shown, promised, leftover>>
          /\ secret = 0 /\ pc[r] = "idle" /\ pc'[r] = "store"
      BY <1>0, <1>6 DEF BeginSetup, Begin
    <2>2. FindsItsRows(r)'
      BY <2>1 DEF FindsItsRows
    <2>3. CodesOfSecret' /\ PromiseKept'
      BY <1>0, <1>3, <1>4, <2>1 DEF CodesOfSecret, PromiseKept
    <2> QED
      BY <2>2, <2>3
  <1>7. CASE StoreSecret(r)
    <2>1. /\ UNCHANGED <<alive, codes, shown, promised, leftover>>
          /\ pc[r] = "store" /\ pc'[r] = "codes" /\ secret' = job[r].secret
          /\ secret = 0
      BY <1>0, <1>3, <1>7 DEF StoreSecret, FindsItsRows
    <2>2. job[r] \in SetUps /\ job[r].n = 1 /\ job[r].secret \notin shown
      BY <1>0, <2>1, JobAt DEF SetUpSteps, JobsKnown
    <2>3. job'[r] = job[r]
      <3>1. SwitchedOff
        BY <1>7 DEF StoreSecret
      <3> QED
        BY <1>0, <2>2, <3>1, SwitchedMoves DEF SetUps
    <2>4. FindsItsRows(r)'
      BY <2>1, <2>2, <2>3 DEF FindsItsRows
    <2>5. CodesOfSecret'
      <3>1. \A c \in Codes : c[1] # 0
        BY BoundsTyped DEF Codes, Secrets
      <3> QED
        BY <1>3, <1>4, <2>1, <2>2, <3>1 DEF CodesOfSecret
    <2>6. PromiseKept'
      BY <1>0, <1>3, <2>1 DEF PromiseKept
    <2> QED
      BY <2>4, <2>5, <2>6
  <1>8. CASE SaveCode(r)
    <2>1. /\ job[r] \in SetUps /\ pc[r] = "codes" /\ alive
          /\ secret = job[r].secret /\ secret \notin shown
          /\ \A m \in 1..CodeCount : m < job[r].n => codes[<<secret, m>>] # "none"
      BY <1>0, <1>3, <1>8, JobAt DEF SaveCode, SetUpSteps, JobsKnown, FindsItsRows
    <2>2. /\ UNCHANGED <<alive, secret, enabled, promised, leftover>>
          /\ codes' = [codes EXCEPT ![<<secret, job[r].n>>] = "unused"]
      BY <1>8, <2>1 DEF SaveCode
    <2>3. /\ job[r].n \in 1..CodeCount
          /\ \A m \in 1..CodeCount : <<secret, m>> \in Codes
      BY <2>1 DEF SetUps, Codes
    <2>4. \A c \in Codes : codes'[c] # "none" => codes[c] # "none" \/ c[1] = secret
      BY <1>0, <2>2, <2>3
    <2>5. \A m \in 1..CodeCount : m < job[r].n + 1 => codes'[<<secret, m>>] # "none"
      <3>1. ASSUME NEW m \in 1..CodeCount, m < job[r].n + 1
            PROVE  codes'[<<secret, m>>] # "none"
        <4>1. CASE m = job[r].n
          BY <1>0, <2>2, <2>3, <4>1
        <4>2. CASE m # job[r].n
          <5>1. m < job[r].n /\ <<secret, m>> # <<secret, job[r].n>>
            BY <2>3, <3>1, <4>2, BoundsTyped
          <5> QED
            BY <1>0, <2>1, <2>2, <2>3, <5>1
        <4> QED
          BY <4>1, <4>2
      <3> QED
        BY <3>1
    <2>6. \A c \in Codes : codes'[c] # "none" => leftover' \/ c[1] = secret'
      BY <1>3, <1>4, <2>1, <2>2, <2>4 DEF CodesOfSecret
    <2>7. CASE job[r].n < CodeCount
      <3>1. shown' = shown /\ pc' = pc /\ job' = [job EXCEPT ![r].n = @ + 1]
        BY <1>8, <2>7 DEF SaveCode
      <3>2. job'[r] = [job[r] EXCEPT !.n = job[r].n + 1]
        BY <1>0, <3>1 DEF RequestsTyped
      <3>3. job'[r].secret = job[r].secret /\ job'[r].n = job[r].n + 1
        BY <2>1, <3>2 DEF SetUps
      <3>4. FindsItsRows(r)'
        BY <2>1, <2>2, <2>5, <3>1, <3>3 DEF FindsItsRows
      <3>5. CodesOfSecret' /\ PromiseKept'
        BY <1>3, <2>1, <2>2, <2>6, <3>1 DEF CodesOfSecret, PromiseKept
      <3> QED
        BY <3>4, <3>5
    <2>8. CASE ~(job[r].n < CodeCount)
      <3>1. shown' = shown \cup {secret} /\ pc'[r] = "idle"
        BY <1>0, <1>8, <2>1, <2>8 DEF SaveCode, End
      <3>2. FindsItsRows(r)'
        BY <3>1 DEF FindsItsRows
      <3>3. \A m \in 1..CodeCount : m < job[r].n + 1
        BY <2>3, <2>8, BoundsTyped
      <3>4. CodesOfSecret' /\ PromiseKept'
        BY <1>3, <2>2, <2>5, <2>6, <3>1, <3>3 DEF CodesOfSecret, PromiseKept
      <3> QED
        BY <3>2, <3>4
    <2> QED
      BY <2>7, <2>8
  <1>9. CASE BeginVerify(r)
    <2>1. /\ UNCHANGED <<alive, secret, enabled, codes, shown, promised, leftover>>
          /\ pc[r] = "idle" /\ pc'[r] = "enable"
      BY <1>0, <1>9 DEF BeginVerify, Begin
    <2>2. job'[r].secret = secret
      BY <1>0, <1>9 DEF BeginVerify, Begin, RequestsTyped
    <2>3. FindsItsRows(r)'
      BY <2>1, <2>2 DEF FindsItsRows
    <2>4. CodesOfSecret' /\ PromiseKept'
      BY <1>3, <1>4, <2>1 DEF CodesOfSecret, PromiseKept
    <2> QED
      BY <2>3, <2>4
  <1>10. CASE Enable(r)
    <2>1. /\ UNCHANGED <<alive, codes, shown, leftover>> /\ enabled' = TRUE
          /\ pc[r] = "enable" /\ pc'[r] = "idle" /\ secret' = job[r].secret
          /\ secret = job[r].secret
      BY <1>0, <1>3, <1>10 DEF Enable, End, FindsItsRows
    <2>2. secret' \in shown
      BY <2>1 DEF JobsKnown
    <2>3. FindsItsRows(r)' /\ PromiseKept'
      BY <2>1, <2>2 DEF FindsItsRows, PromiseKept
    <2>4. CodesOfSecret'
      BY <1>3, <1>4, <2>1 DEF CodesOfSecret
    <2> QED
      BY <2>3, <2>4
  <1>11. CASE BeginDisable(r)
    <2>1. /\ UNCHANGED <<alive, codes, shown, leftover>>
          /\ pc'[r] = "dropCodes" /\ secret' = 0 /\ promised' = FALSE
      BY <1>0, <1>11 DEF BeginDisable, DeleteTOTPSecret
    <2> QED
      BY <1>0, <2>1 DEF FindsItsRows, CodesOfSecret, PromiseKept
  <1>12. CASE DropCodes(r)
    <2>1. /\ UNCHANGED <<alive, secret, enabled, shown, promised, leftover>>
          /\ secret = 0 /\ pc'[r] = "idle" /\ codes' = [c \in Codes |-> "none"]
      BY <1>0, <1>3, <1>12 DEF DropCodes, End, FindsItsRows
    <2> QED
      BY <1>0, <1>3, <2>1 DEF FindsItsRows, CodesOfSecret, PromiseKept
  <1>13. CASE StoreFails(r)
    <2>1. /\ UNCHANGED <<alive, secret, enabled, codes, shown, promised>>
          /\ pc'[r] = "idle"
      BY <1>0, <1>13 DEF StoreFails, End
    <2>2. leftover' = (leftover \/ pc[r] = "dropCodes")
      BY <1>13 DEF StoreFails
    <2>3. FindsItsRows(r)' /\ PromiseKept'
      BY <1>3, <2>1 DEF FindsItsRows, PromiseKept
    <2>4. CodesOfSecret'
      BY <1>3, <1>4, <2>1, <2>2 DEF CodesOfSecret
    <2> QED
      BY <2>3, <2>4
  <1> QED
    BY <1>6, <1>7, <1>8, <1>9, <1>10, <1>11, <1>12, <1>13, EnrolmentSteps

LEMMA OrderlyStep ==
  Typed /\ JobsKnown /\ (~raced => Orderly) /\ [Next]_vars => (~raced' => Orderly')
  <1> SUFFICES ASSUME Typed, JobsKnown, ~raced => Orderly, [Next]_vars, ~raced'
               PROVE  Orderly'
    OBVIOUS
  <1>0. Orderly /\ RequestsTyped
    BY HistoryGrows, TypeParts
  <1>1. ASSUME NEW r \in Requests, Step(r) PROVE Orderly'
    BY <1>0, <1>1, OrderlyElsewhere, OrderlyAlone
  <1>2. CASE UNCHANGED <<rowVars, history, pc, job>>
    BY <1>0, <1>2, OrderlySame DEF rowVars, history, enrolmentHistory
  <1>3. CASE DeleteAccount
    <2>1. /\ alive' = FALSE /\ secret' = 0 /\ promised' = FALSE
          /\ codes' = [c \in Codes |-> "none"]
          /\ UNCHANGED <<pc, shown>>
      BY <1>3 DEF DeleteAccount
    <2>2. 0 \notin shown
      BY BoundsTyped DEF Typed, TypeOK
    <2>3. OneEnrols' /\ EnrolmentKept'
      BY <1>0, <2>1 DEF Orderly, OneEnrols, EnrolmentKept, FindsItsRows
    <2> QED
      BY <2>1, <2>2, <2>3 DEF Orderly, CodesOfSecret, PromiseKept
  <1>4. CASE Crash
    <2>1. /\ UNCHANGED <<alive, secret, enabled, codes, shown, promised>>
          /\ \A q \in Requests : pc'[q] = "idle"
          /\ leftover' = (leftover \/ \E r \in Requests : pc[r] = "dropCodes")
      BY <1>4 DEF Crash, rowVars
    <2>2. OneEnrols' /\ EnrolmentKept'
      BY <2>1 DEF OneEnrols, EnrolmentKept, FindsItsRows, Enrolments
    <2> QED
      BY <1>0, <2>1, <2>2 DEF Orderly, CodesOfSecret, PromiseKept
  <1> QED
    BY <1>1, <1>2, <1>3, <1>4 DEF Next, WindowPasses, ExpireChallenge, vars

-----------------------------------------------------------------------------
(* The invariant holds, and what follows from it.                          *)

LEMMA InvInit == Init => SignInInv
  <1> SUFFICES ASSUME Init PROVE SignInInv
    OBVIOUS
  <1>1. Typed
    <2>1. RowsTyped
      <3>1. /\ failures \in [Names \cup Sources -> Nat] /\ spent \in [Codes -> Nat]
            /\ codes \in [Codes -> {"none", "unused", "used"}]
        BY DEF Init
      <3>2. 0 \in 0..MaxSetups /\ 0 \in 0..MaxChallenges
        BY BoundsTyped
      <3> QED
        BY <3>1, <3>2 DEF Init, RowsTyped
    <2>2. RequestsTyped
      BY DEF Init, RequestsTyped, Steps, Carries, PasswordSteps, AnswerSteps, SetUpSteps
    <2> QED
      BY <2>1, <2>2, TypeParts
  <1>2. LimitHeld
    BY BoundsTyped DEF Init, LimitHeld, LimitOf
  <1>3. JobsKnown /\ OffKnown
    BY DEF Init, JobsKnown, OffKnown, AnswerSteps, SetUpSteps, NoJob
  <1>4. RecoveryCodeOnce /\ CodesFresh
    BY DEF Init, RecoveryCodeOnce, CodesFresh
  <1>5. VerdictsShared /\ EnabledSecretConfirmed
    <2>1. \A c \in Challenges :
            Cardinality(Answering(c)) <= Cardinality(Requests)
            /\ Cardinality(Answering(c)) \in Nat
      BY Counted DEF Answering
    <2> QED
      BY <2>1 DEF Init, VerdictsShared, EnabledSecretConfirmed
  <1>7. WindowsShared
    BY BoundsTyped DEF Init, WindowsShared
  <1>6. Orderly
    BY DEF Init, Orderly, OneEnrols, EnrolmentKept, FindsItsRows, CodesOfSecret,
       PromiseKept, Enrolments
  <1> QED
    BY <1>1, <1>2, <1>3, <1>4, <1>5, <1>6, <1>7 DEF SignInInv

LEMMA InvStep == SignInInv /\ [Next]_vars => SignInInv'
  BY TypedStep, LimitStep, WindowsStep, JobsStep, OffStep, CodesStep, VerdictsStep,
     EnabledStep, OrderlyStep DEF SignInInv

\* The inductive invariant is an invariant of SignIn.
THEOREM SignInInvHolds == Spec => []SignInInv
  <1>1. Init => SignInInv
    BY InvInit
  <1>2. SignInInv /\ [Next]_vars => SignInInv'
    BY InvStep
  <1> QED
    BY <1>1, <1>2, PTL DEF Spec

\* handleLogin looks at the limiter before it tests the password and charges
\* it after: while no failure leaves a name's window, the wrong passwords that
\* are tested are at most the limit and the other requests then on their way.
THEOREM GuessesBoundedHolds == Spec => []GuessesBounded
  <1>1. SignInInv => GuessesBounded
    <2> SUFFICES ASSUME SignInInv, NEW n \in Names
                 PROVE  failures[n] + refused[n] <= NameLimit - 1 + Cardinality(Requests)
      BY DEF GuessesBounded
    <2>1. /\ failures[n] \in Nat /\ refused[n] \in Nat /\ failures[n] <= NameLimit
          /\ NameLimit \in Nat /\ Cardinality(Requests) \in Nat
          /\ Cardinality(Guessing(n)) \in Nat
      BY BoundsTyped, Counted DEF SignInInv, Typed, TypeOK, LimitHeld, LimitOf, Guessing
    <2>2. /\ failures[n] < NameLimit => refused[n] = 0
          /\ failures[n] >= NameLimit =>
               refused[n] + Cardinality(Guessing(n)) <= Cardinality(Requests) - 1
      BY DEF SignInInv, WindowsShared
    <2> QED
      BY <2>1, <2>2
  <1> QED
    BY <1>1, SignInInvHolds, PTL

\* handleLogin and handleMFAComplete never give a session for less than the
\* account asks for: the factor was off at some moment of a login without a
\* challenge, a recovery code passes once, and a challenge gets verdicts only
\* from completions that read it before the first of them.
THEOREM BothFactorsHolds == Spec => []BothFactors
  <1>1. SignInInv => BothFactors
    <2>1. OffKnown => PasswordAloneNotEnough
      BY DEF OffKnown, PasswordAloneNotEnough
    <2>2. Typed /\ VerdictsShared => ChallengeTries
      <3>1. \A c \in Challenges :
              /\ Cardinality(Answering(c)) \in Nat /\ Cardinality(Requests) \in Nat
              /\ Typed => verdicts[c] \in Nat
        BY Counted DEF Answering, Typed, TypeOK
      <3> QED
        BY <3>1 DEF VerdictsShared, ChallengeTries
    <2> QED
      BY <2>1, <2>2 DEF SignInInv, BothFactors
  <1> QED
    BY <1>1, SignInInvHolds, PTL

\* handleTOTPSetup, handleTOTPVerify and handleTOTPDelete leave the rows of
\* the second factor as the user set them up: what is enabled was confirmed,
\* and an enrolment that was acknowledged is in force with all its codes and
\* no others, unless requests overlapped or codes could not be dropped.
THEOREM FactorAsSetUpHolds == Spec => []FactorAsSetUp
  <1>1. SignInInv => FactorAsSetUp
    <2> SUFFICES ASSUME SignInInv PROVE AcknowledgedEnrolment
      BY DEF SignInInv, Typed, FactorAsSetUp
    <2> SUFFICES ASSUME promised, ~raced
                 PROVE  /\ enabled
                        /\ \A c \in Codes : IF c[1] = secret THEN codes[c] # "none"
                                            ELSE leftover \/ codes[c] = "none"
      BY DEF AcknowledgedEnrolment
    <2>1. enabled /\ secret \in shown
      BY DEF SignInInv, Orderly, PromiseKept
    <2>2. \A m \in 1..CodeCount : codes[<<secret, m>>] # "none"
      BY <2>1 DEF SignInInv, Orderly, CodesOfSecret
    <2>3. ~\E r \in Requests : pc[r] = "dropCodes"
      <3>1. secret # 0
        BY <2>1, BoundsTyped DEF SignInInv, Typed, TypeOK
      <3> QED
        BY <3>1 DEF SignInInv, Orderly, EnrolmentKept, FindsItsRows
    <2>4. ASSUME NEW c \in Codes, c[1] = secret PROVE codes[c] # "none"
      <3>1. c = <<secret, c[2]>> /\ c[2] \in 1..CodeCount
        BY <2>4 DEF Codes
      <3> QED
        BY <2>2, <3>1
    <2> QED
      BY <2>1, <2>3, <2>4 DEF SignInInv, Orderly, CodesOfSecret
  <1> QED
    BY <1>1, SignInInvHolds, PTL
-----------------------------------------------------------------------------
(* The command line client.  Invocations share one file that each replaces: *)
(* what one of them holds in memory, what it read and what it writes over   *)
(* say what the file may become.                                            *)

ClientStages == {"idle", "prompt", "login", "factor", "logout", "setup", "save", "write"}
Saving == {"save", "write"}

ClientTypes ==
  /\ profile \in Profiles \cup {None, Torn}
  /\ stage \in [Commands -> ClientStages]
  /\ op \in [Commands -> {"none", "login", "logout", "setup"}]
  /\ base \in [Commands -> Profiles] /\ held \in [Commands -> Profiles]
  /\ issuer \in [Sessions -> Endpoints \cup {None}]
  /\ live \in SUBSET Issued /\ abandoned \in SUBSET live
  /\ left \in SUBSET (Issued \cup {0})
  /\ overlap \in BOOLEAN /\ rebased \in BOOLEAN /\ tokened \in BOOLEAN

\* Both credentials of a profile are of one session that was issued, or none;
\* the end of another's profile may add an access token alone.
Paired(p) ==
  /\ p.cookie \in Issued \cup {0}
  /\ p.access = p.cookie \/ (overlap /\ p.cookie = 0)

\* The session of a profile is of the server it names.
OfServer(p) == p.cookie # 0 => rebased \/ issuer[p.cookie] = p.api

FileInv ==
  /\ Whole => Paired(profile) /\ OfServer(profile) /\ profile.api # None
  /\ profile = Torn => overlap

\* A session that nobody has read yet: only c holds it.
Fresh(c) ==
  /\ held[c].cookie \in Issued \ left
  /\ Whole => profile.cookie # held[c].cookie
  /\ \A d \in Commands : base[d].cookie # held[c].cookie
  /\ \A d \in Commands \ {c} : held[d].cookie # held[c].cookie

Invocation(c) ==
  /\ op[c] = "none" <=> stage[c] = "idle"
  /\ Paired(base[c]) /\ Paired(held[c])
  /\ base[c].token => held[c].token
  /\ stage[c] # "idle" => held[c].api # None
  /\ stage[c] \in {"idle", "prompt"} => base[c] = Blank
  /\ stage[c] \in {"prompt", "login", "factor"} => op[c] = "login"
  /\ stage[c] = "logout" => op[c] = "logout" /\ held[c].cookie = base[c].cookie
  /\ stage[c] = "setup" => op[c] = "setup"
  /\ op[c] = "setup" => held[c].cookie = base[c].cookie /\ OfServer(held[c])
  /\ stage[c] \in Saving => OfServer(held[c])
  /\ op[c] = "logout" /\ stage[c] \in Saving =>
       held[c].cookie = 0 /\ base[c].cookie \notin live \ abandoned
  /\ op[c] = "login" /\ stage[c] \in Saving => Fresh(c)

WriterInv ==
  ~overlap =>
    \A c \in Commands : stage[c] = "write" =>
      /\ profile = None
      /\ \A d \in Commands : stage[d] = "write" => d = c
      /\ op[c] = "setup" => held[c].cookie \notin left \ {0}

TokenInv ==
  tokened /\ ~overlap =>
    \/ Whole /\ profile.token
    \/ \E c \in Commands : stage[c] = "write" /\ held[c].token

InvocationsInv == \A c \in Commands : Invocation(c)

\* What may lie behind a profile in the file was written by others.
BehindInv ==
  /\ behind \in SUBSET Profiles
  /\ \A p \in behind :
       /\ Paired(p) /\ OfServer(p)
       /\ \A c \in Commands :
            op[c] = "login" /\ stage[c] \in Saving => held[c].cookie # p.cookie

ClientInv ==
  /\ ClientTypes /\ FileInv /\ InvocationsInv /\ WriterInv /\ TokenInv
  /\ SessionsAccounted /\ LeftStaysLeft

LEMMA BlankProfile ==
  /\ Blank \in Profiles /\ Blank.api = None /\ Blank.cookie = 0 /\ Blank.access = 0
  /\ Blank.token = FALSE
<1>1. 0 \in 0..MaxSessions
  BY ClientAssumption
<1> QED BY <1>1 DEF Blank, Profiles

LEMMA SessionRange ==
  /\ 0 \in 0..MaxSessions /\ 0 \notin Sessions
  /\ \A n \in Sessions : n \in 0..MaxSessions /\ n # 0
  /\ \A n \in 0..MaxSessions : n \in Nat
BY ClientAssumption DEF Sessions

\* A profile is neither a missing nor a torn file.
LEMMA ProfileIsWhole ==
  ASSUME NEW p \in Profiles
  PROVE  p # None /\ p # Torn
<1>1. p \in [api : Endpoints \cup {None}, cookie : Nat, access : Nat, token : BOOLEAN]
  BY SessionRange DEF Profiles
<1> QED BY <1>1, ClientAssumption

LEMMA ApiEdit ==
  ASSUME NEW p \in Profiles, NEW a \in Endpoints \cup {None}
  PROVE  LET q == [p EXCEPT !.api = a] IN
         /\ q \in Profiles /\ q.api = a /\ q.cookie = p.cookie /\ q.access = p.access
         /\ q.token = p.token
BY DEF Profiles

LEMMA SignedInEdit ==
  ASSUME NEW p \in Profiles, NEW n \in 0..MaxSessions
  PROVE  /\ SignedIn(p, n) \in Profiles /\ SignedIn(p, n).api = p.api
         /\ SignedIn(p, n).cookie = n /\ SignedIn(p, n).access = n
         /\ SignedIn(p, n).token = p.token
BY DEF Profiles, SignedIn

LEMMA ClearedEdit ==
  ASSUME NEW p \in Profiles
  PROVE  /\ Cleared(p) \in Profiles /\ Cleared(p).api = p.api
         /\ Cleared(p).cookie = 0 /\ Cleared(p).access = 0
         /\ Cleared(p).token = p.token
BY SessionRange DEF Profiles, Cleared

\* The environment changes the endpoint, adds a token, and nothing else.
LEMMA EnvironmentEdit ==
  ASSUME NEW p \in Profiles, NEW q \in applyEnv(p)
  PROVE  /\ q \in Profiles /\ q.cookie = p.cookie /\ q.access = p.access
         /\ p.token => q.token
<1>1. PICK e \in (Endpoints \cup {None}) \X BOOLEAN :
        q = [p EXCEPT !.api = IF e[1] = None THEN @ ELSE e[1], !.token = @ \/ e[2]]
  BY DEF applyEnv
<1>2. PICK a : a = IF e[1] = None THEN p.api ELSE e[1]
  OBVIOUS
<1>3. PICK t : t = (p.token \/ e[2])
  OBVIOUS
<1>4. a \in Endpoints \cup {None}
  BY <1>2 DEF Profiles
<1>5. t \in BOOLEAN /\ (p.token => t)
  BY <1>3
<1>6. q = [p EXCEPT !.api = a, !.token = t]
  BY <1>1, <1>2, <1>3
<1> QED BY <1>4, <1>5, <1>6 DEF Profiles

LEMMA StoredProfile ==
  ASSUME ClientTypes, FileInv, profile # Torn
  PROVE  /\ Stored \in Profiles /\ Paired(Stored) /\ OfServer(Stored)
         /\ Stored.cookie # 0 => Whole /\ profile = Stored
<1>1. CASE profile = None
  BY <1>1, BlankProfile DEF Stored, Paired, OfServer
<1>2. CASE profile # None
  BY <1>2 DEF Stored, ClientTypes, FileInv, Whole
<1> QED BY <1>1, <1>2

LEMMA LoadedProfile ==
  ASSUME ClientTypes, FileInv, NEW q \in Load
  PROVE  /\ profile # Torn /\ q \in Profiles
         /\ q.cookie = Stored.cookie /\ q.access = Stored.access
         /\ Stored.token => q.token
<1>1. profile # Torn /\ q \in applyEnv(Stored)
  BY DEF Load
<1>2. Stored \in Profiles
  BY <1>1, StoredProfile
<1> QED BY <1>1, <1>2, EnvironmentEdit

LEMMA TargetIsEndpoint ==
  ASSUME ClientTypes, FileInv, NEW a \in Target
  PROVE  a \in Endpoints /\ a # None
<1>1. CASE a \in Endpoints
  BY <1>1, ClientAssumption
<1>2. CASE a \in {p.api : p \in Load} \ {None}
  <2>1. PICK p \in Load : a = p.api /\ a # None
    BY <1>2
  <2>2. p \in Profiles
    BY LoadedProfile
  <2> QED BY <2>1, <2>2 DEF Profiles
<1> QED BY <1>1, <1>2 DEF Target

-----------------------------------------------------------------------------
(* What the other invocations keep.                                        *)
LEMMA FreshFrame ==
  ASSUME NEW c \in Commands, NEW d \in Commands \ {c}, Fresh(d), Issued \in SUBSET Issued',
         \A e \in Commands \ {c} : base'[e] = base[e] /\ held'[e] = held[e],
         held[d].cookie \notin left', Whole' => profile'.cookie # held[d].cookie,
         base'[c].cookie # held[d].cookie, held'[c].cookie # held[d].cookie
  PROVE  Fresh(d)'
<1>1. held'[d] = held[d]
  OBVIOUS
<1>2. held'[d].cookie \in (Issued \ left)'
  BY <1>1 DEF Fresh
<1>3. \A e \in Commands : base'[e].cookie # held'[d].cookie
  BY <1>1 DEF Fresh
<1>4. \A e \in Commands \ {d} : held'[e].cookie # held'[d].cookie
  BY <1>1 DEF Fresh
<1> QED BY <1>1, <1>2, <1>3, <1>4 DEF Fresh

LEMMA OthersFrame ==
  ASSUME NEW d \in Commands, Invocation(d), Issued \in SUBSET Issued',
         \A n \in Issued : issuer'[n] = issuer[n], rebased => rebased', overlap => overlap',
         \A n \in Issued \cup {0} : n \in (live \ abandoned)' => n \in live \ abandoned,
         stage'[d] = stage[d], op'[d] = op[d], base'[d] = base[d], held'[d] = held[d],
         op[d] = "login" /\ stage[d] \in Saving => Fresh(d)'
  PROVE  Invocation(d)'
<1>1. Paired(base[d])' /\ Paired(held[d])'
  BY DEF Invocation, Paired
<1>2. OfServer(held[d]) => OfServer(held[d])'
  <2>1. held[d].cookie \in Issued \cup {0}
    BY DEF Invocation, Paired
  <2> QED BY <2>1 DEF OfServer
<1>3. op[d] = "logout" /\ stage[d] \in Saving => base[d].cookie \notin (live \ abandoned)'
  BY DEF Invocation, Paired
<1>4. /\ op'[d] = "none" <=> stage'[d] = "idle"
      /\ base'[d].token => held'[d].token
      /\ stage'[d] # "idle" => held'[d].api # None
      /\ stage'[d] \in {"idle", "prompt"} => base'[d] = Blank
      /\ stage'[d] \in {"prompt", "login", "factor"} => op'[d] = "login"
      /\ stage'[d] = "logout" => op'[d] = "logout" /\ held'[d].cookie = base'[d].cookie
      /\ stage'[d] = "setup" => op'[d] = "setup"
      /\ op'[d] = "setup" => held'[d].cookie = base'[d].cookie
      /\ op'[d] = "logout" /\ stage'[d] \in Saving => held'[d].cookie = 0
  BY DEF Invocation
<1>5. /\ op'[d] = "setup" => OfServer(held[d])'
      /\ stage'[d] \in Saving => OfServer(held[d])'
  BY <1>2 DEF Invocation
<1> QED BY <1>1, <1>3, <1>4, <1>5 DEF Invocation

LEMMA IdleInvocation ==
  ASSUME NEW c \in Commands, stage[c] = "idle", op[c] = "none", base[c] = Blank, held[c] = Blank
  PROVE  Invocation(c)
<1>1. Paired(base[c]) /\ Paired(held[c])
  BY BlankProfile DEF Paired
<1>2. base[c].token => held[c].token
  OBVIOUS
<1> QED BY <1>1, <1>2 DEF Invocation, Saving

LEMMA ClientInitInv ==
  ASSUME ClientInit
  PROVE  ClientInv
<1>1. ClientTypes
  <2>1. Issued = {}
    BY DEF ClientInit, Issued
  <2> QED BY <2>1, BlankProfile DEF ClientInit, ClientTypes, ClientStages
<1>2. InvocationsInv
  <2>1. \A c \in Commands : stage[c] = "idle" /\ op[c] = "none" /\ base[c] = Blank /\ held[c] = Blank
    BY DEF ClientInit
  <2> QED BY <2>1, IdleInvocation DEF InvocationsInv
<1>3. FileInv
  BY ClientAssumption DEF ClientInit, FileInv, Whole
<1>4. WriterInv /\ TokenInv /\ SessionsAccounted /\ LeftStaysLeft
  BY DEF ClientInit, WriterInv, TokenInv, SessionsAccounted, LeftStaysLeft
<1> QED BY <1>1, <1>2, <1>3, <1>4 DEF ClientInv

LEMMA ExitEffect ==
  ASSUME ClientTypes, NEW c \in Commands, Exit(c)
  PROVE  /\ stage'[c] = "idle" /\ op'[c] = "none" /\ base'[c] = Blank /\ held'[c] = Blank
         /\ \A d \in Commands \ {c} : /\ stage'[d] = stage[d] /\ op'[d] = op[d]
                                      /\ base'[d] = base[d] /\ held'[d] = held[d]
         /\ stage' \in [Commands -> ClientStages]
         /\ op' \in [Commands -> {"none", "login", "logout", "setup"}]
         /\ base' \in [Commands -> Profiles] /\ held' \in [Commands -> Profiles]
         /\ Invocation(c)'
<1>1. Blank \in Profiles /\ "idle" \in ClientStages
  BY BlankProfile DEF ClientStages
<1>2. stage'[c] = "idle" /\ op'[c] = "none" /\ base'[c] = Blank /\ held'[c] = Blank
  BY DEF Exit, ClientTypes
<1>3. Invocation(c)'
  <2>1. Paired(base[c])' /\ Paired(held[c])'
    BY <1>2, BlankProfile DEF Paired
  <2> QED BY <1>2, <2>1 DEF Invocation, Saving
<1> QED BY <1>1, <1>2, <1>3 DEF Exit, ClientTypes

\* The file, the servers and what is given up are left alone, and c only reads.
Untouched == UNCHANGED <<profile, behind, live, issuer, abandoned, left, overlap, tokened>>

LEMMA QuietStep ==
  ASSUME ClientInv, NEW c \in Commands, Untouched, rebased => rebased', rebased' \in BOOLEAN,
         stage' \in [Commands -> ClientStages],
         op' \in [Commands -> {"none", "login", "logout", "setup"}],
         base' \in [Commands -> Profiles], held' \in [Commands -> Profiles],
         \A d \in Commands \ {c} : /\ stage'[d] = stage[d] /\ op'[d] = op[d]
                                   /\ base'[d] = base[d] /\ held'[d] = held[d],
         stage[c] \notin Saving, stage'[c] # "write",
         \/ base'[c].cookie = 0 \/ base'[c].cookie = base[c].cookie
         \/ Whole /\ base'[c].cookie = profile.cookie,
         \/ held'[c].cookie = 0 \/ held'[c].cookie = held[c].cookie
         \/ Whole /\ held'[c].cookie = profile.cookie,
         Invocation(c)'
  PROVE  ClientInv'
<1>1. /\ ClientTypes /\ FileInv /\ InvocationsInv /\ WriterInv /\ TokenInv
      /\ SessionsAccounted /\ LeftStaysLeft
  BY DEF ClientInv
<1>2. Issued' = Issued /\ Whole' = Whole /\ Stored' = Stored
  BY DEF Issued, Whole, Stored, Untouched
<1>3. ClientTypes'
  BY <1>1, <1>2 DEF ClientTypes, Untouched
<1>4. FileInv'
  BY <1>1, <1>2 DEF FileInv, Paired, OfServer, Untouched
<1>5. InvocationsInv'
  <2>1. ASSUME NEW d \in Commands, d # c PROVE Invocation(d)'
    <3>1. Invocation(d)
      BY <1>1 DEF InvocationsInv
    <3>2. op[d] = "login" /\ stage[d] \in Saving => Fresh(d)'
      <4>1. SUFFICES ASSUME op[d] = "login", stage[d] \in Saving PROVE Fresh(d)'
        OBVIOUS
      <4>2. Fresh(d)
        BY <3>1, <4>1 DEF Invocation
      <4>3. held[d].cookie # 0
        BY <4>2, SessionRange DEF Fresh, Issued
      <4>4. base'[c].cookie # held[d].cookie /\ held'[c].cookie # held[d].cookie
        BY <2>1, <4>2, <4>3 DEF Fresh
      <4>5. held[d].cookie \notin left' /\ (Whole' => profile'.cookie # held[d].cookie)
        BY <1>2, <4>2 DEF Fresh, Untouched
      <4> QED BY <1>2, <2>1, <4>2, <4>4, <4>5, FreshFrame
    <3>3. /\ stage'[d] = stage[d] /\ op'[d] = op[d] /\ base'[d] = base[d] /\ held'[d] = held[d]
      BY <2>1
    <3>4. /\ \A n \in Issued : issuer'[n] = issuer[n]
          /\ \A n \in Issued \cup {0} : n \in (live \ abandoned)' => n \in live \ abandoned
          /\ overlap => overlap'
      BY DEF Untouched
    <3> QED BY <1>2, <3>1, <3>2, <3>3, <3>4, OthersFrame
  <2> QED BY <2>1 DEF InvocationsInv
<1>6. \A d \in Commands : stage'[d] = "write" => stage[d] = "write" /\ held'[d] = held[d] /\ op'[d] = op[d]
  OBVIOUS
<1>7. \A d \in Commands : stage[d] = "write" => stage'[d] = "write" /\ held'[d] = held[d]
  BY DEF Saving
<1>8. WriterInv'
  BY <1>1, <1>6 DEF WriterInv, Untouched
<1>9. TokenInv'
  BY <1>1, <1>2, <1>7 DEF TokenInv, Untouched
<1>10. SessionsAccounted'
  <2>1. \A d \in Commands, n \in live : Keeps(d, n) => Keeps(d, n)'
    BY DEF Keeps, Saving
  <2> QED BY <1>1, <1>2, <2>1 DEF SessionsAccounted, Untouched, ClientTypes
<1>11. LeftStaysLeft'
  BY <1>1, <1>2 DEF LeftStaysLeft, Untouched
<1> QED BY <1>3, <1>4, <1>5, <1>8, <1>9, <1>10, <1>11 DEF ClientInv

\* An invocation that only ends.
LEMMA QuietExit ==
  ASSUME ClientInv, NEW c \in Commands, Untouched, rebased' = rebased, stage[c] \notin Saving, Exit(c)
  PROVE  ClientInv'
<1>1. ClientTypes
  BY DEF ClientInv
<1>2. rebased' \in BOOLEAN
  BY <1>1 DEF ClientTypes
<1>3. base'[c].cookie = 0 /\ held'[c].cookie = 0
  BY <1>1, ExitEffect, BlankProfile
<1> QED BY <1>1, <1>2, <1>3, ExitEffect, QuietStep

LEMMA LoginCommandStep ==
  ASSUME ClientInv, NEW c \in Commands, LoginCommand(c)
  PROVE  ClientInv'
<1>1. ClientTypes /\ FileInv /\ Invocation(c)
  BY DEF ClientInv, InvocationsInv
<1>2. /\ stage[c] = "idle" /\ stage' = [stage EXCEPT ![c] = "prompt"]
      /\ op' = [op EXCEPT ![c] = "login"] /\ base' = base /\ rebased' = rebased
  BY DEF LoginCommand, Invoke, Proceed
<1>3. Untouched
  BY DEF LoginCommand, Untouched, server
<1>4. PICK a \in Target : held' = [held EXCEPT ![c] = [Blank EXCEPT !.api = a]]
  BY DEF LoginCommand
<1>5. a \in Endpoints /\ a # None
  BY <1>1, TargetIsEndpoint
<1>6. PICK q : q = [Blank EXCEPT !.api = a]
  OBVIOUS
<1>7. q \in Profiles /\ q.api = a /\ q.cookie = 0 /\ q.access = 0
  BY <1>5, <1>6, ApiEdit, BlankProfile
<1>8. stage'[c] = "prompt" /\ op'[c] = "login" /\ base'[c] = Blank /\ held'[c] = q
  BY <1>1, <1>2, <1>4, <1>6 DEF ClientTypes, Invocation
<1>9. Invocation(c)'
  <2>1. Paired(base[c])' /\ Paired(held[c])'
    BY <1>7, <1>8, BlankProfile DEF Paired
  <2>2. ~base'[c].token
    BY <1>8, BlankProfile
  <2> QED BY <1>5, <1>7, <1>8, <2>1, <2>2 DEF Invocation, Saving
<1>10. /\ stage' \in [Commands -> ClientStages]
       /\ op' \in [Commands -> {"none", "login", "logout", "setup"}]
       /\ base' \in [Commands -> Profiles] /\ held' \in [Commands -> Profiles]
       /\ rebased' \in BOOLEAN
  BY <1>1, <1>2, <1>4, <1>6, <1>7 DEF ClientTypes, ClientStages
<1>11. \A d \in Commands \ {c} : /\ stage'[d] = stage[d] /\ op'[d] = op[d]
                                 /\ base'[d] = base[d] /\ held'[d] = held[d]
  BY <1>1, <1>2, <1>4 DEF ClientTypes
<1>12. stage[c] \notin Saving /\ stage'[c] # "write" /\ base'[c].cookie = 0 /\ held'[c].cookie = 0
  BY <1>2, <1>7, <1>8, BlankProfile DEF Saving
<1> QED BY <1>2, <1>3, <1>9, <1>10, <1>11, <1>12, QuietStep

LEMMA LoginLoadStep ==
  ASSUME ClientInv, NEW c \in Commands, LoginLoad(c)
  PROVE  ClientInv'
<1>1. ClientTypes /\ FileInv /\ Invocation(c)
  BY DEF ClientInv, InvocationsInv
<1>2. stage[c] = "prompt" /\ Untouched /\ rebased' = rebased /\ stage[c] \notin Saving
  BY DEF LoginLoad, Untouched, server, clientHistory, Saving
<1>3. CASE Exit(c)
  BY <1>2, <1>3, QuietExit
<1>4. CASE \E p \in Load :
          /\ held' = [held EXCEPT ![c] = Reload(c, p)]
          /\ base' = [base EXCEPT ![c] = Stored]
          /\ Proceed(c, "login") /\ UNCHANGED op
  <2>1. PICK p \in Load :
          /\ held' = [held EXCEPT ![c] = Reload(c, p)]
          /\ base' = [base EXCEPT ![c] = Stored]
          /\ stage' = [stage EXCEPT ![c] = "login"] /\ op' = op
    BY <1>4 DEF Proceed
  <2>2. /\ profile # Torn /\ p \in Profiles
        /\ p.cookie = Stored.cookie /\ p.access = Stored.access
        /\ Stored.token => p.token
    BY <1>1, LoadedProfile
  <2>3. Stored \in Profiles /\ Paired(Stored) /\ (Stored.cookie # 0 => Whole /\ profile = Stored)
    BY <1>1, <2>2, StoredProfile
  <2>4. PICK a : a = held[c].api
    OBVIOUS
  <2>5. a \in Endpoints \cup {None} /\ a # None
    BY <1>1, <1>2, <2>4 DEF ClientTypes, Profiles, Invocation
  <2>6. PICK q : q = [p EXCEPT !.api = a]
    OBVIOUS
  <2>7. q \in Profiles /\ q.api = a /\ q.cookie = p.cookie /\ q.access = p.access /\ q.token = p.token
    BY <2>2, <2>5, <2>6, ApiEdit
  <2>8. held' = [held EXCEPT ![c] = q]
    BY <2>1, <2>4, <2>6 DEF Reload
  <2>9. stage'[c] = "login" /\ op'[c] = "login" /\ base'[c] = Stored /\ held'[c] = q
    BY <1>1, <1>2, <2>1, <2>8 DEF ClientTypes, Invocation
  <2>10. Issued' = Issued
    BY <1>2 DEF Issued, Untouched
  <2>11. Invocation(c)'
    <3>1. Paired(base[c])' /\ Paired(held[c])'
      BY <1>2, <2>2, <2>3, <2>7, <2>9, <2>10 DEF Paired, Untouched
    <3> QED BY <2>2, <2>5, <2>7, <2>9, <3>1 DEF Invocation, Saving
  <2>12. /\ stage' \in [Commands -> ClientStages]
         /\ op' \in [Commands -> {"none", "login", "logout", "setup"}]
         /\ base' \in [Commands -> Profiles] /\ held' \in [Commands -> Profiles]
         /\ rebased' \in BOOLEAN
    BY <1>1, <1>2, <2>1, <2>3, <2>7, <2>8 DEF ClientTypes, ClientStages
  <2>13. \A d \in Commands \ {c} : /\ stage'[d] = stage[d] /\ op'[d] = op[d]
                                   /\ base'[d] = base[d] /\ held'[d] = held[d]
    BY <1>1, <2>1, <2>8 DEF ClientTypes
  <2>14. /\ stage'[c] # "write"
         /\ base'[c].cookie = 0 \/ (Whole /\ base'[c].cookie = profile.cookie)
         /\ held'[c].cookie = 0 \/ (Whole /\ held'[c].cookie = profile.cookie)
    BY <2>2, <2>3, <2>7, <2>9
  <2> QED BY <1>2, <2>11, <2>12, <2>13, <2>14, QuietStep
<1> QED BY <1>3, <1>4 DEF LoginLoad

LEMMA LogoutStep ==
  ASSUME ClientInv, NEW c \in Commands, Logout(c)
  PROVE  ClientInv'
<1>1. ClientTypes /\ FileInv /\ Invocation(c)
  BY DEF ClientInv, InvocationsInv
<1>2. /\ stage[c] = "idle" /\ stage' = [stage EXCEPT ![c] = "logout"]
      /\ op' = [op EXCEPT ![c] = "logout"] /\ base' = [base EXCEPT ![c] = Stored] /\ rebased' = rebased
  BY DEF Logout, Invoke, Proceed
<1>3. Untouched
  BY DEF Logout, Untouched, server
<1>4. PICK p \in Load : p.api # None /\ held' = [held EXCEPT ![c] = p]
  BY DEF Logout
<1>5. /\ profile # Torn /\ p \in Profiles
      /\ p.cookie = Stored.cookie /\ p.access = Stored.access
      /\ Stored.token => p.token
  BY <1>1, LoadedProfile
<1>6. Stored \in Profiles /\ Paired(Stored) /\ (Stored.cookie # 0 => Whole /\ profile = Stored)
  BY <1>1, <1>5, StoredProfile
<1>7. stage'[c] = "logout" /\ op'[c] = "logout" /\ base'[c] = Stored /\ held'[c] = p
  BY <1>1, <1>2, <1>4 DEF ClientTypes
<1>8. Issued' = Issued
  BY <1>3 DEF Issued, Untouched
<1>9. Invocation(c)'
  <2>1. Paired(base[c])' /\ Paired(held[c])'
    BY <1>3, <1>5, <1>6, <1>7, <1>8 DEF Paired, Untouched
  <2> QED BY <1>4, <1>5, <1>7, <2>1 DEF Invocation, Saving
<1>10. /\ stage' \in [Commands -> ClientStages]
       /\ op' \in [Commands -> {"none", "login", "logout", "setup"}]
       /\ base' \in [Commands -> Profiles] /\ held' \in [Commands -> Profiles]
       /\ rebased' \in BOOLEAN
  BY <1>1, <1>2, <1>4, <1>5, <1>6 DEF ClientTypes, ClientStages
<1>11. \A d \in Commands \ {c} : /\ stage'[d] = stage[d] /\ op'[d] = op[d]
                                 /\ base'[d] = base[d] /\ held'[d] = held[d]
  BY <1>1, <1>2, <1>4 DEF ClientTypes
<1>12. /\ stage[c] \notin Saving /\ stage'[c] # "write"
       /\ base'[c].cookie = 0 \/ (Whole /\ base'[c].cookie = profile.cookie)
       /\ held'[c].cookie = 0 \/ (Whole /\ held'[c].cookie = profile.cookie)
  BY <1>2, <1>5, <1>6, <1>7 DEF Saving
<1> QED BY <1>2, <1>3, <1>9, <1>10, <1>11, <1>12, QuietStep

LEMMA SetupStep ==
  ASSUME ClientInv, NEW c \in Commands, Setup(c)
  PROVE  ClientInv'
<1>1. ClientTypes /\ FileInv /\ Invocation(c)
  BY DEF ClientInv, InvocationsInv
<1>2. /\ stage[c] = "idle" /\ stage' = [stage EXCEPT ![c] = "setup"]
      /\ op' = [op EXCEPT ![c] = "setup"]
  BY DEF Setup, Invoke, Proceed
<1>3. Untouched
  BY DEF Setup, Untouched, server
<1>4. PICK p \in Load, a \in Target :
       /\ held' = [held EXCEPT ![c] = [p EXCEPT !.api = a]]
       /\ base' = [base EXCEPT ![c] = Stored]
       /\ rebased' = (rebased \/ (p.cookie # 0 /\ Stored.api # a))
  BY DEF Setup
<1>5. /\ profile # Torn /\ p \in Profiles
      /\ p.cookie = Stored.cookie /\ p.access = Stored.access
      /\ Stored.token => p.token
  BY <1>1, LoadedProfile
<1>6. /\ Stored \in Profiles /\ Paired(Stored) /\ OfServer(Stored)
      /\ Stored.cookie # 0 => Whole /\ profile = Stored
  BY <1>1, <1>5, StoredProfile
<1>7. a \in Endpoints /\ a # None
  BY <1>1, TargetIsEndpoint
<1>8. PICK q : q = [p EXCEPT !.api = a]
  OBVIOUS
<1>9. q \in Profiles /\ q.api = a /\ q.cookie = p.cookie /\ q.access = p.access /\ q.token = p.token
  BY <1>5, <1>7, <1>8, ApiEdit
<1>10. held' = [held EXCEPT ![c] = q]
  BY <1>4, <1>8
<1>11. stage'[c] = "setup" /\ op'[c] = "setup" /\ base'[c] = Stored /\ held'[c] = q
  BY <1>1, <1>2, <1>4, <1>10 DEF ClientTypes
<1>12. Issued' = Issued
  BY <1>3 DEF Issued, Untouched
<1>13. Invocation(c)'
  <2>1. Paired(base[c])' /\ Paired(held[c])'
    BY <1>3, <1>5, <1>6, <1>9, <1>11, <1>12 DEF Paired, Untouched
  <2>2. OfServer(held[c])'
    <3>1. held'[c].cookie = Stored.cookie /\ held'[c].api = a
      BY <1>5, <1>9, <1>11
    <3>2. Stored.cookie # 0 => rebased' \/ issuer[Stored.cookie] = a
      BY <1>4, <1>5, <1>6 DEF OfServer
    <3>3. issuer' = issuer
      BY <1>3 DEF Untouched
    <3> QED BY <3>1, <3>2, <3>3 DEF OfServer
  <2> QED BY <1>5, <1>7, <1>9, <1>11, <2>1, <2>2 DEF Invocation, Saving
<1>14. /\ stage' \in [Commands -> ClientStages]
       /\ op' \in [Commands -> {"none", "login", "logout", "setup"}]
       /\ base' \in [Commands -> Profiles] /\ held' \in [Commands -> Profiles]
  BY <1>1, <1>2, <1>4, <1>6, <1>9, <1>10 DEF ClientTypes, ClientStages
<1>15. \A d \in Commands \ {c} : /\ stage'[d] = stage[d] /\ op'[d] = op[d]
                                 /\ base'[d] = base[d] /\ held'[d] = held[d]
  BY <1>1, <1>2, <1>4 DEF ClientTypes
<1>16. /\ stage[c] \notin Saving /\ stage'[c] # "write"
       /\ base'[c].cookie = 0 \/ (Whole /\ base'[c].cookie = profile.cookie)
       /\ held'[c].cookie = 0 \/ (Whole /\ held'[c].cookie = profile.cookie)
  BY <1>2, <1>5, <1>6, <1>9, <1>11 DEF Saving
<1>17. (rebased => rebased') /\ rebased' \in BOOLEAN
  BY <1>4
<1> QED BY <1>3, <1>13, <1>14, <1>15, <1>16, <1>17, QuietStep

LEMMA SetupRequestStep ==
  ASSUME ClientInv, NEW c \in Commands, SetupRequest(c)
  PROVE  ClientInv'
<1>1. ClientTypes /\ Invocation(c)
  BY DEF ClientInv, InvocationsInv
<1>2. stage[c] = "setup" /\ Untouched /\ rebased' = rebased /\ stage[c] \notin Saving
  BY DEF SetupRequest, Untouched, server, clientHistory, Saving
<1>3. CASE Exit(c)
  BY <1>2, <1>3, QuietExit
<1>4. CASE Proceed(c, "save") /\ UNCHANGED <<op, base, held>>
  <2>1. stage' = [stage EXCEPT ![c] = "save"] /\ stage'[c] = "save" /\ op[c] = "setup"
    BY <1>1, <1>2, <1>4 DEF Proceed, ClientTypes, Invocation
  <2>2. /\ stage' \in [Commands -> ClientStages]
        /\ op' \in [Commands -> {"none", "login", "logout", "setup"}]
        /\ base' \in [Commands -> Profiles] /\ held' \in [Commands -> Profiles]
        /\ rebased' \in BOOLEAN
    BY <1>1, <1>2, <1>4, <2>1 DEF ClientTypes, ClientStages
  <2>3. \A d \in Commands \ {c} : /\ stage'[d] = stage[d] /\ op'[d] = op[d]
                                  /\ base'[d] = base[d] /\ held'[d] = held[d]
    BY <1>1, <1>4, <2>1 DEF ClientTypes
  <2>4. Invocation(c)'
    <3>1. Issued' = Issued /\ issuer' = issuer
      BY <1>2 DEF Issued, Untouched
    <3>2. Paired(base[c])' /\ Paired(held[c])' /\ OfServer(held[c])'
      BY <1>1, <1>2, <1>4, <2>1, <3>1 DEF Paired, OfServer, Invocation, Untouched
    <3> QED BY <1>1, <1>2, <1>4, <2>1, <3>2 DEF Invocation, Saving
  <2> QED BY <1>2, <1>4, <2>1, <2>2, <2>3, <2>4, QuietStep
<1> QED BY <1>3, <1>4 DEF SetupRequest

-----------------------------------------------------------------------------
(* Requests to the servers.                                                *)
LEMMA OthersStep ==
  ASSUME InvocationsInv, NEW c \in Commands, Issued \in SUBSET Issued',
         \A n \in Issued : issuer'[n] = issuer[n], rebased => rebased', overlap => overlap',
         \A n \in Issued \cup {0} : n \in (live \ abandoned)' => n \in live \ abandoned,
         \A d \in Commands \ {c} : /\ stage'[d] = stage[d] /\ op'[d] = op[d]
                                   /\ base'[d] = base[d] /\ held'[d] = held[d],
         \A d \in Commands \ {c} : op[d] = "login" /\ stage[d] \in Saving /\ Fresh(d) =>
           /\ held[d].cookie \notin left' /\ (Whole' => profile'.cookie # held[d].cookie)
           /\ base'[c].cookie # held[d].cookie /\ held'[c].cookie # held[d].cookie
  PROVE  \A d \in Commands \ {c} : Invocation(d)'
<1>1. ASSUME NEW d \in Commands \ {c} PROVE Invocation(d)'
  <2>1. Invocation(d)
    BY DEF InvocationsInv
  <2>2. op[d] = "login" /\ stage[d] \in Saving => Fresh(d)'
    <3>1. SUFFICES ASSUME op[d] = "login", stage[d] \in Saving, Fresh(d) PROVE Fresh(d)'
      BY <2>1 DEF Invocation
    <3>2. \A e \in Commands \ {c} : base'[e] = base[e] /\ held'[e] = held[e]
      OBVIOUS
    <3> QED BY <3>1, <3>2, FreshFrame
  <2>3. stage'[d] = stage[d] /\ op'[d] = op[d] /\ base'[d] = base[d] /\ held'[d] = held[d]
    OBVIOUS
  <2> QED BY <2>1, <2>2, <2>3, OthersFrame
<1> QED BY <1>1

\* Where nothing new is read, what is fresh stays so.
LEMMA NothingRead ==
  ASSUME NEW c \in Commands, NEW d \in Commands \ {c}, Fresh(d),
         left' = left, profile' = profile \/ profile' = None,
         base'[c].cookie = 0 \/ base'[c].cookie = base[c].cookie,
         held'[c].cookie = 0 \/ held'[c].cookie = held[c].cookie
  PROVE  /\ held[d].cookie \notin left' /\ (Whole' => profile'.cookie # held[d].cookie)
         /\ base'[c].cookie # held[d].cookie /\ held'[c].cookie # held[d].cookie
<1>1. held[d].cookie # 0
  BY SessionRange DEF Fresh, Issued
<1>2. base[c].cookie # held[d].cookie /\ held[c].cookie # held[d].cookie
  BY DEF Fresh
<1>3. Whole' => Whole /\ profile' = profile
  BY DEF Whole
<1> QED BY <1>1, <1>2, <1>3 DEF Fresh

LEMMA ObtainSessionStep ==
  ASSUME ClientInv, NEW c \in Commands, stage[c] \in {"login", "factor"}, ObtainSession(c),
         UNCHANGED <<profile, behind, left, overlap, rebased, tokened>>
  PROVE  ClientInv'
<1>1. /\ ClientTypes /\ FileInv /\ InvocationsInv /\ WriterInv /\ TokenInv
      /\ SessionsAccounted /\ LeftStaysLeft /\ Invocation(c)
  BY DEF ClientInv, InvocationsInv
<1>2. PICK n : n = NextSession
  OBVIOUS
<1>3. n \in Sessions /\ n \notin Issued /\ n # 0
  <2>1. Sessions # Issued /\ Issued \in SUBSET Sessions
    BY DEF ObtainSession, Issued
  <2>2. n \in Sessions \ Issued
    BY <1>2, <2>1 DEF NextSession
  <2> QED BY <2>2, SessionRange
<1>4. PICK a : a = held[c].api
  OBVIOUS
<1>5. a \in Endpoints /\ a # None /\ op[c] = "login" /\ stage[c] \notin Saving /\ held[c] \in Profiles
  <2>1. a # None /\ op[c] = "login"
    BY <1>1, <1>4 DEF Invocation
  <2>2. a \in Endpoints \cup {None} /\ held[c] \in Profiles
    BY <1>1, <1>4 DEF ClientTypes, Profiles
  <2> QED BY <2>1, <2>2 DEF Saving
<1>6. live' = live \cup {n} /\ issuer' = [issuer EXCEPT ![n] = a]
  BY <1>2, <1>4 DEF ObtainSession
<1>7. \/ /\ held' = [held EXCEPT ![c] = SignedIn(held[c], n)]
         /\ stage' = [stage EXCEPT ![c] = "save"] /\ UNCHANGED <<op, base, abandoned>>
      \/ Exit(c) /\ abandoned' = abandoned \cup {n}
  BY <1>1, <1>2 DEF ObtainSession, Proceed, ClientTypes
<1>8. Issued' = Issued \cup {n} /\ (\A m \in Issued : issuer'[m] = issuer[m]) /\ issuer'[n] = a
  BY <1>1, <1>3, <1>5, <1>6 DEF Issued, ClientTypes
<1>9. Whole' = Whole /\ Stored' = Stored
  BY DEF Whole, Stored
<1>10. PICK q : q = SignedIn(held[c], n)
  OBVIOUS
<1>11. q \in Profiles /\ q.api = a /\ q.cookie = n /\ q.access = n /\ q.token = held[c].token
  BY <1>3, <1>4, <1>5, <1>10, SignedInEdit, SessionRange
<1>12. \/ /\ held'[c] = q /\ stage'[c] = "save" /\ op'[c] = "login" /\ base'[c] = base[c]
          /\ abandoned' = abandoned
       \/ /\ held'[c] = Blank /\ stage'[c] = "idle" /\ base'[c] = Blank
          /\ abandoned' = abandoned \cup {n} /\ Invocation(c)'
  BY <1>1, <1>5, <1>7, <1>10, ExitEffect DEF ClientTypes
<1>13. \A d \in Commands \ {c} : /\ stage'[d] = stage[d] /\ op'[d] = op[d]
                                 /\ base'[d] = base[d] /\ held'[d] = held[d]
  BY <1>1, <1>7, ExitEffect DEF ClientTypes
<1>14. /\ stage' \in [Commands -> ClientStages]
       /\ op' \in [Commands -> {"none", "login", "logout", "setup"}]
       /\ base' \in [Commands -> Profiles] /\ held' \in [Commands -> Profiles]
  <2>1. CASE Exit(c)
    BY <1>1, <2>1, ExitEffect
  <2>2. CASE /\ held' = [held EXCEPT ![c] = SignedIn(held[c], n)]
             /\ stage' = [stage EXCEPT ![c] = "save"] /\ UNCHANGED <<op, base>>
    BY <1>1, <1>10, <1>11, <2>2 DEF ClientTypes, ClientStages
  <2> QED BY <1>7, <2>1, <2>2
<1>15. ClientTypes'
  <2>1. issuer' \in [Sessions -> Endpoints \cup {None}]
    BY <1>1, <1>5, <1>6 DEF ClientTypes
  <2>2. live' \in SUBSET Issued' /\ abandoned' \in SUBSET live'
    BY <1>1, <1>6, <1>8, <1>12 DEF ClientTypes
  <2>3. left' \in SUBSET (Issued' \cup {0})
    BY <1>1, <1>8 DEF ClientTypes
  <2>4. profile' \in Profiles \cup {None, Torn} /\ overlap' \in BOOLEAN
        /\ rebased' \in BOOLEAN /\ tokened' \in BOOLEAN
    BY <1>1 DEF ClientTypes
  <2> QED BY <1>14, <2>1, <2>2, <2>3, <2>4 DEF ClientTypes
<1>16. FileInv'
  <2>1. Whole => Paired(profile)' /\ OfServer(profile)'
    BY <1>1, <1>8 DEF FileInv, Paired, OfServer
  <2> QED BY <1>1, <1>9, <2>1 DEF FileInv
<1>17. \A d \in Commands : /\ base[d].cookie \in Issued \cup {0}
                           /\ held[d].cookie \in Issued \cup {0}
  BY <1>1 DEF InvocationsInv, Invocation, Paired
<1>18. \A d \in Commands \ {c} : Invocation(d)'
  <2>1. \A d \in Commands \ {c} : Fresh(d) =>
           /\ held[d].cookie \notin left' /\ (Whole' => profile'.cookie # held[d].cookie)
           /\ base'[c].cookie # held[d].cookie /\ held'[c].cookie # held[d].cookie
    <3>1. SUFFICES ASSUME NEW d \in Commands \ {c}, Fresh(d)
                   PROVE  /\ held[d].cookie \notin left' /\ (Whole' => profile'.cookie # held[d].cookie)
                          /\ base'[c].cookie # held[d].cookie /\ held'[c].cookie # held[d].cookie
      OBVIOUS
    <3>2. held[d].cookie \in Issued /\ held[d].cookie # 0 /\ held[d].cookie # n
      BY <1>3, <3>1, SessionRange DEF Fresh, Issued
    <3> QED BY <1>9, <1>11, <1>12, <3>1, <3>2, BlankProfile DEF Fresh
  <2>2. \A m \in Issued \cup {0} : m \in (live \ abandoned)' => m \in live \ abandoned
    BY <1>3, <1>6, <1>12
  <2>3. Issued \in SUBSET Issued'
    BY <1>8
  <2> QED BY <1>1, <1>8, <1>13, <2>1, <2>2, <2>3, OthersStep
<1>19. Invocation(c)'
  <2>1. SUFFICES ASSUME held'[c] = q, stage'[c] = "save", op'[c] = "login", base'[c] = base[c]
                 PROVE  Invocation(c)'
    BY <1>12
  <2>2. Paired(base[c])' /\ Paired(held[c])'
    BY <1>8, <1>11, <1>17, <2>1, <1>1 DEF Paired, Invocation
  <2>3. OfServer(held[c])'
    BY <1>8, <1>11, <2>1 DEF OfServer
  <2>4. Fresh(c)'
    <3>1. n \in Issued' /\ n \notin left'
      BY <1>1, <1>3, <1>8 DEF ClientTypes
    <3>2. Whole' => profile'.cookie # n
      BY <1>1, <1>3, <1>9 DEF FileInv, Paired
    <3>3. \A d \in Commands : base'[d].cookie # n
      BY <1>3, <1>13, <1>17, <2>1
    <3>4. \A d \in Commands \ {c} : held'[d].cookie # n
      BY <1>3, <1>13, <1>17
    <3> QED BY <1>11, <2>1, <3>1, <3>2, <3>3, <3>4 DEF Fresh
  <2> QED BY <1>1, <1>5, <1>11, <2>1, <2>2, <2>3, <2>4 DEF Invocation, Saving
<1>20. InvocationsInv'
  BY <1>18, <1>19 DEF InvocationsInv
<1>21. \A d \in Commands : (stage'[d] = "write" <=> stage[d] = "write")
                           /\ (stage[d] = "write" => held'[d] = held[d] /\ op'[d] = op[d])
  BY <1>5, <1>12, <1>13 DEF Saving
<1>22. WriterInv' /\ TokenInv'
  BY <1>1, <1>9, <1>21 DEF WriterInv, TokenInv
<1>23. SessionsAccounted'
  <2>1. SUFFICES ASSUME ~overlap, NEW m \in live' \ abandoned'
                 PROVE  Stored.cookie = m \/ \E d \in Commands : Keeps(d, m)'
    BY <1>9 DEF SessionsAccounted
  <2>2. CASE m = n
    BY <1>11, <1>12, <2>1, <2>2 DEF Keeps, Saving
  <2>3. CASE m # n
    <3>1. m \in live \ abandoned
      BY <1>6, <1>12, <2>1, <2>3
    <3>2. \A d \in Commands : Keeps(d, m) => Keeps(d, m)'
      BY <1>5, <1>13 DEF Keeps, Saving
    <3> QED BY <1>1, <2>1, <3>1, <3>2 DEF SessionsAccounted
  <2> QED BY <2>2, <2>3
<1>24. LeftStaysLeft'
  BY <1>1, <1>9 DEF LeftStaysLeft
<1> QED BY <1>15, <1>16, <1>20, <1>22, <1>23, <1>24 DEF ClientInv

LEMMA PerformLoginStep ==
  ASSUME ClientInv, NEW c \in Commands, performLogin(c)
  PROVE  ClientInv'
<1>1. ClientTypes /\ Invocation(c)
  BY DEF ClientInv, InvocationsInv
<1>2. /\ stage[c] \in {"login", "factor"} /\ stage[c] \notin Saving
      /\ UNCHANGED <<profile, behind, left, overlap, rebased, tokened>>
  BY DEF performLogin, Saving
<1>3. CASE ObtainSession(c)
  BY <1>2, <1>3, ObtainSessionStep
<1>4. CASE Exit(c) /\ UNCHANGED <<live, issuer, abandoned>>
  BY <1>2, <1>4, QuietExit DEF Untouched
<1>5. CASE Proceed(c, "factor") /\ UNCHANGED <<op, base, held, live, issuer, abandoned>>
  <2>1. stage' = [stage EXCEPT ![c] = "factor"] /\ stage'[c] = "factor" /\ op[c] = "login"
    BY <1>1, <1>2, <1>5 DEF Proceed, ClientTypes, Invocation
  <2>2. /\ stage' \in [Commands -> ClientStages]
        /\ op' \in [Commands -> {"none", "login", "logout", "setup"}]
        /\ base' \in [Commands -> Profiles] /\ held' \in [Commands -> Profiles]
        /\ rebased' \in BOOLEAN
    BY <1>1, <1>2, <1>5, <2>1 DEF ClientTypes, ClientStages
  <2>3. \A d \in Commands \ {c} : /\ stage'[d] = stage[d] /\ op'[d] = op[d]
                                  /\ base'[d] = base[d] /\ held'[d] = held[d]
    BY <1>1, <1>5, <2>1 DEF ClientTypes
  <2>4. Invocation(c)'
    <3>1. Issued' = Issued
      BY <1>5 DEF Issued
    <3>2. Paired(base[c])' /\ Paired(held[c])'
      BY <1>1, <1>2, <1>5, <3>1 DEF Paired, Invocation
    <3> QED BY <1>1, <1>2, <1>5, <2>1, <3>2 DEF Invocation, Saving
  <2>5. Untouched
    BY <1>2, <1>5 DEF Untouched
  <2> QED BY <1>2, <1>5, <2>1, <2>2, <2>3, <2>4, <2>5, QuietStep
<1> QED BY <1>3, <1>4, <1>5 DEF performLogin

LEMMA LogoutRequestStep ==
  ASSUME ClientInv, NEW c \in Commands, LogoutRequest(c)
  PROVE  ClientInv'
<1>1. /\ ClientTypes /\ FileInv /\ InvocationsInv /\ WriterInv /\ TokenInv
      /\ SessionsAccounted /\ LeftStaysLeft /\ Invocation(c)
  BY DEF ClientInv, InvocationsInv
<1>2. PICK n : n = held[c].cookie
  OBVIOUS
<1>3. PICK q : q = Cleared(held[c])
  OBVIOUS
<1>4. /\ q \in Profiles /\ q.api = held[c].api /\ q.cookie = 0 /\ q.access = 0
      /\ q.token = held[c].token
  BY <1>1, <1>3, ClearedEdit DEF ClientTypes
<1>5. /\ stage[c] = "logout" /\ stage' = [stage EXCEPT ![c] = "save"]
      /\ held' = [held EXCEPT ![c] = q]
      /\ UNCHANGED <<profile, op, base, issuer, left, overlap, rebased, tokened>>
  BY <1>1, <1>3 DEF LogoutRequest, Proceed, ClientTypes
<1>6. /\ \/ live' = live \ {n} /\ abandoned' = abandoned \ {n}
         \/ live' = live /\ abandoned' = abandoned \cup ({n} \cap live)
  BY <1>2 DEF LogoutRequest, GiveUp
<1>7. /\ live' \in SUBSET live /\ abandoned' \in SUBSET live'
      /\ \A m : m \in live' \ abandoned' => m \in live \ abandoned /\ m # n
  BY <1>1, <1>6 DEF ClientTypes
<1>8. Whole' = Whole /\ Stored' = Stored /\ Issued' = Issued
  BY <1>5 DEF Whole, Stored, Issued
<1>9. stage'[c] = "save" /\ held'[c] = q /\ op[c] = "logout" /\ base[c].cookie = n
  BY <1>1, <1>2, <1>5 DEF ClientTypes, Invocation
<1>10. \A d \in Commands \ {c} : /\ stage'[d] = stage[d] /\ op'[d] = op[d]
                                 /\ base'[d] = base[d] /\ held'[d] = held[d]
  BY <1>1, <1>5 DEF ClientTypes
<1>11. ClientTypes'
  BY <1>1, <1>4, <1>5, <1>7, <1>8 DEF ClientTypes, ClientStages
<1>12. FileInv'
  BY <1>1, <1>5, <1>8 DEF FileInv, Paired, OfServer
<1>13. \A d \in Commands \ {c} : Invocation(d)'
  <2>1. \A d \in Commands \ {c} : Fresh(d) =>
           /\ held[d].cookie \notin left' /\ (Whole' => profile'.cookie # held[d].cookie)
           /\ base'[c].cookie # held[d].cookie /\ held'[c].cookie # held[d].cookie
    <3>1. base'[c].cookie = base[c].cookie /\ held'[c].cookie = 0
      BY <1>4, <1>5, <1>9
    <3> QED BY <1>5, <3>1, NothingRead
  <2> QED BY <1>1, <1>5, <1>7, <1>8, <1>10, <2>1, OthersStep
<1>14. Invocation(c)'
  <2>1. Paired(base[c])' /\ Paired(held[c])'
    BY <1>1, <1>4, <1>5, <1>8, <1>9 DEF Paired, Invocation
  <2>2. OfServer(held[c])'
    BY <1>4, <1>9 DEF OfServer
  <2>3. base'[c].cookie \notin live' \ abandoned'
    BY <1>5, <1>7, <1>9
  <2> QED BY <1>1, <1>4, <1>5, <1>9, <2>1, <2>2, <2>3 DEF Invocation, Saving
<1>15. InvocationsInv'
  BY <1>13, <1>14 DEF InvocationsInv
<1>16. \A d \in Commands : (stage'[d] = "write" <=> stage[d] = "write")
                           /\ (stage[d] = "write" => held'[d] = held[d] /\ op'[d] = op[d])
  BY <1>5, <1>9, <1>10
<1>17. WriterInv' /\ TokenInv'
  BY <1>1, <1>5, <1>8, <1>16 DEF WriterInv, TokenInv
<1>18. SessionsAccounted'
  <2>1. \A d \in Commands, m \in live : Keeps(d, m) => Keeps(d, m)'
    BY <1>5, <1>10 DEF Keeps, Saving
  <2> QED BY <1>1, <1>5, <1>7, <1>8, <2>1 DEF SessionsAccounted
<1>19. LeftStaysLeft'
  BY <1>1, <1>5, <1>8 DEF LeftStaysLeft
<1> QED BY <1>11, <1>12, <1>15, <1>17, <1>18, <1>19 DEF ClientInv

-----------------------------------------------------------------------------
(* Saving, in two steps, and what cuts it.                                 *)
LEMMA TruncateStep ==
  ASSUME ClientInv, NEW c \in Commands, Truncate(c)
  PROVE  ClientInv'
<1>1. /\ ClientTypes /\ FileInv /\ InvocationsInv /\ WriterInv /\ TokenInv
      /\ SessionsAccounted /\ LeftStaysLeft /\ Invocation(c)
  BY DEF ClientInv, InvocationsInv
<1>2. /\ stage[c] = "save" /\ profile' = None /\ stage' = [stage EXCEPT ![c] = "write"]
      /\ overlap' = (overlap \/ Stored # base[c] \/ \E d \in Commands : stage[d] = "write")
      /\ UNCHANGED <<op, base, held, live, issuer, left, rebased, tokened>>
  BY DEF Truncate, Proceed, server
<1>3. PICK n : n = base[c].cookie
  OBVIOUS
<1>4. abandoned' = IF op[c] = "login" THEN abandoned \cup ({n} \cap live) ELSE abandoned
  BY <1>3 DEF Truncate, GiveUp
<1>5. ~Whole' /\ Stored' = Blank /\ Issued' = Issued /\ profile' # Torn
  BY <1>2, ClientAssumption DEF Whole, Stored, Issued
<1>6. stage'[c] = "write" /\ \A d \in Commands \ {c} : stage'[d] = stage[d]
  BY <1>1, <1>2 DEF ClientTypes
<1>7. \A m : m \in live' \ abandoned' => m \in live \ abandoned
  BY <1>2, <1>4
<1>8. ClientTypes'
  <2>1. overlap' \in BOOLEAN
    BY <1>2
  <2>2. abandoned' \in SUBSET live'
    BY <1>1, <1>2, <1>4 DEF ClientTypes
  <2> QED BY <1>1, <1>2, <1>5, <2>1, <2>2 DEF ClientTypes, ClientStages
<1>9. FileInv'
  BY <1>5 DEF FileInv
<1>10. \A d \in Commands \ {c} : Invocation(d)'
  <2>1. \A d \in Commands \ {c} : Fresh(d) =>
           /\ held[d].cookie \notin left' /\ (Whole' => profile'.cookie # held[d].cookie)
           /\ base'[c].cookie # held[d].cookie /\ held'[c].cookie # held[d].cookie
    BY <1>2, NothingRead
  <2>2. \A d \in Commands \ {c} : /\ stage'[d] = stage[d] /\ op'[d] = op[d]
                                  /\ base'[d] = base[d] /\ held'[d] = held[d]
    BY <1>2, <1>6
  <2> QED BY <1>1, <1>2, <1>5, <1>7, <2>1, <2>2, OthersStep
<1>11. Invocation(c)'
  <2>1. Paired(base[c])' /\ Paired(held[c])' /\ OfServer(held[c])'
    BY <1>1, <1>2, <1>5 DEF Paired, OfServer, Invocation, Saving
  <2>2. op[c] = "login" => Fresh(c)'
    <3>1. op[c] = "login" => Fresh(c)
      BY <1>1, <1>2 DEF Invocation, Saving
    <3> QED BY <1>2, <1>5, <3>1 DEF Fresh
  <2>3. op[c] = "logout" => held'[c].cookie = 0 /\ base'[c].cookie \notin live' \ abandoned'
    BY <1>1, <1>2, <1>7 DEF Invocation, Saving
  <2> QED BY <1>1, <1>2, <1>6, <2>1, <2>2, <2>3 DEF Invocation, Saving
<1>12. InvocationsInv'
  BY <1>10, <1>11 DEF InvocationsInv
<1>13. ~overlap' => /\ ~overlap /\ Stored = base[c] /\ profile # Torn
                    /\ \A d \in Commands : stage[d] # "write"
  BY <1>1, <1>2 DEF FileInv
<1>14. WriterInv'
  <2>1. SUFFICES ASSUME ~overlap'
                 PROVE  /\ \A d \in Commands : stage'[d] = "write" => d = c
                        /\ op[c] = "setup" => held[c].cookie \notin left \ {0}
    BY <1>2 DEF WriterInv
  <2>2. \A d \in Commands : stage'[d] = "write" => d = c
    BY <1>6, <1>13, <2>1
  <2>3. op[c] = "setup" => held[c].cookie \notin left \ {0}
    <3>1. SUFFICES ASSUME op[c] = "setup", held[c].cookie # 0 PROVE held[c].cookie \notin left
      OBVIOUS
    <3>2. held[c].cookie = base[c].cookie
      BY <1>1, <3>1 DEF Invocation
    <3>3. Whole /\ profile = base[c]
      BY <1>1, <1>13, <2>1, <3>1, <3>2, StoredProfile
    <3>4. profile.cookie \notin left \ {0}
      BY <1>1, <1>13, <2>1, <3>3 DEF LeftStaysLeft
    <3> QED BY <3>1, <3>2, <3>3, <3>4
  <2> QED BY <2>2, <2>3
<1>15. TokenInv'
  <2>1. SUFFICES ASSUME tokened, ~overlap' PROVE held[c].token
    BY <1>2, <1>6 DEF TokenInv
  <2>2. Whole /\ profile.token
    BY <1>1, <1>13, <2>1 DEF TokenInv
  <2>3. base[c] = profile
    BY <1>13, <2>1, <2>2 DEF Stored, Whole
  <2> QED BY <1>1, <2>2, <2>3 DEF Invocation
<1>16. SessionsAccounted'
  <2>1. SUFFICES ASSUME ~overlap', NEW m \in live' \ abandoned'
                 PROVE  \E d \in Commands : Keeps(d, m)'
    BY DEF SessionsAccounted
  <2>2. m \in live \ abandoned /\ m # 0
    <3>1. m \in live \ abandoned /\ m \in Sessions
      BY <1>1, <1>7, <2>1 DEF ClientTypes, Issued
    <3> QED BY <3>1, SessionRange
  <2>3. CASE \E d \in Commands : Keeps(d, m)
    BY <1>2, <1>6, <2>3 DEF Keeps, Saving
  <2>4. CASE Stored.cookie = m
    <3>1. base[c].cookie = m
      BY <1>13, <2>1, <2>4
    <3>2. op[c] # "login"
      BY <1>2, <1>3, <1>4, <2>1, <2>2, <3>1
    <3>3. op[c] # "logout"
      BY <1>1, <1>2, <2>2, <3>1 DEF Invocation, Saving
    <3>4. op[c] = "setup"
      <4>1. op[c] \in {"none", "login", "logout", "setup"} /\ op[c] # "none"
        BY <1>1, <1>2 DEF ClientTypes, Invocation
      <4> QED BY <3>2, <3>3, <4>1
    <3>5. held[c].cookie = m
      BY <1>1, <3>1, <3>4 DEF Invocation
    <3> QED BY <1>2, <1>6, <3>5 DEF Keeps, Saving
  <2> QED BY <1>1, <1>13, <2>1, <2>2, <2>3, <2>4 DEF SessionsAccounted
<1>17. LeftStaysLeft'
  BY <1>5 DEF LeftStaysLeft
<1> QED BY <1>8, <1>9, <1>12, <1>14, <1>15, <1>16, <1>17 DEF ClientInv

\* What a save leaves in the file: its own profile, an unreadable one, or its
\* own with the rest of another behind it.
LEMMA WriteReads ==
  ASSUME ClientInv, BehindInv, NEW c \in Commands, Write(c)
  PROVE  /\ rebased' \in BOOLEAN /\ (rebased => rebased')
         /\ \/ profile' = held[c]
            \/ profile' = Torn /\ overlap'
            \/ /\ profile' \in Profiles /\ overlap' /\ profile # None
               /\ Paired(profile)' /\ OfServer(profile)' /\ profile'.api = held[c].api
               /\ \/ profile'.cookie = held[c].cookie
                  \/ \E p \in behind : profile'.cookie = p.cookie
<1>1. /\ ClientTypes /\ FileInv /\ Invocation(c)
  BY DEF ClientInv, InvocationsInv
<1>2. /\ stage[c] = "write" /\ overlap' = (overlap \/ profile # None)
      /\ UNCHANGED <<live, issuer>> /\ Issued' = Issued
  BY DEF Write, server, Issued
<1>3. PICK h : h = held[c]
  OBVIOUS
<1>4. h \in Profiles /\ Paired(h) /\ OfServer(h)
  BY <1>1, <1>2, <1>3 DEF ClientTypes, Invocation, Saving
<1>5. CASE profile' = h /\ rebased' = rebased
  BY <1>1, <1>3, <1>5 DEF ClientTypes
<1>6. CASE profile # None /\ profile' = Torn /\ rebased' = rebased
  BY <1>1, <1>2, <1>6 DEF ClientTypes
<1>7. CASE /\ profile # None
           /\ \E p \in behind : \E rest \in Rests(p) :
                /\ Parses(h, rest)
                /\ profile' = Beside(h, rest)
                /\ rebased' = (rebased \/ (profile'.cookie # h.cookie /\ p.api # h.api))
  <2>0. PICK p \in behind : \E rest \in Rests(p) :
          /\ Parses(h, rest) /\ profile' = Beside(h, rest)
          /\ rebased' = (rebased \/ (profile'.cookie # h.cookie /\ p.api # h.api))
    BY <1>7
  <2>1. PICK rest \in Rests(p) :
          /\ Parses(h, rest) /\ profile' = Beside(h, rest)
          /\ rebased' = (rebased \/ (profile'.cookie # h.cookie /\ p.api # h.api))
    BY <2>0
  <2>2. p \in Profiles /\ Paired(p) /\ OfServer(p)
    BY DEF BehindInv
  <2>3. /\ rest.cookie \in 0..MaxSessions /\ rest.access \in 0..MaxSessions
        /\ rest.token \in BOOLEAN
        /\ rest.cookie # 0 => rest.cookie = p.cookie /\ rest.access = p.access
    <3>1. \/ rest = [cookie |-> 0, access |-> 0, token |-> p.token \/ p.access # 0]
          \/ \E n \in 1..3 :
               rest = [cookie |-> IF n > 2 THEN p.cookie ELSE 0,
                       access |-> IF n > 1 THEN p.access ELSE 0, token |-> p.token]
      BY <2>1 DEF Rests
    <3>2. /\ p.cookie \in 0..MaxSessions /\ p.access \in 0..MaxSessions /\ p.token \in BOOLEAN
          /\ (p.token \/ p.access # 0) \in BOOLEAN /\ 0 \in 0..MaxSessions
      BY <2>2, SessionRange DEF Profiles
    <3>3. CASE rest = [cookie |-> 0, access |-> 0, token |-> p.token \/ p.access # 0]
      <4>1. PICK t : t = (p.token \/ p.access # 0)
        OBVIOUS
      <4>2. t \in BOOLEAN
        BY <3>2, <4>1
      <4>3. rest.token = t /\ rest.cookie = 0 /\ rest.access = 0
        BY <3>3, <4>1
      <4> QED BY <3>2, <4>2, <4>3
    <3>4. ASSUME NEW n \in 1..3,
                 rest = [cookie |-> IF n > 2 THEN p.cookie ELSE 0,
                         access |-> IF n > 1 THEN p.access ELSE 0, token |-> p.token]
          PROVE  /\ rest.cookie \in 0..MaxSessions /\ rest.access \in 0..MaxSessions
                 /\ rest.token \in BOOLEAN
                 /\ rest.cookie # 0 => rest.cookie = p.cookie /\ rest.access = p.access
      BY <3>2, <3>4
    <3> QED BY <3>1, <3>3, <3>4
  <2>4. PICK k : k = IF h.cookie = 0 THEN rest.cookie ELSE h.cookie
    OBVIOUS
  <2>5. PICK a : a = IF h.access = 0 THEN rest.access ELSE h.access
    OBVIOUS
  <2>6. PICK t : t = (h.token \/ rest.token)
    OBVIOUS
  <2>7. profile' = [h EXCEPT !.cookie = k, !.access = a, !.token = t]
    BY <2>1, <2>4, <2>5, <2>6 DEF Beside
  <2>8. k \in 0..MaxSessions /\ a \in 0..MaxSessions /\ t \in BOOLEAN
    BY <1>4, <2>3, <2>4, <2>5, <2>6 DEF Profiles
  <2>9. /\ profile' \in Profiles /\ profile'.api = h.api
        /\ profile'.cookie = k /\ profile'.access = a
    BY <1>4, <2>7, <2>8 DEF Profiles
  <2>10. /\ h.cookie = 0 \/ rest.cookie = 0
         /\ h.access = 0 \/ rest.access = 0
    BY <2>1 DEF Parses
  <2>11. /\ k = h.cookie \/ k = p.cookie
         /\ k # 0 => a = k
         /\ k # h.cookie => k = p.cookie /\ k # 0
    BY <1>4, <2>2, <2>3, <2>4, <2>5, <2>10 DEF Paired
  <2>12. overlap' /\ rebased' \in BOOLEAN
    BY <1>2, <1>7, <2>1
  <2>13. Paired(profile)'
    <3>1. k \in Issued' \cup {0}
      BY <1>2, <1>4, <2>2, <2>11 DEF Paired
    <3> QED BY <2>9, <2>11, <2>12, <3>1 DEF Paired
  <2>14. OfServer(profile)'
    <3>1. CASE k = h.cookie
      BY <1>2, <1>4, <2>1, <2>9, <3>1 DEF OfServer
    <3>2. CASE k # h.cookie
      BY <1>2, <2>1, <2>2, <2>9, <2>11, <3>2 DEF OfServer
    <3> QED BY <3>1, <3>2
  <2> QED BY <1>3, <1>7, <2>1, <2>9, <2>11, <2>12, <2>13, <2>14
<1> QED BY <1>3, <1>5, <1>6, <1>7 DEF Write

LEMMA WriteStep ==
  ASSUME ClientInv, BehindInv, NEW c \in Commands, Write(c)
  PROVE  ClientInv'
<1>1. /\ ClientTypes /\ FileInv /\ InvocationsInv /\ WriterInv /\ TokenInv
      /\ SessionsAccounted /\ LeftStaysLeft /\ Invocation(c)
  BY DEF ClientInv, InvocationsInv
<1>2. /\ stage[c] = "write" /\ Exit(c)
      /\ overlap' = (overlap \/ profile # None)
      /\ tokened' = (tokened \/ held[c].token)
      /\ UNCHANGED <<live, issuer, abandoned>>
  BY DEF Write, server
<1>3. PICK h : h = held[c]
  OBVIOUS
<1>4. PICK n : n = base[c].cookie
  OBVIOUS
<1>5. left' = IF op[c] = "logout" THEN left \cup {n} ELSE left
  BY <1>4 DEF Write
<1>6. h \in Profiles /\ h # None /\ h # Torn
  BY <1>1, <1>3, ProfileIsWhole DEF ClientTypes
<1>7. /\ profile' = h \/ (profile' \in Profiles \cup {Torn} /\ overlap')
      /\ ~overlap' => ~overlap /\ profile = None /\ profile' = h /\ Whole'
      /\ rebased' \in BOOLEAN /\ (rebased => rebased') /\ (overlap => overlap')
  BY <1>2, <1>3, <1>6, WriteReads DEF Whole
<1>8. /\ stage'[c] = "idle" /\ op'[c] = "none" /\ base'[c] = Blank /\ held'[c] = Blank
      /\ \A d \in Commands \ {c} : /\ stage'[d] = stage[d] /\ op'[d] = op[d]
                                   /\ base'[d] = base[d] /\ held'[d] = held[d]
      /\ Invocation(c)'
  BY <1>1, <1>2, ExitEffect
<1>9. Issued' = Issued
  BY <1>2 DEF Issued
<1>10. /\ Paired(h) /\ OfServer(h) /\ h.api # None /\ n \in Issued \cup {0}
  BY <1>1, <1>2, <1>3, <1>4 DEF Invocation, Saving, Paired
<1>11. ClientTypes'
  <2>1. /\ stage' \in [Commands -> ClientStages]
        /\ op' \in [Commands -> {"none", "login", "logout", "setup"}]
        /\ base' \in [Commands -> Profiles] /\ held' \in [Commands -> Profiles]
    BY <1>1, <1>2, ExitEffect
  <2>2. overlap' \in BOOLEAN /\ tokened' \in BOOLEAN
    BY <1>2
  <2>3. left' \in SUBSET (Issued' \cup {0})
    BY <1>1, <1>5, <1>9, <1>10 DEF ClientTypes
  <2>4. profile' \in Profiles \cup {None, Torn} /\ rebased' \in BOOLEAN
    BY <1>6, <1>7
  <2> QED BY <1>1, <1>2, <1>9, <2>1, <2>2, <2>3, <2>4 DEF ClientTypes
<1>12. FileInv'
  <2>1. Whole' => Paired(profile)' /\ OfServer(profile)' /\ profile'.api # None
    <3>1. CASE profile' = h
      BY <1>2, <1>7, <1>9, <1>10, <3>1 DEF Paired, OfServer
    <3> QED BY <1>3, <1>10, <3>1, WriteReads DEF Whole
  <2>2. profile' = Torn => overlap'
    BY <1>6, <1>7
  <2> QED BY <2>1, <2>2 DEF FileInv
<1>13. InvocationsInv'
  <2>1. \A d \in Commands \ {c} : op[d] = "login" /\ stage[d] \in Saving /\ Fresh(d) =>
           /\ held[d].cookie \notin left' /\ (Whole' => profile'.cookie # held[d].cookie)
           /\ base'[c].cookie # held[d].cookie /\ held'[c].cookie # held[d].cookie
    <3>1. SUFFICES ASSUME NEW d \in Commands \ {c}, op[d] = "login", stage[d] \in Saving,
                          Fresh(d)
                   PROVE  /\ held[d].cookie \notin left' /\ (Whole' => profile'.cookie # held[d].cookie)
                          /\ base'[c].cookie # held[d].cookie /\ held'[c].cookie # held[d].cookie
      OBVIOUS
    <3>2. held[d].cookie # 0 /\ held[d].cookie \notin left
      BY <3>1, SessionRange DEF Fresh, Issued
    <3>3. held[d].cookie # n /\ held[d].cookie # h.cookie
      BY <1>3, <1>4, <3>1 DEF Fresh
    <3>4. Whole' => profile'.cookie # held[d].cookie
      <4>1. \A p \in behind : held[d].cookie # p.cookie
        BY <3>1 DEF BehindInv
      <4> QED BY <1>3, <3>1, <3>3, <4>1, WriteReads DEF Whole
    <3> QED BY <1>5, <1>8, <3>2, <3>3, <3>4, BlankProfile
  <2>2. \A d \in Commands \ {c} : Invocation(d)'
    BY <1>1, <1>2, <1>7, <1>8, <1>9, <2>1, OthersStep
  <2> QED BY <1>8, <2>2 DEF InvocationsInv
<1>14. ~overlap' => \A d \in Commands : stage'[d] # "write"
  BY <1>1, <1>2, <1>7, <1>8 DEF WriterInv
<1>15. WriterInv'
  BY <1>14 DEF WriterInv
<1>16. TokenInv'
  <2>1. SUFFICES ASSUME tokened', ~overlap' PROVE h.token
    BY <1>7 DEF TokenInv
  <2>2. CASE h.token
    BY <2>2
  <2>3. CASE tokened
    <3>1. PICK d \in Commands : stage[d] = "write" /\ held[d].token
      BY <1>1, <1>7, <2>1, <2>3 DEF TokenInv, Whole
    <3>2. d = c
      BY <1>1, <1>2, <1>7, <2>1, <3>1 DEF WriterInv
    <3> QED BY <1>3, <3>1, <3>2
  <2> QED BY <1>2, <1>3, <2>1, <2>2, <2>3
<1>17. SessionsAccounted'
  <2>1. SUFFICES ASSUME ~overlap', NEW m \in live \ abandoned
                 PROVE  h.cookie = m \/ \E d \in Commands : Keeps(d, m)'
    BY <1>2, <1>6, <1>7 DEF SessionsAccounted, Stored
  <2>2. m # 0
    BY <1>1, <2>1, SessionRange DEF ClientTypes, Issued
  <2>3. Stored.cookie = 0 /\ ~overlap
    BY <1>7, <2>1, BlankProfile DEF Stored
  <2>4. PICK d \in Commands : Keeps(d, m)
    BY <1>1, <2>1, <2>2, <2>3 DEF SessionsAccounted
  <2>5. CASE d = c
    BY <1>3, <2>4, <2>5 DEF Keeps
  <2>6. CASE d # c
    BY <1>8, <2>4, <2>6 DEF Keeps
  <2> QED BY <2>5, <2>6
<1>18. LeftStaysLeft'
  <2>1. SUFFICES ASSUME ~overlap' PROVE {h.cookie, h.access} \cap (left' \ {0}) = {}
    BY <1>7 DEF LeftStaysLeft
  <2>2. h.access = h.cookie
    BY <1>7, <1>10, <2>1 DEF Paired
  <2>3. op[c] \in {"login", "logout", "setup"}
    BY <1>1, <1>2 DEF ClientTypes, Invocation
  <2>4. CASE op[c] = "login"
    <3>1. Fresh(c)
      BY <1>1, <1>2, <2>4 DEF Invocation, Saving
    <3>2. h.cookie \notin left'
      BY <1>3, <1>5, <2>4, <3>1 DEF Fresh
    <3> QED BY <2>2, <3>2
  <2>5. CASE op[c] = "logout"
    <3>1. h.cookie = 0
      BY <1>1, <1>2, <1>3, <2>5 DEF Invocation, Saving
    <3> QED BY <2>2, <3>1
  <2>6. CASE op[c] = "setup"
    <3>1. h.cookie \notin left \ {0} /\ left' = left
      BY <1>1, <1>2, <1>3, <1>5, <1>7, <2>1, <2>6 DEF WriterInv
    <3> QED BY <2>2, <3>1
  <2> QED BY <2>3, <2>4, <2>5, <2>6
<1> QED BY <1>11, <1>12, <1>13, <1>15, <1>16, <1>17, <1>18 DEF ClientInv

LEMMA CutStep ==
  ASSUME ClientInv, NEW c \in Commands, Cut(c)
  PROVE  ClientInv'
<1>1. /\ ClientTypes /\ FileInv /\ InvocationsInv /\ WriterInv /\ TokenInv
      /\ SessionsAccounted /\ LeftStaysLeft /\ Invocation(c)
  BY DEF ClientInv, InvocationsInv
<1>2. PICK n : n = held[c].cookie
  OBVIOUS
<1>3. /\ Exit(c) /\ tokened' = (tokened /\ stage[c] # "write")
      /\ UNCHANGED <<profile, live, issuer, left, overlap, rebased>>
  BY DEF Cut, server
<1>4. abandoned' = IF stage[c] \in Saving THEN abandoned \cup ({n} \cap live) ELSE abandoned
  BY <1>2 DEF Cut, GiveUp, Saving
<1>5. /\ stage'[c] = "idle" /\ op'[c] = "none" /\ base'[c] = Blank /\ held'[c] = Blank
      /\ \A d \in Commands \ {c} : /\ stage'[d] = stage[d] /\ op'[d] = op[d]
                                   /\ base'[d] = base[d] /\ held'[d] = held[d]
      /\ Invocation(c)'
  BY <1>1, <1>3, ExitEffect
<1>6. Whole' = Whole /\ Stored' = Stored /\ Issued' = Issued
  BY <1>3 DEF Whole, Stored, Issued
<1>7. ClientTypes'
  <2>1. /\ stage' \in [Commands -> ClientStages]
        /\ op' \in [Commands -> {"none", "login", "logout", "setup"}]
        /\ base' \in [Commands -> Profiles] /\ held' \in [Commands -> Profiles]
    BY <1>1, <1>3, ExitEffect
  <2>2. abandoned' \in SUBSET live'
    BY <1>1, <1>3, <1>4 DEF ClientTypes
  <2>3. tokened' \in BOOLEAN
    BY <1>3
  <2> QED BY <1>1, <1>3, <1>6, <2>1, <2>2, <2>3 DEF ClientTypes
<1>8. FileInv'
  BY <1>1, <1>3, <1>6 DEF FileInv, Paired, OfServer
<1>9. InvocationsInv'
  <2>1. \A d \in Commands \ {c} : Fresh(d) =>
           /\ held[d].cookie \notin left' /\ (Whole' => profile'.cookie # held[d].cookie)
           /\ base'[c].cookie # held[d].cookie /\ held'[c].cookie # held[d].cookie
    <3>1. base'[c].cookie = 0 /\ held'[c].cookie = 0
      BY <1>5, BlankProfile
    <3> QED BY <1>3, <3>1, NothingRead
  <2>2. \A m \in Issued \cup {0} : m \in (live \ abandoned)' => m \in live \ abandoned
    BY <1>3, <1>4
  <2>3. \A d \in Commands \ {c} : Invocation(d)'
    BY <1>1, <1>3, <1>5, <1>6, <2>1, <2>2, OthersStep
  <2> QED BY <1>5, <2>3 DEF InvocationsInv
<1>10. WriterInv'
  <2>1. \A d \in Commands : stage'[d] = "write" =>
          stage[d] = "write" /\ held'[d] = held[d] /\ op'[d] = op[d]
    BY <1>5
  <2> QED BY <1>1, <1>3, <2>1 DEF WriterInv
<1>11. TokenInv'
  <2>1. stage[c] # "write" =>
          \A d \in Commands : stage[d] = "write" => stage'[d] = "write" /\ held'[d] = held[d]
    BY <1>5
  <2> QED BY <1>1, <1>3, <1>6, <2>1 DEF TokenInv
<1>12. SessionsAccounted'
  <2>1. SUFFICES ASSUME ~overlap, NEW m \in live \ abandoned'
                 PROVE  Stored.cookie = m \/ \E d \in Commands : Keeps(d, m)'
    BY <1>3, <1>6 DEF SessionsAccounted
  <2>2. m \in live \ abandoned
    BY <1>4, <2>1
  <2>3. ~Keeps(c, m)
    BY <1>2, <1>4, <2>1 DEF Keeps, Saving
  <2>4. \A d \in Commands : Keeps(d, m) => Keeps(d, m)'
    BY <1>5, <2>3 DEF Keeps
  <2> QED BY <1>1, <2>1, <2>2, <2>4 DEF SessionsAccounted
<1>13. LeftStaysLeft'
  BY <1>1, <1>3, <1>6 DEF LeftStaysLeft
<1> QED BY <1>7, <1>8, <1>9, <1>10, <1>11, <1>12, <1>13 DEF ClientInv

\* Sessions that end on the server leave the client alone.
LEMMA SessionsOnly ==
  ASSUME ClientInv, UNCHANGED <<profile, behind, stage, op, base, held, issuer, left, overlap, rebased, tokened>>,
         live' \in SUBSET live, abandoned' \in SUBSET live',
         \A m : m \in live' \ abandoned' => m \in live \ abandoned
  PROVE  ClientInv'
<1>1. /\ ClientTypes /\ FileInv /\ InvocationsInv /\ WriterInv /\ TokenInv
      /\ SessionsAccounted /\ LeftStaysLeft
  BY DEF ClientInv
<1>2. Whole' = Whole /\ Stored' = Stored /\ Issued' = Issued
  BY DEF Whole, Stored, Issued
<1>3. ClientTypes'
  BY <1>1, <1>2 DEF ClientTypes
<1>4. FileInv'
  BY <1>1, <1>2 DEF FileInv, Paired, OfServer
<1>5. InvocationsInv'
  <2>1. ASSUME NEW d \in Commands PROVE Invocation(d)'
    <3>1. Invocation(d)
      BY <1>1 DEF InvocationsInv
    <3>2. op[d] = "login" /\ stage[d] \in Saving => Fresh(d)'
      BY <1>2, <3>1 DEF Invocation, Fresh
    <3> QED BY <1>2, <3>1, <3>2, OthersFrame
  <2> QED BY <2>1 DEF InvocationsInv
<1>6. WriterInv' /\ TokenInv'
  BY <1>1, <1>2 DEF WriterInv, TokenInv
<1>7. SessionsAccounted'
  BY <1>1, <1>2 DEF SessionsAccounted, Keeps
<1>8. LeftStaysLeft'
  BY <1>1, <1>2 DEF LeftStaysLeft
<1> QED BY <1>3, <1>4, <1>5, <1>6, <1>7, <1>8 DEF ClientInv

LEMMA ExpireStep ==
  ASSUME ClientInv, Expire
  PROVE  ClientInv'
<1>1. PICK n \in live : live' = live \ {n} /\ abandoned' = abandoned \ {n}
  BY DEF Expire
<1>2. UNCHANGED <<profile, behind, stage, op, base, held, issuer, left, overlap, rebased, tokened>>
  BY DEF Expire
<1>3. abandoned \in SUBSET live
  BY DEF ClientInv, ClientTypes
<1>4. /\ live' \in SUBSET live /\ abandoned' \in SUBSET live'
      /\ \A m : m \in live' \ abandoned' => m \in live \ abandoned
  BY <1>1, <1>3
<1> QED BY <1>2, <1>4, SessionsOnly

LEMMA ClientStutter ==
  ASSUME ClientInv, UNCHANGED clientVars
  PROVE  ClientInv'
<1>1. /\ UNCHANGED <<profile, behind, stage, op, base, held, issuer, left, overlap, rebased, tokened>>
      /\ live' = live /\ abandoned' = abandoned
  BY DEF clientVars, server, clientHistory
<1>2. abandoned \in SUBSET live
  BY DEF ClientInv, ClientTypes
<1> QED BY <1>1, <1>2, SessionsOnly

LEMMA ClientInductive == ClientInv /\ BehindInv /\ [ClientNext]_clientVars => ClientInv'
<1> SUFFICES ASSUME ClientInv, BehindInv, [ClientNext]_clientVars PROVE ClientInv'
  OBVIOUS
<1>1. CASE \E c \in Commands : LoginCommand(c) \/ LoginLoad(c) \/ performLogin(c)
  BY <1>1, LoginCommandStep, LoginLoadStep, PerformLoginStep
<1>2. CASE \E c \in Commands : Logout(c) \/ LogoutRequest(c) \/ Setup(c) \/ SetupRequest(c)
  BY <1>2, LogoutStep, LogoutRequestStep, SetupStep, SetupRequestStep
<1>3. CASE \E c \in Commands : Truncate(c) \/ Write(c) \/ Cut(c)
  BY <1>3, TruncateStep, WriteStep, CutStep
<1>4. CASE Expire
  BY <1>4, ExpireStep
<1>5. CASE UNCHANGED clientVars
  BY <1>5, ClientStutter
<1> QED BY <1>1, <1>2, <1>3, <1>4, <1>5 DEF ClientNext

\* Where nothing is written, what lies behind stays as it was, and no login
\* comes by a session that is in it.
LEMMA BehindKept ==
  ASSUME ClientInv, BehindInv, behind' = behind, Issued \in SUBSET Issued',
         \A n \in Issued : issuer'[n] = issuer[n], rebased => rebased', overlap => overlap',
         \A c \in Commands : op'[c] = "login" /\ stage'[c] \in Saving =>
           \/ op[c] = "login" /\ stage[c] \in Saving /\ held'[c] = held[c]
           \/ held'[c].cookie \notin Issued \cup {0}
  PROVE  BehindInv'
<1>1. ASSUME NEW p \in behind
      PROVE  /\ Paired(p)' /\ OfServer(p)'
             /\ \A c \in Commands :
                  op'[c] = "login" /\ stage'[c] \in Saving => held'[c].cookie # p.cookie
  <2>1. /\ Paired(p) /\ OfServer(p) /\ p.cookie \in Issued \cup {0}
        /\ \A c \in Commands :
             op[c] = "login" /\ stage[c] \in Saving => held[c].cookie # p.cookie
    BY DEF BehindInv, Paired
  <2>2. Paired(p)'
    BY <2>1 DEF Paired
  <2>3. OfServer(p)'
    BY <2>1 DEF OfServer
  <2> QED BY <2>1, <2>2, <2>3
<1> QED BY <1>1 DEF BehindInv

LEMMA BehindStep == ClientInv /\ BehindInv /\ [ClientNext]_clientVars => BehindInv'
<1> SUFFICES ASSUME ClientInv, BehindInv, [ClientNext]_clientVars PROVE BehindInv'
  OBVIOUS
<1>1. ClientTypes /\ InvocationsInv
  BY DEF ClientInv
<1>2. ASSUME NEW c \in Commands,
             LoginCommand(c) \/ LoginLoad(c) \/ Logout(c) \/ LogoutRequest(c) \/ Setup(c)
               \/ SetupRequest(c) \/ Cut(c)
      PROVE  BehindInv'
  <2>1. /\ behind' = behind /\ issuer' = issuer /\ Issued' = Issued
        /\ (rebased => rebased') /\ overlap' = overlap
    <3>1. CASE Setup(c)
      BY <3>1 DEF Setup, server, Issued
    <3>2. CASE ~Setup(c)
      BY <1>2, <3>2 DEF LoginCommand, LoginLoad, Logout, LogoutRequest, SetupRequest, Cut,
         server, clientHistory, Issued
    <3> QED BY <3>1, <3>2
  <2>2. \A d \in Commands \ {c} : /\ stage'[d] = stage[d] /\ op'[d] = op[d]
                                   /\ held'[d] = held[d]
    <3>1. CASE LoginCommand(c)
      BY <1>1, <3>1 DEF LoginCommand, Invoke, Proceed, ClientTypes
    <3>2. CASE LoginLoad(c)
      BY <1>1, <3>2 DEF LoginLoad, Exit, Proceed, ClientTypes
    <3>3. CASE Logout(c) \/ LogoutRequest(c)
      BY <1>1, <3>3 DEF Logout, LogoutRequest, Invoke, Proceed, ClientTypes
    <3>4. CASE Setup(c)
      BY <1>1, <3>4 DEF Setup, Invoke, Proceed, ClientTypes
    <3>5. CASE SetupRequest(c) \/ Cut(c)
      BY <1>1, <3>5 DEF SetupRequest, Cut, Exit, Proceed, ClientTypes
    <3> QED BY <1>2, <3>1, <3>2, <3>3, <3>4, <3>5
  <2>3. ~(op'[c] = "login" /\ stage'[c] \in Saving)
    <3>1. Invocation(c)
      BY <1>1 DEF InvocationsInv
    <3>2. CASE LoginCommand(c) \/ Logout(c) \/ Setup(c)
      BY <1>1, <3>2 DEF LoginCommand, Logout, Setup, Invoke, Proceed, ClientTypes, Saving
    <3>3. CASE LoginLoad(c) \/ Cut(c)
      BY <1>1, <3>3, ExitEffect DEF LoginLoad, Cut, Proceed, ClientTypes, Saving
    <3>4. CASE LogoutRequest(c)
      BY <1>1, <3>1, <3>4 DEF LogoutRequest, ClientTypes, Invocation
    <3>5. CASE SetupRequest(c)
      BY <1>1, <3>1, <3>5, ExitEffect DEF SetupRequest, ClientTypes, Invocation
    <3> QED BY <1>2, <3>2, <3>3, <3>4, <3>5
  <2> QED BY <2>1, <2>2, <2>3, BehindKept
<1>3. ASSUME NEW c \in Commands, performLogin(c) PROVE BehindInv'
  <2>1. behind' = behind /\ rebased' = rebased /\ overlap' = overlap
    BY <1>3 DEF performLogin
  <2>2. CASE ObtainSession(c)
    <3>1. PICK n : n = NextSession
      OBVIOUS
    <3>2. n \in Sessions /\ n \notin Issued \cup {0}
      <4>1. Sessions # Issued /\ Issued \in SUBSET Sessions
        BY <2>2 DEF ObtainSession, Issued
      <4>2. n \in Sessions \ Issued
        BY <3>1, <4>1 DEF NextSession
      <4> QED BY <4>2, SessionRange
    <3>3. issuer' = [issuer EXCEPT ![n] = held[c].api]
      BY <2>2, <3>1 DEF ObtainSession
    <3>4. (\A m \in Issued : issuer'[m] = issuer[m]) /\ Issued \in SUBSET Issued'
      BY <1>1, <3>2, <3>3 DEF Issued, ClientTypes
    <3>5. \A d \in Commands \ {c} : /\ stage'[d] = stage[d] /\ op'[d] = op[d]
                                     /\ held'[d] = held[d]
      BY <1>1, <2>2 DEF ObtainSession, Exit, Proceed, ClientTypes
    <3>6. op'[c] = "login" => held'[c].cookie = n
      <4>1. CASE Exit(c)
        BY <1>1, <4>1, ExitEffect
      <4>2. CASE held' = [held EXCEPT ![c] = SignedIn(held[c], n)]
        <5>1. held[c] \in Profiles /\ n \in 0..MaxSessions /\ held'[c] = SignedIn(held[c], n)
          BY <1>1, <3>2, <4>2, SessionRange DEF ClientTypes
        <5> QED BY <5>1, SignedInEdit
      <4> QED BY <1>1, <2>2, <3>1, <4>1, <4>2 DEF ObtainSession, ClientTypes
    <3> QED BY <2>1, <3>2, <3>4, <3>5, <3>6, BehindKept
  <2>3. CASE /\ issuer' = issuer
             /\ Exit(c) \/ (Proceed(c, "factor") /\ UNCHANGED <<op, held>>)
    <3>1. Issued' = Issued /\ issuer' = issuer
      BY <2>3 DEF Issued
    <3>2. /\ stage'[c] \notin Saving
          /\ \A d \in Commands \ {c} : /\ stage'[d] = stage[d] /\ op'[d] = op[d]
                                        /\ held'[d] = held[d]
      BY <1>1, <2>3, ExitEffect DEF Proceed, ClientTypes, Saving
    <3> QED BY <2>1, <3>1, <3>2, BehindKept
  <2> QED BY <1>3, <2>2, <2>3 DEF performLogin
<1>4. ASSUME NEW c \in Commands, Truncate(c) PROVE BehindInv'
  BY <1>4 DEF Truncate, BehindInv
<1>5. ASSUME NEW c \in Commands, Write(c) PROVE BehindInv'
  <2>1. /\ Exit(c) /\ UNCHANGED <<live, issuer>> /\ Issued' = Issued
        /\ behind' = behind \cup ({held[c], profile'} \ {Torn})
        /\ overlap' = (overlap \/ profile # None) /\ stage[c] = "write"
    BY <1>5 DEF Write, server, Issued
  <2>2. PICK h : h = held[c]
    OBVIOUS
  <2>3. Invocation(c) /\ h \in Profiles /\ Paired(h) /\ OfServer(h)
    BY <1>1, <2>1, <2>2 DEF InvocationsInv, Invocation, Saving, ClientTypes
  <2>4. (rebased => rebased') /\ (overlap => overlap')
    BY <1>5, <2>1, WriteReads
  <2>5. ASSUME NEW p \in behind \cup {h}
        PROVE  p \in Profiles /\ Paired(p)' /\ OfServer(p)'
    <3>1. p \in Profiles /\ Paired(p) /\ OfServer(p)
      BY <2>3 DEF BehindInv
    <3> QED BY <2>1, <2>4, <3>1 DEF Paired, OfServer
  <2>6. ASSUME NEW d \in Commands, op'[d] = "login", stage'[d] \in Saving
        PROVE  \A p \in behind \cup {h} : held'[d].cookie # p.cookie
    <3>1. d # c /\ op'[d] = op[d] /\ stage'[d] = stage[d] /\ held'[d] = held[d]
      BY <1>1, <2>1, <2>6, ExitEffect
    <3>2. Fresh(d)
      BY <1>1, <2>6, <3>1 DEF InvocationsInv, Invocation
    <3>3. held[d].cookie # h.cookie
      BY <2>2, <3>1, <3>2 DEF Fresh
    <3> QED BY <2>6, <3>1, <3>3 DEF BehindInv
  <2>7. profile' # Torn /\ profile' # h =>
          /\ profile' \in Profiles /\ Paired(profile)' /\ OfServer(profile)'
          /\ \E p \in behind \cup {h} : profile'.cookie = p.cookie
    BY <1>5, <2>2, WriteReads
  <2>8. ASSUME NEW q \in behind'
        PROVE  /\ q \in Profiles /\ Paired(q)' /\ OfServer(q)'
               /\ \A d \in Commands :
                    op'[d] = "login" /\ stage'[d] \in Saving => held'[d].cookie # q.cookie
    <3>1. CASE q \in behind \cup {h}
      BY <2>5, <2>6, <3>1
    <3>2. CASE q \notin behind \cup {h}
      <4>1. q = profile' /\ profile' # Torn /\ profile' # h
        BY <2>1, <2>2, <3>2
      <4> QED BY <2>6, <2>7, <4>1 DEF Paired, OfServer
    <3> QED BY <3>1, <3>2
  <2> QED BY <2>8 DEF BehindInv
<1>6. CASE Expire \/ UNCHANGED clientVars
  <2>1. UNCHANGED <<behind, stage, op, held, issuer, overlap, rebased>> /\ Issued' = Issued
    BY <1>6 DEF Expire, clientVars, server, clientHistory, Issued
  <2> QED BY <2>1, BehindKept
<1> QED BY <1>2, <1>3, <1>4, <1>5, <1>6 DEF ClientNext

LEMMA ClientInvariant == ClientSpec => [](ClientInv /\ BehindInv)
<1>1. ClientInit => ClientInv /\ BehindInv
  BY ClientInitInv DEF ClientInit, BehindInv
<1> QED BY <1>1, ClientInductive, BehindStep, PTL DEF ClientSpec

LEMMA ClientInvImplies ==
  ASSUME ClientInv, BehindInv
  PROVE  ProfileSound /\ SessionsFollowed
<1>1. /\ ClientTypes /\ FileInv /\ InvocationsInv /\ WriterInv /\ TokenInv
      /\ SessionsAccounted /\ LeftStaysLeft
  BY DEF ClientInv
<1>2. ClientTypeOK
  <2>1. Whole => profile \in Profiles /\ profile.api # None
    BY <1>1 DEF ClientTypes, FileInv, Whole
  <2>2. \A c \in Commands : op[c] = "none" <=> stage[c] = "idle"
    BY <1>1 DEF InvocationsInv, Invocation
  <2>3. behind \subseteq Profiles
    BY DEF BehindInv
  <2> QED BY <1>1, <2>1, <2>2, <2>3 DEF ClientTypeOK, ClientTypes, ClientStages
<1>3. ProfileOfOneLogin
  BY <1>1 DEF FileInv, ProfileOfOneLogin, Paired, OfServer
<1>4. TokenKept
  <2>1. SUFFICES ASSUME tokened, ~overlap, Whole PROVE profile.token
    BY DEF TokenKept
  <2>2. \A c \in Commands : stage[c] # "write"
    BY <1>1, <2>1 DEF WriterInv, Whole
  <2> QED BY <1>1, <2>1, <2>2 DEF TokenInv
<1> QED BY <1>1, <1>2, <1>3, <1>4 DEF ProfileSound, SessionsFollowed

\* A cookie in the profile comes with its login's access token, whatever
\* invocations are killed or write over each other.  It is of the server the
\* profile names unless a setup of another server, or a save over a longer
\* profile for another, put them together; and only overlap loses a token.
THEOREM ProfileSoundCorrect == ClientSpec => []ProfileSound
BY ClientInvariant, ClientInvImplies, PTL

\* As long as no invocation saves over what another wrote, each live session is
\* in the profile, about to be saved, or was given up by a step that says so;
\* and what a logout cleared does not come back.
THEOREM SessionsFollowedCorrect == ClientSpec => []SessionsFollowed
BY ClientInvariant, ClientInvImplies, PTL
=============================================================================
