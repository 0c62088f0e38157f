--------------------------- MODULE UserTrustProofs ---------------------------
(***************************************************************************)
(* Proofs about UserTrust: types and the operator's policy, with           *)
(* overlapping requests too; and, when no two requests on a user overlap,  *)
(* that there is one first administrator, that Provision strands nobody,   *)
(* that Incus's trust store follows the tables, and that a request which   *)
(* meets one failure leaves its user as it was.                            *)
(***************************************************************************)
EXTENDS UserTrust, TLAPS

\* What a request must carry at its step.
Shape ==
  \A r \in Requests :
    /\ pc[r] = "idle" <=> job[r] = NoJob
    /\ pc[r] = "first" <=> (job[r] # NoJob /\ job[r].user = None)
    /\ pc[r] \in {"register", "store", "revokePrev", "restore", "revokeNew"}
         => job[r].fp \in Certs
    /\ pc[r] \in {"revokePrev", "restore", "revoke"} => job[r].prev \in Rows

TypeInv == TypeOK /\ Shape

Working(r) == pc[r] \notin {"idle", "first"}

\* No two requests work on one user.
Exclusive ==
  \A r, s \in Requests :
    Working(r) /\ Working(s) /\ job[r].user = job[s].user => r = s

\* A fingerprint is on the user's row, or in the hands of a request on the user.
Holds(f, u) ==
  \/ cert[u] # None /\ cert[u].fp = f
  \/ \E r \in Requests :
       /\ Working(r)
       /\ job[r].user = u
       /\ job[r].fp = f \/ (job[r].prev # None /\ job[r].prev.fp = f)

OneOwner ==
  \A f \in Certs, u, v \in Users : Holds(f, u) /\ Holds(f, v) => u = v

Exposed(u) == "exposed" \in marks[u]

\* The entry that goes with a row of the user.
Backed(u, row) ==
  ~row.revoked /\ trust[row.fp] = [user |-> u, project |-> row.project]

NotStranded(u) == cert[u] # None => Backed(u, cert[u])

\* How far a request has come with an unexposed user.
Progress(r) ==
  LET j == job[r]  u == job[r].user IN
  /\ pc[r] \in {"register", "store"} =>
       /\ cert[u] # None => cert[u].fp # j.fp
       /\ j.prev = CurrentTrust(u)
  /\ pc[r] = "store" => trust[j.fp] = [user |-> u, project |-> j.project]
  /\ pc[r] \in {"revokePrev", "restore"} =>
       /\ cert[u] = [fp |-> j.fp, project |-> j.project, revoked |-> FALSE]
       /\ j.prev.fp # j.fp
  /\ pc[r] = "revokePrev" \/ (pc[r] = "restore" /\ ~j.hungup) => Backed(u, j.prev)
  /\ pc[r] = "revokeNew" => (cert[u] # None => cert[u].fp # j.fp)

RequestOK(r) ==
  Working(r) =>
    /\ Present(job[r].user)
    /\ pc[r] \in {"load", "revoke", "mark", "remove"} => Exposed(job[r].user)
    /\ ~Exposed(job[r].user) => Progress(r)

UserOK(u) == ~Exposed(u) => NotStranded(u)

IInv ==
  /\ TypeInv
  /\ Exclusive
  /\ OneOwner
  /\ \A r \in Requests : RequestOK(r)
  /\ \A u \in Users : UserOK(u)

-----------------------------------------------------------------------------
(* Types.                                                                  *)

\* A request goes on as j with the step next, or ends.
Moved(r, j, next, mark) ==
  LET u == j.user IN
  /\ pc' \in [Requests -> Steps \cup {"idle"}]
  /\ job' \in [Requests -> Jobs \cup {NoJob}]
  /\ outcome' \in [Users -> {"none", "pending", "ok", "failed", "ragged"}]
  /\ marks' \in [Users -> SUBSET Marks]
  /\ \A q \in Requests \ {r} : pc'[q] = pc[q] /\ job'[q] = job[q]
  /\ \A v \in Users \ {u} : marks'[v] = marks[v] /\ outcome'[v] = outcome[v]
  /\ "exposed" \in marks'[u] <=> Exposed(u) \/ "exposed" \in mark
  /\ "failed" \in marks[u] \/ next = "failed" => "failed" \in marks'[u]
  /\ next = "failed" => outcome'[u] # "ok"
  /\ next \in {"ok", "failed"} => pc'[r] = "idle" /\ job'[r] = NoJob
  /\ next \notin {"ok", "failed"} =>
       /\ pc'[r] = next
       /\ job'[r] \in Jobs
       /\ job'[r].user = u /\ job'[r].project = j.project
       /\ job'[r].fp = j.fp /\ job'[r].prev = j.prev /\ job'[r].hungup = j.hungup
       /\ job'[r].op = j.op

LEMMA WorkingJob ==
  ASSUME TypeInv, NEW r \in Requests, Working(r)
  PROVE  job[r] \in Jobs /\ job[r].user \in Users /\ job[r] # NoJob
  BY TrustAssumption DEF TypeInv, TypeOK, Shape, Working, Jobs

Targets == (Steps \ {"first"}) \cup {"ok", "failed"}

LEMMA AdvanceMoves ==
  ASSUME TypeInv, NEW r \in Requests, NEW j \in Jobs, j.user \in Users,
         NEW next \in Targets, NEW ills \in 0..2, NEW mark \in SUBSET Marks,
         Advance(r, j, next, ills, mark)
  PROVE  Moved(r, j, next, mark)
  <1> DEFINE u == j.user
             sum == IF j.ills + ills < 2 THEN j.ills + ills ELSE 2
             failed == IF next = "failed" THEN {"failed"} ELSE {}
             k == [j EXCEPT !.ills = sum]
  <1>1. sum \in 0..2
    BY DEF Jobs
  <1>2. /\ k \in Jobs /\ k.user = j.user /\ k.project = j.project
        /\ k.fp = j.fp /\ k.prev = j.prev /\ k.hungup = j.hungup
        /\ k.op = j.op
    <2> HIDE DEF sum
    <2> QED BY <1>1 DEF Jobs
  <1>3. marks' = [marks EXCEPT ![u] = @ \cup mark \cup failed]
    BY DEF Advance
  <1>4. marks \in [Users -> SUBSET Marks] /\ u \in Users
    BY DEF TypeInv, TypeOK
  <1>5. /\ marks' \in [Users -> SUBSET Marks]
        /\ \A v \in Users \ {u} : marks'[v] = marks[v]
        /\ "exposed" \in marks'[u] <=> Exposed(u) \/ "exposed" \in mark
        /\ "failed" \in marks[u] \/ next = "failed" => "failed" \in marks'[u]
    BY <1>3, <1>4 DEF Marks, Exposed
  <1>6. CASE next \in {"ok", "failed"}
    <2>1. pc' = [pc EXCEPT ![r] = "idle"] /\ job' = [job EXCEPT ![r] = NoJob]
      BY <1>6 DEF Advance
    <2>2. /\ outcome' \in [Users -> {"none", "pending", "ok", "failed", "ragged"}]
          /\ \A v \in Users \ {u} : outcome'[v] = outcome[v]
          /\ next = "failed" => outcome'[u] # "ok"
      BY <1>6 DEF Advance, TypeInv, TypeOK
    <2> QED BY <2>1, <2>2, <1>5, <1>6 DEF Moved, TypeInv, TypeOK
  <1>7. CASE next \notin {"ok", "failed"}
    <2>1. pc' = [pc EXCEPT ![r] = next] /\ job' = [job EXCEPT ![r] = k] /\ outcome' = outcome
      BY <1>7 DEF Advance
    <2> HIDE DEF k
    <2> QED BY <2>1, <1>2, <1>5, <1>7 DEF Moved, TypeInv, TypeOK, Targets
  <1> QED BY <1>6, <1>7

LEMMA FailureTargets ==
  ASSUME TypeInv, NEW r \in Requests, Working(r)
  PROVE  OnFailure(r) \in Targets /\ OnFailure(r) \notin {"register", "store", "revokePrev"}
  BY DEF TypeInv, TypeOK, Working, OnFailure, Targets, Steps, HelperSteps, StoreSteps, Uncancelled

LEMMA SucceedMoves ==
  ASSUME TypeInv, NEW r \in Requests, Working(r), NEW next \in Targets, Succeed(r, next)
  PROVE  Moved(r, job[r], next, {})
  BY WorkingJob, AdvanceMoves DEF Succeed

LEMMA FailMoves ==
  ASSUME TypeInv, NEW r \in Requests, Working(r), Fail(r)
  PROVE  Moved(r, job[r], OnFailure(r), IF pc[r] = "restore" THEN {"exposed"} ELSE {})
  <1>1. (IF pc[r] = "restore" THEN {"exposed"} ELSE {}) \in SUBSET Marks
    BY DEF Marks
  <1> QED BY <1>1, WorkingJob, FailureTargets, AdvanceMoves DEF Fail

\* The job of a request whose client went away.
Gone(r) == [job[r] EXCEPT !.hungup = TRUE]

LEMMA GoneJob ==
  ASSUME TypeInv, NEW r \in Requests, Working(r)
  PROVE  /\ Gone(r) \in Jobs /\ Gone(r).hungup
         /\ Gone(r).user = job[r].user /\ Gone(r).project = job[r].project
         /\ Gone(r).fp = job[r].fp /\ Gone(r).prev = job[r].prev
         /\ Gone(r).op = job[r].op
  BY WorkingJob DEF Gone, Jobs

LEMMA HelperEndsMoves ==
  ASSUME TypeInv, NEW r \in Requests, Working(r), NEW next \in Targets, HelperEnds(r, next)
  PROVE  \/ Moved(r, job[r], next, {})
         \/ Moved(r, job[r], OnFailure(r), {"exposed"})
         \/ Moved(r, Gone(r), OnFailure(r), {})
  <1>1. CASE Succeed(r, next)
    BY <1>1, SucceedMoves
  <1>2. CASE Advance(r, job[r], OnFailure(r), 2, {"exposed"})
    BY <1>2, WorkingJob, FailureTargets, AdvanceMoves DEF Marks
  <1>3. CASE Advance(r, Gone(r), OnFailure(r), 2, {})
    BY <1>3, WorkingJob, GoneJob, FailureTargets, AdvanceMoves
  <1> QED BY <1>1, <1>2, <1>3 DEF HelperEnds, Gone

NeedsFp == {"register", "store", "revokePrev", "restore", "revokeNew"}
NeedsPrev == {"revokePrev", "restore", "revoke"}

LEMMA MovedShape ==
  ASSUME TypeInv, NEW r \in Requests, NEW j \in Jobs, j.user \in Users,
         NEW next \in Targets, NEW mark, Moved(r, j, next, mark),
         next \in NeedsFp => j.fp \in Certs,
         next \in NeedsPrev => j.prev \in Rows
  PROVE  Shape'
  <1> SUFFICES ASSUME NEW q \in Requests
               PROVE  /\ pc'[q] = "idle" <=> job'[q] = NoJob
                      /\ pc'[q] = "first" <=> (job'[q] # NoJob /\ job'[q].user = None)
                      /\ pc'[q] \in NeedsFp => job'[q].fp \in Certs
                      /\ pc'[q] \in NeedsPrev => job'[q].prev \in Rows
    BY DEF Shape, NeedsFp, NeedsPrev
  <1>1. CASE q # r
    BY <1>1 DEF Moved, TypeInv, Shape, NeedsFp, NeedsPrev
  <1>2. CASE q = r /\ next \in {"ok", "failed"}
    BY <1>2 DEF Moved, NeedsFp, NeedsPrev
  <1>3. CASE q = r /\ next \notin {"ok", "failed"}
    <2>1. next \notin {"idle", "first"}
      BY DEF Targets, Steps, HelperSteps, StoreSteps, Uncancelled
    <2>2. job'[q] # NoJob /\ job'[q].user # None
      BY <1>3, TrustAssumption DEF Moved
    <2> QED BY <1>3, <2>1, <2>2 DEF Moved
  <1> QED BY <1>1, <1>2, <1>3

LEMMA FailureShape ==
  ASSUME TypeInv, NEW r \in Requests, Working(r)
  PROVE  /\ OnFailure(r) \in NeedsFp => job[r].fp \in Certs
         /\ OnFailure(r) \in NeedsPrev => job[r].prev \in Rows
  BY DEF TypeInv, Shape, OnFailure, NeedsFp, NeedsPrev

\* A step of the request's own, whatever becomes of it, keeps types and shape.
LEMMA StepTyped ==
  ASSUME TypeInv, NEW r \in Requests, Working(r), NEW next \in Targets,
         Succeed(r, next) \/ HelperEnds(r, next) \/ Fail(r),
         next \in NeedsFp => job[r].fp \in Certs,
         next \in NeedsPrev => job[r].prev \in Rows
  PROVE  /\ Shape'
         /\ pc' \in [Requests -> Steps \cup {"idle"}]
         /\ job' \in [Requests -> Jobs \cup {NoJob}]
         /\ outcome' \in [Users -> {"none", "pending", "ok", "failed", "ragged"}]
         /\ marks' \in [Users -> SUBSET Marks]
  <1>1. \E j, nx, mark :
          /\ j \in {job[r], Gone(r)} /\ nx \in {next, OnFailure(r)}
          /\ Moved(r, j, nx, mark)
    <2>1. CASE Succeed(r, next)
      BY <2>1, SucceedMoves
    <2>2. CASE HelperEnds(r, next)
      BY <2>2, HelperEndsMoves
    <2>3. CASE Fail(r)
      BY <2>3, FailMoves
    <2> QED BY <2>1, <2>2, <2>3
  <1>2. PICK j, nx, mark :
          /\ j \in {job[r], Gone(r)} /\ nx \in {next, OnFailure(r)}
          /\ Moved(r, j, nx, mark)
    BY <1>1
  <1>3. /\ j \in Jobs /\ j.user \in Users
        /\ j.fp = job[r].fp /\ j.prev = job[r].prev
    BY <1>2, WorkingJob, GoneJob
  <1>4. /\ nx \in Targets
        /\ nx \in NeedsFp => j.fp \in Certs
        /\ nx \in NeedsPrev => j.prev \in Rows
    BY <1>2, <1>3, FailureTargets, FailureShape
  <1>5. Moved(r, j, nx, mark)
    BY <1>2
  <1>6. Shape'
    BY <1>3, <1>4, <1>5, MovedShape
  <1> QED BY <1>5, <1>6 DEF Moved

LEMMA ImageTyped ==
  ASSUME TypeInv, NEW u \in Users
  PROVE  Image(u) \in Images
  <1>1. Granted(u) \in SUBSET (Certs \X Projects)
    <2>1. \A f \in Certs : trust[f] # None => trust[f].project \in Projects
      BY DEF TypeInv, TypeOK, Entries
    <2> QED BY <2>1 DEF Granted
  <1>2. Present(u) \in BOOLEAN /\ project[u] \in Projects /\ cert[u] \in Rows \cup {None}
    BY DEF TypeInv, TypeOK, Present
  <1> QED BY <1>1, <1>2 DEF Image, Images

LEMMA BeginTyped ==
  ASSUME TypeInv, NEW r \in Requests, NEW u \in Users, NEW p \in Projects,
         NEW op \in Ops, NEW first \in {"assign", "issue", "undo", "load"},
         Begin(r, op, u, p, first)
  PROVE  /\ Shape'
         /\ pc' \in [Requests -> Steps \cup {"idle"}]
         /\ job' \in [Requests -> Jobs \cup {NoJob}]
         /\ outcome' \in [Users -> {"none", "pending", "ok", "failed", "ragged"}]
         /\ marks' \in [Users -> SUBSET Marks]
         /\ \A q \in Requests \ {r} : pc'[q] = pc[q] /\ job'[q] = job[q]
         /\ pc'[r] = first /\ job'[r].user = u /\ job'[r].op = op
         /\ job'[r].fp = None /\ job'[r].prev = None
         /\ \A v \in Users \ {u} : marks'[v] = marks[v]
         /\ Exposed(u)' <=> Exposed(u) \/ op = "delete"
  <1> DEFINE ills == IF first = "undo" THEN 1 ELSE 0
             j == Job(op, u, p, ills, Image(u))
  <1>1. /\ j \in Jobs /\ j.user = u /\ j.fp = None /\ j.prev = None /\ j.op = op
    BY ImageTyped DEF Jobs, Job
  <1>2. pc' = [pc EXCEPT ![r] = first] /\ job' = [job EXCEPT ![r] = j]
    BY DEF Begin
  <1> HIDE DEF j
  <1>3. first \in Steps /\ first \notin {"idle", "first"} \cup NeedsFp \cup NeedsPrev
    BY DEF Steps, HelperSteps, StoreSteps, Uncancelled, NeedsFp, NeedsPrev
  <1>4. j # NoJob /\ j.user # None
    BY <1>1, TrustAssumption
  <1>5. Shape'
    BY <1>1, <1>2, <1>3, <1>4 DEF TypeInv, TypeOK, Shape, NeedsFp, NeedsPrev
  <1>6. /\ marks' \in [Users -> SUBSET Marks]
        /\ \A v \in Users \ {u} : marks'[v] = marks[v]
        /\ Exposed(u)' <=> Exposed(u) \/ op = "delete"
    BY DEF Begin, TypeInv, TypeOK, Marks, Exposed
  <1>7. outcome' \in [Users -> {"none", "pending", "ok", "failed", "ragged"}]
    BY DEF Begin, TypeInv, TypeOK
  <1> QED BY <1>1, <1>2, <1>3, <1>5, <1>6, <1>7 DEF TypeInv, TypeOK

LEMMA CurrentTrustTyped ==
  ASSUME TypeInv, NEW u \in Users
  PROVE  CurrentTrust(u) \in Rows \cup {None}
  BY DEF TypeInv, TypeOK, CurrentTrust

\* The job of a request that has drawn its certificate.
IssueJob(r, f) == [job[r] EXCEPT !.fp = f, !.prev = CurrentTrust(job[r].user)]

LEMMA IssueMoves ==
  ASSUME TypeInv, NEW r \in Requests, NEW f \in Certs, Issue(r, f)
  PROVE  /\ Working(r)
         /\ IssueJob(r, f) \in Jobs /\ IssueJob(r, f).user = job[r].user
         /\ IssueJob(r, f).fp = f /\ IssueJob(r, f).prev = CurrentTrust(job[r].user)
         /\ IssueJob(r, f).op = job[r].op
         /\ Moved(r, IssueJob(r, f), "register", {})
  <1>1. Working(r)
    BY DEF Issue, At, Working
  <1>2. /\ IssueJob(r, f) \in Jobs /\ IssueJob(r, f).user = job[r].user
        /\ IssueJob(r, f).fp = f /\ IssueJob(r, f).prev = CurrentTrust(job[r].user)
        /\ IssueJob(r, f).op = job[r].op
    BY <1>1, WorkingJob, CurrentTrustTyped DEF IssueJob, Jobs
  <1>3. "register" \in Targets /\ {} \in SUBSET Marks
    BY DEF Targets, Steps, HelperSteps
  <1>4. Advance(r, IssueJob(r, f), "register", 0, {})
    BY DEF Issue, IssueJob
  <1> QED BY <1>1, <1>2, <1>3, <1>4, WorkingJob, AdvanceMoves

\* The job of a deletion that has read the certificate row.
LoadJob(r) == [job[r] EXCEPT !.prev = CurrentTrust(job[r].user)]
AfterLoad(r) == IF CurrentTrust(job[r].user) = None THEN "remove" ELSE "revoke"

LEMMA LoadMoves ==
  ASSUME TypeInv, NEW r \in Requests, LoadCert(r)
  PROVE  /\ Working(r)
         /\ LoadJob(r) \in Jobs /\ LoadJob(r).user = job[r].user
         /\ LoadJob(r).fp = job[r].fp /\ LoadJob(r).prev = CurrentTrust(job[r].user)
         /\ LoadJob(r).op = job[r].op
         /\ AfterLoad(r) \in Targets
         /\ Moved(r, LoadJob(r), AfterLoad(r), {})
  <1>1. Working(r)
    BY DEF LoadCert, At, Working
  <1>2. /\ LoadJob(r) \in Jobs /\ LoadJob(r).user = job[r].user
        /\ LoadJob(r).fp = job[r].fp /\ LoadJob(r).prev = CurrentTrust(job[r].user)
        /\ LoadJob(r).op = job[r].op
    BY <1>1, WorkingJob, CurrentTrustTyped DEF LoadJob, Jobs
  <1>3. AfterLoad(r) \in Targets /\ {} \in SUBSET Marks
    BY DEF AfterLoad, Targets, Steps, HelperSteps, StoreSteps
  <1>4. Advance(r, LoadJob(r), AfterLoad(r), 0, {})
    BY DEF LoadCert, LoadJob, AfterLoad
  <1> QED BY <1>1, <1>2, <1>3, <1>4, WorkingJob, AdvanceMoves

\* A request whose client goes away stays where it is.
LEMMA HangUpMoves ==
  ASSUME TypeInv, NEW r \in Requests, HangUp(r), job[r].user # None
  PROVE  Working(r) /\ pc[r] \in Targets /\ Moved(r, Gone(r), pc[r], {})
  <1>1. Working(r)
    BY DEF HangUp, Working, TypeInv, Shape
  <1>2. pc[r] \in Targets /\ {} \in SUBSET Marks
    BY <1>1 DEF TypeInv, TypeOK, Working, Targets
  <1>3. Advance(r, Gone(r), pc[r], 2, {})
    BY DEF HangUp, Gone
  <1> QED BY <1>1, <1>2, <1>3, WorkingJob, GoneJob, AdvanceMoves

LEMMA TypeInit == Init => TypeInv
  <1> SUFFICES ASSUME Init PROVE TypeInv
    OBVIOUS
  <1> USE TrustAssumption DEF Init
  <1>1. TypeOK
    BY DEF TypeOK, Marks, Steps, Rows, Entries
  <1>2. Shape
    BY DEF Shape
  <1> QED BY <1>1, <1>2 DEF TypeInv

LEMMA TypeStep == TypeInv /\ [Next]_vars => TypeInv'
  <1> SUFFICES ASSUME TypeInv, [Next]_vars PROVE TypeInv'
    OBVIOUS
  <1> DEFINE Books ==
        /\ Shape'
        /\ pc' \in [Requests -> Steps \cup {"idle"}]
        /\ job' \in [Requests -> Jobs \cup {NoJob}]
        /\ outcome' \in [Users -> {"none", "pending", "ok", "failed", "ragged"}]
        /\ marks' \in [Users -> SUBSET Marks]
      Data ==
        /\ account' \in [Users -> {"none", "present", "gone"}]
        /\ project' \in [Users -> Projects]
        /\ owns' \in [Users -> BOOLEAN]
        /\ cert' \in [Users -> Rows \cup {None}]
        /\ trust' \in [Certs -> Entries \cup {None}]
        /\ token' \in BOOLEAN
  <1>0. Books /\ Data => TypeInv'
    BY DEF TypeInv, TypeOK
  <1>t. ASSUME UNCHANGED <<tables, trust, token>> PROVE Data
    BY <1>t DEF TypeInv, TypeOK, tables
  <1>n. {"ok", "failed", "retire", "issue", "register", "store", "revokePrev",
         "revokeNew", "mark", "remove"} \subseteq Targets
    BY DEF Targets, Steps, HelperSteps, StoreSteps, Uncancelled
  <1>w. ASSUME NEW r \in Requests, pc[r] \notin {"idle", "first"}
        PROVE  Working(r) /\ job[r] \in Jobs /\ job[r].user \in Users /\ job[r].project \in Projects
    BY <1>w, WorkingJob DEF Working, Jobs
  <1>1. ASSUME NEW r \in Requests, BeginSetup(r) PROVE TypeInv'
    <2> DEFINE j == Job("setup", None, Default, 0, Blank)
    <2>0. Blank \in Images
      BY TrustAssumption DEF Images, Blank
    <2>1. j \in Jobs /\ j.user = None
      BY <2>0, TrustAssumption DEF Jobs, Job, Ops
    <2>2. pc' = [pc EXCEPT ![r] = "first"] /\ job' = [job EXCEPT ![r] = j]
      BY <1>1 DEF BeginSetup
    <2> HIDE DEF j
    <2>3. j # NoJob
      BY <2>1, TrustAssumption
    <2>4. Shape'
      BY <2>1, <2>2, <2>3 DEF TypeInv, TypeOK, Shape
    <2>5. Books
      BY <1>1, <2>1, <2>2, <2>4 DEF BeginSetup, history, TypeInv, TypeOK, Steps, StoreSteps
    <2>6. Data
      BY <1>1, <1>t DEF BeginSetup
    <2> QED BY <2>5, <2>6, <1>0
  <1>2. ASSUME NEW r \in Requests, DismissSetup(r) PROVE TypeInv'
    <2>1. Shape'
      BY <1>2 DEF DismissSetup, TypeInv, TypeOK, Shape
    <2>2. Books
      BY <1>2, <2>1 DEF DismissSetup, history, TypeInv, TypeOK
    <2>3. Data
      BY <1>2, <1>t DEF DismissSetup
    <2> QED BY <2>2, <2>3, <1>0
  <1>3. ASSUME NEW r \in Requests, NEW u \in Users, CreateFirstAdmin(r, u) PROVE TypeInv'
    <2> DEFINE j == Job("setup", u, Default, 0, Blank)
    <2>0. Blank \in Images
      BY TrustAssumption DEF Images, Blank
    <2>1. j \in Jobs /\ j.user = u
      BY <2>0, TrustAssumption DEF Jobs, Job, Ops
    <2>2. pc' = [pc EXCEPT ![r] = "issue"] /\ job' = [job EXCEPT ![r] = j]
      BY <1>3 DEF CreateFirstAdmin
    <2> HIDE DEF j
    <2>3. j # NoJob /\ u # None
      BY <2>1, TrustAssumption
    <2>4. Shape'
      BY <2>1, <2>2, <2>3 DEF TypeInv, TypeOK, Shape
    <2>5. Books
      BY <1>3, <2>1, <2>2, <2>4 DEF CreateFirstAdmin, TypeInv, TypeOK, Steps, StoreSteps
    <2>6. Data
      BY <1>3 DEF CreateFirstAdmin, TypeInv, TypeOK
    <2> QED BY <2>5, <2>6, <1>0
  <1>4. ASSUME NEW r \in Requests, NEW u \in Users, CreateUser(r, u) PROVE TypeInv'
    <2>1. Books
      BY <1>4, BeginTyped, TrustAssumption DEF CreateUser, Ops
    <2>2. Data
      BY <1>4 DEF CreateUser, TypeInv, TypeOK
    <2> QED BY <2>1, <2>2, <1>0
  <1>5. ASSUME NEW r \in Requests, NEW u \in Users, BeginDelete(r, u) PROVE TypeInv'
    <2>1. Books
      BY <1>5, BeginTyped, TrustAssumption DEF BeginDelete, Ops
    <2>2. Data
      BY <1>5, <1>t DEF BeginDelete
    <2> QED BY <2>1, <2>2, <1>0
  <1>6. ASSUME NEW r \in Requests, NEW u \in Users, NEW p \in Projects,
               UpdateUserScope(r, u, p)
        PROVE  TypeInv'
    <2>1. Books
      BY <1>6, BeginTyped DEF UpdateUserScope, Ops
    <2>2. Data
      BY <1>6, <1>t DEF UpdateUserScope
    <2> QED BY <2>1, <2>2, <1>0
  <1>7. ASSUME NEW r \in Requests, NEW f \in Certs, Issue(r, f) PROVE TypeInv'
    <2>1. "register" \in Targets /\ "register" \notin NeedsPrev
      BY <1>n DEF NeedsPrev
    <2>2. Shape'
      BY <1>7, <2>1, IssueMoves, MovedShape, WorkingJob
    <2>3. Books
      BY <1>7, <2>2, IssueMoves DEF Moved
    <2>4. Data
      BY <1>7, <1>t DEF Issue
    <2> QED BY <2>3, <2>4, <1>0
  <1>8. ASSUME NEW r \in Requests, SetUserIncusProject(r) PROVE TypeInv'
    <2>1. Books
      BY <1>8, <1>n, StepTyped, <1>w DEF SetUserIncusProject, At, NeedsFp, NeedsPrev
    <2>2. Data
      BY <1>8, <1>w DEF SetUserIncusProject, At, TypeInv, TypeOK
    <2> QED BY <2>1, <2>2, <1>0
  <1>9. ASSUME NEW r \in Requests, Undo(r) PROVE TypeInv'
    <2>1. Books
      BY <1>9, <1>n, StepTyped, <1>w DEF Undo, NeedsFp, NeedsPrev
    <2>2. Data
      BY <1>9, TrustAssumption DEF Undo, Drop, TypeInv, TypeOK
    <2> QED BY <2>1, <2>2, <1>0
  <1>10. ASSUME NEW r \in Requests, RetireSetupToken(r) PROVE TypeInv'
    <2>1. Books
      BY <1>10, <1>n, StepTyped, <1>w DEF RetireSetupToken, NeedsFp, NeedsPrev
    <2>2. Data
      BY <1>10 DEF RetireSetupToken, tables, TypeInv, TypeOK
    <2> QED BY <2>1, <2>2, <1>0
  <1>11. ASSUME NEW r \in Requests, Register(r) PROVE TypeInv'
    <2>1. job[r].fp \in Certs
      BY <1>11 DEF Register, At, TypeInv, Shape
    <2>2. Books
      BY <1>11, <2>1, <1>n, StepTyped, <1>w DEF Register, At, NeedsPrev
    <2>3. Data
      <3>1. [user |-> job[r].user, project |-> job[r].project] \in Entries
        BY <1>11, <1>w DEF Register, At, Entries
      <3> QED BY <1>11, <3>1 DEF Register, tables, TypeInv, TypeOK
    <2> QED BY <2>2, <2>3, <1>0
  <1>12. ASSUME NEW r \in Requests, StoreCert(r) PROVE TypeInv'
    <2> DEFINE next == IF job[r].prev # None THEN "revokePrev" ELSE Provisioned(r)
    <2>1. /\ job[r].fp \in Certs
          /\ next \in NeedsPrev => job[r].prev \in Rows
          /\ next \in Targets
      BY <1>12, <1>w, <1>n DEF StoreCert, At, TypeInv, Shape, Jobs, NeedsPrev, Provisioned
    <2>2. Succeed(r, next)
      BY <1>12 DEF StoreCert
    <2>3. Books
      <3> HIDE DEF next
      <3> QED BY <1>12, <2>1, <2>2, StepTyped, <1>w DEF StoreCert, At
    <2>4. Data
      <3>1. [fp |-> job[r].fp, project |-> job[r].project, revoked |-> FALSE] \in Rows
        BY <1>12, <2>1, <1>w DEF StoreCert, At, Rows
      <3> QED BY <1>12, <3>1, <1>w DEF StoreCert, At, TypeInv, TypeOK
    <2> QED BY <2>3, <2>4, <1>0
  <1>13. ASSUME NEW r \in Requests, RevokePrevious(r) PROVE TypeInv'
    <2>1. Provisioned(r) \in Targets /\ Provisioned(r) \notin NeedsFp \cup NeedsPrev
      BY <1>n DEF Provisioned, NeedsFp, NeedsPrev
    <2>2. Books
      BY <1>13, <2>1, StepTyped, <1>w DEF RevokePrevious, At
    <2>3. Data
      BY <1>13 DEF RevokePrevious, tables, TypeInv, TypeOK
    <2> QED BY <2>2, <2>3, <1>0
  <1>14. ASSUME NEW r \in Requests, RestoreCert(r) PROVE TypeInv'
    <2>1. job[r].fp \in Certs /\ job[r].prev \in Rows
      BY <1>14 DEF RestoreCert, At, TypeInv, Shape
    <2>2. Books
      BY <1>14, <2>1, <1>n, StepTyped, <1>w DEF RestoreCert, At
    <2>3. Data
      BY <1>14, <2>1, <1>w DEF RestoreCert, At, TypeInv, TypeOK, Rows
    <2> QED BY <2>2, <2>3, <1>0
  <1>15. ASSUME NEW r \in Requests, RevokeNew(r) PROVE TypeInv'
    <2>1. Working(r)
      BY <1>15 DEF RevokeNew, At, Working
    <2>2. Books
      BY <1>15, <2>1, FailureTargets, FailureShape, StepTyped DEF RevokeNew
    <2>3. Data
      BY <1>15 DEF RevokeNew, tables, TypeInv, TypeOK
    <2> QED BY <2>2, <2>3, <1>0
  <1>16. ASSUME NEW r \in Requests, LoadCert(r) PROVE TypeInv'
    <2>1. /\ AfterLoad(r) \notin NeedsFp
          /\ AfterLoad(r) \in NeedsPrev => CurrentTrust(job[r].user) \in Rows
      <3>1. job[r].user \in Users
        BY <1>16, LoadMoves, WorkingJob
      <3> QED BY <3>1, CurrentTrustTyped DEF AfterLoad, NeedsFp, NeedsPrev
    <2>2. Shape'
      BY <1>16, <2>1, LoadMoves, MovedShape, WorkingJob
    <2>3. Books
      BY <1>16, <2>2, LoadMoves DEF Moved
    <2>4. Data
      BY <1>16, <1>t DEF LoadCert
    <2> QED BY <2>3, <2>4, <1>0
  <1>17. ASSUME NEW r \in Requests, RevokeCert(r) PROVE TypeInv'
    <2>1. Books
      BY <1>17, <1>n, StepTyped, <1>w DEF RevokeCert, At, NeedsFp, NeedsPrev
    <2>2. Data
      BY <1>17 DEF RevokeCert, tables, TypeInv, TypeOK
    <2> QED BY <2>1, <2>2, <1>0
  <1>18. ASSUME NEW r \in Requests, MarkRevoked(r) PROVE TypeInv'
    <2>1. Books
      BY <1>18, <1>n, StepTyped, <1>w DEF MarkRevoked, At, NeedsFp, NeedsPrev
    <2>2. Data
      <3>1. \A row \in Rows : [row EXCEPT !.revoked = TRUE] \in Rows
        BY DEF Rows
      <3> QED BY <1>18, <3>1, <1>w DEF MarkRevoked, At, TypeInv, TypeOK
    <2> QED BY <2>1, <2>2, <1>0
  <1>19. ASSUME NEW r \in Requests, DeleteUser(r) PROVE TypeInv'
    <2>1. Books
      BY <1>19, <1>n, StepTyped, <1>w DEF DeleteUser, At, NeedsFp, NeedsPrev
    <2>2. Data
      BY <1>19, TrustAssumption DEF DeleteUser, Drop, TypeInv, TypeOK
    <2> QED BY <2>1, <2>2, <1>0
  <1>20. ASSUME NEW r \in Requests, StepFails(r) PROVE TypeInv'
    <2>1. Working(r) /\ Fail(r)
      BY <1>20 DEF StepFails, Working
    <2>2. Books
      BY <2>1, <1>n, StepTyped DEF NeedsFp, NeedsPrev
    <2>3. Data
      BY <1>20, <1>t DEF StepFails
    <2> QED BY <2>2, <2>3, <1>0
  <1>21. ASSUME NEW r \in Requests, HangUp(r) PROVE TypeInv'
    <2>1. Data
      BY <1>21, <1>t DEF HangUp
    <2>2. CASE job[r].user = None
      <3>1. job[r] \in Jobs
        BY <1>21 DEF HangUp, TypeInv, TypeOK, Shape
      <3>2. /\ Gone(r) \in Jobs /\ Gone(r).user = job[r].user
            /\ Gone(r).fp = job[r].fp /\ Gone(r).prev = job[r].prev
        BY <3>1 DEF Gone, Jobs
      <3>3. Gone(r) # NoJob
        BY <3>2, TrustAssumption
      <3>4. job' = [job EXCEPT ![r] = Gone(r)] /\ pc' = pc
        BY <1>21, <2>2 DEF HangUp, Gone
      <3>5. Shape'
        BY <1>21, <3>2, <3>3, <3>4 DEF HangUp, TypeInv, TypeOK, Shape
      <3>6. Books
        BY <1>21, <2>2, <3>2, <3>4, <3>5 DEF HangUp, history, TypeInv, TypeOK
      <3> QED BY <2>1, <3>6, <1>0
    <2>3. CASE job[r].user # None
      <3>1. /\ pc[r] \in NeedsFp => job[r].fp \in Certs
            /\ pc[r] \in NeedsPrev => job[r].prev \in Rows
        BY DEF TypeInv, Shape, NeedsFp, NeedsPrev
      <3>2. Shape'
        BY <1>21, <2>3, <3>1, HangUpMoves, GoneJob, WorkingJob, MovedShape
      <3>3. Books
        BY <1>21, <2>3, <3>2, HangUpMoves DEF Moved
      <3> QED BY <2>1, <3>3, <1>0
    <2> QED BY <2>2, <2>3
  <1>22. ASSUME NEW u \in Users, OwnRow(u) PROVE TypeInv'
    BY <1>22 DEF OwnRow, history, TypeInv, TypeOK, Shape
  <1>23. ASSUME Crash PROVE TypeInv'
    <2>1. Books
      BY <1>23 DEF Crash, TypeInv, TypeOK, Shape, Marks
    <2>2. Data
      BY <1>23, <1>t DEF Crash
    <2> QED BY <2>1, <2>2, <1>0
  <1>24. CASE UNCHANGED vars
    BY <1>24 DEF vars, tables, history, TypeInv, TypeOK, Shape
  <1> QED
    BY <1>1, <1>2, <1>3, <1>4, <1>5, <1>6, <1>7, <1>8, <1>9, <1>10, <1>11, <1>12,
       <1>13, <1>14, <1>15, <1>16, <1>17, <1>18, <1>19, <1>20, <1>21, <1>22, <1>23,
       <1>24 DEF Next

\* Types and the shape of requests are kept whatever fails, overlaps or is cut
\* off: no handler reaches a step without what the step works on.
THEOREM UserTrustTypeCorrect == Spec => []TypeOK
  <1>1. TypeInv => TypeOK
    BY DEF TypeInv
  <1> QED BY TypeInit, TypeStep, <1>1, PTL DEF Spec

-----------------------------------------------------------------------------
(* Requests that do not overlap.                                           *)

\* A step that works on one user leaves what holds of the others: it touches
\* entries in that user's hands only, and takes no one else's fingerprint.
LEMMA Frame ==
  ASSUME IInv, TypeInv', NEW r \in Requests, NEW u \in Users,
         \A q \in Requests \ {r} : Working(q) => job[q].user # u,
         \A q \in Requests \ {r} : pc'[q] = pc[q] /\ job'[q] = job[q],
         Working(r)' => job'[r].user = u,
         \A v \in Users \ {u} :
           account'[v] = account[v] /\ cert'[v] = cert[v] /\ marks'[v] = marks[v],
         \A f \in Certs : trust'[f] # trust[f] => Holds(f, u),
         \A f \in Certs : Holds(f, u)' => Holds(f, u) \/ \A v \in Users : ~Holds(f, v),
         RequestOK(r)', UserOK(u)'
  PROVE  IInv'
  <1>1. Exclusive'
    BY DEF IInv, Exclusive, Working
  <1>2. ASSUME NEW v \in Users \ {u}, NEW f, Holds(f, v)' PROVE Holds(f, v)
    BY <1>2 DEF Holds, Working
  <1>3. OneOwner'
    <2> SUFFICES ASSUME NEW f \in Certs, NEW a \in Users, NEW b \in Users,
                        Holds(f, a)', Holds(f, b)'
                 PROVE  a = b
      BY DEF OneOwner
    <2>1. \A v \in Users : Holds(f, v)' => v = u \/ Holds(f, v)
      BY <1>2
    <2> QED BY <2>1 DEF IInv, OneOwner
  <1>4. ASSUME NEW v \in Users \ {u}, NEW f \in Certs, Holds(f, v)
        PROVE  trust'[f] = trust[f]
    BY <1>4 DEF IInv, OneOwner
  <1>5. ASSUME NEW q \in Requests PROVE RequestOK(q)'
    <2>1. CASE q = r
      BY <2>1
    <2>2. CASE q # r
      <3> SUFFICES ASSUME Working(q) PROVE RequestOK(q)'
        BY <2>2 DEF RequestOK, Working
      <3> DEFINE w == job[q].user
      <3>1. /\ w \in Users \ {u} /\ pc'[q] = pc[q] /\ job'[q] = job[q]
            /\ account'[w] = account[w] /\ cert'[w] = cert[w] /\ marks'[w] = marks[w]
        BY <2>2, WorkingJob DEF IInv
      <3>2. RequestOK(q)
        BY DEF IInv
      <3>3. ~Exposed(w)' => Progress(q)'
        <4> SUFFICES ASSUME ~Exposed(w)' PROVE Progress(q)'
          OBVIOUS
        <4>1. Progress(q)
          BY <3>1, <3>2 DEF RequestOK, Exposed
        <4>2. pc[q] = "store" => trust'[job[q].fp] = trust[job[q].fp]
          <5> HAVE pc[q] = "store"
          <5>1. job[q].fp \in Certs
            BY DEF IInv, TypeInv, Shape
          <5>2. Holds(job[q].fp, w)
            BY DEF Holds
          <5> QED BY <3>1, <5>1, <5>2, <1>4
        <4>3. pc[q] \in {"revokePrev", "restore"} => trust'[job[q].prev.fp] = trust[job[q].prev.fp]
          <5> HAVE pc[q] \in {"revokePrev", "restore"}
          <5>1. job[q].prev \in Rows /\ job[q].prev # None
            BY TrustAssumption DEF IInv, TypeInv, Shape
          <5>2. Holds(job[q].prev.fp, w) /\ job[q].prev.fp \in Certs
            BY <5>1 DEF Holds, Rows
          <5> QED BY <3>1, <5>2, <1>4
        <4> QED BY <3>1, <4>1, <4>2, <4>3 DEF Progress, CurrentTrust, Backed
      <3> QED BY <3>1, <3>2, <3>3 DEF RequestOK, Exposed, Present
    <2> QED BY <2>1, <2>2
  <1>6. ASSUME NEW v \in Users PROVE UserOK(v)'
    <2>1. CASE v = u
      BY <2>1
    <2>2. CASE v # u
      <3>1. UserOK(v) /\ cert'[v] = cert[v] /\ marks'[v] = marks[v]
        BY <2>2 DEF IInv
      <3>2. cert[v] # None => trust'[cert[v].fp] = trust[cert[v].fp]
        <4> HAVE cert[v] # None
        <4>1. Holds(cert[v].fp, v) /\ cert[v].fp \in Certs
          BY DEF Holds, IInv, TypeInv, TypeOK, Rows
        <4> QED BY <2>2, <4>1, <1>4
      <3> QED BY <3>1, <3>2 DEF UserOK, Exposed, NotStranded, Backed
    <2> QED BY <2>1, <2>2
  <1> QED BY <1>1, <1>3, <1>5, <1>6 DEF IInv

\* The same for a step of a request already at work.
LEMMA OwnStep ==
  ASSUME IInv, TypeInv', NEW r \in Requests, Working(r), NEW j, NEW next, NEW mark,
         Moved(r, j, next, mark), j.user = job[r].user,
         \A v \in Users \ {j.user} : account'[v] = account[v] /\ cert'[v] = cert[v],
         j.fp # None =>
           Holds(j.fp, j.user) \/ \A v \in Users : ~Holds(j.fp, v),
         j.prev # None => Holds(j.prev.fp, j.user),
         cert'[j.user] # None => Holds(cert'[j.user].fp, j.user),
         \A f \in Certs : trust'[f] # trust[f] => Holds(f, j.user),
         RequestOK(r)', UserOK(j.user)'
  PROVE  IInv'
  <1> DEFINE u == j.user
  <1>1. u \in Users
    BY WorkingJob DEF IInv
  <1>2. \A q \in Requests \ {r} : Working(q) => job[q].user # u
    BY DEF IInv, Exclusive
  <1>3. /\ \A q \in Requests \ {r} : pc'[q] = pc[q] /\ job'[q] = job[q]
        /\ \A v \in Users \ {u} : marks'[v] = marks[v]
    BY DEF Moved
  <1>4. Working(r)' => job'[r].user = u /\ job'[r].fp = j.fp /\ job'[r].prev = j.prev
    BY DEF Moved, Working
  <1>5. ASSUME NEW f \in Certs, Holds(f, u)'
        PROVE  Holds(f, u) \/ \A v \in Users : ~Holds(f, v)
    <2>1. CASE cert'[u] # None /\ cert'[u].fp = f
      BY <2>1
    <2>2. CASE \E q \in Requests :
                 /\ Working(q)'
                 /\ job'[q].user = u
                 /\ job'[q].fp = f \/ (job'[q].prev # None /\ job'[q].prev.fp = f)
      <3>1. PICK q \in Requests :
                 /\ Working(q)'
                 /\ job'[q].user = u
                 /\ job'[q].fp = f \/ (job'[q].prev # None /\ job'[q].prev.fp = f)
        BY <2>2
      <3>2. q = r
        BY <3>1, <1>2, <1>3 DEF Working
      <3>3. f # None
        BY TrustAssumption
      <3> QED BY <3>1, <3>2, <3>3, <1>4
    <2> QED BY <1>5, <2>1, <2>2 DEF Holds
  <1> HIDE DEF u
  <1>6. Working(r)' => job'[r].user = u
    BY <1>4
  <1>7. /\ \A v \in Users \ {u} : account'[v] = account[v] /\ cert'[v] = cert[v] /\ marks'[v] = marks[v]
        /\ \A f \in Certs : trust'[f] # trust[f] => Holds(f, u)
        /\ UserOK(u)'
    BY <1>3 DEF u
  <1> QED BY <1>1, <1>2, <1>3, <1>5, <1>6, <1>7, Frame

\* So does a step after which nothing new is under way: requests end, or wait to
\* create the first administrator.
LEMMA QuietStep ==
  ASSUME IInv, TypeInv',
         \A q \in Requests : Working(q)' => Working(q) /\ pc'[q] = pc[q] /\ job'[q] = job[q],
         account' = account, cert' = cert, trust' = trust,
         \A u \in Users : Exposed(u) => Exposed(u)'
  PROVE  IInv'
  <1>1. Exclusive'
    BY DEF IInv, Exclusive
  <1>2. \A f, u : Holds(f, u)' => Holds(f, u)
    BY DEF Holds
  <1>3. OneOwner'
    BY <1>2 DEF IInv, OneOwner
  <1>4. ASSUME NEW r \in Requests PROVE RequestOK(r)'
    <2> SUFFICES ASSUME Working(r)' PROVE RequestOK(r)'
      BY DEF RequestOK
    <2>1. Working(r) /\ pc'[r] = pc[r] /\ job'[r] = job[r] /\ job[r].user \in Users
      BY WorkingJob DEF IInv
    <2>2. RequestOK(r)
      BY DEF IInv
    <2>3. Progress(r) => Progress(r)'
      BY <2>1 DEF Progress, CurrentTrust, Backed
    <2> QED BY <2>1, <2>2, <2>3 DEF RequestOK, Present
  <1>5. ASSUME NEW u \in Users PROVE UserOK(u)'
    BY DEF IInv, UserOK, NotStranded, Backed
  <1> QED BY <1>1, <1>3, <1>4, <1>5 DEF IInv

\* What a request and its user have in their hands.
LEMMA Hands ==
  ASSUME TypeInv, NEW r \in Requests, Working(r)
  PROVE  /\ job[r].fp # None => Holds(job[r].fp, job[r].user)
         /\ job[r].prev # None => Holds(job[r].prev.fp, job[r].user)
         /\ cert[job[r].user] # None => Holds(cert[job[r].user].fp, job[r].user)
  BY DEF Holds

\* A request that fails goes on to what its repairs need.
LEMMA FailureOK ==
  ASSUME IInv, NEW r \in Requests, Working(r), NEW j \in {job[r], Gone(r)},
         NEW mark, Moved(r, j, OnFailure(r), mark),
         account' = account, cert' = cert,
         pc[r] = "restore" => "exposed" \in mark,
         pc[r] = "revokePrev" /\ ~j.hungup /\ "exposed" \notin mark => trust' = trust
  PROVE  RequestOK(r)'
  <1> DEFINE u == job[r].user
             next == OnFailure(r)
  <1>1. /\ j.user = u /\ j.fp = job[r].fp /\ j.prev = job[r].prev /\ j.project = job[r].project
        /\ u \in Users
    BY GoneJob, WorkingJob DEF IInv
  <1> SUFFICES ASSUME Working(r)' PROVE RequestOK(r)'
    BY DEF RequestOK
  <1>2. next \notin {"ok", "failed"}
    BY DEF Moved, Working
  <1>3. /\ pc'[r] = next /\ job'[r].user = u /\ job'[r].fp = job[r].fp
        /\ job'[r].prev = job[r].prev /\ job'[r].project = job[r].project
        /\ job'[r].hungup = j.hungup
        /\ "exposed" \in marks'[u] <=> Exposed(u) \/ "exposed" \in mark
    BY <1>1, <1>2 DEF Moved
  <1>4. Present(u)'
    BY <1>3 DEF IInv, RequestOK, Present
  <1>5. next \in {"undo", "restore", "revokeNew"}
    BY <1>2 DEF OnFailure
  <1>6. "exposed" \notin marks'[u] => Progress(r)'
    <2> SUFFICES ASSUME "exposed" \notin marks'[u] PROVE Progress(r)'
      OBVIOUS
    <2>1. ~Exposed(u) /\ "exposed" \notin mark /\ Progress(r)
      BY <1>3 DEF IInv, RequestOK
    <2>2. CASE next = "undo"
      BY <2>2, <1>3 DEF Progress
    <2>3. CASE next = "revokeNew"
      <3>1. pc[r] = "store"
        BY <2>1, <2>3 DEF OnFailure
      <3> QED BY <2>1, <2>3, <3>1, <1>3 DEF Progress
    <2>4. CASE next = "restore"
      <3>1. pc[r] = "revokePrev"
        BY <2>4 DEF OnFailure
      <3> QED BY <2>1, <2>4, <3>1, <1>3 DEF Progress, Backed
    <2> QED BY <1>5, <2>2, <2>3, <2>4
  <1> QED BY <1>3, <1>4, <1>5, <1>6 DEF RequestOK, Exposed

\* A step that changes neither the user, nor the certificate, nor the entries.
LEMMA KeepStep ==
  ASSUME IInv, TypeInv', NEW r \in Requests, Working(r), NEW j, NEW next, NEW mark,
         Moved(r, j, next, mark), j.user = job[r].user,
         account' = account, cert' = cert, trust' = trust,
         j.fp # None =>
           j.fp = job[r].fp \/ \A v \in Users : ~Holds(j.fp, v),
         j.prev # None => j.prev = job[r].prev \/ j.prev = cert[j.user],
         RequestOK(r)'
  PROVE  IInv'
  <1>1. TypeInv /\ j.user \in Users
    BY WorkingJob DEF IInv
  <1>2. UserOK(j.user)'
    BY <1>1 DEF Moved, IInv, UserOK, NotStranded, Backed, Exposed
  <1>3. /\ j.fp # None => Holds(j.fp, j.user) \/ \A v \in Users : ~Holds(j.fp, v)
        /\ j.prev # None => Holds(j.prev.fp, j.user)
        /\ cert'[j.user] # None => Holds(cert'[j.user].fp, j.user)
    BY <1>1, Hands
  <1> QED BY <1>2, <1>3, OwnStep

\* A step of the trust helper, on the entry for the fingerprint g.
LEMMA HelperStep ==
  ASSUME IInv, TypeInv', NEW r \in Requests, Working(r), pc[r] # "restore",
         NEW next \in Targets, HelperEnds(r, next),
         account' = account, cert' = cert,
         NEW g, Holds(g, job[r].user), \A f \in Certs : f # g => trust'[f] = trust[f],
         ~Exposed(job[r].user) /\ cert[job[r].user] # None => cert[job[r].user].fp # g,
         Moved(r, job[r], next, {}) => RequestOK(r)'
  PROVE  IInv'
  <1>1. /\ TypeInv /\ job[r].user \in Users
        /\ Gone(r).user = job[r].user /\ Gone(r).fp = job[r].fp
        /\ Gone(r).prev = job[r].prev /\ Gone(r).hungup
    BY WorkingJob, GoneJob DEF IInv
  <1>2. PICK j \in {job[r], Gone(r)}, nx \in {next, OnFailure(r)}, mark \in {{}, {"exposed"}} :
          /\ Moved(r, j, nx, mark)
          /\ RequestOK(r)'
    <2>1. CASE Moved(r, job[r], next, {})
      BY <2>1
    <2>2. CASE Moved(r, job[r], OnFailure(r), {"exposed"})
      <3>1. RequestOK(r)'
        BY <2>2, FailureOK
      <3> QED BY <2>2, <3>1
    <2>3. CASE Moved(r, Gone(r), OnFailure(r), {})
      <3>1. RequestOK(r)'
        BY <2>3, <1>1, FailureOK
      <3> QED BY <2>3, <3>1
    <2> QED BY <1>1, <2>1, <2>2, <2>3, HelperEndsMoves
  <1>3. j.user = job[r].user /\ j.fp = job[r].fp /\ j.prev = job[r].prev
    BY <1>1, <1>2
  <1>4. UserOK(j.user)'
    <2> SUFFICES ASSUME ~Exposed(j.user)', cert'[j.user] # None
                 PROVE  Backed(j.user, cert[j.user])'
      BY DEF UserOK, NotStranded
    <2>1. ~Exposed(j.user)
      BY <1>2 DEF Moved, Exposed
    <2>2. Backed(j.user, cert[j.user])
      BY <2>1, <1>1, <1>3 DEF IInv, UserOK, NotStranded
    <2>3. cert[j.user].fp \in Certs
      BY <1>1, <1>3 DEF TypeInv, TypeOK, Rows
    <2> QED BY <2>1, <2>2, <2>3, <1>3 DEF Backed
  <1>5. \A f \in Certs : trust'[f] # trust[f] => Holds(f, j.user)
    BY <1>3
  <1>6. /\ j.fp # None => Holds(j.fp, j.user) \/ \A v \in Users : ~Holds(j.fp, v)
        /\ j.prev # None => Holds(j.prev.fp, j.user)
        /\ cert'[j.user] # None => Holds(cert'[j.user].fp, j.user)
    BY <1>1, <1>3, Hands
  <1> QED BY <1>2, <1>3, <1>4, <1>5, <1>6, OwnStep

\* The start of a request on a user on whom nobody works.
LEMMA BeginOK ==
  ASSUME Overlap = FALSE, IInv, TypeInv', NEW r \in Requests, NEW u \in Users,
         NEW p \in Projects, NEW op \in Ops,
         NEW first \in {"assign", "issue", "undo", "load"}, Begin(r, op, u, p, first),
         first = "load" => op = "delete",
         \A v \in Users \ {u} : account'[v] = account[v],
         account'[u] = "present", cert' = cert, trust' = trust
  PROVE  IInv'
  <1>1. TypeInv /\ ~Working(r)
    BY DEF IInv, Begin, Working
  <1>2. /\ \A q \in Requests \ {r} : pc'[q] = pc[q] /\ job'[q] = job[q]
        /\ pc'[r] = first /\ job'[r].user = u
        /\ job'[r].fp = None /\ job'[r].prev = None
        /\ \A v \in Users \ {u} : marks'[v] = marks[v]
        /\ Exposed(u)' <=> Exposed(u) \/ op = "delete"
    BY <1>1, BeginTyped
  <1>3. \A q \in Requests : Working(q) => job[q].user # u
    BY DEF Begin, Busy, Working
  <1>4. ASSUME NEW f \in Certs, Holds(f, u)' PROVE Holds(f, u)
    <2>1. f # None
      BY TrustAssumption
    <2> QED BY <1>2, <1>3, <1>4, <2>1 DEF Holds, Working
  <1>5. RequestOK(r)'
    BY <1>2 DEF RequestOK, Working, Progress, Present
  <1>6. UserOK(u)'
    BY <1>2 DEF IInv, UserOK, NotStranded, Backed
  <1>7. \A q \in Requests \ {r} : Working(q) => job[q].user # u
    BY <1>3
  <1>8. /\ \A q \in Requests \ {r} : pc'[q] = pc[q] /\ job'[q] = job[q]
        /\ Working(r)' => job'[r].user = u
        /\ \A v \in Users \ {u} :
             account'[v] = account[v] /\ cert'[v] = cert[v] /\ marks'[v] = marks[v]
        /\ \A f \in Certs : trust'[f] # trust[f] => Holds(f, u)
        /\ \A f \in Certs : Holds(f, u)' => Holds(f, u) \/ \A v \in Users : ~Holds(f, v)
    BY <1>2, <1>4
  <1> QED BY <1>5, <1>6, <1>7, <1>8, Frame

\* Fingerprints that Issue draws are in nobody's hands.
LEMMA FreshIsFree ==
  ASSUME TypeInv, NEW f \in Certs, Fresh(f), NEW v \in Users
  PROVE  ~Holds(f, v)
  <1>1. cert[v] # None => cert[v].fp # f
    BY DEF Fresh
  <1>2. ASSUME NEW q \in Requests, Working(q)
        PROVE  job[q].fp # f /\ (job[q].prev # None => job[q].prev.fp # f)
    <2>1. job[q] \in {job[r] : r \in Requests} \ {NoJob}
      BY <1>2, WorkingJob
    <2> QED BY <2>1 DEF Fresh
  <1> QED BY <1>1, <1>2 DEF Holds

LEMMA InvStep ==
  ASSUME Overlap = FALSE, IInv, [Next]_vars
  PROVE  IInv'
  <1>t. TypeInv /\ TypeInv'
    BY TypeStep DEF IInv
  <1>n. {"register", "store", "issue", "assign", "remove", "mark", "ok", "failed",
         "retire", "revokePrev", "revokeNew", "revoke"} \subseteq Targets
    BY DEF Targets, Steps, HelperSteps, StoreSteps, Uncancelled
  <1>1. ASSUME NEW r \in Requests, BeginSetup(r) \/ DismissSetup(r) PROVE IInv'
    <2>1. ~Working(r)
      BY <1>1 DEF BeginSetup, DismissSetup, Working
    <2>2. /\ \A q \in Requests : Working(q)' => Working(q) /\ pc'[q] = pc[q] /\ job'[q] = job[q]
          /\ account' = account /\ cert' = cert /\ trust' = trust /\ marks' = marks
      BY <1>1, <1>t, <2>1 DEF BeginSetup, DismissSetup, tables, history, Working, TypeInv, TypeOK
    <2> QED BY <2>2, <1>t, QuietStep DEF Exposed
  <1>2. ASSUME NEW r \in Requests, NEW u \in Users, CreateFirstAdmin(r, u) PROVE IInv'
    <2>1. /\ pc' = [pc EXCEPT ![r] = "issue"]
          /\ job' = [job EXCEPT ![r] = Job("setup", u, Default, 0, Blank)]
          /\ ~Working(r) /\ account[u] = "none"
          /\ \A v \in Users \ {u} : account'[v] = account[v]
          /\ account'[u] = "present" /\ cert' = cert /\ trust' = trust /\ marks' = marks
      BY <1>2, <1>t DEF CreateFirstAdmin, At, Working, TypeInv, TypeOK
    <2>2. /\ pc'[r] = "issue" /\ job'[r].user = u /\ job'[r].fp = None /\ job'[r].prev = None
          /\ \A q \in Requests \ {r} : pc'[q] = pc[q] /\ job'[q] = job[q]
      BY <2>1, <1>t DEF Job, TypeInv, TypeOK
    <2>3. \A q \in Requests : Working(q) => job[q].user # u
      BY <2>1 DEF IInv, RequestOK, Present
    <2>4. ASSUME NEW f \in Certs, Holds(f, u)' PROVE Holds(f, u)
      <3>1. f # None
        BY TrustAssumption
      <3> QED BY <2>1, <2>2, <2>3, <2>4, <3>1 DEF Holds, Working
    <2>5. RequestOK(r)'
      BY <2>1, <2>2 DEF RequestOK, Working, Progress, Present
    <2>6. UserOK(u)'
      BY <2>1 DEF IInv, UserOK, NotStranded, Backed, Exposed
    <2>7. /\ \A q \in Requests \ {r} : Working(q) => job[q].user # u
          /\ Working(r)' => job'[r].user = u
          /\ \A v \in Users \ {u} :
               account'[v] = account[v] /\ cert'[v] = cert[v] /\ marks'[v] = marks[v]
          /\ \A f \in Certs : trust'[f] # trust[f] => Holds(f, u)
          /\ \A f \in Certs : Holds(f, u)' => Holds(f, u) \/ \A v \in Users : ~Holds(f, v)
      BY <2>1, <2>2, <2>3, <2>4
    <2> QED BY <1>t, <2>2, <2>5, <2>6, <2>7, Frame
  <1>3. ASSUME NEW r \in Requests, NEW u \in Users, CreateUser(r, u) PROVE IInv'
    <2>1. /\ \A v \in Users \ {u} : account'[v] = account[v]
          /\ account'[u] = "present" /\ cert' = cert /\ trust' = trust
      BY <1>3, <1>t DEF CreateUser, TypeInv, TypeOK
    <2>2. PICK p \in Projects, first \in {"issue", "assign", "undo"} : Begin(r, "create", u, p, first)
      BY <1>3, TrustAssumption DEF CreateUser
    <2> QED BY <1>t, <2>1, <2>2, BeginOK DEF Ops
  <1>4. ASSUME NEW r \in Requests, NEW u \in Users, BeginDelete(r, u) PROVE IInv'
    <2>1. /\ \A v \in Users \ {u} : account'[v] = account[v]
          /\ account'[u] = "present" /\ cert' = cert /\ trust' = trust
          /\ Begin(r, "delete", u, Default, "load")
      BY <1>4 DEF BeginDelete, Present, tables
    <2> QED BY <1>t, <2>1, TrustAssumption, BeginOK DEF Ops
  <1>5. ASSUME NEW r \in Requests, NEW u \in Users, NEW p \in Projects,
               UpdateUserScope(r, u, p)
        PROVE  IInv'
    <2>1. /\ \A v \in Users \ {u} : account'[v] = account[v]
          /\ account'[u] = "present" /\ cert' = cert /\ trust' = trust
          /\ Begin(r, "scope", u, p, "issue")
      BY <1>5 DEF UpdateUserScope, Present, tables
    <2> QED BY <1>t, <2>1, BeginOK DEF Ops
  <1>6. ASSUME NEW r \in Requests, NEW f \in Certs, Issue(r, f) PROVE IInv'
    <2> DEFINE j == IssueJob(r, f)
    <2>1. /\ Working(r) /\ j.user = job[r].user /\ j.fp = f
          /\ j.prev = CurrentTrust(job[r].user) /\ Moved(r, j, "register", {})
      BY <1>6, <1>t, IssueMoves
    <2> HIDE DEF j
    <2>2. job[r].user \in Users
      BY <1>t, <2>1, WorkingJob
    <2>3. account' = account /\ cert' = cert /\ trust' = trust /\ Fresh(f)
      BY <1>6 DEF Issue, tables
    <2>4. \A v \in Users : ~Holds(f, v)
      BY <1>t, <2>3, FreshIsFree
    <2>5. RequestOK(r)'
      <3>1. /\ pc'[r] = "register" /\ job'[r].user = job[r].user /\ job'[r].fp = f
            /\ job'[r].prev = CurrentTrust(job[r].user)
        BY <2>1 DEF Moved
      <3>2. cert[job[r].user] # None => cert[job[r].user].fp # f
        BY <2>2, <2>4 DEF Holds
      <3>3. Progress(r)'
        BY <2>3, <3>1, <3>2 DEF Progress, CurrentTrust
      <3> QED BY <2>1, <2>3, <3>1, <3>3 DEF IInv, RequestOK, Present
    <2>6. j.prev # None => j.prev = cert[j.user]
      BY <2>1 DEF CurrentTrust
    <2> QED BY <1>t, <2>1, <2>3, <2>4, <2>5, <2>6, KeepStep
  <1>7. ASSUME NEW r \in Requests, SetUserIncusProject(r) PROVE IInv'
    <2>1. /\ Working(r) /\ Succeed(r, "issue")
          /\ account' = account /\ cert' = cert /\ trust' = trust
      BY <1>7 DEF SetUserIncusProject, At, Working
    <2>2. Moved(r, job[r], "issue", {})
      BY <1>n, <1>t, <2>1, SucceedMoves
    <2>3. RequestOK(r)'
      <3>1. /\ pc'[r] = "issue" /\ job'[r].user = job[r].user
        BY <2>2 DEF Moved
      <3>2. Progress(r)'
        BY <3>1 DEF Progress
      <3>3. Present(job[r].user)
        BY <2>1 DEF IInv, RequestOK
      <3> QED BY <2>1, <3>1, <3>2, <3>3 DEF RequestOK, Present
    <2> QED BY <1>t, <2>1, <2>2, <2>3, KeepStep
  <1>8. ASSUME NEW r \in Requests, Undo(r) \/ DeleteUser(r) PROVE IInv'
    <2>1. /\ Working(r) /\ Drop(job[r].user) /\ trust' = trust
          /\ Succeed(r, "failed") \/ Succeed(r, "ok")
      BY <1>8 DEF Undo, DeleteUser, At, Working
    <2>2. PICK j : j = job[r]
      OBVIOUS
    <2>3. PICK next \in {"ok", "failed"} : Moved(r, j, next, {})
      BY <1>n, <1>t, <2>1, <2>2, SucceedMoves
    <2>4. /\ j.user \in Users
          /\ \A v \in Users \ {j.user} : account'[v] = account[v] /\ cert'[v] = cert[v]
          /\ cert'[j.user] = None
      BY <1>t, <2>1, <2>2, WorkingJob DEF Drop, TypeInv, TypeOK
    <2>5. RequestOK(r)'
      BY <2>3 DEF Moved, RequestOK, Working
    <2>6. UserOK(j.user)'
      BY <2>4 DEF UserOK, NotStranded
    <2>7. /\ j.user = job[r].user
          /\ j.fp # None => Holds(j.fp, j.user)
          /\ j.prev # None => Holds(j.prev.fp, j.user)
      BY <1>t, <2>1, <2>2, Hands
    <2> QED BY <1>t, <2>1, <2>3, <2>4, <2>5, <2>6, <2>7, OwnStep
  <1>9. ASSUME NEW r \in Requests, RetireSetupToken(r) PROVE IInv'
    <2>1. /\ Working(r) /\ Succeed(r, "ok")
          /\ account' = account /\ cert' = cert /\ trust' = trust
      BY <1>9 DEF RetireSetupToken, tables, Working
    <2>2. Moved(r, job[r], "ok", {})
      BY <1>n, <1>t, <2>1, SucceedMoves
    <2>3. RequestOK(r)'
      BY <2>2 DEF Moved, RequestOK, Working
    <2> QED BY <1>t, <2>1, <2>2, <2>3, KeepStep
  <1>10. ASSUME NEW r \in Requests, Register(r) PROVE IInv'
    <2> DEFINE j == job[r]
    <2>1. /\ Working(r) /\ pc[r] = "register" /\ HelperEnds(r, "store")
          /\ account' = account /\ cert' = cert
          /\ trust' = [trust EXCEPT ![j.fp] = [user |-> j.user, project |-> j.project]]
      BY <1>10 DEF Register, At, tables, Working
    <2>2. j.fp \in Certs /\ j.fp # None
      BY <1>t, <2>1, TrustAssumption DEF TypeInv, Shape
    <2>3. /\ trust'[j.fp] = [user |-> j.user, project |-> j.project]
          /\ \A f \in Certs : f # j.fp => trust'[f] = trust[f]
      BY <1>t, <2>1, <2>2 DEF TypeInv, TypeOK
    <2>4. ~Exposed(j.user) => Progress(r)
      BY <2>1 DEF IInv, RequestOK
    <2>5. ~Exposed(j.user) /\ cert[j.user] # None => cert[j.user].fp # j.fp
      BY <2>1, <2>4 DEF Progress
    <2>6. Moved(r, j, "store", {}) => RequestOK(r)'
      <3> HAVE Moved(r, j, "store", {})
      <3>1. /\ pc'[r] = "store" /\ job'[r].user = j.user /\ job'[r].project = j.project
            /\ job'[r].fp = j.fp /\ job'[r].prev = j.prev
            /\ "exposed" \in marks'[j.user] <=> Exposed(j.user)
        BY DEF Moved
      <3>2. "exposed" \notin marks'[j.user] => Progress(r)'
        BY <2>1, <2>3, <2>4, <3>1 DEF Progress, CurrentTrust
      <3> QED BY <2>1, <3>1, <3>2 DEF IInv, RequestOK, Present, Exposed
    <2>7. Holds(j.fp, j.user)
      BY <1>t, <2>1, <2>2, Hands
    <2>8. "store" \in Targets /\ \A f \in Certs : f # j.fp => trust'[f] = trust[f]
      BY <1>n, <2>3
    <2> QED BY <1>t, <2>1, <2>5, <2>6, <2>7, <2>8, HelperStep
  <1>11. ASSUME NEW r \in Requests, StoreCert(r) PROVE IInv'
    <2>1. PICK j : j = job[r]
      OBVIOUS
    <2>2. PICK next : next = IF j.prev # None THEN "revokePrev" ELSE Provisioned(r)
      OBVIOUS
    <2> DEFINE new == [fp |-> j.fp, project |-> j.project, revoked |-> FALSE]
    <2>3. /\ Working(r) /\ pc[r] = "store" /\ Succeed(r, next)
          /\ account' = account /\ trust' = trust
          /\ cert' = [cert EXCEPT ![j.user] = new]
      BY <1>11, <2>1, <2>2 DEF StoreCert, At, Working
    <2>4. /\ j.user \in Users /\ j.fp \in Certs /\ j.fp # None
          /\ next \in Targets
      BY <1>t, <1>n, <2>1, <2>2, <2>3, WorkingJob, TrustAssumption
         DEF TypeInv, Shape, Provisioned
    <2>5. Moved(r, j, next, {})
      BY <1>t, <2>1, <2>3, <2>4, SucceedMoves
    <2>6. /\ cert'[j.user] = new /\ new # None
          /\ \A v \in Users \ {j.user} : account'[v] = account[v] /\ cert'[v] = cert[v]
      <3>1. new \in Rows
        BY <1>t, <2>1, <2>3, <2>4, WorkingJob DEF Rows, Jobs
      <3> QED BY <1>t, <2>3, <2>4, <3>1, TrustAssumption DEF TypeInv, TypeOK
    <2>7. ~Exposed(j.user) => Progress(r) /\ NotStranded(j.user)
      BY <2>1, <2>3, <2>4 DEF IInv, RequestOK, UserOK
    <2>8. UserOK(j.user)'
      <3>1. ~Exposed(j.user) => trust[j.fp] = [user |-> j.user, project |-> j.project]
        BY <2>1, <2>3, <2>7 DEF Progress
      <3>2. "exposed" \in marks'[j.user] <=> Exposed(j.user)
        BY <2>5 DEF Moved
      <3> QED BY <2>3, <2>6, <3>1, <3>2 DEF UserOK, NotStranded, Backed, Exposed
    <2>9. RequestOK(r)'
      <3> SUFFICES ASSUME Working(r)' PROVE RequestOK(r)'
        BY DEF RequestOK
      <3>1. /\ pc'[r] = next /\ next \notin {"ok", "failed"}
            /\ job'[r].user = j.user /\ job'[r].project = j.project
            /\ job'[r].fp = j.fp /\ job'[r].prev = j.prev
            /\ "exposed" \in marks'[j.user] <=> Exposed(j.user)
        BY <2>5 DEF Moved, Working
      <3>2. next \in {"revokePrev", "retire"}
        BY <2>2, <3>1 DEF Provisioned
      <3>3. ASSUME ~Exposed(j.user), next = "revokePrev"
            PROVE  j.prev.fp # j.fp /\ Backed(j.user, j.prev)
        <4>1. j.prev # None /\ j.prev = cert[j.user] /\ cert[j.user].fp # j.fp
          BY <2>1, <2>2, <2>3, <2>7, <3>3 DEF Progress, CurrentTrust, Provisioned
        <4> QED BY <2>7, <3>3, <4>1 DEF NotStranded
      <3>4. "exposed" \notin marks'[j.user] => Progress(r)'
        BY <2>3, <2>6, <3>1, <3>2, <3>3 DEF Progress, Backed
      <3> QED BY <2>1, <2>3, <3>1, <3>2, <3>4 DEF IInv, RequestOK, Present, Exposed
    <2>10. /\ j.user = job[r].user
           /\ j.fp # None => Holds(j.fp, j.user)
           /\ j.prev # None => Holds(j.prev.fp, j.user)
           /\ Holds(cert'[j.user].fp, j.user)
      BY <1>t, <2>1, <2>3, <2>4, <2>6, Hands
    <2> QED BY <1>t, <2>3, <2>5, <2>6, <2>8, <2>9, <2>10, OwnStep
  <1>12. ASSUME NEW r \in Requests, RevokePrevious(r) PROVE IInv'
    <2> DEFINE j == job[r]
    <2>1. /\ Working(r) /\ pc[r] = "revokePrev" /\ HelperEnds(r, Provisioned(r))
          /\ account' = account /\ cert' = cert
          /\ trust' = [trust EXCEPT ![j.prev.fp] = None]
      BY <1>12 DEF RevokePrevious, At, tables, Working
    <2>2. j.prev # None /\ Provisioned(r) \in Targets
      BY <1>n, <1>t, <2>1, TrustAssumption DEF TypeInv, Shape, Provisioned
    <2>3. \A f \in Certs : f # j.prev.fp => trust'[f] = trust[f]
      BY <1>t, <2>1 DEF TypeInv, TypeOK
    <2>4. ~Exposed(j.user) => Progress(r)
      BY <2>1 DEF IInv, RequestOK
    <2>5. ~Exposed(j.user) /\ cert[j.user] # None => cert[j.user].fp # j.prev.fp
      BY <2>1, <2>4 DEF Progress
    <2>6. Moved(r, j, Provisioned(r), {}) => RequestOK(r)'
      <3> HAVE Moved(r, j, Provisioned(r), {})
      <3> SUFFICES ASSUME Working(r)' PROVE RequestOK(r)'
        BY DEF RequestOK
      <3>1. pc'[r] = "retire" /\ job'[r].user = j.user
        BY DEF Moved, Provisioned, Working
      <3>2. Progress(r)'
        BY <3>1 DEF Progress
      <3> QED BY <2>1, <3>1, <3>2 DEF IInv, RequestOK, Present
    <2>7. Holds(j.prev.fp, j.user)
      BY <1>t, <2>1, <2>2, Hands
    <2>8. /\ Working(r) /\ pc[r] # "restore" /\ HelperEnds(r, Provisioned(r))
          /\ Provisioned(r) \in Targets /\ account' = account /\ cert' = cert
      BY <2>1, <2>2
    <2> QED BY <1>t, <2>3, <2>5, <2>6, <2>7, <2>8, HelperStep, SMTT(40)
  <1>13. ASSUME NEW r \in Requests, RestoreCert(r) PROVE IInv'
    <2>1. PICK j : j = job[r]
      OBVIOUS
    <2>2. /\ Working(r) /\ pc[r] = "restore" /\ ~j.hungup /\ Succeed(r, "revokeNew")
          /\ account' = account /\ trust' = trust
          /\ cert' = [cert EXCEPT ![j.user] = j.prev]
      BY <1>13, <2>1 DEF RestoreCert, At, Working
    <2>3. j.user \in Users /\ j.prev \in Rows /\ j.prev # None
      BY <1>t, <2>1, <2>2, WorkingJob, TrustAssumption DEF TypeInv, Shape
    <2>4. Moved(r, j, "revokeNew", {})
      BY <1>n, <1>t, <2>1, <2>2, SucceedMoves
    <2>5. /\ cert'[j.user] = j.prev
          /\ \A v \in Users \ {j.user} : account'[v] = account[v] /\ cert'[v] = cert[v]
      BY <1>t, <2>2, <2>3 DEF TypeInv, TypeOK
    <2>6. ~Exposed(j.user) => Backed(j.user, j.prev) /\ j.prev.fp # j.fp
      <3>1. ~Exposed(j.user) => Progress(r)
        BY <2>1, <2>2 DEF IInv, RequestOK
      <3> QED BY <2>1, <2>2, <3>1 DEF Progress
    <2>7. /\ pc'[r] = "revokeNew" /\ job'[r].user = j.user /\ job'[r].fp = j.fp
          /\ "exposed" \in marks'[j.user] <=> Exposed(j.user)
      BY <2>4 DEF Moved
    <2>8. UserOK(j.user)'
      BY <2>2, <2>5, <2>6, <2>7 DEF UserOK, NotStranded, Backed, Exposed
    <2>9. RequestOK(r)'
      <3>1. "exposed" \notin marks'[j.user] => Progress(r)'
        BY <2>5, <2>6, <2>7 DEF Progress
      <3> QED BY <2>1, <2>2, <2>7, <3>1 DEF IInv, RequestOK, Present, Exposed
    <2>10. /\ j.user = job[r].user
           /\ j.fp # None => Holds(j.fp, j.user)
           /\ Holds(j.prev.fp, j.user)
      BY <1>t, <2>1, <2>2, <2>3, Hands
    <2> QED BY <1>t, <2>2, <2>4, <2>5, <2>8, <2>9, <2>10, OwnStep
  <1>14. ASSUME NEW r \in Requests, RevokeNew(r) PROVE IInv'
    <2> DEFINE j == job[r]
    <2>1. /\ Working(r) /\ pc[r] = "revokeNew" /\ HelperEnds(r, OnFailure(r))
          /\ account' = account /\ cert' = cert
          /\ trust' = [trust EXCEPT ![j.fp] = None]
      BY <1>14 DEF RevokeNew, At, tables, Working
    <2>2. j.fp # None /\ OnFailure(r) \in Targets
      BY <1>t, <2>1, TrustAssumption, FailureTargets DEF TypeInv, Shape
    <2>3. \A f \in Certs : f # j.fp => trust'[f] = trust[f]
      BY <1>t, <2>1 DEF TypeInv, TypeOK
    <2>4. ~Exposed(j.user) /\ cert[j.user] # None => cert[j.user].fp # j.fp
      <3>1. ~Exposed(j.user) => Progress(r)
        BY <2>1 DEF IInv, RequestOK
      <3> QED BY <2>1, <3>1 DEF Progress
    <2>5. Moved(r, j, OnFailure(r), {}) => RequestOK(r)'
      BY <2>1, FailureOK
    <2>6. Holds(j.fp, j.user)
      BY <1>t, <2>1, <2>2, Hands
    <2> QED BY <1>t, <2>1, <2>2, <2>3, <2>4, <2>5, <2>6, HelperStep
  <1>15. ASSUME NEW r \in Requests, LoadCert(r) PROVE IInv'
    <2> DEFINE j == LoadJob(r)
    <2>1. /\ Working(r) /\ j.user = job[r].user /\ j.fp = job[r].fp
          /\ j.prev = CurrentTrust(job[r].user) /\ Moved(r, j, AfterLoad(r), {})
      BY <1>15, <1>t, LoadMoves
    <2> HIDE DEF j
    <2>2. pc[r] = "load" /\ account' = account /\ cert' = cert /\ trust' = trust
      BY <1>15 DEF LoadCert, At, tables
    <2>3. Present(job[r].user) /\ Exposed(job[r].user)
      BY <2>1, <2>2 DEF IInv, RequestOK
    <2>4. RequestOK(r)'
      <3>1. /\ pc'[r] \in {"remove", "revoke"} /\ job'[r].user = job[r].user
            /\ "exposed" \in marks'[job[r].user]
        BY <2>1, <2>3 DEF Moved, AfterLoad
      <3> QED BY <2>2, <2>3, <3>1 DEF RequestOK, Present, Exposed
    <2>5. j.prev # None => j.prev = cert[j.user]
      BY <2>1 DEF CurrentTrust
    <2> QED BY <1>t, <2>1, <2>2, <2>4, <2>5, KeepStep
  <1>16. ASSUME NEW r \in Requests, RevokeCert(r) PROVE IInv'
    <2> DEFINE j == job[r]
    <2>1. /\ Working(r) /\ pc[r] = "revoke" /\ HelperEnds(r, "mark")
          /\ account' = account /\ cert' = cert
          /\ trust' = [trust EXCEPT ![j.prev.fp] = None]
      BY <1>16 DEF RevokeCert, At, tables, Working
    <2>2. j.prev # None /\ "mark" \in Targets
      BY <1>n, <1>t, <2>1, TrustAssumption DEF TypeInv, Shape
    <2>3. \A f \in Certs : f # j.prev.fp => trust'[f] = trust[f]
      BY <1>t, <2>1 DEF TypeInv, TypeOK
    <2>4. Present(j.user) /\ Exposed(j.user)
      BY <2>1 DEF IInv, RequestOK
    <2>5. Moved(r, j, "mark", {}) => RequestOK(r)'
      <3> HAVE Moved(r, j, "mark", {})
      <3>1. pc'[r] = "mark" /\ job'[r].user = j.user /\ "exposed" \in marks'[j.user]
        BY <2>4 DEF Moved
      <3> QED BY <2>1, <2>4, <3>1 DEF RequestOK, Present, Exposed
    <2>6. Holds(j.prev.fp, j.user)
      BY <1>t, <2>1, <2>2, Hands
    <2> QED BY <1>t, <2>1, <2>2, <2>3, <2>4, <2>5, <2>6, HelperStep
  <1>17. ASSUME NEW r \in Requests, MarkRevoked(r) PROVE IInv'
    <2>1. PICK j : j = job[r]
      OBVIOUS
    <2>2. /\ Working(r) /\ pc[r] = "mark" /\ Succeed(r, "remove")
          /\ account' = account /\ trust' = trust
          /\ cert' = [cert EXCEPT ![j.user] =
                        IF @ = None THEN None ELSE [@ EXCEPT !.revoked = TRUE]]
      BY <1>17, <2>1 DEF MarkRevoked, At, Working
    <2>3. j.user \in Users
      BY <1>t, <2>1, <2>2, WorkingJob
    <2>4. Moved(r, j, "remove", {})
      BY <1>n, <1>t, <2>1, <2>2, SucceedMoves
    <2>5. /\ cert'[j.user] # None => cert[j.user] # None /\ cert'[j.user].fp = cert[j.user].fp
          /\ \A v \in Users \ {j.user} : account'[v] = account[v] /\ cert'[v] = cert[v]
      <3>1. \A row \in Rows : [row EXCEPT !.revoked = TRUE].fp = row.fp
        BY DEF Rows
      <3> QED BY <1>t, <2>2, <2>3, <3>1 DEF TypeInv, TypeOK
    <2>6. Present(j.user) /\ Exposed(j.user)
      BY <2>1, <2>2 DEF IInv, RequestOK
    <2>7. pc'[r] = "remove" /\ job'[r].user = j.user /\ "exposed" \in marks'[j.user]
      BY <2>4, <2>6 DEF Moved
    <2>8. RequestOK(r)' /\ UserOK(j.user)'
      BY <2>2, <2>6, <2>7 DEF RequestOK, UserOK, Present, Exposed
    <2>9. /\ j.user = job[r].user
          /\ j.fp # None => Holds(j.fp, j.user)
          /\ j.prev # None => Holds(j.prev.fp, j.user)
          /\ cert'[j.user] # None => Holds(cert'[j.user].fp, j.user)
      BY <1>t, <2>1, <2>2, <2>5, Hands
    <2> QED BY <1>t, <2>2, <2>4, <2>5, <2>8, <2>9, OwnStep
  <1>18. ASSUME NEW r \in Requests, StepFails(r) PROVE IInv'
    <2>1. /\ Working(r) /\ Fail(r)
          /\ account' = account /\ cert' = cert /\ trust' = trust
      BY <1>18 DEF StepFails, tables, Working
    <2>2. PICK mark : mark = IF pc[r] = "restore" THEN {"exposed"} ELSE {}
      OBVIOUS
    <2>3. Moved(r, job[r], OnFailure(r), mark)
      BY <1>t, <2>1, <2>2, FailMoves
    <2>4. RequestOK(r)'
      BY <2>1, <2>2, <2>3, FailureOK
    <2> QED BY <1>t, <2>1, <2>3, <2>4, KeepStep
  <1>19. ASSUME NEW r \in Requests, HangUp(r) PROVE IInv'
    <2>1. account' = account /\ cert' = cert /\ trust' = trust
      BY <1>19 DEF HangUp, tables
    <2>2. CASE job[r].user = None
      <3>1. ~Working(r)
        BY <1>t, <2>2, WorkingJob, TrustAssumption
      <3>2. /\ \A q \in Requests : Working(q)' => Working(q) /\ pc'[q] = pc[q] /\ job'[q] = job[q]
            /\ marks' = marks
        BY <1>19, <1>t, <2>2, <3>1 DEF HangUp, history, Working, TypeInv, TypeOK
      <3> QED BY <1>t, <2>1, <3>2, QuietStep DEF Exposed
    <2>3. CASE job[r].user # None
      <3>1. Working(r) /\ Moved(r, Gone(r), pc[r], {})
        BY <1>19, <1>t, <2>3, HangUpMoves
      <3>2. Gone(r).user = job[r].user /\ Gone(r).fp = job[r].fp /\ Gone(r).prev = job[r].prev
            /\ Gone(r).project = job[r].project /\ Gone(r).hungup
        BY <1>t, <3>1, GoneJob
      <3>3. RequestOK(r)'
        <4>1. /\ pc'[r] = pc[r] /\ job'[r].user = job[r].user /\ job'[r].fp = job[r].fp
              /\ job'[r].prev = job[r].prev /\ job'[r].project = job[r].project
              /\ job'[r].hungup
              /\ "exposed" \in marks'[job[r].user] <=> Exposed(job[r].user)
          <5>1. pc[r] \notin {"ok", "failed"}
            BY <1>t DEF TypeInv, TypeOK, Steps, HelperSteps, StoreSteps, Uncancelled
          <5> QED BY <3>1, <3>2, <5>1 DEF Moved
        <4>2. RequestOK(r)
          BY DEF IInv
        <4>3. Progress(r) => Progress(r)'
          BY <2>1, <4>1 DEF Progress, CurrentTrust, Backed
        <4> QED BY <2>1, <3>1, <4>1, <4>2, <4>3 DEF RequestOK, Present, Exposed
      <3> QED BY <1>t, <2>1, <3>1, <3>2, <3>3, KeepStep
    <2> QED BY <2>2, <2>3
  <1>20. CASE Crash \/ UNCHANGED vars \/ \E u \in Users : OwnRow(u)
    <2>1. /\ \A q \in Requests : Working(q)' => Working(q) /\ pc'[q] = pc[q] /\ job'[q] = job[q]
          /\ account' = account /\ cert' = cert /\ trust' = trust
      BY <1>20 DEF Crash, vars, tables, OwnRow, Working
    <2>2. \A u \in Users : Exposed(u) => Exposed(u)'
      BY <1>20 DEF Crash, vars, history, OwnRow, Exposed
    <2> QED BY <1>t, <2>1, <2>2, QuietStep
  <1> QED
    BY <1>1, <1>2, <1>3, <1>4, <1>5, <1>6, <1>7, <1>8, <1>9, <1>10, <1>11, <1>12,
       <1>13, <1>14, <1>15, <1>16, <1>17, <1>18, <1>19, <1>20 DEF Next

LEMMA InvInit == Init => IInv
  <1> SUFFICES ASSUME Init PROVE IInv
    OBVIOUS
  <1>1. TypeInv
    BY TypeInit
  <1>2. \A r \in Requests : ~Working(r)
    BY DEF Init, Working
  <1>3. \A u \in Users : cert[u] = None
    BY DEF Init
  <1> QED
    BY <1>1, <1>2, <1>3 DEF IInv, Exclusive, OneOwner, Holds, RequestOK, UserOK, NotStranded

\* A request that sets up the first administrator and has inserted it.
Setting(r) == Working(r) /\ job[r].op = "setup"

LEMMA MovedSetting ==
  ASSUME TypeInv, NEW r \in Requests, Working(r), NEW j, NEW next, NEW mark,
         Moved(r, j, next, mark), j.op = job[r].op, NEW q \in Requests, Setting(q)'
  PROVE  Setting(q)
  BY DEF Moved, Setting, Working

\* Only the transaction that creates the first administrator adds such a request.
LEMMA SettingKept ==
  ASSUME TypeInv, [Next]_vars, NEW q \in Requests, Setting(q)',
         \A r \in Requests, u \in Users : ~CreateFirstAdmin(r, u)
  PROVE  Setting(q)
  <1>n. {"register", "store", "issue", "assign", "remove", "mark", "ok", "failed",
         "retire", "revokePrev", "revokeNew", "revoke"} \subseteq Targets
    BY DEF Targets, Steps, HelperSteps, StoreSteps, Uncancelled
  <1>1. ASSUME NEW r \in Requests, BeginSetup(r) \/ DismissSetup(r) PROVE Setting(q)
    BY <1>1 DEF BeginSetup, DismissSetup, Setting, Working, TypeInv, TypeOK
  <1>2. ASSUME NEW r \in Requests, NEW u \in Users, NEW p \in Projects,
               NEW op \in Ops \ {"setup"}, NEW first \in {"assign", "issue", "undo", "load"},
               Begin(r, op, u, p, first)
        PROVE  Setting(q)
    <2>1. job'[r].op # "setup" /\ \A s \in Requests \ {r} : pc'[s] = pc[s] /\ job'[s] = job[s]
      BY <1>2, BeginTyped
    <2> QED BY <2>1 DEF Setting, Working
  <1>3. ASSUME NEW r \in Requests, Working(r), NEW next \in Targets,
               Succeed(r, next) \/ HelperEnds(r, next) \/ Fail(r)
        PROVE  Setting(q)
    <2>1. \E j \in {job[r], Gone(r)} : \E nx, mark : Moved(r, j, nx, mark)
      BY <1>3, SucceedMoves, HelperEndsMoves, FailMoves
    <2>2. PICK j \in {job[r], Gone(r)} : \E nx, mark : Moved(r, j, nx, mark)
      BY <2>1
    <2>3. j.op = job[r].op
      BY <1>3, GoneJob
    <2> QED BY <1>3, <2>2, <2>3, MovedSetting
  <1>4. ASSUME NEW r \in Requests, NEW u \in Users, CreateUser(r, u) PROVE Setting(q)
    <2>1. PICK p \in Projects, first \in {"issue", "assign", "undo"} : Begin(r, "create", u, p, first)
      BY <1>4, TrustAssumption DEF CreateUser
    <2> QED BY <2>1, <1>2 DEF Ops
  <1>5. ASSUME NEW r \in Requests, NEW u \in Users, BeginDelete(r, u) PROVE Setting(q)
    BY <1>5, <1>2, TrustAssumption DEF BeginDelete, Ops
  <1>6. ASSUME NEW r \in Requests, NEW u \in Users, NEW p \in Projects,
               UpdateUserScope(r, u, p)
        PROVE  Setting(q)
    BY <1>6, <1>2 DEF UpdateUserScope, Ops
  <1>7. ASSUME NEW r \in Requests, NEW f \in Certs, Issue(r, f) PROVE Setting(q)
    BY <1>7, IssueMoves, MovedSetting
  <1>8. ASSUME NEW r \in Requests, LoadCert(r) PROVE Setting(q)
    BY <1>8, LoadMoves, MovedSetting
  <1>9. ASSUME NEW r \in Requests,
               \/ SetUserIncusProject(r) \/ Undo(r) \/ RetireSetupToken(r)
               \/ StoreCert(r) \/ RestoreCert(r) \/ MarkRevoked(r) \/ DeleteUser(r)
        PROVE  Setting(q)
    <2>1. Working(r)
      BY <1>9 DEF SetUserIncusProject, Undo, RetireSetupToken, StoreCert, RestoreCert,
                  MarkRevoked, DeleteUser, At, Working
    <2>2. \E next \in Targets : Succeed(r, next)
      BY <1>9, <1>n DEF SetUserIncusProject, Undo, RetireSetupToken, StoreCert, RestoreCert,
                        MarkRevoked, DeleteUser, Provisioned
    <2> QED BY <1>3, <2>1, <2>2
  <1>10. ASSUME NEW r \in Requests,
                Register(r) \/ RevokePrevious(r) \/ RevokeNew(r) \/ RevokeCert(r)
         PROVE  Setting(q)
    <2>1. Working(r)
      BY <1>10 DEF Register, RevokePrevious, RevokeNew, RevokeCert, At, Working
    <2>2. \E next \in Targets : HelperEnds(r, next)
      BY <1>10, <1>n, <2>1, FailureTargets
         DEF Register, RevokePrevious, RevokeNew, RevokeCert, Provisioned
    <2> QED BY <1>3, <2>1, <2>2
  <1>11. ASSUME NEW r \in Requests, StepFails(r) PROVE Setting(q)
    BY <1>3, <1>11, <1>n DEF StepFails, Working
  <1>12. ASSUME NEW r \in Requests, HangUp(r) PROVE Setting(q)
    <2>1. CASE job[r].user = None
      <3>1. pc' = pc /\ job' = [job EXCEPT ![r] = Gone(r)]
        BY <1>12, <2>1 DEF HangUp, Gone
      <3>2. ~Working(r)
        BY <2>1, WorkingJob, TrustAssumption
      <3> QED BY <3>1, <3>2 DEF Setting, Working, TypeInv, TypeOK
    <2>2. CASE job[r].user # None
      BY <1>12, <2>2, HangUpMoves, GoneJob, MovedSetting
    <2> QED BY <2>1, <2>2
  <1>13. CASE Crash \/ UNCHANGED vars \/ \E u \in Users : OwnRow(u)
    BY <1>13 DEF Crash, vars, OwnRow, Setting, Working
  <1> QED
    BY <1>1, <1>4, <1>5, <1>6, <1>7, <1>8, <1>9, <1>10, <1>11, <1>12, <1>13 DEF Next

\* The transaction finds no user, so no other request has inserted one: it would
\* still be there while its request is at work.
LEMMA OneFirstAdminStep ==
  ASSUME IInv, OneFirstAdmin, [Next]_vars
  PROVE  OneFirstAdmin'
  <1>1. CASE \A r \in Requests, u \in Users : ~CreateFirstAdmin(r, u)
    <2>1. \A q \in Requests : Setting(q)' => Setting(q)
      BY <1>1, SettingKept DEF IInv
    <2> QED BY <2>1 DEF OneFirstAdmin, Setting, Working
  <1>2. ASSUME NEW r \in Requests, NEW u \in Users, CreateFirstAdmin(r, u)
        PROVE  OneFirstAdmin'
    <2>1. \A q \in Requests : ~Working(q)
      BY <1>2, WorkingJob DEF CreateFirstAdmin, SetupRequired, IInv, RequestOK
    <2>2. \A q \in Requests \ {r} : pc'[q] = pc[q]
      BY <1>2 DEF CreateFirstAdmin, IInv, TypeInv, TypeOK
    <2> QED BY <2>1, <2>2 DEF OneFirstAdmin, Working
  <1> QED BY <1>1, <1>2

\* Whatever fails or is cut off between the steps of Provision, a user who has a
\* certificate row has the entry that goes with it, as long as requests on the
\* user do not overlap (trust_overlap shows what happens when they do).
THEOREM NeverStrandedCorrect ==
  ASSUME Overlap = FALSE
  PROVE  Spec => []NeverStranded
  <1>1. IInv => NeverStranded
    BY DEF IInv, UserOK, NotStranded, Backed, Exposed, NeverStranded, Trusted
  <1>2. IInv /\ [Next]_vars => IInv'
    BY InvStep
  <1> QED BY InvInit, <1>1, <1>2, PTL DEF Spec

\* Any number of set-up requests that pass the handler's check together leave one
\* of them with a user: CreateFirstAdmin counts and inserts in one transaction.
THEOREM OneFirstAdminCorrect ==
  ASSUME Overlap = FALSE
  PROVE  Spec => []OneFirstAdmin
  <1>1. Init => OneFirstAdmin
    BY DEF Init, OneFirstAdmin
  <1>2. IInv /\ [Next]_vars => IInv'
    BY InvStep
  <1>3. IInv /\ OneFirstAdmin /\ [Next]_vars => OneFirstAdmin'
    BY OneFirstAdminStep
  <1> QED BY InvInit, <1>1, <1>2, <1>3, PTL DEF Spec

-----------------------------------------------------------------------------
(* The trust store follows the tables.  Unlike NeverStranded this holds of *)
(* users with a failed repair or deletion behind them too: a request that  *)
(* is acknowledged registered a certificate of its own.                    *)

\* What the user's row lets Incus grant; a row that is used is not revoked.
RowGrant(u) == IF cert[u] = None THEN {} ELSE {<<cert[u].fp, cert[u].project>>}
Live(u) == cert[u] # None => ~cert[u].revoked
Settled(u) == Live(u) /\ Granted(u) \subseteq RowGrant(u)

InForce(u) == Trusted(u) /\ cert[u].project = project[u]
Failed(u) == "failed" \in marks[u]

\* What a request on u that may yet be acknowledged has done so far.
Sure(r, u) ==
  LET j == job[r] IN
  /\ pc[r] \in {"register", "store"} =>
       j.prev = CurrentTrust(u) /\ (cert[u] # None => cert[u].fp # j.fp)
  /\ pc[r] = "store" => trust[j.fp] = [user |-> u, project |-> j.project]
  /\ pc[r] = "revokePrev" =>
       /\ cert[u] = [fp |-> j.fp, project |-> j.project, revoked |-> FALSE]
       /\ project[u] = j.project /\ j.prev.fp # j.fp
       /\ trust[j.fp] = [user |-> u, project |-> j.project]
  /\ pc[r] = "retire" => InForce(u)

\* What Incus grants a user u none of whose requests failed, on the way.
OnTrack(r, u) ==
  LET j == job[r] IN
  /\ pc[r] \in {"assign", "issue", "register", "load", "retire"} => Settled(u)
  /\ pc[r] = "store" => Live(u) /\ Granted(u) \subseteq RowGrant(u) \cup {<<j.fp, j.project>>}
  /\ pc[r] = "revokePrev" =>
       Granted(u) \subseteq RowGrant(u) \cup {<<j.prev.fp, j.prev.project>>}
  /\ pc[r] = "revoke" => Granted(u) \subseteq {<<j.prev.fp, j.prev.project>>}
  /\ pc[r] \in {"mark", "remove"} => Granted(u) = {}

Worked(u) == \E r \in Requests : Working(r) /\ job[r].user = u

RequestKept(r) ==
  \A u \in Users : Working(r) /\ job[r].user = u =>
    Sure(r, u) /\ (~Failed(u) => OnTrack(r, u))

UserKept(u) ==
  ~Worked(u) =>
    /\ Present(u) /\ outcome[u] = "ok" => InForce(u)
    /\ ~Failed(u) => Settled(u)

FollowInv ==
  /\ IInv
  /\ \A r \in Requests : RequestKept(r)
  /\ \A u \in Users : UserKept(u)

\* What a user is granted shrinks or grows with the entries in its name alone.
LEMMA GrantsShrink ==
  ASSUME TypeInv, NEW u \in Users,
         \A f \in Certs : trust'[f] = trust[f] \/ trust'[f] = None \/ trust'[f].user # u
  PROVE  Granted(u)' \subseteq Granted(u)
  BY DEF Granted

\* A user whose rows stay, and the entries in whose hands stay.
Untouched(v) ==
  /\ account'[v] = account[v] /\ cert'[v] = cert[v] /\ project'[v] = project[v]
  /\ outcome'[v] = outcome[v] /\ marks'[v] = marks[v]
  /\ \A f \in Certs : Holds(f, v) => trust'[f] = trust[f]
  /\ Granted(v)' \subseteq Granted(v)

LEMMA UntouchedUser ==
  ASSUME TypeInv, NEW v \in Users, Untouched(v)
  PROVE  /\ CurrentTrust(v)' = CurrentTrust(v) /\ RowGrant(v)' = RowGrant(v)
         /\ Failed(v)' <=> Failed(v)
         /\ Settled(v) => Settled(v)'
         /\ Live(v) => Live(v)'
         /\ InForce(v) => InForce(v)'
  <1>1. cert'[v] = cert[v] /\ project'[v] = project[v] /\ marks'[v] = marks[v]
        /\ Granted(v)' \subseteq Granted(v)
    BY DEF Untouched
  <1>2. cert[v] # None => trust'[cert[v].fp] = trust[cert[v].fp]
    <2> HAVE cert[v] # None
    <2>1. Holds(cert[v].fp, v) /\ cert[v].fp \in Certs
      BY DEF Holds, TypeInv, TypeOK, Rows
    <2> QED BY <2>1 DEF Untouched
  <1>3. CurrentTrust(v)' = CurrentTrust(v) /\ RowGrant(v)' = RowGrant(v)
    BY <1>1 DEF CurrentTrust, RowGrant
  <1>4. Failed(v)' <=> Failed(v)
    BY <1>1 DEF Failed
  <1>5. Settled(v) => Settled(v)'
    BY <1>1, <1>3 DEF Settled, Live
  <1>6. Live(v) => Live(v)'
    BY <1>1 DEF Live
  <1>7. InForce(v) => InForce(v)'
    BY <1>1, <1>2 DEF InForce, Trusted
  <1> QED BY <1>3, <1>4, <1>5, <1>6, <1>7

LEMMA UntouchedRequest ==
  ASSUME TypeInv, NEW q \in Requests, Working(q), Untouched(job[q].user),
         pc'[q] = pc[q], job'[q] = job[q], RequestKept(q)
  PROVE  RequestKept(q)'
  <1> SUFFICES ASSUME NEW v \in Users, v = job[q].user
               PROVE  Sure(q, v)' /\ (~Failed(v)' => OnTrack(q, v)')
    BY DEF RequestKept
  <1>1. Sure(q, v) /\ (~Failed(v) => OnTrack(q, v))
    BY DEF RequestKept
  <1>2. /\ CurrentTrust(v)' = CurrentTrust(v) /\ RowGrant(v)' = RowGrant(v)
        /\ Failed(v)' <=> Failed(v)
        /\ Settled(v) => Settled(v)'
        /\ Live(v) => Live(v)'
        /\ InForce(v) => InForce(v)'
    BY UntouchedUser
  <1>3. /\ cert'[v] = cert[v] /\ project'[v] = project[v]
        /\ Granted(v)' \subseteq Granted(v)
    BY DEF Untouched
  <1>4. pc[q] \in {"store", "revokePrev"} => trust'[job[q].fp] = trust[job[q].fp]
    <2> HAVE pc[q] \in {"store", "revokePrev"}
    <2>1. job[q].fp \in Certs /\ Holds(job[q].fp, v)
      BY DEF TypeInv, Shape, Holds
    <2> QED BY <2>1 DEF Untouched
  <1>5. Sure(q, v)'
    BY <1>1, <1>2, <1>3, <1>4 DEF Sure
  <1>6. OnTrack(q, v) => OnTrack(q, v)'
    BY <1>2, <1>3 DEF OnTrack
  <1> QED BY <1>1, <1>2, <1>5, <1>6

\* A step that works on one user: the entries it changes are in that user's
\* hands, and it grants nothing to another.
LEMMA FollowFrame ==
  ASSUME FollowInv, IInv', NEW r \in Requests, NEW u \in Users,
         Working(r) => job[r].user = u, Working(r)' => job'[r].user = u,
         \A q \in Requests \ {r} : Working(q) => job[q].user # u,
         \A q \in Requests \ {r} : pc'[q] = pc[q] /\ job'[q] = job[q],
         \A v \in Users \ {u} :
           /\ account'[v] = account[v] /\ cert'[v] = cert[v] /\ project'[v] = project[v]
           /\ outcome'[v] = outcome[v] /\ marks'[v] = marks[v],
         \A f \in Certs : trust'[f] # trust[f] =>
           Holds(f, u) /\ (trust'[f] = None \/ trust'[f].user = u),
         RequestKept(r)', UserKept(u)'
  PROVE  FollowInv'
  <1>1. TypeInv
    BY DEF FollowInv, IInv
  <1>2. ASSUME NEW v \in Users \ {u} PROVE Untouched(v)
    <2>1. \A f \in Certs : Holds(f, v) => trust'[f] = trust[f]
      BY DEF FollowInv, IInv, OneOwner
    <2>2. Granted(v)' \subseteq Granted(v)
      BY <1>1, GrantsShrink
    <2> QED BY <2>1, <2>2 DEF Untouched
  <1>3. ASSUME NEW q \in Requests PROVE RequestKept(q)'
    <2>1. CASE q = r
      BY <2>1
    <2>2. CASE q # r
      <3> SUFFICES ASSUME Working(q)' PROVE RequestKept(q)'
        BY DEF RequestKept
      <3>1. Working(q) /\ pc'[q] = pc[q] /\ job'[q] = job[q]
        BY <2>2 DEF Working
      <3>2. job[q].user \in Users \ {u}
        BY <1>1, <2>2, <3>1, WorkingJob
      <3> QED BY <1>1, <1>2, <3>1, <3>2, UntouchedRequest DEF FollowInv
    <2> QED BY <2>1, <2>2
  <1>4. ASSUME NEW v \in Users PROVE UserKept(v)'
    <2>1. CASE v = u
      BY <2>1
    <2>2. CASE v # u
      <3>1. Untouched(v) /\ UserKept(v)
        BY <1>2, <2>2 DEF FollowInv
      <3>2. /\ Failed(v)' <=> Failed(v)
            /\ Settled(v) => Settled(v)'
            /\ InForce(v) => InForce(v)'
        BY <1>1, <3>1, UntouchedUser
      <3>3. Worked(v) => Worked(v)'
        <4> HAVE Worked(v)
        <4>1. PICK q \in Requests : Working(q) /\ job[q].user = v
          BY DEF Worked
        <4>2. q # r
          BY <2>2, <4>1
        <4> QED BY <4>1, <4>2 DEF Worked, Working
      <3>4. Present(v)' <=> Present(v)
        BY <3>1 DEF Untouched, Present
      <3>5. outcome'[v] = outcome[v]
        BY <3>1 DEF Untouched
      <3> QED BY <3>1, <3>2, <3>3, <3>4, <3>5 DEF UserKept
    <2> QED BY <2>1, <2>2
  <1> QED BY <1>3, <1>4 DEF FollowInv

\* A step after which nothing new is under way, and nothing was written.
LEMMA FollowQuiet ==
  ASSUME FollowInv, IInv',
         \A q \in Requests : Working(q)' => Working(q) /\ pc'[q] = pc[q] /\ job'[q] = job[q],
         UNCHANGED <<account, project, cert, trust>>,
         \A u \in Users :
           \/ outcome'[u] = outcome[u] /\ marks'[u] = marks[u] /\ (Worked(u) => Worked(u)')
           \/ outcome'[u] # "ok" /\ Failed(u)' /\ ~Worked(u)'
  PROVE  FollowInv'
  <1>1. TypeInv
    BY DEF FollowInv, IInv
  <1>2. ASSUME NEW v \in Users, outcome'[v] = outcome[v], marks'[v] = marks[v]
        PROVE  Untouched(v)
    BY <1>2 DEF Untouched, Granted
  <1>3. ASSUME NEW q \in Requests PROVE RequestKept(q)'
    <2> SUFFICES ASSUME Working(q)' PROVE RequestKept(q)'
      BY DEF RequestKept
    <2>1. Working(q) /\ pc'[q] = pc[q] /\ job'[q] = job[q]
      OBVIOUS
    <2>2. job[q].user \in Users /\ Worked(job[q].user)'
      BY <1>1, <2>1, WorkingJob DEF Worked
    <2>3. Untouched(job[q].user)
      <3>1. PICK v \in Users : v = job[q].user
        BY <2>2
      <3>2. Worked(v)'
        BY <2>1, <3>1 DEF Worked
      <3>3. outcome'[v] = outcome[v] /\ marks'[v] = marks[v]
        BY <3>2
      <3> QED BY <1>2, <3>1, <3>3
    <2> QED BY <1>1, <2>1, <2>3, UntouchedRequest DEF FollowInv
  <1>4. ASSUME NEW v \in Users PROVE UserKept(v)'
    <2>1. CASE outcome'[v] # "ok" /\ Failed(v)'
      BY <2>1 DEF UserKept
    <2>2. CASE outcome'[v] = outcome[v] /\ marks'[v] = marks[v] /\ (Worked(v) => Worked(v)')
      <3>1. Untouched(v) /\ UserKept(v)
        BY <1>2, <2>2 DEF FollowInv
      <3>2. /\ Failed(v)' <=> Failed(v)
            /\ Settled(v) => Settled(v)'
            /\ InForce(v) => InForce(v)'
        BY <1>1, <3>1, UntouchedUser
      <3>3. Present(v)' <=> Present(v)
        BY DEF Present
      <3> QED BY <2>2, <3>1, <3>2, <3>3 DEF UserKept
    <2> QED BY <2>1, <2>2
  <1> QED BY <1>3, <1>4 DEF FollowInv

\* Where a request ends or goes on, and what has to be shown there.
LEMMA AfterMove ==
  ASSUME TypeInv, NEW r \in Requests, Working(r), NEW u \in Users,
         NEW j, j.user = u, NEW next, NEW mark, Moved(r, j, next, mark),
         next = "ok" => (Present(u)' => InForce(u)') /\ (~Failed(u) => Settled(u)'),
         next \notin {"ok", "failed"} => Sure(r, u)' /\ (~Failed(u) => OnTrack(r, u)'),
         next \notin {"ok", "failed"} => next \notin {"idle", "first"}
  PROVE  RequestKept(r)' /\ UserKept(u)'
  <1>1. Failed(u) => Failed(u)'
    BY DEF Moved, Failed
  <1>2. CASE next \in {"ok", "failed"}
    <2>1. ~Working(r)'
      BY <1>2 DEF Moved, Working
    <2>2. RequestKept(r)'
      BY <2>1 DEF RequestKept
    <2>3. next = "failed" => outcome'[u] # "ok" /\ Failed(u)'
      BY DEF Moved, Failed
    <2> QED BY <1>1, <1>2, <2>2, <2>3 DEF UserKept
  <1>3. CASE next \notin {"ok", "failed"}
    <2>1. pc'[r] = next /\ job'[r].user = u
      BY <1>3 DEF Moved
    <2>2. Worked(u)'
      BY <1>3, <2>1 DEF Worked, Working
    <2>3. RequestKept(r)'
      BY <1>1, <1>3, <2>1 DEF RequestKept
    <2> QED BY <2>2, <2>3 DEF UserKept
  <1> QED BY <1>2, <1>3

\* A step of a request at work.
LEMMA FollowOwn ==
  ASSUME FollowInv, IInv', NEW r \in Requests, Working(r), NEW u \in Users,
         job[r].user = u, NEW j, j.user = u, NEW next, NEW mark, Moved(r, j, next, mark),
         \A v \in Users \ {u} :
           account'[v] = account[v] /\ cert'[v] = cert[v] /\ project'[v] = project[v],
         \A f \in Certs : trust'[f] # trust[f] =>
           Holds(f, u) /\ (trust'[f] = None \/ trust'[f].user = u),
         RequestKept(r)', UserKept(u)'
  PROVE  FollowInv'
  <1>1. \A q \in Requests \ {r} : Working(q) => job[q].user # u
    BY DEF FollowInv, IInv, Exclusive
  <1>2. /\ \A q \in Requests \ {r} : pc'[q] = pc[q] /\ job'[q] = job[q]
        /\ \A v \in Users \ {u} : outcome'[v] = outcome[v] /\ marks'[v] = marks[v]
    BY DEF Moved
  <1>3. Working(r)' => job'[r].user = u
    BY DEF Moved, Working
  <1>4. \A v \in Users \ {u} :
          /\ account'[v] = account[v] /\ cert'[v] = cert[v] /\ project'[v] = project[v]
          /\ outcome'[v] = outcome[v] /\ marks'[v] = marks[v]
    BY <1>2
  <1> QED BY <1>1, <1>2, <1>3, <1>4, FollowFrame

\* A request that fails repairs and is answered with an error, but for the set-up
\* that keeps its token.
LEMMA FailureFollows ==
  ASSUME FollowInv, NEW r \in Requests, Working(r), NEW u \in Users, job[r].user = u,
         NEW j, j.user = u, NEW mark, Moved(r, j, OnFailure(r), mark),
         pc[r] = "retire" => UNCHANGED <<account, project, cert, trust>>
  PROVE  RequestKept(r)' /\ UserKept(u)'
  <1>1. TypeInv /\ RequestKept(r)
    BY DEF FollowInv, IInv
  <1>2. CASE pc[r] = "retire"
    <2>1. OnFailure(r) = "ok"
      BY <1>2 DEF OnFailure
    <2>2. InForce(u) /\ (~Failed(u) => Settled(u))
      BY <1>1, <1>2 DEF RequestKept, Sure, OnTrack
    <2>3. InForce(u)' /\ (~Failed(u) => Settled(u)')
      BY <1>2, <2>2 DEF InForce, Trusted, Settled, Live, Granted, RowGrant
    <2> QED BY <1>1, <2>1, <2>3, AfterMove
  <1>3. CASE pc[r] # "retire"
    <2>1. OnFailure(r) \in {"revokeNew", "restore", "undo", "failed"}
      BY <1>3 DEF OnFailure
    <2>2. OnFailure(r) # "failed" => Sure(r, u)' /\ OnTrack(r, u)'
      <3> HAVE OnFailure(r) # "failed"
      <3>1. pc'[r] \in {"revokeNew", "restore", "undo"}
        BY <2>1 DEF Moved
      <3> QED BY <3>1 DEF Sure, OnTrack
    <2> QED BY <1>1, <2>1, <2>2, AfterMove
  <1> QED BY <1>2, <1>3

\* A step of the trust helper: if it succeeds, it remains to look at the request.
LEMMA HelperFollows ==
  ASSUME FollowInv, IInv', NEW r \in Requests, Working(r), pc[r] # "retire",
         NEW u \in Users, job[r].user = u, NEW next \in Targets, HelperEnds(r, next),
         UNCHANGED <<account, project, cert>>,
         \A f \in Certs : trust'[f] # trust[f] =>
           Holds(f, u) /\ (trust'[f] = None \/ trust'[f].user = u),
         Moved(r, job[r], next, {}) => RequestKept(r)' /\ UserKept(u)'
  PROVE  FollowInv'
  <1>1. TypeInv /\ Gone(r).user = u
    BY GoneJob DEF FollowInv, IInv
  <1>2. PICK j \in {job[r], Gone(r)}, nx \in {next, OnFailure(r)}, mark \in {{}, {"exposed"}} :
          Moved(r, j, nx, mark) /\ RequestKept(r)' /\ UserKept(u)'
    <2>1. CASE Moved(r, job[r], next, {})
      BY <2>1
    <2>2. CASE Moved(r, job[r], OnFailure(r), {"exposed"})
      <3>1. RequestKept(r)' /\ UserKept(u)'
        BY <2>2, FailureFollows
      <3> QED BY <2>2, <3>1
    <2>3. CASE Moved(r, Gone(r), OnFailure(r), {})
      <3>1. RequestKept(r)' /\ UserKept(u)'
        BY <1>1, <2>3, FailureFollows
      <3> QED BY <2>3, <3>1
    <2> QED BY <1>1, <2>1, <2>2, <2>3, HelperEndsMoves
  <1>3. j.user = u
    BY <1>1, <1>2
  <1> QED BY <1>2, <1>3, FollowOwn

\* The start of a request on a user on whom nobody works.
LEMMA BeginFollows ==
  ASSUME Overlap = FALSE, FollowInv, IInv', NEW r \in Requests, NEW u \in Users,
         NEW p \in Projects, NEW op \in Ops,
         NEW first \in {"assign", "issue", "undo", "load"}, Begin(r, op, u, p, first),
         \A v \in Users \ {u} : account'[v] = account[v],
         UNCHANGED <<project, cert, trust>>
  PROVE  FollowInv'
  <1>1. TypeInv /\ ~Working(r) /\ UserKept(u)
    BY DEF FollowInv, IInv, Begin, Working
  <1>2. /\ \A q \in Requests \ {r} : pc'[q] = pc[q] /\ job'[q] = job[q]
        /\ pc'[r] = first /\ job'[r].user = u
        /\ \A v \in Users \ {u} : marks'[v] = marks[v]
    BY <1>1, BeginTyped
  <1>3. /\ \A v \in Users \ {u} : outcome'[v] = outcome[v]
        /\ Failed(u) => Failed(u)'
    BY <1>1 DEF Begin, Failed, TypeInv, TypeOK
  <1>4. \A q \in Requests : Working(q) => job[q].user # u
    BY DEF Begin, Busy, Working
  <1>5. Settled(u) => Settled(u)'
    BY DEF Settled, Live, Granted, RowGrant
  <1>6. ~Failed(u) => Settled(u)
    BY <1>1, <1>4 DEF UserKept, Worked
  <1>7. Sure(r, u)' /\ (~Failed(u)' => OnTrack(r, u)')
    <2>1. pc'[r] \in {"assign", "issue", "undo", "load"}
      BY <1>2
    <2> QED BY <1>3, <1>5, <1>6, <2>1 DEF Sure, OnTrack
  <1>8. RequestKept(r)'
    BY <1>2, <1>7 DEF RequestKept
  <1>9. UserKept(u)'
    BY <1>2 DEF UserKept, Worked, Working
  <1>10. \A v \in Users \ {u} :
           /\ account'[v] = account[v] /\ cert'[v] = cert[v] /\ project'[v] = project[v]
           /\ outcome'[v] = outcome[v] /\ marks'[v] = marks[v]
    BY <1>2, <1>3
  <1> QED BY <1>1, <1>2, <1>4, <1>8, <1>9, <1>10, FollowFrame

\* An entry for u adds one grant, and one that is removed takes it away.
LEMMA GrantsEntry ==
  ASSUME TypeInv, NEW u \in Users, NEW g \in Certs, NEW p \in Projects,
         trust' = [trust EXCEPT ![g] = [user |-> u, project |-> p]]
  PROVE  Granted(u)' \subseteq Granted(u) \cup {<<g, p>>}
  <1>1. \A f \in Certs : trust'[f] = IF f = g THEN [user |-> u, project |-> p] ELSE trust[f]
    BY DEF TypeInv, TypeOK
  <1> QED BY <1>1 DEF Granted

LEMMA GrantsLess ==
  ASSUME TypeInv, NEW u \in Users, NEW g \in Certs, NEW p, NEW S,
         trust' = [trust EXCEPT ![g] = None], Granted(u) \subseteq S \cup {<<g, p>>}
  PROVE  Granted(u)' \subseteq S
  <1>1. \A f \in Certs : trust'[f] = IF f = g THEN None ELSE trust[f]
    BY DEF TypeInv, TypeOK
  <1> SUFFICES ASSUME NEW x \in Granted(u)' PROVE x \in S
    OBVIOUS
  <1>2. PICK f \in Certs : trust'[f] # None /\ trust'[f].user = u /\ x = <<f, trust'[f].project>>
    BY DEF Granted
  <1>3. f # g /\ trust[f] # None /\ trust[f].user = u /\ x = <<f, trust[f].project>>
    BY <1>1, <1>2
  <1>4. x \in Granted(u)
    BY <1>3 DEF Granted
  <1> QED BY <1>3, <1>4
-----------------------------------------------------------------------------
(* One step at a time.                                                     *)

LEMMA FollowRegister ==
  ASSUME FollowInv, IInv', NEW r \in Requests, Register(r)
  PROVE  FollowInv'
  <1>1. TypeInv
    BY DEF FollowInv, IInv
  <1>2. /\ Working(r) /\ pc[r] = "register" /\ HelperEnds(r, "store")
        /\ account' = account /\ project' = project /\ cert' = cert
        /\ trust' = [trust EXCEPT ![job[r].fp] =
                       [user |-> job[r].user, project |-> job[r].project]]
    BY DEF Register, At, tables, Working
  <1>3. PICK u \in Users : u = job[r].user
    BY <1>1, <1>2, WorkingJob
  <1>4. PICK f \in Certs : f = job[r].fp
    BY <1>1, <1>2 DEF TypeInv, Shape
  <1>5. PICK p \in Projects : p = job[r].project
    BY <1>1, <1>2, WorkingJob DEF Jobs
  <1>6. /\ trust'[f] = [user |-> u, project |-> p]
        /\ \A g \in Certs : g # f => trust'[g] = trust[g]
    BY <1>1, <1>2, <1>3, <1>4, <1>5 DEF TypeInv, TypeOK
  <1>7. f # None /\ Holds(f, u)
    BY <1>1, <1>2, <1>3, <1>4, Hands, TrustAssumption
  <1>8. \A g \in Certs : trust'[g] # trust[g] =>
          Holds(g, u) /\ (trust'[g] = None \/ trust'[g].user = u)
    BY <1>6, <1>7
  <1>9. Moved(r, job[r], "store", {}) => RequestKept(r)' /\ UserKept(u)'
    <2> HAVE Moved(r, job[r], "store", {})
    <2>1. /\ pc'[r] = "store" /\ job'[r].user = u /\ job'[r].project = p
          /\ job'[r].fp = f /\ job'[r].prev = job[r].prev
      BY <1>3, <1>4, <1>5 DEF Moved
    <2>2. Sure(r, u) /\ (~Failed(u) => OnTrack(r, u))
      BY <1>2, <1>3 DEF FollowInv, RequestKept
    <2>3. Sure(r, u)'
      BY <1>2, <1>4, <1>6, <2>1, <2>2 DEF Sure, CurrentTrust
    <2>4. ~Failed(u) => OnTrack(r, u)'
      <3> HAVE ~Failed(u)
      <3>1. Settled(u)
        BY <1>2, <2>2 DEF OnTrack
      <3>2. Granted(u)' \subseteq Granted(u) \cup {<<f, p>>}
        BY <1>1, <1>2, <1>3, <1>4, <1>5, GrantsEntry
      <3>3. Live(u)' /\ Granted(u)' \subseteq RowGrant(u)' \cup {<<f, p>>}
        BY <1>2, <3>1, <3>2 DEF Settled, Live, RowGrant
      <3> QED BY <2>1, <3>3 DEF OnTrack
    <2> QED BY <1>1, <1>2, <1>3, <2>3, <2>4, AfterMove
  <1>10. "store" \in Targets
    BY DEF Targets, Steps, StoreSteps
  <1> QED BY <1>2, <1>3, <1>8, <1>9, <1>10, HelperFollows

LEMMA FollowRevokePrevious ==
  ASSUME FollowInv, IInv', NEW r \in Requests, RevokePrevious(r)
  PROVE  FollowInv'
  <1>1. TypeInv
    BY DEF FollowInv, IInv
  <1>2. PICK next : next = Provisioned(r)
    OBVIOUS
  <1>3. /\ Working(r) /\ pc[r] = "revokePrev" /\ HelperEnds(r, next)
        /\ account' = account /\ project' = project /\ cert' = cert
        /\ trust' = [trust EXCEPT ![job[r].prev.fp] = None]
    BY <1>2 DEF RevokePrevious, At, tables, Working
  <1>4. PICK u \in Users : u = job[r].user
    BY <1>1, <1>3, WorkingJob
  <1>5. PICK prev \in Rows : prev = job[r].prev
    BY <1>1, <1>3 DEF TypeInv, Shape
  <1>6. prev.fp \in Certs /\ prev # None
    BY TrustAssumption DEF Rows
  <1>7. /\ trust'[prev.fp] = None
        /\ \A g \in Certs : g # prev.fp => trust'[g] = trust[g]
    BY <1>1, <1>3, <1>5, <1>6 DEF TypeInv, TypeOK
  <1>8. \A g \in Certs : trust'[g] # trust[g] =>
          Holds(g, u) /\ (trust'[g] = None \/ trust'[g].user = u)
    BY <1>1, <1>3, <1>4, <1>5, <1>6, <1>7, Hands
  <1>9. Moved(r, job[r], next, {}) => RequestKept(r)' /\ UserKept(u)'
    <2> HAVE Moved(r, job[r], next, {})
    <2>1. Sure(r, u) /\ (~Failed(u) => OnTrack(r, u))
      BY <1>3, <1>4 DEF FollowInv, RequestKept
    <2>2. /\ cert[u] = [fp |-> job[r].fp, project |-> job[r].project, revoked |-> FALSE]
          /\ project[u] = job[r].project /\ prev.fp # job[r].fp
          /\ trust[job[r].fp] = [user |-> u, project |-> job[r].project]
          /\ job[r].fp \in Certs
      BY <1>1, <1>3, <1>5, <2>1 DEF Sure, TypeInv, Shape
    <2>3. cert[u] # None
      <3>1. job[r].project \in Projects
        BY <1>1, <1>3, WorkingJob DEF Jobs
      <3>2. cert[u] \in Rows
        BY <2>2, <3>1 DEF Rows
      <3> QED BY <3>2, TrustAssumption
    <2>4. InForce(u)'
      BY <1>3, <1>7, <2>2, <2>3 DEF InForce, Trusted
    <2>5. ~Failed(u) => Settled(u)'
      <3> HAVE ~Failed(u)
      <3>1. Granted(u) \subseteq RowGrant(u) \cup {<<prev.fp, prev.project>>}
        BY <1>3, <1>5, <2>1 DEF OnTrack
      <3>2. Granted(u)' \subseteq RowGrant(u)
        BY <1>1, <1>3, <1>5, <1>6, <3>1, GrantsLess
      <3> QED BY <1>3, <2>2, <3>2 DEF Settled, Live, RowGrant
    <2>6. next \in {"ok", "retire"}
      BY <1>2 DEF Provisioned
    <2>7. next # "ok" => Sure(r, u)' /\ (~Failed(u) => OnTrack(r, u)')
      <3> HAVE next # "ok"
      <3>1. pc'[r] = "retire"
        BY <2>6 DEF Moved
      <3> QED BY <2>4, <2>5, <3>1 DEF Sure, OnTrack
    <2> QED BY <1>1, <1>3, <1>4, <2>4, <2>5, <2>6, <2>7, AfterMove
  <1>10. next \in Targets /\ pc[r] # "retire"
    BY <1>2, <1>3 DEF Provisioned, Targets, Steps, Uncancelled
  <1> QED BY <1>3, <1>4, <1>8, <1>9, <1>10, HelperFollows

LEMMA FollowRevokeNew ==
  ASSUME FollowInv, IInv', NEW r \in Requests, RevokeNew(r)
  PROVE  FollowInv'
  <1>1. TypeInv
    BY DEF FollowInv, IInv
  <1>2. PICK next : next = OnFailure(r)
    OBVIOUS
  <1>3. /\ Working(r) /\ pc[r] = "revokeNew" /\ HelperEnds(r, next)
        /\ account' = account /\ project' = project /\ cert' = cert
        /\ trust' = [trust EXCEPT ![job[r].fp] = None]
    BY <1>2 DEF RevokeNew, At, tables, Working
  <1>4. PICK u \in Users : u = job[r].user
    BY <1>1, <1>3, WorkingJob
  <1>5. PICK f \in Certs : f = job[r].fp
    BY <1>1, <1>3 DEF TypeInv, Shape
  <1>6. /\ trust'[f] = None
        /\ \A g \in Certs : g # f => trust'[g] = trust[g]
    BY <1>1, <1>3, <1>5 DEF TypeInv, TypeOK
  <1>7. f # None /\ Holds(f, u)
    BY <1>1, <1>3, <1>4, <1>5, Hands, TrustAssumption
  <1>8. \A g \in Certs : trust'[g] # trust[g] =>
          Holds(g, u) /\ (trust'[g] = None \/ trust'[g].user = u)
    BY <1>6, <1>7
  <1>9. Moved(r, job[r], next, {}) => RequestKept(r)' /\ UserKept(u)'
    BY <1>2, <1>3, <1>4, FailureFollows
  <1>10. next \in Targets /\ pc[r] # "retire"
    BY <1>1, <1>2, <1>3, FailureTargets
  <1> QED BY <1>3, <1>4, <1>8, <1>9, <1>10, HelperFollows

LEMMA FollowRevokeCert ==
  ASSUME FollowInv, IInv', NEW r \in Requests, RevokeCert(r)
  PROVE  FollowInv'
  <1>1. TypeInv
    BY DEF FollowInv, IInv
  <1>2. /\ Working(r) /\ pc[r] = "revoke" /\ HelperEnds(r, "mark")
        /\ account' = account /\ project' = project /\ cert' = cert
        /\ trust' = [trust EXCEPT ![job[r].prev.fp] = None]
    BY DEF RevokeCert, At, tables, Working
  <1>3. PICK u \in Users : u = job[r].user
    BY <1>1, <1>2, WorkingJob
  <1>4. PICK prev \in Rows : prev = job[r].prev
    BY <1>1, <1>2 DEF TypeInv, Shape
  <1>5. prev.fp \in Certs /\ prev # None
    BY TrustAssumption DEF Rows
  <1>6. /\ trust'[prev.fp] = None
        /\ \A g \in Certs : g # prev.fp => trust'[g] = trust[g]
    BY <1>1, <1>2, <1>4, <1>5 DEF TypeInv, TypeOK
  <1>7. \A g \in Certs : trust'[g] # trust[g] =>
          Holds(g, u) /\ (trust'[g] = None \/ trust'[g].user = u)
    BY <1>1, <1>2, <1>3, <1>4, <1>5, <1>6, Hands
  <1>8. Moved(r, job[r], "mark", {}) => RequestKept(r)' /\ UserKept(u)'
    <2> HAVE Moved(r, job[r], "mark", {})
    <2>1. pc'[r] = "mark"
      BY DEF Moved
    <2>2. Sure(r, u)'
      BY <2>1 DEF Sure
    <2>3. ~Failed(u) => OnTrack(r, u)'
      <3> HAVE ~Failed(u)
      <3>1. Granted(u) \subseteq {} \cup {<<prev.fp, prev.project>>}
        BY <1>2, <1>3, <1>4 DEF FollowInv, RequestKept, OnTrack
      <3>2. Granted(u)' \subseteq {}
        BY <1>1, <1>2, <1>4, <1>5, <3>1, GrantsLess
      <3> QED BY <2>1, <3>2 DEF OnTrack
    <2> QED BY <1>1, <1>2, <1>3, <2>2, <2>3, AfterMove
  <1>9. "mark" \in Targets /\ pc[r] # "retire"
    BY <1>2 DEF Targets, Steps, StoreSteps
  <1> QED BY <1>2, <1>3, <1>7, <1>8, <1>9, HelperFollows

LEMMA FollowStore ==
  ASSUME FollowInv, IInv', NEW r \in Requests, StoreCert(r)
  PROVE  FollowInv'
  <1>1. TypeInv
    BY DEF FollowInv, IInv
  <1>2. PICK next : next = IF job[r].prev # None THEN "revokePrev" ELSE Provisioned(r)
    OBVIOUS
  <1>3. PICK j : j = job[r]
    OBVIOUS
  <1>4. PICK u : u = j.user
    OBVIOUS
  <1>5. PICK new : new = [fp |-> j.fp, project |-> j.project, revoked |-> FALSE]
    OBVIOUS
  <1>6. /\ Working(r) /\ pc[r] = "store" /\ Succeed(r, next)
        /\ account' = account /\ trust' = trust
        /\ project' = [project EXCEPT ![u] = j.project]
        /\ cert' = [cert EXCEPT ![u] = new]
    BY <1>2, <1>3, <1>4, <1>5 DEF StoreCert, At, Working
  <1>7. /\ u \in Users /\ j \in Jobs /\ j.fp \in Certs /\ j.project \in Projects
    BY <1>1, <1>3, <1>4, <1>6, WorkingJob DEF TypeInv, Shape, Jobs
  <1>8. new \in Rows /\ new # None /\ new.fp = j.fp /\ new.project = j.project /\ ~new.revoked
    <2>1. new \in Rows
      BY <1>5, <1>7 DEF Rows
    <2> QED BY <1>5, <2>1, TrustAssumption
  <1>9. /\ cert'[u] = new /\ project'[u] = j.project
        /\ \A v \in Users \ {u} :
             account'[v] = account[v] /\ cert'[v] = cert[v] /\ project'[v] = project[v]
    BY <1>1, <1>6, <1>7 DEF TypeInv, TypeOK
  <1>10. next \in {"revokePrev", "retire", "ok"} /\ next \in Targets
    BY <1>2 DEF Provisioned, Targets, Steps, HelperSteps, Uncancelled
  <1>11. Moved(r, j, next, {})
    BY <1>1, <1>3, <1>6, <1>10, SucceedMoves
  <1>12. /\ j.prev = CurrentTrust(u) /\ (cert[u] # None => cert[u].fp # j.fp)
         /\ trust[j.fp] = [user |-> u, project |-> j.project]
         /\ ~Failed(u) => Live(u) /\ Granted(u) \subseteq RowGrant(u) \cup {<<j.fp, j.project>>}
    BY <1>3, <1>4, <1>6, <1>7 DEF FollowInv, RequestKept, Sure, OnTrack
  <1>13. InForce(u)'
    BY <1>6, <1>8, <1>9, <1>12 DEF InForce, Trusted
  <1>14. Granted(u)' = Granted(u) /\ RowGrant(u)' = {<<j.fp, j.project>>} /\ Live(u)'
    BY <1>6, <1>8, <1>9 DEF Granted, RowGrant, Live
  <1>15. ASSUME ~Failed(u), j.prev = None PROVE Settled(u)'
    <2>1. RowGrant(u) = {}
      BY <1>12, <1>15 DEF Live, CurrentTrust, RowGrant
    <2> QED BY <1>12, <1>14, <1>15, <2>1 DEF Settled
  <1>16. ASSUME ~Failed(u), j.prev # None
         PROVE  Granted(u)' \subseteq RowGrant(u)' \cup {<<j.prev.fp, j.prev.project>>}
    <2>1. RowGrant(u) = {<<j.prev.fp, j.prev.project>>}
      BY <1>12, <1>16 DEF CurrentTrust, RowGrant
    <2> QED BY <1>12, <1>14, <1>16, <2>1
  <1>17. next # "revokePrev" => j.prev = None
    BY <1>2, <1>3
  <1>18. next # "ok" => Sure(r, u)' /\ (~Failed(u) => OnTrack(r, u)')
    <2> HAVE next # "ok"
    <2>1. /\ pc'[r] = next /\ job'[r].fp = j.fp /\ job'[r].prev = j.prev
          /\ job'[r].project = j.project
      BY <1>10, <1>11 DEF Moved
    <2>2. CASE next = "retire"
      BY <1>13, <1>15, <1>17, <2>1, <2>2 DEF Sure, OnTrack
    <2>3. CASE next = "revokePrev"
      <3>1. j.prev # None
        BY <1>2, <1>3, <2>3 DEF Provisioned
      <3>2. j.prev.fp # j.fp
        BY <1>12, <3>1 DEF CurrentTrust
      <3>3. Sure(r, u)'
        BY <1>5, <1>6, <1>9, <1>12, <2>1, <2>3, <3>2 DEF Sure
      <3>4. ~Failed(u) => OnTrack(r, u)'
        BY <1>16, <2>1, <2>3, <3>1 DEF OnTrack
      <3> QED BY <3>3, <3>4
    <2> QED BY <1>10, <2>2, <2>3
  <1>19. RequestKept(r)' /\ UserKept(u)'
    <2>1. next = "ok" => (Present(u)' => InForce(u)') /\ (~Failed(u) => Settled(u)')
      BY <1>13, <1>15, <1>17
    <2>2. next # "failed" /\ next \notin {"idle", "first"}
      BY <1>10
    <2> QED BY <1>1, <1>4, <1>6, <1>7, <1>11, <1>18, <2>1, <2>2, AfterMove
  <1>20. job[r].user = u /\ j.user = u /\ (\A f \in Certs : trust'[f] = trust[f])
    BY <1>3, <1>4, <1>6
  <1> QED BY <1>6, <1>7, <1>9, <1>11, <1>19, <1>20, FollowOwn

LEMMA FollowIssue ==
  ASSUME FollowInv, IInv', NEW r \in Requests, NEW f \in Certs, Issue(r, f)
  PROVE  FollowInv'
  <1>1. TypeInv
    BY DEF FollowInv, IInv
  <1>2. PICK j : j = IssueJob(r, f)
    OBVIOUS
  <1>3. /\ Working(r) /\ j.user = job[r].user /\ j.fp = f
        /\ j.prev = CurrentTrust(job[r].user) /\ Moved(r, j, "register", {})
    BY <1>1, <1>2, IssueMoves
  <1>4. PICK u \in Users : u = job[r].user
    BY <1>1, <1>3, WorkingJob
  <1>5. /\ account' = account /\ project' = project /\ cert' = cert /\ trust' = trust
        /\ pc[r] = "issue" /\ Fresh(f)
    BY DEF Issue, At, tables
  <1>6. cert[u] # None => cert[u].fp # f
    BY <1>1, <1>5, FreshIsFree DEF Holds
  <1>7. /\ pc'[r] = "register" /\ job'[r].fp = f /\ job'[r].prev = CurrentTrust(u)
    BY <1>3, <1>4 DEF Moved
  <1>8. Sure(r, u)'
    BY <1>5, <1>6, <1>7 DEF Sure, CurrentTrust
  <1>9. ~Failed(u) => OnTrack(r, u)'
    <2> HAVE ~Failed(u)
    <2>1. Settled(u)
      BY <1>3, <1>4, <1>5 DEF FollowInv, RequestKept, OnTrack
    <2> QED BY <1>5, <1>7, <2>1 DEF OnTrack, Settled, Live, Granted, RowGrant
  <1>10. RequestKept(r)' /\ UserKept(u)'
    BY <1>1, <1>3, <1>4, <1>8, <1>9, AfterMove
  <1> QED BY <1>3, <1>4, <1>5, <1>10, FollowOwn

LEMMA FollowAssign ==
  ASSUME FollowInv, IInv', NEW r \in Requests, SetUserIncusProject(r)
  PROVE  FollowInv'
  <1>1. TypeInv
    BY DEF FollowInv, IInv
  <1>2. /\ Working(r) /\ pc[r] = "assign" /\ Succeed(r, "issue")
        /\ account' = account /\ cert' = cert /\ trust' = trust
        /\ project' = [project EXCEPT ![job[r].user] = job[r].project]
    BY DEF SetUserIncusProject, At, Working
  <1>3. PICK u \in Users : u = job[r].user
    BY <1>1, <1>2, WorkingJob
  <1>4. \A v \in Users \ {u} :
          account'[v] = account[v] /\ cert'[v] = cert[v] /\ project'[v] = project[v]
    BY <1>1, <1>2, <1>3 DEF TypeInv, TypeOK
  <1>5. "issue" \in Targets
    BY DEF Targets, Steps, StoreSteps
  <1>6. Moved(r, job[r], "issue", {})
    BY <1>1, <1>2, <1>5, SucceedMoves
  <1>7. pc'[r] = "issue"
    BY <1>6 DEF Moved
  <1>8. Sure(r, u)'
    BY <1>7 DEF Sure
  <1>9. ~Failed(u) => OnTrack(r, u)'
    <2> HAVE ~Failed(u)
    <2>1. Settled(u)
      BY <1>2, <1>3 DEF FollowInv, RequestKept, OnTrack
    <2> QED BY <1>2, <1>7, <2>1 DEF OnTrack, Settled, Live, Granted, RowGrant
  <1>10. RequestKept(r)' /\ UserKept(u)'
    BY <1>1, <1>2, <1>3, <1>6, <1>8, <1>9, AfterMove
  <1>11. \A f \in Certs : trust'[f] = trust[f]
    BY <1>2
  <1> QED BY <1>2, <1>3, <1>4, <1>6, <1>10, <1>11, FollowOwn

LEMMA FollowDrop ==
  ASSUME FollowInv, IInv', NEW r \in Requests, Undo(r) \/ DeleteUser(r)
  PROVE  FollowInv'
  <1>1. TypeInv
    BY DEF FollowInv, IInv
  <1>2. PICK next \in {"ok", "failed"} :
          /\ Succeed(r, next)
          /\ next = "ok" => pc[r] = "remove"
    BY DEF Undo, DeleteUser, At
  <1>3. Working(r) /\ Drop(job[r].user) /\ trust' = trust
    BY DEF Undo, DeleteUser, At, Working
  <1>4. PICK u \in Users : u = job[r].user
    BY <1>1, <1>3, WorkingJob
  <1>5. /\ \A v \in Users \ {u} :
             account'[v] = account[v] /\ cert'[v] = cert[v] /\ project'[v] = project[v]
        /\ cert'[u] = None /\ account'[u] = "gone"
    BY <1>1, <1>3, <1>4 DEF Drop, TypeInv, TypeOK
  <1>6. next \in Targets
    BY DEF Targets
  <1>7. Moved(r, job[r], next, {})
    BY <1>1, <1>2, <1>3, <1>6, SucceedMoves
  <1>8. next = "ok" => (Present(u)' => InForce(u)') /\ (~Failed(u) => Settled(u)')
    <2> HAVE next = "ok"
    <2>1. ~Failed(u) => Granted(u) = {}
      BY <1>2, <1>3, <1>4 DEF FollowInv, RequestKept, OnTrack
    <2>2. Granted(u)' = Granted(u)
      BY <1>3 DEF Granted
    <2> QED BY <1>5, <2>1, <2>2 DEF Present, Settled, Live
  <1>9. RequestKept(r)' /\ UserKept(u)'
    BY <1>1, <1>3, <1>4, <1>7, <1>8, AfterMove
  <1>10. \A f \in Certs : trust'[f] = trust[f]
    BY <1>3
  <1> QED BY <1>3, <1>4, <1>5, <1>7, <1>9, <1>10, FollowOwn

LEMMA FollowRetire ==
  ASSUME FollowInv, IInv', NEW r \in Requests, RetireSetupToken(r)
  PROVE  FollowInv'
  <1>1. TypeInv
    BY DEF FollowInv, IInv
  <1>2. /\ Working(r) /\ pc[r] = "retire" /\ Succeed(r, "ok")
        /\ account' = account /\ project' = project /\ cert' = cert /\ trust' = trust
    BY DEF RetireSetupToken, tables, Working
  <1>3. PICK u \in Users : u = job[r].user
    BY <1>1, <1>2, WorkingJob
  <1>4. Moved(r, job[r], "ok", {})
    BY <1>1, <1>2, SucceedMoves DEF Targets
  <1>5. InForce(u) /\ (~Failed(u) => Settled(u))
    BY <1>2, <1>3 DEF FollowInv, RequestKept, Sure, OnTrack
  <1>6. InForce(u)' /\ (~Failed(u) => Settled(u)')
    BY <1>2, <1>5 DEF InForce, Trusted, Settled, Live, Granted, RowGrant
  <1>7. RequestKept(r)' /\ UserKept(u)'
    BY <1>1, <1>2, <1>3, <1>4, <1>6, AfterMove
  <1>8. \A f \in Certs : trust'[f] = trust[f]
    BY <1>2
  <1> QED BY <1>2, <1>3, <1>4, <1>7, <1>8, FollowOwn

LEMMA FollowRestore ==
  ASSUME FollowInv, IInv', NEW r \in Requests, RestoreCert(r)
  PROVE  FollowInv'
  <1>1. TypeInv
    BY DEF FollowInv, IInv
  <1>2. /\ Working(r) /\ Succeed(r, "revokeNew")
        /\ account' = account /\ trust' = trust
        /\ project' = [project EXCEPT ![job[r].user] = job[r].prev.project]
        /\ cert' = [cert EXCEPT ![job[r].user] = job[r].prev]
    BY DEF RestoreCert, At, Working
  <1>3. PICK u \in Users : u = job[r].user
    BY <1>1, <1>2, WorkingJob
  <1>4. \A v \in Users \ {u} :
          account'[v] = account[v] /\ cert'[v] = cert[v] /\ project'[v] = project[v]
    BY <1>1, <1>2, <1>3 DEF TypeInv, TypeOK
  <1>5. "revokeNew" \in Targets
    BY DEF Targets, Steps, HelperSteps
  <1>6. Moved(r, job[r], "revokeNew", {})
    BY <1>1, <1>2, <1>5, SucceedMoves
  <1>7. pc'[r] = "revokeNew"
    BY <1>6 DEF Moved
  <1>8. Sure(r, u)' /\ OnTrack(r, u)'
    BY <1>7 DEF Sure, OnTrack
  <1>9. RequestKept(r)' /\ UserKept(u)'
    BY <1>1, <1>2, <1>3, <1>6, <1>8, AfterMove
  <1>10. \A f \in Certs : trust'[f] = trust[f]
    BY <1>2
  <1> QED BY <1>2, <1>3, <1>4, <1>6, <1>9, <1>10, FollowOwn

LEMMA FollowLoad ==
  ASSUME FollowInv, IInv', NEW r \in Requests, LoadCert(r)
  PROVE  FollowInv'
  <1>1. TypeInv
    BY DEF FollowInv, IInv
  <1>2. PICK j : j = LoadJob(r)
    OBVIOUS
  <1>3. PICK next : next = AfterLoad(r)
    OBVIOUS
  <1>4. /\ Working(r) /\ j.user = job[r].user
        /\ j.prev = CurrentTrust(job[r].user) /\ Moved(r, j, next, {})
    BY <1>1, <1>2, <1>3, LoadMoves
  <1>5. PICK u \in Users : u = job[r].user
    BY <1>1, <1>4, WorkingJob
  <1>6. /\ account' = account /\ project' = project /\ cert' = cert /\ trust' = trust
        /\ pc[r] = "load"
    BY DEF LoadCert, At, tables
  <1>7. next = IF CurrentTrust(u) = None THEN "remove" ELSE "revoke"
    BY <1>3, <1>5 DEF AfterLoad
  <1>8. pc'[r] = next /\ job'[r].prev = CurrentTrust(u)
    BY <1>4, <1>5, <1>7 DEF Moved
  <1>9. Sure(r, u)'
    BY <1>7, <1>8 DEF Sure
  <1>10. ~Failed(u) => OnTrack(r, u)'
    <2> HAVE ~Failed(u)
    <2>1. Live(u) /\ Granted(u) \subseteq RowGrant(u)
      BY <1>4, <1>5, <1>6 DEF FollowInv, RequestKept, OnTrack, Settled
    <2>2. Granted(u)' = Granted(u)
      BY <1>6 DEF Granted
    <2>3. CASE CurrentTrust(u) = None
      <3>1. RowGrant(u) = {}
        BY <2>1, <2>3 DEF Live, CurrentTrust, RowGrant
      <3> QED BY <1>7, <1>8, <2>1, <2>2, <2>3, <3>1 DEF OnTrack
    <2>4. CASE CurrentTrust(u) # None
      <3>1. RowGrant(u) = {<<CurrentTrust(u).fp, CurrentTrust(u).project>>}
        BY <2>4 DEF CurrentTrust, RowGrant
      <3> QED BY <1>7, <1>8, <2>1, <2>2, <2>4, <3>1 DEF OnTrack
    <2> QED BY <2>3, <2>4
  <1>11. RequestKept(r)' /\ UserKept(u)'
    BY <1>1, <1>4, <1>5, <1>7, <1>9, <1>10, AfterMove
  <1> QED BY <1>4, <1>5, <1>6, <1>11, FollowOwn

LEMMA FollowMark ==
  ASSUME FollowInv, IInv', NEW r \in Requests, MarkRevoked(r)
  PROVE  FollowInv'
  <1>1. TypeInv
    BY DEF FollowInv, IInv
  <1>2. /\ Working(r) /\ pc[r] = "mark" /\ Succeed(r, "remove")
        /\ account' = account /\ project' = project /\ trust' = trust
        /\ cert' = [cert EXCEPT ![job[r].user] =
                      IF @ = None THEN None ELSE [@ EXCEPT !.revoked = TRUE]]
    BY DEF MarkRevoked, At, Working
  <1>3. PICK u \in Users : u = job[r].user
    BY <1>1, <1>2, WorkingJob
  <1>4. \A v \in Users \ {u} :
          account'[v] = account[v] /\ cert'[v] = cert[v] /\ project'[v] = project[v]
    BY <1>1, <1>2, <1>3 DEF TypeInv, TypeOK
  <1>5. "remove" \in Targets
    BY DEF Targets, Steps, StoreSteps
  <1>6. Moved(r, job[r], "remove", {})
    BY <1>1, <1>2, <1>5, SucceedMoves
  <1>7. pc'[r] = "remove"
    BY <1>6 DEF Moved
  <1>8. Sure(r, u)'
    BY <1>7 DEF Sure
  <1>9. ~Failed(u) => OnTrack(r, u)'
    <2> HAVE ~Failed(u)
    <2>1. Granted(u) = {}
      BY <1>2, <1>3 DEF FollowInv, RequestKept, OnTrack
    <2>2. Granted(u)' = Granted(u)
      BY <1>2 DEF Granted
    <2> QED BY <1>7, <2>1, <2>2 DEF OnTrack
  <1>10. RequestKept(r)' /\ UserKept(u)'
    BY <1>1, <1>2, <1>3, <1>6, <1>8, <1>9, AfterMove
  <1>11. \A f \in Certs : trust'[f] = trust[f]
    BY <1>2
  <1> QED BY <1>2, <1>3, <1>4, <1>6, <1>10, <1>11, FollowOwn

LEMMA FollowFails ==
  ASSUME FollowInv, IInv', NEW r \in Requests, StepFails(r)
  PROVE  FollowInv'
  <1>1. TypeInv
    BY DEF FollowInv, IInv
  <1>2. /\ Working(r) /\ Fail(r)
        /\ account' = account /\ project' = project /\ cert' = cert /\ trust' = trust
    BY DEF StepFails, tables, Working
  <1>3. PICK u \in Users : u = job[r].user
    BY <1>1, <1>2, WorkingJob
  <1>4. PICK mark : mark = IF pc[r] = "restore" THEN {"exposed"} ELSE {}
    OBVIOUS
  <1>5. PICK next : next = OnFailure(r)
    OBVIOUS
  <1>6. Moved(r, job[r], next, mark)
    BY <1>1, <1>2, <1>4, <1>5, FailMoves
  <1>7. RequestKept(r)' /\ UserKept(u)'
    BY <1>2, <1>3, <1>5, <1>6, FailureFollows
  <1>8. \A f \in Certs : trust'[f] = trust[f]
    BY <1>2
  <1> QED BY <1>2, <1>3, <1>6, <1>7, <1>8, FollowOwn

LEMMA FollowHangUp ==
  ASSUME FollowInv, IInv', NEW r \in Requests, HangUp(r)
  PROVE  FollowInv'
  <1>1. TypeInv
    BY DEF FollowInv, IInv
  <1>2. account' = account /\ project' = project /\ cert' = cert /\ trust' = trust
    BY DEF HangUp, tables
  <1>3. CASE job[r].user = None
    <2>1. ~Working(r)
      BY <1>1, <1>3, WorkingJob, TrustAssumption
    <2>2. /\ pc' = pc /\ outcome' = outcome /\ marks' = marks
          /\ \A q \in Requests \ {r} : job'[q] = job[q]
      BY <1>1, <1>3 DEF HangUp, history, TypeInv, TypeOK
    <2>3. \A q \in Requests : Working(q)' => Working(q) /\ pc'[q] = pc[q] /\ job'[q] = job[q]
      BY <2>1, <2>2 DEF Working
    <2>4. ASSUME NEW v \in Users PROVE Worked(v) => Worked(v)'
      BY <2>1, <2>2 DEF Worked, Working
    <2> QED BY <1>2, <2>2, <2>3, <2>4, FollowQuiet
  <1>4. CASE job[r].user # None
    <2>1. Working(r) /\ pc[r] \in Targets /\ Moved(r, Gone(r), pc[r], {})
      BY <1>1, <1>4, HangUpMoves
    <2>2. PICK u \in Users : u = job[r].user
      BY <1>1, <2>1, WorkingJob
    <2>3. PICK j : j = Gone(r)
      OBVIOUS
    <2>4. PICK next : next = pc[r]
      OBVIOUS
    <2>5. /\ j.user = u /\ j.fp = job[r].fp /\ j.prev = job[r].prev
          /\ j.project = job[r].project
      BY <1>1, <2>1, <2>2, <2>3, GoneJob
    <2>6. next \notin {"ok", "failed", "idle", "first"} /\ Moved(r, j, next, {})
      BY <1>1, <2>1, <2>3, <2>4
         DEF TypeInv, TypeOK, Steps, HelperSteps, StoreSteps, Uncancelled, Working
    <2>7. /\ pc'[r] = pc[r] /\ job'[r].fp = job[r].fp /\ job'[r].prev = job[r].prev
          /\ job'[r].project = job[r].project
      BY <2>4, <2>5, <2>6 DEF Moved
    <2>8. Sure(r, u) /\ (~Failed(u) => OnTrack(r, u))
      BY <2>1, <2>2 DEF FollowInv, RequestKept
    <2>9. Sure(r, u)'
      BY <1>2, <2>7, <2>8 DEF Sure, CurrentTrust, InForce, Trusted
    <2>10. ~Failed(u) => OnTrack(r, u)'
      BY <1>2, <2>7, <2>8 DEF OnTrack, Settled, Live, Granted, RowGrant
    <2>11. RequestKept(r)' /\ UserKept(u)'
      BY <1>1, <2>1, <2>5, <2>6, <2>9, <2>10, AfterMove
    <2> QED BY <1>2, <2>1, <2>2, <2>5, <2>6, <2>11, FollowOwn
  <1> QED BY <1>3, <1>4

LEMMA FollowFirst ==
  ASSUME FollowInv, IInv', NEW r \in Requests, NEW u \in Users, CreateFirstAdmin(r, u)
  PROVE  FollowInv'
  <1>1. TypeInv
    BY DEF FollowInv, IInv
  <1>2. /\ ~Working(r) /\ account[u] = "none"
        /\ pc' = [pc EXCEPT ![r] = "issue"]
        /\ job' = [job EXCEPT ![r] = Job("setup", u, Default, 0, Blank)]
        /\ outcome' = [outcome EXCEPT ![u] = "pending"]
        /\ account' = [account EXCEPT ![u] = "present"]
        /\ project' = project /\ cert' = cert /\ trust' = trust /\ marks' = marks
    BY DEF CreateFirstAdmin, At, Working
  <1>3. /\ pc'[r] = "issue" /\ job'[r].user = u
        /\ \A q \in Requests \ {r} : pc'[q] = pc[q] /\ job'[q] = job[q]
        /\ \A v \in Users \ {u} : account'[v] = account[v] /\ outcome'[v] = outcome[v]
    BY <1>1, <1>2 DEF Job, TypeInv, TypeOK
  <1>4. \A q \in Requests : Working(q) => job[q].user # u
    BY <1>2 DEF FollowInv, IInv, RequestOK, Present
  <1>5. ~Failed(u) => Settled(u)
    BY <1>4 DEF FollowInv, UserKept, Worked
  <1>6. Sure(r, u)'
    BY <1>3 DEF Sure
  <1>7. ~Failed(u)' => OnTrack(r, u)'
    <2> HAVE ~Failed(u)'
    <2>1. Settled(u)
      BY <1>2, <1>5 DEF Failed
    <2> QED BY <1>2, <1>3, <2>1 DEF OnTrack, Settled, Live, Granted, RowGrant
  <1>8. RequestKept(r)'
    BY <1>3, <1>6, <1>7 DEF RequestKept
  <1>9. UserKept(u)'
    BY <1>3 DEF UserKept, Worked, Working
  <1>10. \A v \in Users \ {u} :
           /\ account'[v] = account[v] /\ cert'[v] = cert[v] /\ project'[v] = project[v]
           /\ outcome'[v] = outcome[v] /\ marks'[v] = marks[v]
    BY <1>2, <1>3
  <1>11. \A f \in Certs : trust'[f] = trust[f]
    BY <1>2
  <1> QED BY <1>2, <1>3, <1>4, <1>8, <1>9, <1>10, <1>11, FollowFrame

LEMMA FollowCrash ==
  ASSUME FollowInv, IInv', Crash
  PROVE  FollowInv'
  <1>1. TypeInv
    BY DEF FollowInv, IInv
  <1>2. \A q \in Requests : ~Working(q)'
    BY DEF Crash, Working
  <1>3. UNCHANGED <<account, project, cert, trust>>
    BY DEF Crash, tables
  <1>4. ASSUME NEW v \in Users
        PROVE  \/ outcome'[v] = outcome[v] /\ marks'[v] = marks[v] /\ (Worked(v) => Worked(v)')
               \/ outcome'[v] # "ok" /\ Failed(v)' /\ ~Worked(v)'
    <2>1. Worked(v) => Busy(v)
      BY DEF Worked, Busy, Working
    <2>2. CASE Busy(v)
      BY <1>2, <2>2 DEF Crash, Failed, Worked
    <2>3. CASE ~Busy(v)
      BY <2>1, <2>3 DEF Crash
    <2> QED BY <2>2, <2>3
  <1> QED BY <1>2, <1>3, <1>4, FollowQuiet

LEMMA FollowStep ==
  ASSUME Overlap = FALSE, FollowInv, [Next]_vars
  PROVE  FollowInv'
  <1>i. IInv'
    BY InvStep DEF FollowInv
  <1>t. TypeInv
    BY DEF FollowInv, IInv
  <1>1. ASSUME NEW r \in Requests, BeginSetup(r) \/ DismissSetup(r) PROVE FollowInv'
    <2>1. ~Working(r)
      BY <1>1 DEF BeginSetup, DismissSetup, Working
    <2>2. /\ UNCHANGED <<account, project, cert, trust, outcome, marks>>
          /\ \A q \in Requests : Working(q)' => Working(q) /\ pc'[q] = pc[q] /\ job'[q] = job[q]
          /\ \A q \in Requests \ {r} : pc'[q] = pc[q] /\ job'[q] = job[q]
      BY <1>1, <1>t, <2>1 DEF BeginSetup, DismissSetup, tables, history, Working, TypeInv, TypeOK
    <2>3. ASSUME NEW v \in Users PROVE Worked(v) => Worked(v)'
      BY <2>1, <2>2 DEF Worked, Working
    <2> QED BY <1>i, <2>2, <2>3, FollowQuiet
  <1>2. ASSUME NEW r \in Requests, NEW u \in Users, CreateFirstAdmin(r, u) PROVE FollowInv'
    BY <1>2, <1>i, FollowFirst
  <1>3. ASSUME NEW r \in Requests, NEW u \in Users, CreateUser(r, u) PROVE FollowInv'
    <2>1. /\ \A v \in Users \ {u} : account'[v] = account[v]
          /\ UNCHANGED <<project, cert, trust>>
      BY <1>3, <1>t DEF CreateUser, TypeInv, TypeOK
    <2>2. PICK p \in Projects, first \in {"issue", "assign", "undo"} : Begin(r, "create", u, p, first)
      BY <1>3, TrustAssumption DEF CreateUser
    <2>3. "create" \in Ops
      BY DEF Ops
    <2> QED BY <1>i, <2>1, <2>2, <2>3, BeginFollows
  <1>4. ASSUME NEW r \in Requests, NEW u \in Users, BeginDelete(r, u) PROVE FollowInv'
    <2>1. /\ \A v \in Users \ {u} : account'[v] = account[v]
          /\ UNCHANGED <<project, cert, trust>>
          /\ Begin(r, "delete", u, Default, "load")
      BY <1>4 DEF BeginDelete, tables
    <2>2. "delete" \in Ops /\ Default \in Projects
      BY TrustAssumption DEF Ops
    <2> QED BY <1>i, <2>1, <2>2, BeginFollows
  <1>5. ASSUME NEW r \in Requests, NEW u \in Users, NEW p \in Projects,
               UpdateUserScope(r, u, p)
        PROVE  FollowInv'
    <2>1. /\ \A v \in Users \ {u} : account'[v] = account[v]
          /\ UNCHANGED <<project, cert, trust>>
          /\ Begin(r, "scope", u, p, "issue")
      BY <1>5 DEF UpdateUserScope, tables
    <2>2. "scope" \in Ops
      BY DEF Ops
    <2> QED BY <1>i, <2>1, <2>2, BeginFollows
  <1>6. ASSUME NEW r \in Requests, NEW f \in Certs, Issue(r, f) PROVE FollowInv'
    BY <1>6, <1>i, FollowIssue
  <1>7. ASSUME NEW r \in Requests,
               \/ SetUserIncusProject(r) \/ Undo(r) \/ RetireSetupToken(r)
               \/ Register(r) \/ StoreCert(r) \/ RevokePrevious(r)
        PROVE  FollowInv'
    BY <1>7, <1>i, FollowAssign, FollowDrop, FollowRetire, FollowRegister, FollowStore,
       FollowRevokePrevious
  <1>8. ASSUME NEW r \in Requests,
               \/ RestoreCert(r) \/ RevokeNew(r) \/ LoadCert(r) \/ RevokeCert(r)
               \/ MarkRevoked(r) \/ DeleteUser(r) \/ StepFails(r) \/ HangUp(r)
        PROVE  FollowInv'
    BY <1>8, <1>i, FollowRestore, FollowRevokeNew, FollowLoad, FollowRevokeCert,
       FollowMark, FollowDrop, FollowFails, FollowHangUp
  <1>9. CASE UNCHANGED vars \/ \E u \in Users : OwnRow(u)
    <2>1. UNCHANGED <<account, project, cert, trust, pc, job, outcome, marks>>
      BY <1>9 DEF vars, tables, history, OwnRow
    <2>2. \A v \in Users : Worked(v)' <=> Worked(v)
      BY <2>1 DEF Worked, Working
    <2>3. \A q \in Requests : Working(q)' => Working(q)
      BY <2>1 DEF Working
    <2> QED BY <1>i, <2>1, <2>2, <2>3, FollowQuiet
  <1> QED
    BY <1>1, <1>2, <1>3, <1>4, <1>5, <1>6, <1>7, <1>8, <1>9, <1>i, FollowCrash DEF Next

LEMMA FollowInit == Init => FollowInv
  <1> SUFFICES ASSUME Init PROVE FollowInv
    OBVIOUS
  <1>1. IInv
    BY InvInit
  <1>2. ASSUME NEW u \in Users PROVE Granted(u) = {} /\ cert[u] = None /\ ~Present(u)
    BY DEF Init, Granted, Present
  <1>3. ASSUME NEW r \in Requests PROVE RequestKept(r)
    BY DEF RequestKept, Working, Init
  <1>4. ASSUME NEW u \in Users PROVE UserKept(u)
    BY <1>2 DEF UserKept, Settled, Live
  <1> QED BY <1>1, <1>3, <1>4 DEF FollowInv

-----------------------------------------------------------------------------
(* What is granted was permitted: only a registration adds an entry.       *)

LEMMA RegisterPermitted ==
  ASSUME NEW u, NEW f, NEW p, MayRun("register", u, f, p)
  PROVE  \E dir \in PolicyDirs : p \in PolicyOf(dir, u).projects
  BY DEF MayRun, Runs, Registers, register, Permitted, AllowsProject, Manifest

\* The policy that let the project be registered.
Leave(u, p) == \E dir \in PolicyDirs : p \in PolicyOf(dir, u).projects

LEMMA PolicyMeaning ==
  GrantedByPolicy <=> \A u \in Users : \A grant \in Granted(u) : Leave(u, grant[2])
  BY DEF GrantedByPolicy, Leave, PolicyOf

LEMMA PolicyStep ==
  ASSUME TypeInv, GrantedByPolicy, [Next]_vars
  PROVE  GrantedByPolicy'
  <1>1. \/ trust' = trust
        \/ \E g : trust' = [trust EXCEPT ![g] = None]
        \/ \E r \in Requests : Register(r)
    BY DEF Next, vars, tables, BeginSetup, DismissSetup, CreateFirstAdmin, CreateUser,
           BeginDelete, UpdateUserScope, Issue, SetUserIncusProject, Undo, RetireSetupToken,
           StoreCert, RevokePrevious, RestoreCert, RevokeNew, LoadCert, RevokeCert,
           MarkRevoked, DeleteUser, StepFails, HangUp, OwnRow, Crash
  <1>2. \A u \in Users, f \in Certs :
          trust[f] # None /\ trust[f].user = u => Leave(u, trust[f].project)
    <2> SUFFICES ASSUME NEW u \in Users, NEW f \in Certs, trust[f] # None, trust[f].user = u
                 PROVE  Leave(u, trust[f].project)
      OBVIOUS
    <2>1. <<f, trust[f].project>> \in Granted(u)
      BY DEF Granted
    <2> QED BY <2>1, PolicyMeaning
  <1>3. \A u \in Users, f \in Certs :
          trust'[f] # None /\ trust'[f].user = u => Leave(u, trust'[f].project)
    <2>1. CASE trust' = trust
      BY <1>2, <2>1
    <2>2. ASSUME NEW g, trust' = [trust EXCEPT ![g] = None]
          PROVE  \A f \in Certs : trust'[f] = trust[f] \/ trust'[f] = None
      BY <2>2 DEF TypeInv, TypeOK
    <2>3. ASSUME NEW r \in Requests, Register(r)
          PROVE  \A u \in Users, f \in Certs :
                   trust'[f] # None /\ trust'[f].user = u => Leave(u, trust'[f].project)
      <3>1. /\ pc[r] = "register"
            /\ MayRun("register", job[r].user, job[r].fp, job[r].project)
            /\ trust' = [trust EXCEPT ![job[r].fp] =
                           [user |-> job[r].user, project |-> job[r].project]]
        BY <2>3 DEF Register, At
      <3>2. Leave(job[r].user, job[r].project)
        BY <3>1, RegisterPermitted DEF Leave
      <3>3. \A f \in Certs :
              trust'[f] = trust[f] \/ trust'[f] = [user |-> job[r].user, project |-> job[r].project]
        BY <3>1 DEF TypeInv, TypeOK
      <3> QED BY <1>2, <3>2, <3>3
    <2> QED BY <1>1, <1>2, <2>1, <2>2, <2>3
  <1>4. ASSUME NEW u \in Users, NEW grant \in Granted(u)' PROVE Leave(u, grant[2])
    <2>1. PICK f \in Certs :
            trust'[f] # None /\ trust'[f].user = u /\ grant = <<f, trust'[f].project>>
      BY DEF Granted
    <2> QED BY <1>3, <2>1
  <1> QED BY <1>4 DEF GrantedByPolicy, Leave, PolicyOf

\* Whatever the administrators ask for, however requests overlap and whichever
\* failure a repair meets, Incus grants a user no project but those a policy of
\* the operator's let helling-incus-trust register for that user: the helper looks
\* at the policy on every run, and nothing else adds an entry.
THEOREM GrantedByPolicyCorrect == Spec => []GrantedByPolicy
  <1>1. Init => GrantedByPolicy
    BY DEF Init, GrantedByPolicy, Granted
  <1>2. TypeInv /\ [Next]_vars => TypeInv'
    BY TypeStep
  <1>3. TypeInv /\ GrantedByPolicy /\ [Next]_vars => GrantedByPolicy'
    BY PolicyStep
  <1> QED BY TypeInit, <1>1, <1>2, <1>3, PTL DEF Spec

\* The trust store follows the tables: the user of an acknowledged request can use
\* Incus in the project on the users row, since the handlers answer after
\* Provision has stored what the helper registered; and what Incus grants is what
\* the certificate row says while no request on the user failed or was cut off.
THEOREM TrustFollowsRowsCorrect ==
  ASSUME Overlap = FALSE
  PROVE  Spec => []TrustFollowsRows
  <1>1. FollowInv => AcknowledgedTrust
    BY DEF FollowInv, UserKept, AcknowledgedTrust, InForce, Worked, Busy, Working
  <1>2. FollowInv => GrantsAccounted
    BY DEF FollowInv, UserKept, GrantsAccounted, Settled, RowGrant, Failed, Worked, Busy, Working
  <1>3. FollowInv /\ [Next]_vars => FollowInv'
    BY FollowStep
  <1>4. Spec => []FollowInv
    BY FollowInit, <1>3, PTL DEF Spec
  <1>5. Spec => []GrantedByPolicy
    BY GrantedByPolicyCorrect
  <1>6. FollowInv /\ GrantedByPolicy => TrustFollowsRows
    BY <1>1, <1>2 DEF TrustFollowsRows
  <1> QED BY <1>4, <1>5, <1>6, PTL
-----------------------------------------------------------------------------
(* One failure is undone.  What a request carries from its start, the      *)
(* picture of its user, is put back piece by piece.                        *)

\* The entry for a fingerprint in a user's hands is in the user's name.
EntriesHeld ==
  \A f \in Certs, u \in Users : Holds(f, u) /\ trust[f] # None => trust[f].user = u

\* Row and certificate row name one project; who was never there has nothing.
UserClean(u) ==
  /\ cert[u] # None => cert[u].project = project[u]
  /\ account[u] = "none" => project[u] = Default /\ cert[u] = None /\ Granted(u) = {}

Deletion == {"load", "revoke", "mark", "remove"}
Creation == {"setup", "create"}

\* Which requests come to a step: a user that is created has no certificate
\* before the new one, so none is revoked or restored for it.
Ordered(r, u) ==
  LET j == job[r] IN
  /\ pc[r] \in Deletion <=> j.op = "delete"
  /\ pc[r] \in {"revokePrev", "restore"} => j.op = "scope"
  /\ pc[r] \in {"assign", "undo"} => j.op \in Creation
  /\ j.op \in Creation => j.before = Blank
  /\ j.op \in Creation /\ pc[r] # "retire" => cert[u] = None
  /\ j.op = "scope" => j.before[1]
  /\ pc[r] = "register" => trust[j.fp] = None
  /\ pc[r] \in {"restore", "revokeNew", "undo"} => j.ills # 0

\* How far the user is from the picture, while one thing at most went wrong.
Undoable(r, u) ==
  LET j == job[r] IN
  /\ pc[r] \in {"assign", "issue", "register", "undo"} => Granted(u) = j.before[4]
  /\ pc[r] \in {"store", "revokePrev", "restore", "revokeNew"} =>
       /\ Granted(u) = j.before[4] \cup {<<j.fp, j.project>>}
       /\ \A grant \in j.before[4] : grant[1] # j.fp
  /\ j.op = "scope" /\ pc[r] \in {"issue", "register", "store", "revokeNew"} =>
       project[u] = j.before[2] /\ cert[u] = j.before[3]
  /\ pc[r] \in {"revokePrev", "restore"} =>
       j.prev.project = j.before[2] /\ j.prev = j.before[3]

RequestUndoes(r) ==
  \A u \in Users : Working(r) /\ job[r].user = u =>
    Ordered(r, u) /\ (job[r].ills < 2 => Undoable(r, u))

UndoInv ==
  /\ FollowInv
  /\ EntriesHeld
  /\ \A u \in Users : UserClean(u)
  /\ \A r \in Requests : RequestUndoes(r)

\* What the step of a request answered with an error restores.
FailureUndone(r) ==
  \A u \in Users :
    /\ pc[r] # "idle" /\ pc'[r] = "idle"
    /\ job[r].user = u /\ job[r].op # "delete" /\ outcome'[u] = "failed"
    => Image(u)' = job[r].before

\* What the count of ills says afterwards.
Counted(r, j, next, ills) ==
  /\ next \notin {"ok", "failed"} =>
       /\ job'[r].before = j.before
       /\ job'[r].ills < 2 => j.ills + ills < 2
       /\ j.ills # 0 \/ ills # 0 => job'[r].ills # 0
  /\ next \in {"ok", "failed"} =>
       (outcome'[j.user] = "failed" => next = "failed" /\ j.ills + ills < 2)

LEMMA AdvanceCounts ==
  ASSUME TypeInv, NEW r \in Requests, NEW j \in Jobs, j.user \in Users,
         NEW next, NEW ills \in 0..2, NEW mark, Advance(r, j, next, ills, mark)
  PROVE  Counted(r, j, next, ills)
  <1> DEFINE u == j.user
             sum == IF j.ills + ills < 2 THEN j.ills + ills ELSE 2
             k == [j EXCEPT !.ills = sum]
  <1>1. k.before = j.before /\ k.ills = sum
    BY DEF Jobs
  <1>2. /\ sum < 2 => j.ills + ills < 2
        /\ j.ills # 0 \/ ills # 0 => sum # 0
    BY DEF Jobs
  <1>3. CASE next \in {"ok", "failed"}
    <2>1. outcome' = [outcome EXCEPT ![u] = IF next = "failed" /\ sum = 2 THEN "ragged" ELSE next]
      BY <1>3 DEF Advance
    <2>2. outcome'[u] = IF next = "failed" /\ sum = 2 THEN "ragged" ELSE next
      BY <2>1 DEF TypeInv, TypeOK
    <2>3. outcome'[u] = "failed" => next = "failed" /\ sum # 2
      BY <2>2
    <2>4. sum # 2 => j.ills + ills < 2
      BY DEF Jobs
    <2> HIDE DEF sum
    <2> QED BY <1>3, <2>3, <2>4 DEF Counted
  <1>4. CASE next \notin {"ok", "failed"}
    <2>1. job' = [job EXCEPT ![r] = k]
      BY <1>4 DEF Advance
    <2> HIDE DEF k
    <2>2. job'[r] = k
      BY <2>1 DEF TypeInv, TypeOK
    <2> HIDE DEF sum
    <2> QED BY <1>1, <1>2, <1>4, <2>2 DEF Counted
  <1> QED BY <1>3, <1>4

LEMMA SucceedCounts ==
  ASSUME TypeInv, NEW r \in Requests, Working(r), NEW next, Succeed(r, next)
  PROVE  Counted(r, job[r], next, 0)
  BY WorkingJob, AdvanceCounts DEF Succeed

LEMMA FailCounts ==
  ASSUME TypeInv, NEW r \in Requests, Working(r), Fail(r)
  PROVE  Counted(r, job[r], OnFailure(r), 1)
  BY WorkingJob, AdvanceCounts DEF Fail

\* A user whose rows stay, and the entries in whose hands and name stay.
LEMMA UndoFrame ==
  ASSUME UndoInv, FollowInv', NEW r \in Requests, NEW u \in Users,
         Working(r) => job[r].user = u, Working(r)' => job'[r].user = u,
         \A q \in Requests \ {r} : Working(q) => job[q].user # u,
         \A q \in Requests \ {r} : pc'[q] = pc[q] /\ job'[q] = job[q],
         \A v \in Users \ {u} :
           account'[v] = account[v] /\ cert'[v] = cert[v] /\ project'[v] = project[v],
         \A f \in Certs : trust'[f] # trust[f] =>
           Holds(f, u) /\ (trust'[f] = None \/ trust'[f].user = u),
         \A f \in Certs : Holds(f, u)' => Holds(f, u) \/ trust[f] = None,
         UserClean(u)', RequestUndoes(r)'
  PROVE  UndoInv'
  <1>1. TypeInv /\ OneOwner
    BY DEF UndoInv, FollowInv, IInv
  <1>2. ASSUME NEW v \in Users \ {u}, NEW f \in Certs, Holds(f, v)
        PROVE  trust'[f] = trust[f]
    BY <1>1, <1>2 DEF OneOwner
  <1>3. ASSUME NEW v \in Users \ {u}, NEW f \in Certs, Holds(f, v)'
        PROVE  Holds(f, v)
    BY <1>3 DEF Holds, Working
  <1>4. EntriesHeld'
    <2> SUFFICES ASSUME NEW f \in Certs, NEW v \in Users, Holds(f, v)', trust'[f] # None
                 PROVE  trust'[f].user = v
      BY DEF EntriesHeld
    <2>1. CASE v = u
      BY <2>1 DEF UndoInv, EntriesHeld
    <2>2. CASE v # u
      <3>1. Holds(f, v) /\ trust'[f] = trust[f]
        BY <1>2, <1>3, <2>2
      <3> QED BY <3>1 DEF UndoInv, EntriesHeld
    <2> QED BY <2>1, <2>2
  <1>5. ASSUME NEW v \in Users \ {u} PROVE Granted(v)' = Granted(v)
    <2>1. ASSUME NEW f \in Certs
          PROVE  \/ trust'[f] = trust[f]
                 \/ /\ trust[f] = None \/ trust[f].user # v
                    /\ trust'[f] = None \/ trust'[f].user # v
      BY DEF UndoInv, EntriesHeld
    <2>2. {g \in Certs : trust'[g] # None /\ trust'[g].user = v}
            = {g \in Certs : trust[g] # None /\ trust[g].user = v}
      BY <2>1
    <2>3. \A g \in Certs : trust[g] # None /\ trust[g].user = v => trust'[g] = trust[g]
      BY <2>1
    <2>4. Granted(v)' =
            {<<f, trust'[f].project>> : f \in {g \in Certs : trust'[g] # None /\ trust'[g].user = v}}
      BY DEF Granted
    <2> QED BY <2>2, <2>3, <2>4 DEF Granted
  <1>6. ASSUME NEW q \in Requests PROVE RequestUndoes(q)'
    <2>1. CASE q = r
      BY <2>1
    <2>2. CASE q # r
      <3> SUFFICES ASSUME NEW v \in Users, Working(q)', job'[q].user = v
                   PROVE  Ordered(q, v)' /\ (job'[q].ills < 2 => Undoable(q, v)')
        BY DEF RequestUndoes
      <3>1. /\ Working(q) /\ pc'[q] = pc[q] /\ job'[q] = job[q]
            /\ job[q].user = v /\ v \in Users \ {u}
        BY <2>2 DEF Working
      <3>2. Ordered(q, v) /\ (job[q].ills < 2 => Undoable(q, v))
        BY <3>1 DEF UndoInv, RequestUndoes
      <3>3. /\ account'[v] = account[v] /\ cert'[v] = cert[v] /\ project'[v] = project[v]
            /\ Granted(v)' = Granted(v)
        BY <1>5, <3>1
      <3>4. pc[q] = "register" => trust'[job[q].fp] = trust[job[q].fp]
        <4> HAVE pc[q] = "register"
        <4>1. job[q].fp \in Certs /\ Holds(job[q].fp, v)
          BY <1>1, <3>1 DEF TypeInv, Shape, Holds
        <4> QED BY <1>2, <3>1, <4>1
      <3>5. Ordered(q, v)'
        BY <3>1, <3>2, <3>3, <3>4 DEF Ordered
      <3>6. Undoable(q, v) => Undoable(q, v)'
        BY <3>1, <3>3 DEF Undoable
      <3> QED BY <3>1, <3>2, <3>5, <3>6
    <2> QED BY <2>1, <2>2
  <1>7. ASSUME NEW v \in Users PROVE UserClean(v)'
    <2>1. CASE v # u
      <3>1. /\ account'[v] = account[v] /\ cert'[v] = cert[v] /\ project'[v] = project[v]
            /\ Granted(v)' = Granted(v)
        BY <1>5, <2>1
      <3> QED BY <3>1 DEF UndoInv, UserClean
    <2> QED BY <2>1
  <1> QED BY <1>4, <1>6, <1>7 DEF UndoInv

LEMMA UndoQuiet ==
  ASSUME UndoInv, FollowInv',
         \A q \in Requests : Working(q)' => Working(q) /\ pc'[q] = pc[q] /\ job'[q] = job[q],
         UNCHANGED <<account, project, cert, trust>>
  PROVE  UndoInv'
  <1>1. \A f, v : Holds(f, v)' => Holds(f, v)
    BY DEF Holds
  <1>2. EntriesHeld'
    BY <1>1 DEF UndoInv, EntriesHeld
  <1>3. ASSUME NEW v \in Users PROVE Granted(v)' = Granted(v) /\ UserClean(v)'
    BY DEF Granted, UndoInv, UserClean
  <1>4. ASSUME NEW q \in Requests PROVE RequestUndoes(q)'
    <2> SUFFICES ASSUME NEW v \in Users, Working(q)', job'[q].user = v
                 PROVE  Ordered(q, v)' /\ (job'[q].ills < 2 => Undoable(q, v)')
      BY DEF RequestUndoes
    <2>1. Working(q) /\ pc'[q] = pc[q] /\ job'[q] = job[q] /\ job[q].user = v
      OBVIOUS
    <2>2. Ordered(q, v) /\ (job[q].ills < 2 => Undoable(q, v))
      BY <2>1 DEF UndoInv, RequestUndoes
    <2>3. Ordered(q, v)'
      BY <2>1, <2>2 DEF Ordered
    <2>4. Undoable(q, v) => Undoable(q, v)'
      BY <1>3, <2>1 DEF Undoable
    <2> QED BY <2>1, <2>2, <2>3, <2>4
  <1> QED BY <1>2, <1>3, <1>4 DEF UndoInv

\* A step of a request at work: what it goes on with, or leaves behind.
LEMMA UndoOwn ==
  ASSUME UndoInv, FollowInv', NEW r \in Requests, Working(r), NEW u \in Users,
         job[r].user = u, NEW j, j.user = u, j.before = job[r].before,
         NEW next, next \notin {"idle", "first"}, NEW ills, NEW mark,
         Moved(r, j, next, mark), Counted(r, j, next, ills),
         j.fp # None => j.fp = job[r].fp \/ trust[j.fp] = None,
         j.prev # None => j.prev = job[r].prev \/ j.prev = cert[u],
         cert'[u] # None => Holds(cert'[u].fp, u),
         \A v \in Users \ {u} :
           account'[v] = account[v] /\ cert'[v] = cert[v] /\ project'[v] = project[v],
         \A f \in Certs : trust'[f] # trust[f] =>
           Holds(f, u) /\ (trust'[f] = None \/ trust'[f].user = u),
         UserClean(u)',
         next \notin {"ok", "failed"} => Ordered(r, u)',
         next \notin {"ok", "failed"} /\ j.ills + ills < 2 => Undoable(r, u)',
         next = "failed" /\ job[r].op # "delete" /\ j.ills + ills < 2
           => Image(u)' = job[r].before
  PROVE  UndoInv' /\ \A q \in Requests : FailureUndone(q)
  <1>1. TypeInv /\ \A q \in Requests \ {r} : Working(q) => job[q].user # u
    BY DEF UndoInv, FollowInv, IInv, Exclusive
  <1>2. \A q \in Requests \ {r} : pc'[q] = pc[q] /\ job'[q] = job[q]
    BY DEF Moved
  <1>3. Working(r)' =>
          /\ next \notin {"ok", "failed"}
          /\ job'[r].user = u /\ job'[r].fp = j.fp /\ job'[r].prev = j.prev
    BY DEF Moved, Working
  <1>4. ASSUME NEW f \in Certs, Holds(f, u)' PROVE Holds(f, u) \/ trust[f] = None
    <2>1. f # None
      BY TrustAssumption
    <2>2. CASE cert'[u] # None /\ cert'[u].fp = f
      BY <2>2
    <2>3. CASE \E q \in Requests :
                 /\ Working(q)'
                 /\ job'[q].user = u
                 /\ job'[q].fp = f \/ (job'[q].prev # None /\ job'[q].prev.fp = f)
      <3>1. PICK q \in Requests :
                 /\ Working(q)'
                 /\ job'[q].user = u
                 /\ job'[q].fp = f \/ (job'[q].prev # None /\ job'[q].prev.fp = f)
        BY <2>3
      <3>2. q = r
        BY <3>1, <1>1, <1>2 DEF Working
      <3>3. j.fp = f \/ (j.prev # None /\ j.prev.fp = f)
        BY <1>3, <3>1, <3>2
      <3>4. CASE j.fp = f
        BY <2>1, <3>4 DEF Holds
      <3>5. CASE j.prev # None /\ j.prev.fp = f
        BY <3>5 DEF Holds
      <3> QED BY <3>3, <3>4, <3>5
    <2> QED BY <1>4, <2>2, <2>3 DEF Holds
  <1>5. RequestUndoes(r)'
    <2> SUFFICES ASSUME Working(r)'
                 PROVE  Ordered(r, u)' /\ (job'[r].ills < 2 => Undoable(r, u)')
      BY <1>3 DEF RequestUndoes
    <2> QED BY <1>3 DEF Counted
  <1>6. UndoInv'
    BY <1>1, <1>2, <1>3, <1>4, <1>5, UndoFrame
  <1>7. ASSUME NEW q \in Requests PROVE FailureUndone(q)
    <2>1. CASE q # r
      BY <1>2, <2>1 DEF FailureUndone
    <2>2. CASE q = r
      <3> SUFFICES ASSUME pc'[r] = "idle", job[r].op # "delete", outcome'[u] = "failed"
                   PROVE  Image(u)' = job[r].before
        BY <2>2 DEF FailureUndone
      <3>1. next \in {"ok", "failed"}
        BY DEF Moved
      <3>2. next = "failed" /\ j.ills + ills < 2
        BY <3>1 DEF Counted
      <3> QED BY <3>2
    <2> QED BY <2>1, <2>2
  <1> QED BY <1>6, <1>7

\* What a request must have been through to be where its repairs lead.
LEMMA FailureOrdered ==
  ASSUME UndoInv, NEW r \in Requests, Working(r), NEW u \in Users, job[r].user = u,
         NEW j, j.user = u, j.op = job[r].op, j.before = job[r].before,
         NEW mark, NEW ills, ills # 0, Moved(r, j, OnFailure(r), mark),
         Counted(r, j, OnFailure(r), ills),
         OnFailure(r) \notin {"ok", "failed"}, cert' = cert
  PROVE  Ordered(r, u)'
  <1>1. Ordered(r, u)
    BY DEF UndoInv, RequestUndoes
  <1>2. /\ pc'[r] = OnFailure(r) /\ job'[r].op = job[r].op
        /\ job'[r].before = job[r].before /\ job'[r].ills # 0
    BY DEF Moved, Counted
  <1>3. \/ OnFailure(r) = "revokeNew" /\ pc[r] \in {"store", "restore"}
        \/ OnFailure(r) = "restore" /\ pc[r] = "revokePrev"
        \/ OnFailure(r) = "undo" /\ job[r].op \in Creation /\ pc[r] \in {"assign", "issue", "register", "revokeNew"}
    BY DEF OnFailure, Creation
  <1> QED BY <1>1, <1>2, <1>3 DEF Ordered, Deletion, Creation

\* A picture is what it was made of.
LEMMA Picture ==
  ASSUME TypeInv, NEW r \in Requests, Working(r), NEW u \in Users,
         Present(u)' = job[r].before[1], project'[u] = job[r].before[2],
         cert'[u] = job[r].before[3], Granted(u)' = job[r].before[4]
  PROVE  Image(u)' = job[r].before
  <1>1. job[r].before \in Images
    BY WorkingJob DEF Jobs
  <1>2. PICK b : b = job[r].before
    OBVIOUS
  <1>3. b = <<b[1], b[2], b[3], b[4]>>
    BY <1>1, <1>2 DEF Images
  <1>4. Image(u)' = <<Present(u)', project'[u], cert'[u], Granted(u)'>>
    BY DEF Image
  <1> QED BY <1>2, <1>3, <1>4

\* What a request that works on u finds: the user, a clean row, its order.
LEMMA AtWork ==
  ASSUME UndoInv, NEW r \in Requests, Working(r)
  PROVE  \E u \in Users :
           /\ job[r].user = u /\ account[u] = "present" /\ UserClean(u)
           /\ Ordered(r, u) /\ (job[r].ills < 2 => Undoable(r, u))
           /\ Sure(r, u)
           /\ job[r] \in Jobs
  <1>1. TypeInv /\ IInv
    BY DEF UndoInv, FollowInv, IInv
  <1>2. PICK u \in Users : u = job[r].user
    BY <1>1, WorkingJob
  <1>3. account[u] = "present"
    BY <1>1, <1>2 DEF IInv, RequestOK, Present
  <1>4. UserClean(u) /\ Ordered(r, u) /\ (job[r].ills < 2 => Undoable(r, u)) /\ Sure(r, u)
    BY <1>2 DEF UndoInv, RequestUndoes, FollowInv, RequestKept
  <1>5. job[r] \in Jobs
    BY <1>1, WorkingJob
  <1> QED BY <1>2, <1>3, <1>4, <1>5

LEMMA HelperEndsCounts ==
  ASSUME TypeInv, NEW r \in Requests, Working(r), NEW next \in Targets, HelperEnds(r, next)
  PROVE  \/ Moved(r, job[r], next, {}) /\ Counted(r, job[r], next, 0)
         \/ Moved(r, job[r], OnFailure(r), {"exposed"}) /\ Counted(r, job[r], OnFailure(r), 2)
         \/ Moved(r, Gone(r), OnFailure(r), {}) /\ Counted(r, Gone(r), OnFailure(r), 2)
  <1>1. CASE Succeed(r, next)
    BY <1>1, SucceedMoves, SucceedCounts
  <1>2. CASE Advance(r, job[r], OnFailure(r), 2, {"exposed"})
    <2>1. Moved(r, job[r], OnFailure(r), {"exposed"})
      BY <1>2, WorkingJob, FailureTargets, AdvanceMoves DEF Marks
    <2>2. Counted(r, job[r], OnFailure(r), 2)
      BY <1>2, WorkingJob, AdvanceCounts
    <2> QED BY <2>1, <2>2
  <1>3. CASE Advance(r, Gone(r), OnFailure(r), 2, {})
    <2>1. Moved(r, Gone(r), OnFailure(r), {})
      BY <1>3, WorkingJob, GoneJob, FailureTargets, AdvanceMoves
    <2>2. Counted(r, Gone(r), OnFailure(r), 2)
      BY <1>3, WorkingJob, GoneJob, AdvanceCounts
    <2> QED BY <2>1, <2>2
  <1> QED BY <1>1, <1>2, <1>3 DEF HelperEnds, Gone

\* A failure of the helper that no repair sees through: only the order matters.
LEMMA UndoHelper ==
  ASSUME UndoInv, FollowInv', NEW r \in Requests, Working(r), NEW u \in Users,
         job[r].user = u, NEW next \in Targets, HelperEnds(r, next),
         UNCHANGED <<account, project, cert>>,
         \A f \in Certs : trust'[f] # trust[f] =>
           Holds(f, u) /\ (trust'[f] = None \/ trust'[f].user = u),
         Moved(r, job[r], next, {}) /\ Counted(r, job[r], next, 0) =>
           /\ next \notin {"ok", "failed"} => Ordered(r, u)'
           /\ next \notin {"ok", "failed"} /\ job[r].ills < 2 => Undoable(r, u)'
           /\ next = "failed" /\ job[r].op # "delete" /\ job[r].ills < 2
                => Image(u)' = job[r].before
  PROVE  UndoInv' /\ \A q \in Requests : FailureUndone(q)
  <1>1. TypeInv /\ job[r] \in Jobs /\ account[u] = "present" /\ UserClean(u)
    BY AtWork DEF UndoInv, FollowInv, IInv
  <1>2. UserClean(u)'
    BY <1>1 DEF UserClean
  <1>3. cert'[u] # None => Holds(cert'[u].fp, u)
    BY <1>1, Hands
  <1>4. \A v \in Users \ {u} :
          account'[v] = account[v] /\ cert'[v] = cert[v] /\ project'[v] = project[v]
    OBVIOUS
  <1>5. {next, OnFailure(r)} \cap {"idle", "first"} = {}
    BY <1>1, FailureTargets DEF Targets, Steps, HelperSteps, StoreSteps, Uncancelled
  <1>6. CASE Moved(r, job[r], next, {}) /\ Counted(r, job[r], next, 0)
    <2>1. job[r].ills + 0 < 2 => job[r].ills < 2
      BY <1>1 DEF Jobs
    <2> QED BY <1>1, <1>2, <1>3, <1>4, <1>5, <1>6, <2>1, UndoOwn
  <1>7. ASSUME NEW j \in {job[r], Gone(r)}, NEW mark, Moved(r, j, OnFailure(r), mark),
               Counted(r, j, OnFailure(r), 2)
        PROVE  UndoInv' /\ \A q \in Requests : FailureUndone(q)
    <2>1. /\ j.user = u /\ j.op = job[r].op /\ j.before = job[r].before
          /\ j.fp = job[r].fp /\ j.prev = job[r].prev /\ ~(j.ills + 2 < 2)
      <3>1. Gone(r).before = job[r].before /\ Gone(r).ills = job[r].ills
        BY <1>1 DEF Gone, Jobs
      <3>2. j.ills \in 0..2
        BY <1>1, <3>1 DEF Jobs
      <3> QED BY <1>1, <3>1, <3>2, GoneJob
    <2>2. PICK fail : fail = OnFailure(r)
      OBVIOUS
    <2>3. fail \notin {"ok", "failed"} => Ordered(r, u)'
      BY <1>7, <2>1, <2>2, FailureOrdered
    <2>4. Moved(r, j, fail, mark) /\ Counted(r, j, fail, 2) /\ fail \notin {"idle", "first"}
      BY <1>5, <1>7, <2>2
    <2> QED BY <1>1, <1>2, <1>3, <1>4, <2>1, <2>3, <2>4, UndoOwn
  <1> QED BY <1>1, <1>6, <1>7, HelperEndsCounts

LEMMA UndoRegister ==
  ASSUME UndoInv, FollowInv', NEW r \in Requests, Register(r)
  PROVE  UndoInv' /\ \A q \in Requests : FailureUndone(q)
  <1>1. TypeInv
    BY DEF UndoInv, FollowInv, IInv
  <1>2. /\ Working(r) /\ pc[r] = "register" /\ HelperEnds(r, "store")
        /\ account' = account /\ project' = project /\ cert' = cert
        /\ trust' = [trust EXCEPT ![job[r].fp] =
                       [user |-> job[r].user, project |-> job[r].project]]
    BY DEF Register, At, tables, Working
  <1>3. PICK u \in Users :
          /\ job[r].user = u /\ account[u] = "present" /\ UserClean(u)
          /\ Ordered(r, u) /\ (job[r].ills < 2 => Undoable(r, u))
    BY <1>2, AtWork
  <1>4. PICK f \in Certs : f = job[r].fp
    BY <1>1, <1>2 DEF TypeInv, Shape
  <1>5. PICK p : p = job[r].project
    OBVIOUS
  <1>6. \A g \in Certs : trust'[g] = IF g = f THEN [user |-> u, project |-> p] ELSE trust[g]
    BY <1>1, <1>2, <1>3, <1>4, <1>5 DEF TypeInv, TypeOK
  <1>7. f # None /\ Holds(f, u)
    BY <1>1, <1>2, <1>3, <1>4, Hands, TrustAssumption
  <1>8. \A g \in Certs : trust'[g] # trust[g] =>
          Holds(g, u) /\ (trust'[g] = None \/ trust'[g].user = u)
    BY <1>6, <1>7
  <1>9. trust[f] = None
    BY <1>2, <1>3, <1>4 DEF Ordered
  <1>10. [user |-> u, project |-> p] # None
    <2>1. p \in Projects
      BY <1>1, <1>2, <1>5, WorkingJob DEF Jobs
    <2>2. [user |-> u, project |-> p] \in Entries
      BY <2>1 DEF Entries
    <2> QED BY <2>2, TrustAssumption
  <1>11. Granted(u)' = Granted(u) \cup {<<f, p>>}
    <2>1. {g \in Certs : trust'[g] # None /\ trust'[g].user = u}
            = {g \in Certs : trust[g] # None /\ trust[g].user = u} \cup {f}
      BY <1>6, <1>9, <1>10
    <2>2. \A g \in {h \in Certs : trust[h] # None /\ trust[h].user = u} : g # f
      BY <1>9
    <2>3. Granted(u)' =
            {<<g, trust'[g].project>> : g \in {h \in Certs : trust'[h] # None /\ trust'[h].user = u}}
      BY DEF Granted
    <2> QED BY <1>6, <2>1, <2>2, <2>3 DEF Granted
  <1>12. \A grant \in Granted(u) : grant[1] # f
    BY <1>9 DEF Granted
  <1>13. ASSUME Moved(r, job[r], "store", {}) /\ Counted(r, job[r], "store", 0)
         PROVE  Ordered(r, u)' /\ (job[r].ills < 2 => Undoable(r, u)')
    <2>1. /\ pc'[r] = "store" /\ job'[r].op = job[r].op /\ job'[r].before = job[r].before
          /\ job'[r].fp = f /\ job'[r].project = p
      BY <1>4, <1>5, <1>13 DEF Moved, Counted
    <2>2. Ordered(r, u)'
      BY <1>2, <1>3, <2>1 DEF Ordered, Deletion
    <2>3. ASSUME job[r].ills < 2 PROVE Undoable(r, u)'
      <3>1. /\ Granted(u) = job[r].before[4]
            /\ job[r].op = "scope" => project[u] = job[r].before[2] /\ cert[u] = job[r].before[3]
        BY <1>2, <1>3, <2>3 DEF Undoable
      <3> QED BY <1>2, <1>11, <1>12, <2>1, <3>1 DEF Undoable
    <2> QED BY <2>2, <2>3
  <1>14. "store" \in Targets
    BY DEF Targets, Steps, StoreSteps
  <1> QED BY <1>2, <1>3, <1>8, <1>13, <1>14, UndoHelper

\* Taking an entry away takes its grant, and no other.
LEMMA GrantsWithout ==
  ASSUME TypeInv, NEW u \in Users, NEW g \in Certs, NEW p, NEW S,
         trust' = [trust EXCEPT ![g] = None],
         Granted(u) = S \cup {<<g, p>>}, \A grant \in S : grant[1] # g
  PROVE  Granted(u)' = S
  <1>1. \A f \in Certs : trust'[f] = IF f = g THEN None ELSE trust[f]
    BY DEF TypeInv, TypeOK
  <1>2. Granted(u)' \subseteq S
    BY GrantsLess
  <1>3. ASSUME NEW x \in S PROVE x \in Granted(u)'
    <2>1. x \in Granted(u) /\ x[1] # g
      OBVIOUS
    <2>2. PICK f \in Certs : trust[f] # None /\ trust[f].user = u /\ x = <<f, trust[f].project>>
      BY <2>1 DEF Granted
    <2>3. f # g
      BY <2>1, <2>2
    <2>4. trust'[f] # None /\ trust'[f].user = u /\ x = <<f, trust'[f].project>>
      BY <1>1, <2>2, <2>3
    <2> QED BY <2>4 DEF Granted
  <1> QED BY <1>2, <1>3

LEMMA UndoRevokePrevious ==
  ASSUME UndoInv, FollowInv', NEW r \in Requests, RevokePrevious(r)
  PROVE  UndoInv' /\ \A q \in Requests : FailureUndone(q)
  <1>1. TypeInv
    BY DEF UndoInv, FollowInv, IInv
  <1>2. /\ Working(r) /\ pc[r] = "revokePrev" /\ HelperEnds(r, Provisioned(r))
        /\ account' = account /\ project' = project /\ cert' = cert
        /\ trust' = [trust EXCEPT ![job[r].prev.fp] = None]
    BY DEF RevokePrevious, At, tables, Working
  <1>3. PICK u \in Users : job[r].user = u /\ Ordered(r, u)
    BY <1>2, AtWork
  <1>4. Provisioned(r) = "ok"
    BY <1>2, <1>3 DEF Ordered, Provisioned
  <1>5. job[r].prev # None /\ job[r].prev.fp \in Certs
    BY <1>1, <1>2, TrustAssumption DEF TypeInv, Shape, Rows
  <1>6. Holds(job[r].prev.fp, u)
    BY <1>1, <1>2, <1>3, <1>5, Hands
  <1>7. \A g \in Certs : trust'[g] # trust[g] =>
          Holds(g, u) /\ (trust'[g] = None \/ trust'[g].user = u)
    BY <1>1, <1>2, <1>5, <1>6 DEF TypeInv, TypeOK
  <1>8. "ok" \in Targets /\ HelperEnds(r, "ok")
    BY <1>2, <1>4 DEF Targets
  <1> QED BY <1>2, <1>3, <1>7, <1>8, UndoHelper

LEMMA UndoRevokeNew ==
  ASSUME UndoInv, FollowInv', NEW r \in Requests, RevokeNew(r)
  PROVE  UndoInv' /\ \A q \in Requests : FailureUndone(q)
  <1>1. TypeInv
    BY DEF UndoInv, FollowInv, IInv
  <1>2. PICK next : next = OnFailure(r)
    OBVIOUS
  <1>3. /\ Working(r) /\ pc[r] = "revokeNew" /\ HelperEnds(r, next)
        /\ account' = account /\ project' = project /\ cert' = cert
        /\ trust' = [trust EXCEPT ![job[r].fp] = None]
    BY <1>2 DEF RevokeNew, At, tables, Working
  <1>4. PICK u \in Users :
          /\ job[r].user = u /\ account[u] = "present" /\ job[r] \in Jobs
          /\ Ordered(r, u) /\ (job[r].ills < 2 => Undoable(r, u))
    BY <1>3, AtWork
  <1>5. PICK f \in Certs : f = job[r].fp
    BY <1>1, <1>3 DEF TypeInv, Shape
  <1>6. f # None /\ Holds(f, u)
    BY <1>1, <1>3, <1>4, <1>5, Hands, TrustAssumption
  <1>7. \A g \in Certs : trust'[g] # trust[g] =>
          Holds(g, u) /\ (trust'[g] = None \/ trust'[g].user = u)
    BY <1>1, <1>3, <1>5, <1>6 DEF TypeInv, TypeOK
  <1>8. /\ next = IF job[r].op \in {"setup", "create"} THEN "undo" ELSE "failed"
        /\ next \in Targets
    BY <1>1, <1>2, <1>3, FailureTargets DEF OnFailure
  <1>9. job[r].ills < 2 => Granted(u)' = job[r].before[4]
    <2> HAVE job[r].ills < 2
    <2>1. PICK S : S = job[r].before[4]
      OBVIOUS
    <2>2. PICK p : p = job[r].project
      OBVIOUS
    <2>3. Granted(u) = S \cup {<<f, p>>} /\ \A grant \in S : grant[1] # f
      BY <1>3, <1>4, <1>5, <2>1, <2>2 DEF Undoable
    <2>4. trust' = [trust EXCEPT ![f] = None]
      BY <1>3, <1>5
    <2> QED BY <1>1, <2>1, <2>3, <2>4, GrantsWithout
  <1>10. ASSUME Moved(r, job[r], next, {}) /\ Counted(r, job[r], next, 0)
         PROVE  /\ next \notin {"ok", "failed"} => Ordered(r, u)'
                /\ next \notin {"ok", "failed"} /\ job[r].ills < 2 => Undoable(r, u)'
                /\ next = "failed" /\ job[r].op # "delete" /\ job[r].ills < 2
                     => Image(u)' = job[r].before
    <2>1. CASE next = "undo"
      <3>1. /\ pc'[r] = "undo" /\ job'[r].op = job[r].op /\ job'[r].before = job[r].before
            /\ job'[r].ills # 0 /\ job[r].op \in Creation
        BY <1>3, <1>4, <1>8, <1>10, <2>1 DEF Moved, Counted, Ordered, Creation
      <3>2. Ordered(r, u)'
        BY <1>3, <1>4, <3>1 DEF Ordered, Deletion, Creation
      <3>3. job[r].ills < 2 => Undoable(r, u)'
        BY <1>9, <3>1 DEF Undoable, Creation
      <3> QED BY <2>1, <3>2, <3>3
    <2>2. CASE next = "failed"
      <3> SUFFICES ASSUME job[r].op # "delete", job[r].ills < 2
                   PROVE  Image(u)' = job[r].before
        BY <2>2
      <3>1. job[r].op = "scope"
        BY <1>4, <1>8, <2>2 DEF Jobs, Ops
      <3>2. job[r].before[1] /\ job[r].before[1] \in BOOLEAN
        BY <1>4, <3>1 DEF Ordered, Jobs, Images
      <3>3. project[u] = job[r].before[2] /\ cert[u] = job[r].before[3]
        BY <1>3, <1>4, <3>1 DEF Undoable
      <3>4. Present(u)' = job[r].before[1]
        BY <1>3, <1>4, <3>2 DEF Present
      <3> QED BY <1>1, <1>3, <1>4, <1>9, <3>3, <3>4, Picture
    <2> QED BY <1>8, <2>1, <2>2
  <1> QED BY <1>3, <1>4, <1>7, <1>8, <1>10, UndoHelper

LEMMA UndoRevokeCert ==
  ASSUME UndoInv, FollowInv', NEW r \in Requests, RevokeCert(r)
  PROVE  UndoInv' /\ \A q \in Requests : FailureUndone(q)
  <1>1. TypeInv
    BY DEF UndoInv, FollowInv, IInv
  <1>2. /\ Working(r) /\ pc[r] = "revoke" /\ HelperEnds(r, "mark")
        /\ account' = account /\ project' = project /\ cert' = cert
        /\ trust' = [trust EXCEPT ![job[r].prev.fp] = None]
    BY DEF RevokeCert, At, tables, Working
  <1>3. PICK u \in Users : job[r].user = u /\ Ordered(r, u)
    BY <1>2, AtWork
  <1>4. job[r].op = "delete"
    BY <1>2, <1>3 DEF Ordered, Deletion
  <1>5. job[r].prev # None /\ job[r].prev.fp \in Certs
    BY <1>1, <1>2, TrustAssumption DEF TypeInv, Shape, Rows
  <1>6. Holds(job[r].prev.fp, u)
    BY <1>1, <1>2, <1>3, <1>5, Hands
  <1>7. \A g \in Certs : trust'[g] # trust[g] =>
          Holds(g, u) /\ (trust'[g] = None \/ trust'[g].user = u)
    BY <1>1, <1>2, <1>5, <1>6 DEF TypeInv, TypeOK
  <1>8. ASSUME Moved(r, job[r], "mark", {}) /\ Counted(r, job[r], "mark", 0)
        PROVE  Ordered(r, u)' /\ Undoable(r, u)'
    <2>1. pc'[r] = "mark" /\ job'[r].op = "delete"
      BY <1>4, <1>8 DEF Moved
    <2> QED BY <2>1 DEF Ordered, Undoable, Deletion, Creation
  <1>9. "mark" \in Targets
    BY DEF Targets, Steps, StoreSteps
  <1> QED BY <1>2, <1>3, <1>7, <1>8, <1>9, UndoHelper

LEMMA UndoStore ==
  ASSUME UndoInv, FollowInv', NEW r \in Requests, StoreCert(r)
  PROVE  UndoInv' /\ \A q \in Requests : FailureUndone(q)
  <1>1. TypeInv
    BY DEF UndoInv, FollowInv, IInv
  <1>2. PICK next : next = IF job[r].prev # None THEN "revokePrev" ELSE Provisioned(r)
    OBVIOUS
  <1>3. PICK j : j = job[r]
    OBVIOUS
  <1>4. PICK new : new = [fp |-> j.fp, project |-> j.project, revoked |-> FALSE]
    OBVIOUS
  <1>5. /\ Working(r) /\ pc[r] = "store" /\ Succeed(r, next)
        /\ account' = account /\ trust' = trust
        /\ project' = [project EXCEPT ![j.user] = j.project]
        /\ cert' = [cert EXCEPT ![j.user] = new]
    BY <1>2, <1>3, <1>4 DEF StoreCert, At, Working
  <1>6. PICK u \in Users :
          /\ j.user = u /\ account[u] = "present" /\ j \in Jobs /\ UserClean(u)
          /\ Ordered(r, u) /\ (j.ills < 2 => Undoable(r, u)) /\ Sure(r, u)
    BY <1>3, <1>5, AtWork
  <1>7. j.fp \in Certs /\ j.fp # None /\ new.fp = j.fp /\ new.project = j.project
    BY <1>1, <1>3, <1>4, <1>5, TrustAssumption DEF TypeInv, Shape
  <1>8. /\ cert'[u] = new /\ project'[u] = j.project
        /\ \A v \in Users \ {u} :
             account'[v] = account[v] /\ cert'[v] = cert[v] /\ project'[v] = project[v]
    BY <1>1, <1>5, <1>6 DEF TypeInv, TypeOK
  <1>9. next \in {"revokePrev", "retire", "ok"} /\ next \in Targets
    BY <1>2 DEF Provisioned, Targets, Steps, HelperSteps, Uncancelled
  <1>10. Moved(r, j, next, {}) /\ Counted(r, j, next, 0)
    BY <1>1, <1>3, <1>5, <1>9, SucceedMoves, SucceedCounts
  <1>11. UserClean(u)'
    BY <1>5, <1>6, <1>7, <1>8 DEF UserClean
  <1>12. Granted(u)' = Granted(u)
    BY <1>5 DEF Granted
  <1>13. /\ j.prev = CurrentTrust(u) /\ j.op # "delete"
         /\ j.op \in Creation => cert[u] = None
    BY <1>3, <1>5, <1>6 DEF Sure, Ordered, Deletion
  <1>14. next = "revokePrev" => j.op = "scope" /\ cert[u] # None /\ j.prev = cert[u]
    BY <1>2, <1>3, <1>6, <1>13 DEF CurrentTrust, Provisioned, Creation, Jobs, Ops
  <1>15. ASSUME next # "ok" PROVE Ordered(r, u)' /\ (j.ills < 2 => Undoable(r, u)')
    <2>1. /\ pc'[r] = next /\ job'[r].op = j.op /\ job'[r].before = j.before
          /\ job'[r].fp = j.fp /\ job'[r].prev = j.prev /\ job'[r].project = j.project
      BY <1>9, <1>10, <1>15 DEF Moved, Counted
    <2>2. CASE next = "retire"
      <3>1. Ordered(r, u)'
        BY <1>3, <1>6, <1>13, <2>1, <2>2 DEF Ordered, Deletion
      <3>2. Undoable(r, u)'
        BY <2>1, <2>2 DEF Undoable
      <3> QED BY <3>1, <3>2
    <2>3. CASE next = "revokePrev"
      <3>1. Ordered(r, u)'
        BY <1>3, <1>6, <1>14, <2>1, <2>3 DEF Ordered, Deletion, Creation
      <3>2. ASSUME j.ills < 2 PROVE Undoable(r, u)'
        <4>1. /\ Granted(u) = j.before[4] \cup {<<j.fp, j.project>>}
              /\ \A grant \in j.before[4] : grant[1] # j.fp
              /\ project[u] = j.before[2] /\ cert[u] = j.before[3]
          BY <1>3, <1>5, <1>6, <1>14, <2>3, <3>2 DEF Undoable
        <4>2. j.prev = j.before[3] /\ j.prev.project = j.before[2]
          BY <1>6, <1>14, <2>3, <4>1 DEF UserClean
        <4> QED BY <1>12, <2>1, <2>3, <4>1, <4>2 DEF Undoable
      <3> QED BY <3>1, <3>2
    <2> QED BY <1>9, <1>15, <2>2, <2>3
  <1>16. Holds(cert'[u].fp, u)
    BY <1>1, <1>3, <1>5, <1>6, <1>7, <1>8, Hands
  <1>17. /\ job[r].user = u /\ j.before = job[r].before /\ j.fp = job[r].fp
         /\ j.prev = job[r].prev /\ (\A f \in Certs : trust'[f] = trust[f])
         /\ next \notin {"idle", "first", "failed"}
         /\ j.ills + 0 < 2 => j.ills < 2
    BY <1>3, <1>5, <1>6, <1>9 DEF Jobs
  <1> QED BY <1>5, <1>6, <1>8, <1>10, <1>11, <1>15, <1>16, <1>17, UndoOwn

LEMMA UndoIssue ==
  ASSUME UndoInv, FollowInv', NEW r \in Requests, NEW f \in Certs, Issue(r, f)
  PROVE  UndoInv' /\ \A q \in Requests : FailureUndone(q)
  <1>1. TypeInv
    BY DEF UndoInv, FollowInv, IInv
  <1>2. PICK j : j = IssueJob(r, f)
    OBVIOUS
  <1>3. /\ Working(r) /\ j.fp = f /\ j \in Jobs /\ j.op = job[r].op
        /\ j.prev = CurrentTrust(job[r].user) /\ Moved(r, j, "register", {})
    BY <1>1, <1>2, IssueMoves
  <1>4. PICK u \in Users :
          /\ job[r].user = u /\ account[u] = "present" /\ job[r] \in Jobs /\ UserClean(u)
          /\ Ordered(r, u) /\ (job[r].ills < 2 => Undoable(r, u))
    BY <1>3, AtWork
  <1>5. j.user = u /\ j.before = job[r].before /\ j.ills = job[r].ills
    BY <1>2, <1>4 DEF IssueJob, Jobs
  <1>6. /\ account' = account /\ project' = project /\ cert' = cert /\ trust' = trust
        /\ pc[r] = "issue" /\ trust[f] = None
        /\ Advance(r, IssueJob(r, f), "register", 0, {})
    BY DEF Issue, At, tables, Fresh, IssueJob
  <1>7. Counted(r, j, "register", 0)
    BY <1>1, <1>2, <1>3, <1>4, <1>5, <1>6, AdvanceCounts
  <1>8. /\ pc'[r] = "register" /\ job'[r].op = job[r].op /\ job'[r].before = job[r].before
        /\ job'[r].fp = f
    BY <1>3, <1>5, <1>7 DEF Moved, Counted
  <1>9. Ordered(r, u)'
    BY <1>4, <1>6, <1>8 DEF Ordered, Deletion
  <1>10. job[r].ills < 2 => Undoable(r, u)'
    <2> HAVE job[r].ills < 2
    <2>1. Granted(u)' = Granted(u)
      BY <1>6 DEF Granted
    <2> QED BY <1>4, <1>6, <1>8, <2>1 DEF Undoable
  <1>11. UserClean(u)'
    BY <1>4, <1>6 DEF UserClean
  <1>12. cert'[u] # None => Holds(cert'[u].fp, u)
    BY <1>6 DEF Holds
  <1>13. j.prev # None => j.prev = cert[u]
    BY <1>3, <1>4 DEF CurrentTrust
  <1>14. /\ \A g \in Certs : trust'[g] = trust[g]
         /\ \A v \in Users \ {u} :
              account'[v] = account[v] /\ cert'[v] = cert[v] /\ project'[v] = project[v]
         /\ j.ills + 0 < 2 => job[r].ills < 2
         /\ trust[j.fp] = None
    BY <1>3, <1>4, <1>5, <1>6 DEF Jobs
  <1> QED BY <1>3, <1>4, <1>5, <1>7, <1>9, <1>10, <1>11, <1>12, <1>13, <1>14, UndoOwn

\* A step of a request's own on its user's rows.
LEMMA UndoSucceed ==
  ASSUME UndoInv, FollowInv', NEW r \in Requests, Working(r), NEW u \in Users,
         job[r].user = u, NEW next \in Targets, Succeed(r, next), trust' = trust,
         \A v \in Users \ {u} :
           account'[v] = account[v] /\ cert'[v] = cert[v] /\ project'[v] = project[v],
         cert'[u] # None => Holds(cert'[u].fp, u),
         UserClean(u)',
         Moved(r, job[r], next, {}) /\ Counted(r, job[r], next, 0) =>
           /\ next \notin {"ok", "failed"} => Ordered(r, u)'
           /\ next \notin {"ok", "failed"} /\ job[r].ills < 2 => Undoable(r, u)'
           /\ next = "failed" /\ job[r].op # "delete" /\ job[r].ills < 2
                => Image(u)' = job[r].before
  PROVE  UndoInv' /\ \A q \in Requests : FailureUndone(q)
  <1>1. TypeInv /\ job[r] \in Jobs
    BY AtWork DEF UndoInv, FollowInv, IInv
  <1>2. Moved(r, job[r], next, {}) /\ Counted(r, job[r], next, 0)
    BY <1>1, SucceedMoves, SucceedCounts
  <1>3. /\ next \notin {"idle", "first"}
        /\ job[r].ills + 0 < 2 => job[r].ills < 2
        /\ \A f \in Certs : trust'[f] = trust[f]
    BY <1>1 DEF Targets, Steps, HelperSteps, StoreSteps, Uncancelled, Jobs
  <1> QED BY <1>1, <1>2, <1>3, UndoOwn

LEMMA UndoAssign ==
  ASSUME UndoInv, FollowInv', NEW r \in Requests, SetUserIncusProject(r)
  PROVE  UndoInv' /\ \A q \in Requests : FailureUndone(q)
  <1>1. TypeInv
    BY DEF UndoInv, FollowInv, IInv
  <1>2. /\ Working(r) /\ pc[r] = "assign" /\ Succeed(r, "issue")
        /\ account' = account /\ cert' = cert /\ trust' = trust
        /\ project' = [project EXCEPT ![job[r].user] = job[r].project]
    BY DEF SetUserIncusProject, At, Working
  <1>3. PICK u \in Users :
          /\ job[r].user = u /\ account[u] = "present" /\ UserClean(u)
          /\ Ordered(r, u) /\ (job[r].ills < 2 => Undoable(r, u))
    BY <1>2, AtWork
  <1>4. \A v \in Users \ {u} :
          account'[v] = account[v] /\ cert'[v] = cert[v] /\ project'[v] = project[v]
    BY <1>1, <1>2, <1>3 DEF TypeInv, TypeOK
  <1>5. job[r].op \in Creation /\ cert[u] = None
    BY <1>2, <1>3 DEF Ordered
  <1>6. UserClean(u)'
    BY <1>2, <1>3, <1>5 DEF UserClean
  <1>7. cert'[u] # None => Holds(cert'[u].fp, u)
    BY <1>2, <1>5
  <1>8. ASSUME Moved(r, job[r], "issue", {}) /\ Counted(r, job[r], "issue", 0)
        PROVE  Ordered(r, u)' /\ (job[r].ills < 2 => Undoable(r, u)')
    <2>1. /\ pc'[r] = "issue" /\ job'[r].op = job[r].op /\ job'[r].before = job[r].before
      BY <1>8 DEF Moved, Counted
    <2>2. Ordered(r, u)'
      BY <1>2, <1>3, <2>1 DEF Ordered, Deletion
    <2>3. ASSUME job[r].ills < 2 PROVE Undoable(r, u)'
      <3>1. Granted(u)' = Granted(u) /\ job[r].op # "scope"
        BY <1>2, <1>5 DEF Granted, Creation
      <3>2. Granted(u) = job[r].before[4]
        BY <1>2, <1>3, <2>3 DEF Undoable
      <3> QED BY <2>1, <3>1, <3>2 DEF Undoable
    <2> QED BY <2>2, <2>3
  <1>9. "issue" \in Targets
    BY DEF Targets, Steps, StoreSteps
  <1> QED BY <1>2, <1>3, <1>4, <1>6, <1>7, <1>8, <1>9, UndoSucceed

LEMMA UndoDrop ==
  ASSUME UndoInv, FollowInv', NEW r \in Requests, Undo(r) \/ DeleteUser(r)
  PROVE  UndoInv' /\ \A q \in Requests : FailureUndone(q)
  <1>1. TypeInv
    BY DEF UndoInv, FollowInv, IInv
  <1>2. PICK next \in {"ok", "failed"} :
          /\ Succeed(r, next)
          /\ next = "failed" => pc[r] = "undo"
    BY DEF Undo, DeleteUser, At
  <1>3. Working(r) /\ Drop(job[r].user) /\ trust' = trust
    BY DEF Undo, DeleteUser, At, Working
  <1>4. PICK u \in Users :
          /\ job[r].user = u /\ Ordered(r, u) /\ (job[r].ills < 2 => Undoable(r, u))
    BY <1>3, AtWork
  <1>5. /\ \A v \in Users \ {u} :
             account'[v] = account[v] /\ cert'[v] = cert[v] /\ project'[v] = project[v]
        /\ cert'[u] = None /\ account'[u] = "gone" /\ project'[u] = Default
    BY <1>1, <1>3, <1>4 DEF Drop, TypeInv, TypeOK
  <1>6. UserClean(u)'
    BY <1>5 DEF UserClean
  <1>7. next = "failed" /\ job[r].ills < 2 => Image(u)' = job[r].before
    <2> HAVE next = "failed" /\ job[r].ills < 2
    <2>1. Granted(u) = job[r].before[4] /\ job[r].before = Blank
      BY <1>2, <1>4 DEF Undoable, Ordered
    <2>2. /\ job[r].before[1] = FALSE /\ job[r].before[2] = Default
          /\ job[r].before[3] = None
      BY <2>1 DEF Blank
    <2>3. Present(u)' = FALSE
      BY <1>5 DEF Present
    <2>4. Granted(u)' = Granted(u)
      BY <1>3 DEF Granted
    <2> QED BY <1>1, <1>3, <1>4, <1>5, <2>1, <2>2, <2>3, <2>4, Picture
  <1>8. next \in Targets
    BY DEF Targets
  <1> QED BY <1>2, <1>3, <1>4, <1>5, <1>6, <1>7, <1>8, UndoSucceed

LEMMA UndoRetire ==
  ASSUME UndoInv, FollowInv', NEW r \in Requests, RetireSetupToken(r)
  PROVE  UndoInv' /\ \A q \in Requests : FailureUndone(q)
  <1>1. TypeInv
    BY DEF UndoInv, FollowInv, IInv
  <1>2. /\ Working(r) /\ Succeed(r, "ok")
        /\ account' = account /\ project' = project /\ cert' = cert /\ trust' = trust
    BY DEF RetireSetupToken, tables, Working
  <1>3. PICK u \in Users : job[r].user = u /\ account[u] = "present" /\ UserClean(u)
    BY <1>2, AtWork
  <1>4. UserClean(u)'
    BY <1>2, <1>3 DEF UserClean
  <1>5. cert'[u] # None => Holds(cert'[u].fp, u)
    BY <1>1, <1>2, <1>3, Hands
  <1>6. "ok" \in Targets
    BY DEF Targets
  <1> QED BY <1>2, <1>3, <1>4, <1>5, <1>6, UndoSucceed

LEMMA UndoRestore ==
  ASSUME UndoInv, FollowInv', NEW r \in Requests, RestoreCert(r)
  PROVE  UndoInv' /\ \A q \in Requests : FailureUndone(q)
  <1>1. TypeInv
    BY DEF UndoInv, FollowInv, IInv
  <1>2. PICK j : j = job[r]
    OBVIOUS
  <1>3. /\ Working(r) /\ pc[r] = "restore" /\ Succeed(r, "revokeNew")
        /\ account' = account /\ trust' = trust
        /\ project' = [project EXCEPT ![j.user] = j.prev.project]
        /\ cert' = [cert EXCEPT ![j.user] = j.prev]
    BY <1>2 DEF RestoreCert, At, Working
  <1>4. PICK u \in Users :
          /\ j.user = u /\ account[u] = "present"
          /\ Ordered(r, u) /\ (j.ills < 2 => Undoable(r, u))
    BY <1>2, <1>3, AtWork
  <1>5. /\ cert'[u] = j.prev /\ project'[u] = j.prev.project
        /\ \A v \in Users \ {u} :
             account'[v] = account[v] /\ cert'[v] = cert[v] /\ project'[v] = project[v]
    BY <1>1, <1>3, <1>4 DEF TypeInv, TypeOK
  <1>6. UserClean(u)'
    BY <1>3, <1>4, <1>5 DEF UserClean
  <1>7. cert'[u] # None => Holds(cert'[u].fp, u)
    BY <1>1, <1>2, <1>3, <1>4, <1>5, Hands
  <1>8. ASSUME Moved(r, j, "revokeNew", {}) /\ Counted(r, j, "revokeNew", 0)
        PROVE  Ordered(r, u)' /\ (j.ills < 2 => Undoable(r, u)')
    <2>1. /\ j.op = "scope" /\ j.before[1] /\ j.ills # 0
      BY <1>2, <1>3, <1>4 DEF Ordered
    <2>2. /\ pc'[r] = "revokeNew" /\ job'[r].op = j.op /\ job'[r].before = j.before
          /\ job'[r].fp = j.fp /\ job'[r].project = j.project /\ job'[r].ills # 0
      BY <1>8, <2>1 DEF Moved, Counted
    <2>3. Ordered(r, u)'
      BY <2>1, <2>2 DEF Ordered, Deletion, Creation
    <2>4. ASSUME j.ills < 2 PROVE Undoable(r, u)'
      <3>1. Granted(u)' = Granted(u)
        BY <1>3 DEF Granted
      <3>2. /\ Granted(u) = j.before[4] \cup {<<j.fp, j.project>>}
            /\ \A grant \in j.before[4] : grant[1] # j.fp
            /\ j.prev.project = j.before[2] /\ j.prev = j.before[3]
        BY <1>2, <1>3, <1>4, <2>4 DEF Undoable
      <3> QED BY <1>5, <2>2, <3>1, <3>2 DEF Undoable
    <2> QED BY <2>3, <2>4
  <1>9. "revokeNew" \in Targets
    BY DEF Targets, Steps, HelperSteps
  <1> QED BY <1>2, <1>3, <1>4, <1>5, <1>6, <1>7, <1>8, <1>9, UndoSucceed

LEMMA UndoMark ==
  ASSUME UndoInv, FollowInv', NEW r \in Requests, MarkRevoked(r)
  PROVE  UndoInv' /\ \A q \in Requests : FailureUndone(q)
  <1>1. TypeInv
    BY DEF UndoInv, FollowInv, IInv
  <1>2. /\ Working(r) /\ pc[r] = "mark" /\ Succeed(r, "remove")
        /\ account' = account /\ project' = project /\ trust' = trust
    BY DEF MarkRevoked, At, Working
  <1>3. PICK u \in Users :
          /\ job[r].user = u /\ account[u] = "present" /\ UserClean(u) /\ Ordered(r, u)
    BY <1>2, AtWork
  <1>4. PICK row : row = cert[u]
    OBVIOUS
  <1>5. row \in Rows \cup {None}
    BY <1>1, <1>4 DEF TypeInv, TypeOK
  <1>6. /\ \A v \in Users \ {u} :
             account'[v] = account[v] /\ cert'[v] = cert[v] /\ project'[v] = project[v]
        /\ cert'[u] = IF row = None THEN None ELSE [row EXCEPT !.revoked = TRUE]
    BY <1>1, <1>2, <1>3, <1>4 DEF MarkRevoked, TypeInv, TypeOK
  <1>7. cert'[u] # None =>
          /\ row # None /\ cert'[u].fp = row.fp /\ cert'[u].project = row.project
    BY <1>5, <1>6 DEF Rows
  <1>8. UserClean(u)'
    BY <1>2, <1>3, <1>4, <1>7 DEF UserClean
  <1>9. cert'[u] # None => Holds(cert'[u].fp, u)
    BY <1>1, <1>2, <1>3, <1>4, <1>7, Hands
  <1>10. ASSUME Moved(r, job[r], "remove", {}) /\ Counted(r, job[r], "remove", 0)
         PROVE  Ordered(r, u)' /\ Undoable(r, u)'
    <2>1. job[r].op = "delete"
      BY <1>2, <1>3 DEF Ordered, Deletion
    <2>2. pc'[r] = "remove" /\ job'[r].op = "delete"
      BY <1>10, <2>1 DEF Moved
    <2> QED BY <2>2 DEF Ordered, Undoable, Deletion, Creation
  <1>11. "remove" \in Targets
    BY DEF Targets, Steps, StoreSteps
  <1> QED BY <1>2, <1>3, <1>6, <1>8, <1>9, <1>10, <1>11, UndoSucceed

LEMMA UndoLoad ==
  ASSUME UndoInv, FollowInv', NEW r \in Requests, LoadCert(r)
  PROVE  UndoInv' /\ \A q \in Requests : FailureUndone(q)
  <1>1. TypeInv
    BY DEF UndoInv, FollowInv, IInv
  <1>2. PICK j : j = LoadJob(r)
    OBVIOUS
  <1>3. PICK next : next = AfterLoad(r)
    OBVIOUS
  <1>4. /\ Working(r) /\ j \in Jobs /\ j.user = job[r].user /\ j.fp = job[r].fp
        /\ j.prev = CurrentTrust(job[r].user) /\ j.op = job[r].op
        /\ Moved(r, j, next, {})
    BY <1>1, <1>2, <1>3, LoadMoves
  <1>5. PICK u \in Users :
          /\ job[r].user = u /\ account[u] = "present" /\ job[r] \in Jobs
          /\ UserClean(u) /\ Ordered(r, u)
    BY <1>4, AtWork
  <1>6. /\ account' = account /\ project' = project /\ cert' = cert /\ trust' = trust
        /\ pc[r] = "load" /\ Advance(r, j, next, 0, {})
    BY <1>2, <1>3 DEF LoadCert, At, tables, LoadJob, AfterLoad
  <1>7. next \in {"remove", "revoke"}
    BY <1>3 DEF AfterLoad
  <1>8. Counted(r, j, next, 0)
    BY <1>1, <1>4, <1>5, <1>6, AdvanceCounts
  <1>9. j.before = job[r].before
    BY <1>2, <1>5 DEF LoadJob, Jobs
  <1>10. Ordered(r, u)' /\ Undoable(r, u)'
    <2>1. job[r].op = "delete"
      BY <1>5, <1>6 DEF Ordered, Deletion
    <2>2. pc'[r] = next /\ job'[r].op = "delete"
      BY <1>4, <1>7, <2>1 DEF Moved
    <2> QED BY <1>7, <2>2 DEF Ordered, Undoable, Deletion, Creation
  <1>11. UserClean(u)'
    BY <1>5, <1>6 DEF UserClean
  <1>12. cert'[u] # None => Holds(cert'[u].fp, u)
    BY <1>6 DEF Holds
  <1>13. j.prev # None => j.prev = cert[u]
    BY <1>4, <1>5 DEF CurrentTrust
  <1>14. \A v \in Users \ {u} :
           account'[v] = account[v] /\ cert'[v] = cert[v] /\ project'[v] = project[v]
    BY <1>6
  <1>15. \A g \in Certs : trust'[g] = trust[g]
    BY <1>6
  <1> QED BY <1>4, <1>5, <1>7, <1>8, <1>9, <1>10, <1>11, <1>12, <1>13, <1>14, <1>15, UndoOwn

\* Where a failing request goes on, the user is as far from the picture as the
\* repairs that are left expect.
LEMMA FailureImage ==
  ASSUME UndoInv, NEW r \in Requests, Working(r), NEW u \in Users, job[r].user = u,
         NEW mark, Moved(r, job[r], OnFailure(r), mark),
         Counted(r, job[r], OnFailure(r), 1), job[r].ills + 1 < 2,
         UNCHANGED <<account, project, cert, trust>>
  PROVE  /\ OnFailure(r) \notin {"ok", "failed"} => Undoable(r, u)'
         /\ OnFailure(r) = "failed" /\ job[r].op # "delete" => Image(u)' = job[r].before
  <1>1. PICK j : j = job[r]
    OBVIOUS
  <1>2. PICK next : next = OnFailure(r)
    OBVIOUS
  <1>3. /\ TypeInv /\ j \in Jobs /\ account[u] = "present"
        /\ Ordered(r, u) /\ (j.ills < 2 => Undoable(r, u)) /\ Sure(r, u)
    BY <1>1, AtWork DEF UndoInv, FollowInv, IInv
  <1>4. j.ills = 0 /\ Undoable(r, u)
    BY <1>1, <1>3 DEF Jobs
  <1>5. pc[r] \notin {"restore", "revokeNew", "undo"}
    BY <1>1, <1>3, <1>4 DEF Ordered
  <1>6. Granted(u)' = Granted(u)
    BY DEF Granted
  <1>7. next \notin {"ok", "failed"} =>
          /\ pc'[r] = next /\ job'[r].op = j.op /\ job'[r].before = j.before
          /\ job'[r].fp = j.fp /\ job'[r].prev = j.prev /\ job'[r].project = j.project
    BY <1>1, <1>2 DEF Moved, Counted
  <1>8. CASE pc[r] = "store"
    <2>1. next = "revokeNew"
      BY <1>2, <1>8 DEF OnFailure
    <2> QED BY <1>1, <1>2, <1>4, <1>6, <1>7, <1>8, <2>1 DEF Undoable
  <1>9. CASE pc[r] = "revokePrev"
    <2>1. next = "restore"
      BY <1>2, <1>9 DEF OnFailure
    <2> QED BY <1>1, <1>2, <1>4, <1>6, <1>7, <1>9, <2>1 DEF Undoable
  <1>10. CASE pc[r] \in {"assign", "issue", "register"}
    <2>1. Granted(u) = j.before[4]
      BY <1>1, <1>4, <1>10 DEF Undoable
    <2>2. CASE j.op \in Creation
      <3>1. next = "undo"
        BY <1>1, <1>2, <1>10, <2>2 DEF OnFailure, Creation
      <3> QED BY <1>2, <1>6, <1>7, <2>1, <2>2, <3>1 DEF Undoable, Creation
    <2>3. CASE j.op \notin Creation
      <3>1. next = "failed"
        BY <1>1, <1>2, <1>10, <2>3 DEF OnFailure, Creation
      <3>2. (j.op = "scope" /\ pc[r] # "assign") \/ j.op = "delete"
        BY <1>1, <1>3, <2>3 DEF Jobs, Ops, Creation, Ordered
      <3>3. ASSUME j.op # "delete" PROVE Image(u)' = j.before
        <4>1. /\ project[u] = j.before[2] /\ cert[u] = j.before[3]
          BY <1>1, <1>4, <1>10, <3>2, <3>3 DEF Undoable
        <4>2. j.before[1] /\ j.before[1] \in BOOLEAN
          BY <1>1, <1>3, <3>2, <3>3 DEF Ordered, Jobs, Images
        <4>3. Present(u)' = j.before[1]
          BY <1>3, <4>2 DEF Present
        <4> QED BY <1>1, <1>3, <1>6, <2>1, <4>1, <4>3, Picture
      <3> QED BY <1>1, <1>2, <3>1, <3>3
    <2> QED BY <2>2, <2>3
  <1>11. CASE pc[r] = "retire"
    <2>1. next = "ok"
      BY <1>2, <1>11 DEF OnFailure
    <2> QED BY <1>2, <2>1
  <1>12. CASE pc[r] \in Deletion
    <2>1. next = "failed" /\ j.op = "delete"
      BY <1>1, <1>2, <1>3, <1>12 DEF OnFailure, Ordered, Deletion
    <2> QED BY <1>1, <1>2, <2>1
  <1>13. pc[r] \in Steps \ {"first"}
    BY <1>3 DEF TypeInv, TypeOK, Working
  <1> QED
    BY <1>5, <1>8, <1>9, <1>10, <1>11, <1>12, <1>13
    DEF Steps, HelperSteps, StoreSteps, Uncancelled, Deletion

LEMMA UndoFails ==
  ASSUME UndoInv, FollowInv', NEW r \in Requests, StepFails(r)
  PROVE  UndoInv' /\ \A q \in Requests : FailureUndone(q)
  <1>1. TypeInv
    BY DEF UndoInv, FollowInv, IInv
  <1>2. /\ Working(r) /\ Fail(r)
        /\ account' = account /\ project' = project /\ cert' = cert /\ trust' = trust
    BY DEF StepFails, tables, Working
  <1>3. PICK u \in Users :
          job[r].user = u /\ account[u] = "present" /\ UserClean(u) /\ job[r] \in Jobs
    BY <1>2, AtWork
  <1>4. PICK mark : mark = IF pc[r] = "restore" THEN {"exposed"} ELSE {}
    OBVIOUS
  <1>5. PICK next : next = OnFailure(r)
    OBVIOUS
  <1>6. Moved(r, job[r], next, mark) /\ Counted(r, job[r], next, 1)
    BY <1>1, <1>2, <1>4, <1>5, FailMoves, FailCounts
  <1>7. next \notin {"ok", "failed"} => Ordered(r, u)'
    BY <1>2, <1>3, <1>5, <1>6, FailureOrdered
  <1>8. job[r].ills + 1 < 2 =>
          /\ next \notin {"ok", "failed"} => Undoable(r, u)'
          /\ next = "failed" /\ job[r].op # "delete" => Image(u)' = job[r].before
    BY <1>2, <1>3, <1>5, <1>6, FailureImage
  <1>9. UserClean(u)'
    BY <1>2, <1>3 DEF UserClean
  <1>10. cert'[u] # None => Holds(cert'[u].fp, u)
    BY <1>1, <1>2, <1>3, Hands
  <1>11. next \notin {"idle", "first"}
    BY <1>1, <1>2, <1>5, FailureTargets DEF Targets, Steps, HelperSteps, StoreSteps, Uncancelled
  <1>12. \A f \in Certs : trust'[f] = trust[f]
    BY <1>2
  <1>13. \A v \in Users \ {u} :
           account'[v] = account[v] /\ cert'[v] = cert[v] /\ project'[v] = project[v]
    BY <1>2
  <1> QED
    BY <1>2, <1>3, <1>6, <1>7, <1>8, <1>9, <1>10, <1>11, <1>12, <1>13, UndoOwn

LEMMA UndoHangUp ==
  ASSUME UndoInv, FollowInv', NEW r \in Requests, HangUp(r)
  PROVE  UndoInv' /\ \A q \in Requests : FailureUndone(q)
  <1>1. TypeInv
    BY DEF UndoInv, FollowInv, IInv
  <1>2. account' = account /\ project' = project /\ cert' = cert /\ trust' = trust
    BY DEF HangUp, tables
  <1>3. CASE job[r].user = None
    <2>1. ~Working(r)
      BY <1>1, <1>3, WorkingJob, TrustAssumption
    <2>2. pc' = pc /\ \A q \in Requests \ {r} : job'[q] = job[q]
      BY <1>1, <1>3 DEF HangUp, TypeInv, TypeOK
    <2>3. \A q \in Requests : Working(q)' => Working(q) /\ pc'[q] = pc[q] /\ job'[q] = job[q]
      BY <2>1, <2>2 DEF Working
    <2>4. UndoInv'
      BY <1>2, <2>3, UndoQuiet
    <2> QED BY <2>2, <2>4 DEF FailureUndone
  <1>4. CASE job[r].user # None
    <2>1. Working(r) /\ pc[r] \in Targets /\ Moved(r, Gone(r), pc[r], {})
      BY <1>1, <1>4, HangUpMoves
    <2>2. PICK u \in Users :
            /\ job[r].user = u /\ account[u] = "present" /\ UserClean(u) /\ job[r] \in Jobs
            /\ Ordered(r, u)
      BY <2>1, AtWork
    <2>3. PICK j : j = Gone(r)
      OBVIOUS
    <2>4. PICK next : next = pc[r]
      OBVIOUS
    <2>5. /\ j \in Jobs /\ j.user = u /\ j.op = job[r].op /\ j.fp = job[r].fp
          /\ j.prev = job[r].prev
      BY <1>1, <2>1, <2>2, <2>3, GoneJob
    <2>6. j.before = job[r].before /\ j.ills = job[r].ills
      BY <2>2, <2>3 DEF Gone, Jobs
    <2>7. next \notin {"ok", "failed", "idle", "first"} /\ Moved(r, j, next, {})
      BY <1>1, <2>1, <2>3, <2>4
         DEF TypeInv, TypeOK, Steps, HelperSteps, StoreSteps, Uncancelled, Working
    <2>8. Counted(r, j, next, 2)
      <3>1. Advance(r, j, next, 2, {})
        BY <1>4, <2>3, <2>4 DEF HangUp, Gone
      <3> QED BY <1>1, <2>5, <3>1, AdvanceCounts
    <2>9. /\ pc'[r] = pc[r] /\ job'[r].op = job[r].op /\ job'[r].fp = job[r].fp
          /\ job'[r].before = job[r].before
          /\ job'[r].ills # 0
      BY <2>4, <2>5, <2>6, <2>7, <2>8 DEF Moved, Counted
    <2>10. Ordered(r, u)'
      BY <1>2, <2>2, <2>9 DEF Ordered
    <2>11. ~(j.ills + 2 < 2)
      BY <2>5 DEF Jobs
    <2>12. UserClean(u)'
      BY <1>2, <2>2 DEF UserClean
    <2>13. cert'[u] # None => Holds(cert'[u].fp, u)
      BY <1>1, <1>2, <2>1, <2>2, Hands
    <2>14. \A f \in Certs : trust'[f] = trust[f]
      BY <1>2
    <2>15. \A v \in Users \ {u} :
             account'[v] = account[v] /\ cert'[v] = cert[v] /\ project'[v] = project[v]
      BY <1>2
    <2> QED
      BY <2>1, <2>2, <2>5, <2>6, <2>7, <2>8, <2>10, <2>11, <2>12, <2>13, <2>14, <2>15, UndoOwn
  <1> QED BY <1>3, <1>4

\* A user whom nobody was ever there for has nothing to be put back.
LEMMA BlankImage ==
  ASSUME UndoInv, NEW u \in Users, account[u] = "none"
  PROVE  /\ project[u] = Default /\ cert[u] = None /\ Granted(u) = {}
         /\ Image(u) = Blank
  BY DEF UndoInv, UserClean, Image, Blank, Present

\* The start of a request: it carries the picture of its user.
LEMMA UndoBegin ==
  ASSUME UndoInv, FollowInv', NEW r \in Requests, NEW u \in Users, ~Working(r),
         NEW op \in Ops, NEW first \in {"assign", "issue", "undo", "load"},
         \A q \in Requests \ {r} : pc'[q] = pc[q] /\ job'[q] = job[q],
         pc'[r] = first, job'[r].user = u, job'[r].op = op,
         job'[r].fp = None, job'[r].prev = None, job'[r].before = Image(u), first = "undo" => job'[r].ills # 0,
         \A q \in Requests : Working(q) => job[q].user # u,
         first = "load" <=> op = "delete", first \in {"assign", "undo"} => op \in Creation,
         op \in Creation => account[u] = "none", op = "scope" => Present(u),
         account'[u] = "present", \A v \in Users \ {u} : account'[v] = account[v],
         UNCHANGED <<project, cert, trust>>
  PROVE  UndoInv' /\ \A q \in Requests : FailureUndone(q)
  <1>1. /\ Image(u)[1] = Present(u) /\ Image(u)[2] = project[u]
        /\ Image(u)[3] = cert[u] /\ Image(u)[4] = Granted(u)
    BY DEF Image
  <1>2. op \in Creation => Image(u) = Blank /\ cert[u] = None
    BY BlankImage
  <1>3. Granted(u)' = Granted(u)
    BY DEF Granted
  <1>4. Ordered(r, u)'
    BY <1>1, <1>2 DEF Ordered, Deletion, Creation, Ops
  <1>5. Undoable(r, u)'
    BY <1>1, <1>3 DEF Undoable, Creation, Ops
  <1>6. RequestUndoes(r)'
    BY <1>4, <1>5 DEF RequestUndoes
  <1>7. UserClean(u)'
    BY DEF UndoInv, UserClean
  <1>8. \A f \in Certs : trust'[f] = trust[f]
    OBVIOUS
  <1>9. \A f \in Certs : Holds(f, u)' => Holds(f, u)
    <2> SUFFICES ASSUME NEW f \in Certs, Holds(f, u)' PROVE Holds(f, u)
      OBVIOUS
    <2>1. f # None
      BY TrustAssumption
    <2> QED BY <2>1 DEF Holds, Working
  <1>10. \A v \in Users \ {u} :
           account'[v] = account[v] /\ cert'[v] = cert[v] /\ project'[v] = project[v]
    OBVIOUS
  <1>11. UndoInv'
    BY <1>6, <1>7, <1>8, <1>9, <1>10, UndoFrame
  <1>12. \A q \in Requests : pc'[q] = pc[q] \/ pc'[q] # "idle"
    OBVIOUS
  <1> QED BY <1>11, <1>12 DEF FailureUndone

LEMMA BeginUndoes ==
  ASSUME Overlap = FALSE, UndoInv, FollowInv', NEW r \in Requests, NEW u \in Users,
         NEW p \in Projects, NEW op \in Ops,
         NEW first \in {"assign", "issue", "undo", "load"}, Begin(r, op, u, p, first),
         first = "load" <=> op = "delete", first \in {"assign", "undo"} => op \in Creation,
         op \in Creation => account[u] = "none", op = "scope" => Present(u),
         account'[u] = "present", \A v \in Users \ {u} : account'[v] = account[v],
         UNCHANGED <<project, cert, trust>>
  PROVE  UndoInv' /\ \A q \in Requests : FailureUndone(q)
  <1>1. TypeInv /\ ~Working(r)
    BY DEF UndoInv, FollowInv, IInv, Begin, Working
  <1>2. /\ \A q \in Requests \ {r} : pc'[q] = pc[q] /\ job'[q] = job[q]
        /\ pc'[r] = first /\ job'[r].user = u /\ job'[r].op = op
        /\ job'[r].fp = None /\ job'[r].prev = None
    BY <1>1, BeginTyped
  <1>3. \A q \in Requests : Working(q) => job[q].user # u
    BY DEF Begin, Busy, Working
  <1>4. PICK ills : ills = IF first = "undo" THEN 1 ELSE 0
    OBVIOUS
  <1>5. PICK picture : picture = Image(u)
    OBVIOUS
  <1>6. job'[r] = Job(op, u, p, ills, picture)
    BY <1>1, <1>4, <1>5 DEF Begin, TypeInv, TypeOK
  <1>7. job'[r].before = Image(u) /\ (first = "undo" => job'[r].ills # 0)
    BY <1>4, <1>5, <1>6 DEF Job
  <1> QED BY <1>1, <1>2, <1>3, <1>7, UndoBegin

LEMMA UndoFirst ==
  ASSUME UndoInv, FollowInv', NEW r \in Requests, NEW u \in Users, CreateFirstAdmin(r, u)
  PROVE  UndoInv' /\ \A q \in Requests : FailureUndone(q)
  <1>1. TypeInv
    BY DEF UndoInv, FollowInv, IInv
  <1>2. /\ ~Working(r) /\ account[u] = "none"
        /\ pc' = [pc EXCEPT ![r] = "issue"]
        /\ job' = [job EXCEPT ![r] = Job("setup", u, Default, 0, Blank)]
        /\ account' = [account EXCEPT ![u] = "present"]
        /\ project' = project /\ cert' = cert /\ trust' = trust
    BY DEF CreateFirstAdmin, At, Working
  <1>3. /\ pc'[r] = "issue" /\ job'[r] = Job("setup", u, Default, 0, Blank)
        /\ \A q \in Requests \ {r} : pc'[q] = pc[q] /\ job'[q] = job[q]
        /\ account'[u] = "present"
        /\ \A v \in Users \ {u} : account'[v] = account[v]
    BY <1>1, <1>2 DEF TypeInv, TypeOK
  <1>4. Image(u) = Blank
    BY <1>2, BlankImage
  <1>5. /\ job'[r].user = u /\ job'[r].op = "setup" /\ job'[r].before = Image(u)
        /\ job'[r].fp = None /\ job'[r].prev = None
    BY <1>3, <1>4 DEF Job
  <1>6. \A q \in Requests : Working(q) => job[q].user # u
    BY <1>2 DEF UndoInv, FollowInv, IInv, RequestOK, Present
  <1>7. "setup" \in Ops /\ "setup" \in Creation
    BY DEF Ops, Creation
  <1> QED BY <1>2, <1>3, <1>5, <1>6, <1>7, UndoBegin

LEMMA UndoCrash ==
  ASSUME UndoInv, FollowInv', Crash
  PROVE  UndoInv' /\ \A q \in Requests : FailureUndone(q)
  <1>1. \A q \in Requests : ~Working(q)'
    BY DEF Crash, Working
  <1>2. UNCHANGED <<account, project, cert, trust>>
    BY DEF Crash, tables
  <1>3. UndoInv'
    BY <1>1, <1>2, UndoQuiet
  <1>4. ASSUME NEW q \in Requests, NEW u \in Users, pc[q] # "idle", job[q].user = u
        PROVE  outcome'[u] = "ragged"
    BY <1>4 DEF Crash, Busy
  <1> QED BY <1>3, <1>4 DEF FailureUndone

LEMMA UndoStep ==
  ASSUME Overlap = FALSE, UndoInv, [Next]_vars
  PROVE  UndoInv' /\ \A q \in Requests : FailureUndone(q)
  <1> DEFINE Goal == UndoInv' /\ \A q \in Requests : FailureUndone(q)
  <1>i. FollowInv'
    BY FollowStep DEF UndoInv
  <1>t. TypeInv
    BY DEF UndoInv, FollowInv, IInv
  <1>1. ASSUME NEW r \in Requests, BeginSetup(r) \/ DismissSetup(r) PROVE Goal
    <2>1. ~Working(r) /\ (pc[r] # "idle" => pc[r] = "first")
      BY <1>1 DEF BeginSetup, DismissSetup, Working
    <2>2. /\ UNCHANGED <<account, project, cert, trust>>
          /\ \A q \in Requests : Working(q)' => Working(q) /\ pc'[q] = pc[q] /\ job'[q] = job[q]
          /\ \A q \in Requests \ {r} : pc'[q] = pc[q]
      BY <1>1, <1>t, <2>1 DEF BeginSetup, DismissSetup, tables, Working, TypeInv, TypeOK
    <2>3. UndoInv'
      BY <1>i, <2>2, UndoQuiet
    <2>4. pc[r] # "idle" => job[r].user \notin Users
      BY <1>t, <2>1, TrustAssumption DEF TypeInv, Shape
    <2> QED BY <2>2, <2>3, <2>4 DEF FailureUndone
  <1>2. ASSUME NEW r \in Requests, NEW u \in Users, CreateFirstAdmin(r, u) PROVE Goal
    BY <1>2, <1>i, UndoFirst
  <1>3. ASSUME NEW r \in Requests, NEW u \in Users, CreateUser(r, u) PROVE Goal
    <2>1. /\ \A v \in Users \ {u} : account'[v] = account[v]
          /\ account[u] = "none" /\ account'[u] = "present"
          /\ UNCHANGED <<project, cert, trust>>
      BY <1>3, <1>t DEF CreateUser, TypeInv, TypeOK
    <2>2. PICK p \in Projects, first \in {"issue", "assign", "undo"} : Begin(r, "create", u, p, first)
      BY <1>3, TrustAssumption DEF CreateUser
    <2>3. "create" \in Ops /\ "create" \in Creation
      BY DEF Ops, Creation
    <2> QED BY <1>i, <2>1, <2>2, <2>3, BeginUndoes
  <1>4. ASSUME NEW r \in Requests, NEW u \in Users, BeginDelete(r, u) PROVE Goal
    <2>1. /\ \A v \in Users \ {u} : account'[v] = account[v]
          /\ account'[u] = "present"
          /\ UNCHANGED <<project, cert, trust>>
          /\ Begin(r, "delete", u, Default, "load")
      BY <1>4 DEF BeginDelete, tables, Present
    <2>2. "delete" \in Ops /\ "delete" \notin Creation /\ Default \in Projects
      BY TrustAssumption DEF Ops, Creation
    <2> QED BY <1>i, <2>1, <2>2, BeginUndoes
  <1>5. ASSUME NEW r \in Requests, NEW u \in Users, NEW p \in Projects,
               UpdateUserScope(r, u, p)
        PROVE  Goal
    <2>1. /\ \A v \in Users \ {u} : account'[v] = account[v]
          /\ Present(u) /\ account'[u] = "present"
          /\ UNCHANGED <<project, cert, trust>>
          /\ Begin(r, "scope", u, p, "issue")
      BY <1>5 DEF UpdateUserScope, tables, Present
    <2>2. "scope" \in Ops /\ "scope" \notin Creation
      BY DEF Ops, Creation
    <2> QED BY <1>i, <2>1, <2>2, BeginUndoes
  <1>6. ASSUME NEW r \in Requests, NEW f \in Certs, Issue(r, f) PROVE Goal
    BY <1>6, <1>i, UndoIssue
  <1>7. ASSUME NEW r \in Requests,
               \/ SetUserIncusProject(r) \/ Undo(r) \/ RetireSetupToken(r)
               \/ Register(r) \/ StoreCert(r) \/ RevokePrevious(r)
        PROVE  Goal
    BY <1>7, <1>i, UndoAssign, UndoDrop, UndoRetire, UndoRegister, UndoStore, UndoRevokePrevious
  <1>8. ASSUME NEW r \in Requests,
               \/ RestoreCert(r) \/ RevokeNew(r) \/ LoadCert(r) \/ RevokeCert(r)
               \/ MarkRevoked(r) \/ DeleteUser(r) \/ StepFails(r) \/ HangUp(r)
        PROVE  Goal
    BY <1>8, <1>i, UndoRestore, UndoRevokeNew, UndoLoad, UndoRevokeCert, UndoMark, UndoDrop,
       UndoFails, UndoHangUp
  <1>9. CASE UNCHANGED vars \/ \E u \in Users : OwnRow(u)
    <2>1. UNCHANGED <<account, project, cert, trust, pc, job>>
      BY <1>9 DEF vars, tables, OwnRow
    <2>2. \A q \in Requests : Working(q)' => Working(q)
      BY <2>1 DEF Working
    <2>3. UndoInv'
      BY <1>i, <2>1, <2>2, UndoQuiet
    <2> QED BY <2>1, <2>3 DEF FailureUndone
  <1>10. CASE Crash
    BY <1>10, <1>i, UndoCrash
  <1> QED
    BY <1>1, <1>2, <1>3, <1>4, <1>5, <1>6, <1>7, <1>8, <1>9, <1>10 DEF Next

LEMMA UndoInit == Init => UndoInv
  <1> SUFFICES ASSUME Init PROVE UndoInv
    OBVIOUS
  <1>1. FollowInv
    BY FollowInit
  <1>2. ASSUME NEW u \in Users
        PROVE  Granted(u) = {} /\ cert[u] = None /\ project[u] = Default
    BY DEF Init, Granted
  <1>3. ASSUME NEW r \in Requests PROVE RequestUndoes(r)
    BY DEF RequestUndoes, Working, Init
  <1>4. EntriesHeld
    BY DEF EntriesHeld, Init
  <1> QED BY <1>1, <1>2, <1>3, <1>4 DEF UndoInv, UserClean

\* One failure is undone: when a step of a set-up, a creation or a change of scope
\* fails, Provision revokes what it registered and restores the row it replaced,
\* and handleSetup and handleCreateUser delete the user they inserted, so that the
\* user is what it was when the request began: row, project, certificate and what
\* Incus grants.
THEOREM OneFailureIsUndoneCorrect ==
  ASSUME Overlap = FALSE
  PROVE  Spec => OneFailureIsUndone
  <1> DEFINE Undone ==
        \A r \in Requests, u \in Users :
          /\ pc[r] # "idle" /\ pc'[r] = "idle"
          /\ job[r].user = u /\ job[r].op # "delete" /\ outcome'[u] = "failed"
          => Image(u)' = job[r].before
  <1>1. UndoInv /\ [Next]_vars => UndoInv'
    BY UndoStep
  <1>2. UndoInv /\ [Next]_vars => Undone
    BY UndoStep DEF FailureUndone
  <1> HIDE DEF Undone
  <1>3. UndoInv /\ [Next]_vars => [Undone]_vars
    BY <1>2
  <1>4. Spec => [][Undone]_vars
    BY UndoInit, <1>1, <1>3, PTL DEF Spec
  <1>5. [][Undone]_vars <=> OneFailureIsUndone
    BY DEF OneFailureIsUndone, Undone
  <1> QED BY <1>4, <1>5
=============================================================================
