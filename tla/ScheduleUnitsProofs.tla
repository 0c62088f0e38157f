------------------------- MODULE ScheduleUnitsProofs -------------------------
(***************************************************************************)
(* Theorems about ScheduleUnits, for any schedules, requests, calendars    *)
(* and failures.                                                           *)
(***************************************************************************)
EXTENDS ScheduleUnits, TLAPS

-----------------------------------------------------------------------------
(* Types.                                                                  *)

\* A request that goes on, ends or fails keeps its bookkeeping well typed.
LEMMA MovesTyped ==
  ASSUME TypeOK, NEW r \in Requests, pc[r] # "idle",
         NEW next \in HelperSteps \cup {"save", "delete", "done"},
         \/ Proceed(r, next) \/ Fail(r)
         \/ next # "done" /\ Goto(r, next)
         \/ \E result \in {"ok", "failed"} : End(r, result),
         next \in {"read", "timer", "writeTimer", "reloadTimer", "enable"} => job[r].on,
         next = "delete" => job[r].op = "delete"
  PROVE  /\ pc' \in [Requests -> {"idle"} \cup HelperSteps \cup StoreSteps]
         /\ job' \in [Requests -> Jobs \cup {NoJob}]
         /\ outcome' \in [Schedules -> {"none", "pending", "ok", "failed"}]
         /\ \A q \in Requests :
              /\ pc'[q] = "idle" <=> job'[q] = NoJob
              /\ pc'[q] \in {"read", "timer", "writeTimer", "reloadTimer", "enable"} => job'[q].on
              /\ pc'[q] = "delete" => job'[q].op = "delete"
  <1>1. job[r] \in Jobs
    BY DEF TypeOK
  <1>2. job[r].sched \in Schedules
    BY <1>1 DEF Jobs
  <1>3. CASE \E result \in {"ok", "failed"} : End(r, result)
    BY <1>2, <1>3, ScheduleAssumption DEF TypeOK, End
  <1>4. CASE next # "done" /\ Goto(r, next)
    BY <1>1, <1>4, ScheduleAssumption DEF TypeOK, Goto, HelperSteps, StoreSteps, HelperReloads
  <1>5. CASE Fail(r)
    BY <1>1, <1>2, <1>5, ScheduleAssumption
    DEF TypeOK, Fail, Goto, End, HelperSteps, StoreSteps, HelperReloads
  <1>6. CASE Proceed(r, next)
    BY <1>3, <1>4, <1>5, <1>6 DEF Proceed, Killed
  <1> QED
    BY <1>3, <1>4, <1>5, <1>6


LEMMA ReloadStep ==
  ASSUME TypeOK, NEW r \in Requests, pc[r] \in HelperReloads
  PROVE  /\ AfterReload(r) \in HelperSteps \cup {"save", "delete", "done"}
         /\ AfterReload(r) \in {"read", "timer", "writeTimer", "reloadTimer", "enable"} =>
              job[r].on
         /\ AfterReload(r) = "delete" => job[r].op = "delete"
         /\ AfterReload(r) = "save" => job[r].op # "create" /\ ~job[r].on
         /\ AfterReload(r) = "done" => job[r].op = "create" /\ ~job[r].on
  BY DEF AfterReload, AfterEnable, HelperReloads, HelperSteps, TypeOK

LEMMA TypeInit == Init => TypeOK
  BY ScheduleAssumption DEF Init, TypeOK

\* Each action keeps the types; the bookkeeping is MovesTyped's.
LEMMA TypeStep == TypeOK /\ [Next]_vars => TypeOK'
  <1> SUFFICES ASSUME TypeOK, [Next]_vars PROVE TypeOK'
    OBVIOUS
  <1> USE ScheduleAssumption
  <1>1. ASSUME NEW r \in Requests, Handler(r) PROVE TypeOK'
    <2>1. CASE CreateSchedule(r)
      <3>1. PICK s \in Schedules, c \in Calendars, on \in BOOLEAN :
              /\ Begin(r, [op |-> "create", sched |-> s, cal |-> c, on |-> on],
                       IF on THEN "stage" ELSE "disableRow")
              /\ status' = [status EXCEPT ![s] = "enabled"]
              /\ calendar' = [calendar EXCEPT ![s] = c]
        BY <2>1 DEF CreateSchedule
      <3>2. [op |-> "create", sched |-> s, cal |-> c, on |-> on] \in Jobs
        BY DEF Jobs
      <3> QED
        BY <3>1, <3>2 DEF Begin, TypeOK, unitVars, HelperSteps, StoreSteps
    <2>2. CASE BeginUpdate(r)
      <3>1. PICK s \in Schedules, c \in Calendars, on \in BOOLEAN :
              /\ Begin(r, [op |-> "update", sched |-> s, cal |-> c, on |-> on],
                       IF on THEN "stage" ELSE "disable")
              /\ UNCHANGED rowVars
        BY <2>2 DEF BeginUpdate
      <3>2. [op |-> "update", sched |-> s, cal |-> c, on |-> on] \in Jobs
        BY DEF Jobs
      <3> QED
        BY <3>1, <3>2 DEF Begin, TypeOK, rowVars, unitVars, HelperSteps, StoreSteps
    <2>3. CASE BeginDelete(r)
      <3>1. PICK s \in Schedules :
              /\ Begin(r, [op |-> "delete", sched |-> s, cal |-> None, on |-> FALSE],
                       "disable")
              /\ UNCHANGED rowVars
        BY <2>3 DEF BeginDelete
      <3>2. [op |-> "delete", sched |-> s, cal |-> None, on |-> FALSE] \in Jobs
        BY DEF Jobs
      <3> QED
        BY <3>1, <3>2 DEF Begin, TypeOK, rowVars, unitVars, HelperSteps, StoreSteps
    <2>4. CASE DisableRow(r)
      <3>1. pc[r] # "idle" /\ "stage" \in HelperSteps
        BY <2>4 DEF DisableRow, HelperSteps
      <3>2. Goto(r, "stage")
        BY <2>4 DEF DisableRow
      <3> QED
        BY <2>4, <3>1, <3>2, MovesTyped DEF DisableRow, TypeOK, unitVars
    <2>5. CASE UpdateSchedule(r)
      <3>1. job[r] \in Jobs /\ pc[r] # "idle" /\ End(r, "ok")
        BY <2>5 DEF UpdateSchedule, TypeOK
      <3>2. job[r].cal \in Calendars \cup {None}
        BY <3>1 DEF Jobs
      <3> QED
        <4>1. /\ status' \in [Schedules -> {"new", "enabled", "disabled", "deleted"}]
              /\ calendar' \in [Schedules -> Calendars \cup {None}]
              /\ UNCHANGED <<unitVars, body>>
          <5>1. job[r].sched \in Schedules
            BY <3>1 DEF Jobs
          <5>2. /\ status \in [Schedules -> {"new", "enabled", "disabled", "deleted"}]
                /\ calendar \in [Schedules -> Calendars \cup {None}]
            BY DEF TypeOK
          <5> QED BY <2>5, <3>2, <5>1, <5>2 DEF UpdateSchedule
        <4>2. /\ pc' \in [Requests -> {"idle"} \cup HelperSteps \cup StoreSteps]
              /\ job' \in [Requests -> Jobs \cup {NoJob}]
              /\ outcome' \in [Schedules -> {"none", "pending", "ok", "failed"}]
              /\ \A q \in Requests :
                   /\ pc'[q] = "idle" <=> job'[q] = NoJob
                   /\ pc'[q] \in {"read", "timer", "writeTimer", "reloadTimer", "enable"} => job'[q].on
                   /\ pc'[q] = "delete" => job'[q].op = "delete"
          <5>1. "done" \in HelperSteps \cup {"save", "delete", "done"}
            OBVIOUS
          <5> QED BY <3>1, <5>1, MovesTyped
        <4> QED BY <4>1, <4>2 DEF TypeOK, unitVars
    <2>6. CASE DeleteSchedule(r)
      <3>1. pc[r] # "idle" /\ \E result \in {"ok", "failed"} : End(r, result)
        BY <2>6 DEF DeleteSchedule
      <3> QED
        BY <2>6, <3>1, MovesTyped DEF DeleteSchedule, TypeOK, unitVars
    <2>7. CASE StoreFails(r)
      <3>1. pc[r] # "idle" /\ End(r, "failed")
        BY <2>7 DEF StoreFails, StoreSteps
      <3> QED
        BY <2>7, <3>1, MovesTyped DEF StoreFails, TypeOK, rowVars, unitVars
    <2> QED
      BY <1>1, <2>1, <2>2, <2>3, <2>4, <2>5, <2>6, <2>7 DEF Handler
  <1>2. ASSUME NEW r \in Requests, Helper(r) PROVE TypeOK'
    <2>0. /\ pc[r] # "idle"
          /\ job[r] \in Jobs
          /\ job[r].sched \in Schedules
          /\ job[r].cal \in Calendars \cup {None}
      <3>1. pc[r] # "idle"
        BY <1>2 DEF Helper, Stage, PrepareService, InstallService, ReadStaged, PrepareTimer, InstallTimer,
           Enable, EnableRefused, Disable, DisableRefused, Unlink, UnlinkService,
           DaemonReload, HelperFails, HelperReloads, HelperSteps
      <3> QED
        BY <3>1 DEF TypeOK, Jobs
    <2> USE <2>0 DEF rowVars, unitVars
    <2>1. CASE Stage(r)
      BY <2>1, MovesTyped DEF Stage, TypeOK, HelperSteps
    <2>2. CASE InstallService(r)
      BY <2>2, MovesTyped DEF InstallService, TypeOK, HelperSteps, HelperReloads
    <2>3. CASE ReadStaged(r)
      BY <2>3, MovesTyped DEF ReadStaged, TypeOK, HelperSteps
    <2>4. CASE InstallTimer(r)
      BY <2>4, MovesTyped DEF InstallTimer, TypeOK, HelperSteps, HelperReloads
    <2>13. CASE PrepareService(r)
      BY <2>13, MovesTyped DEF PrepareService, TypeOK, HelperSteps
    <2>14. CASE PrepareTimer(r)
      BY <2>14, MovesTyped DEF PrepareTimer, Killed, TypeOK, HelperSteps
    <2>5. CASE Enable(r)
      BY <2>5, MovesTyped DEF Enable, AfterEnable, TypeOK, HelperSteps
    <2>6. CASE EnableRefused(r)
      BY <2>6, MovesTyped DEF EnableRefused, TypeOK, HelperSteps
    <2>7. CASE Disable(r)
      BY <2>7, MovesTyped DEF Disable, TypeOK, HelperSteps
    <2>8. CASE DisableRefused(r)
      BY <2>8, MovesTyped DEF DisableRefused, TypeOK, HelperSteps
    <2>9. CASE Unlink(r)
      BY <2>9, MovesTyped DEF Unlink, TypeOK, HelperSteps, HelperReloads
    <2>10. CASE UnlinkService(r)
      BY <2>10, MovesTyped DEF UnlinkService, TypeOK, HelperSteps, HelperReloads
    <2>11. CASE DaemonReload(r)
      <3>1. pc[r] \in HelperReloads
        BY <2>11 DEF DaemonReload
      <3>2. /\ AfterReload(r) \in HelperSteps \cup {"save", "delete", "done"}
            /\ AfterReload(r) \in {"read", "timer", "writeTimer", "reloadTimer", "enable"} => job[r].on
            /\ AfterReload(r) = "delete" => job[r].op = "delete"
        BY <3>1, ReloadStep DEF TypeOK
      <3>3. Proceed(r, AfterReload(r))
        BY <2>11 DEF DaemonReload
      <3>4. armed' \in [Schedules -> Valid \cup {None}]
        BY <2>11 DEF DaemonReload, Loaded, TypeOK
      <3> QED
        BY <2>11, <3>2, <3>3, <3>4, MovesTyped DEF DaemonReload, TypeOK
    <2>12. CASE HelperFails(r)
      BY <2>12, MovesTyped DEF HelperFails, TypeOK, HelperSteps
    <2> QED
      BY <1>2, <2>1, <2>2, <2>3, <2>4, <2>5, <2>6, <2>7, <2>8, <2>9, <2>10, <2>11,
         <2>12, <2>13, <2>14 DEF Helper
  <1>3. CASE Crash
    BY <1>3 DEF Crash, Interrupted, TypeOK, rowVars
  <1>4. CASE Reboot
    BY <1>4 DEF Reboot, Interrupted, Loaded, TypeOK, rowVars
  <1>5. CASE UNCHANGED vars
    BY <1>5 DEF vars, rowVars, unitVars, TypeOK
  <1> QED
    BY <1>1, <1>2, <1>3, <1>4, <1>5 DEF Next

\* Types; the steps on the timer are reached only for a schedule to be enabled
\* and the row is removed only by a delete.
THEOREM ScheduleTypeCorrect == Spec => []TypeOK
  BY TypeInit, TypeStep, PTL DEF Spec

-----------------------------------------------------------------------------
(* What is in force, without overlapping requests on one schedule.         *)

\* No two requests work on one schedule.
Alone ==
  \A q, r \in Requests :
    pc[q] # "idle" /\ pc[r] # "idle" /\ job[q].sched = job[r].sched => q = r

Removing ==
  {"disable", "unlink", "reloadUnlinked", "unlinkService", "reloadNoService"}

\* The timer runs by calendar c and does so after a reboot and a reload.
InPlace(s, c) ==
  /\ c \in Valid /\ file[s] = c /\ armed[s] = c
  /\ service[s] /\ wanted[s]

Off(s) == ~wanted[s] /\ armed[s] = None

\* Where a handler stands: its steps in order.
PlaceInv(r) ==
  LET j == job[r]
      s == job[r].sched
  IN /\ Present(s) /\ outcome[s] = "pending"
     /\ j.op = "create" => pc[r] \notin Removing \cup {"save", "delete"}
     /\ j.op = "update" => pc[r] \notin {"disableRow", "compensate", "delete"}
     /\ j.op = "delete" => pc[r] \in Removing \cup {"delete"}
     /\ pc[r] \in Removing \cup {"disableRow", "delete"} => ~j.on
     /\ j.op = "create" => calendar[s] = j.cal
     /\ j.op = "create" /\ pc[r] \notin {"disableRow", "compensate"} =>
          status[s] = IF j.on THEN "enabled" ELSE "disabled"

\* What the steps taken so far have achieved.
UnitInv(r) ==
  LET j == job[r]
      s == job[r].sched
  IN /\ ~j.on /\ pc[r] # "disable" => Off(s)
     /\ pc[r] \in {"service", "writeService", "reloadService", "read"} => staged[s] = j.cal
     /\ pc[r] \in {"timer", "writeTimer"} => body[r] = j.cal
     /\ pc[r] \in {"reloadTimer", "enable"} => file[s] = j.cal
     /\ pc[r] = "enable" => armed[s] \in {None, j.cal}
     /\ pc[r] = "save" /\ j.on => InPlace(s, j.cal)
     /\ j.op = "create" /\ pc[r] \in BeforeService => armed[s] = None
     /\ pc[r] \notin BeforeService => service[s] \/ armed[s] = None

JobInv(r) == pc[r] # "idle" => PlaceInv(r) /\ UnitInv(r)

SchedInv(s) ==
  /\ armed[s] # None => service[s] \/ outcome[s] \in {"pending", "failed"}
  /\ status[s] = "new" => Off(s)
  /\ armed[s] # None \/ wanted[s] => Present(s) \/ outcome[s] = "failed"
  /\ outcome[s] = "ok" =>
       IF status[s] = "enabled" THEN InPlace(s, calendar[s]) ELSE Off(s)

ForceInv ==
  /\ TypeOK /\ Alone
  /\ \A r \in Requests : JobInv(r)
  /\ \A s \in Schedules : SchedInv(s)

\* A step of request r on schedule s; reloads are everybody's.
Only(r, s) ==
  /\ \A q \in Requests \ {r} :
       pc'[q] = pc[q] /\ job'[q] = job[q] /\ body'[q] = body[q]
  /\ \A t \in Schedules \ {s} :
       /\ status'[t] = status[t] /\ calendar'[t] = calendar[t]
       /\ staged'[t] = staged[t] /\ service'[t] = service[t]
       /\ file'[t] = file[t] /\ wanted'[t] = wanted[t]
       /\ outcome'[t] = outcome[t]
       /\ \/ armed'[t] = armed[t]
          \/ armed'[t] = IF armed[t] = None THEN None ELSE Loaded(file[t])

\* Such a step need only be looked at for r and s.
LEMMA OneAtATime ==
  ASSUME ForceInv, TypeOK', NEW r \in Requests, NEW s \in Schedules, Only(r, s),
         \A q \in Requests \ {r} : pc[q] # "idle" => job[q].sched # s,
         pc'[r] # "idle" => job'[r].sched = s,
         JobInv(r)', SchedInv(s)'
  PROVE  ForceInv'
  <1>1. Alone'
    BY DEF ForceInv, Alone, Only
  <1>2. ASSUME NEW q \in Requests \ {r} PROVE JobInv(q)'
    <2>1. CASE pc[q] = "idle"
      BY <2>1 DEF Only, JobInv
    <2>2. CASE pc[q] # "idle"
      <3>1. job[q].sched \in Schedules \ {s}
        BY <2>2 DEF ForceInv, TypeOK, Jobs
      <3>2. PlaceInv(q) /\ UnitInv(q)
        BY <2>2 DEF ForceInv, JobInv
      <3>3. PlaceInv(q)'
        BY <3>1, <3>2 DEF Only, PlaceInv, Present
      <3>4. UnitInv(q)'
        BY <3>1, <3>2 DEF Only, UnitInv, Off, InPlace, Loaded
      <3> QED
        BY <3>3, <3>4 DEF JobInv
    <2> QED
      BY <2>1, <2>2
  <1>3. ASSUME NEW t \in Schedules \ {s} PROVE SchedInv(t)'
    BY ScheduleAssumption DEF Only, ForceInv, SchedInv, InPlace, Off, Loaded, Present
  <1> QED
    BY <1>1, <1>2, <1>3 DEF ForceInv

\* Where a step of the helper or a failure may take a request.
LEMMA Moves ==
  ASSUME ForceInv, NEW r \in Requests, pc[r] # "idle", NEW next,
         Proceed(r, next) \/ Fail(r)
  PROVE  LET s == job[r].sched IN
         /\ \A q \in Requests \ {r} : pc'[q] = pc[q] /\ job'[q] = job[q]
         /\ \A t \in Schedules \ {s} : outcome'[t] = outcome[t]
         /\ \/ /\ pc'[r] = "idle"
               /\ outcome'[s] \in {"ok", "failed"}
               /\ outcome'[s] = "ok" => Proceed(r, next) /\ next = "done"
            \/ /\ pc'[r] = next /\ next # "done" /\ Proceed(r, next)
               /\ job'[r] = job[r] /\ outcome'[s] = outcome[s]
            \/ /\ pc'[r] = "compensate"
               /\ job[r].op = "create" /\ pc[r] # "disableRow"
               /\ job'[r] = job[r] /\ outcome'[s] = outcome[s]
  <1>1. job[r].sched \in Schedules
    BY DEF ForceInv, TypeOK, Jobs
  <1>2. CASE Fail(r)
    BY <1>1, <1>2 DEF Fail, Goto, End, ForceInv, TypeOK
  <1>3. CASE Proceed(r, next)
    BY <1>1, <1>2, <1>3 DEF Proceed, Killed, Goto, End, ForceInv, TypeOK
  <1> QED
    BY <1>2, <1>3

\* The schedule of a request in flight, and what is known of the two.
LEMMA InFlight ==
  ASSUME ForceInv, NEW r \in Requests, pc[r] # "idle"
  PROVE  /\ job[r] \in Jobs
         /\ job[r].sched \in Schedules
         /\ job[r].op \in {"create", "update", "delete"}
         /\ job[r].on \in BOOLEAN
         /\ job[r].cal \in Calendars \cup {None}
         /\ PlaceInv(r) /\ UnitInv(r) /\ SchedInv(job[r].sched)
         /\ \A q \in Requests \ {r} :
              pc[q] # "idle" => job[q].sched # job[r].sched
  <1>1. job[r] \in Jobs
    BY DEF ForceInv, TypeOK
  <1> QED
    BY <1>1 DEF Jobs, ForceInv, JobInv, Alone

LEMMA BeginKeeps ==
  ASSUME ForceInv, TypeOK', ~Overlap, NEW r \in Requests,
         CreateSchedule(r) \/ BeginUpdate(r) \/ BeginDelete(r)
  PROVE  ForceInv'
  <1>1. PICK s \in Schedules, c \in Calendars \cup {None}, on \in BOOLEAN,
             op \in {"create", "update", "delete"},
             first \in {"stage", "disable", "disableRow"} :
          /\ Begin(r, [op |-> op, sched |-> s, cal |-> c, on |-> on], first)
          /\ \/ /\ op = "create" /\ status[s] = "new"
                /\ first = IF on THEN "stage" ELSE "disableRow"
                /\ status' = [status EXCEPT ![s] = "enabled"]
                /\ calendar' = [calendar EXCEPT ![s] = c]
             \/ /\ op = "update" /\ Present(s)
                /\ first = IF on THEN "stage" ELSE "disable"
                /\ UNCHANGED rowVars
             \/ /\ op = "delete" /\ Present(s) /\ ~on
                /\ first = "disable"
                /\ UNCHANGED rowVars
    BY DEF CreateSchedule, BeginUpdate, BeginDelete
  <1>2. /\ pc' = [pc EXCEPT ![r] = first] /\ pc'[r] = first
        /\ job'[r] = [op |-> op, sched |-> s, cal |-> c, on |-> on]
        /\ \A q \in Requests \ {r} : job'[q] = job[q]
        /\ outcome' = [outcome EXCEPT ![s] = "pending"]
        /\ UNCHANGED <<unitVars, body>>
        /\ \A q \in Requests : pc[q] # "idle" => job[q].sched # s
    BY <1>1 DEF Begin, ForceInv, TypeOK, Busy
  <1>3. Only(r, s)
    BY <1>1, <1>2 DEF Only, rowVars, unitVars, ForceInv, TypeOK
  <1>4. SchedInv(s)
    BY DEF ForceInv
  <1>5. PlaceInv(r)'
    BY <1>1, <1>2 DEF PlaceInv, Present, Removing, rowVars, ForceInv, TypeOK
  <1>6. UnitInv(r)'
    BY <1>1, <1>2, <1>4 DEF UnitInv, SchedInv, Off, BeforeService, unitVars
  <1>7. SchedInv(s)'
    BY <1>1, <1>2, <1>4 DEF SchedInv, Off, Present, rowVars, unitVars, ForceInv, TypeOK
  <1> QED
    BY <1>2, <1>3, <1>5, <1>6, <1>7, OneAtATime DEF JobInv

LEMMA StoreKeeps ==
  ASSUME ForceInv, TypeOK', NEW r \in Requests,
         DisableRow(r) \/ UpdateSchedule(r) \/ DeleteSchedule(r) \/ StoreFails(r)
  PROVE  ForceInv'
  <1>0. pc[r] # "idle"
    BY DEF DisableRow, UpdateSchedule, DeleteSchedule, StoreFails, StoreSteps
  <1>1. PICK s \in Schedules :
        /\ s = job[r].sched
        /\ job[r].op \in {"create", "update", "delete"}
        /\ PlaceInv(r) /\ UnitInv(r) /\ SchedInv(s)
        /\ \A q \in Requests \ {r} : pc[q] # "idle" => job[q].sched # s
    BY <1>0, InFlight
  <1>2. CASE DisableRow(r)
    <2>1. /\ Only(r, s) /\ pc'[r] = "stage" /\ job'[r] = job[r]
          /\ outcome' = outcome /\ calendar' = calendar /\ UNCHANGED unitVars
          /\ status'[s] = "disabled"
      BY <1>1, <1>2 DEF DisableRow, Goto, Only, unitVars, ForceInv, TypeOK
    <2>2. JobInv(r)' /\ job'[r].sched = s
      BY <1>1, <1>2, <2>1
      DEF DisableRow, JobInv, PlaceInv, UnitInv, BeforeService, Present, Removing, Off, unitVars
    <2>3. SchedInv(s)'
      BY <1>1, <2>1 DEF SchedInv, PlaceInv, Present, unitVars
    <2> QED
      BY <1>1, <2>1, <2>2, <2>3, OneAtATime
  <1>3. CASE UpdateSchedule(r)
    <2>1. /\ Only(r, s) /\ pc'[r] = "idle" /\ UNCHANGED unitVars
          /\ job[r].op = "update" /\ pc[r] = "save" /\ Present(s)
          /\ calendar'[s] = job[r].cal
          /\ status'[s] = IF job[r].on THEN "enabled" ELSE "disabled"
      BY <1>1, <1>3
      DEF UpdateSchedule, PlaceInv, Removing, End, Only, unitVars, ForceInv, TypeOK
    <2>2. SchedInv(s)'
      BY <1>1, <2>1 DEF SchedInv, UnitInv, Present, Off, InPlace, unitVars
    <2> QED
      BY <1>1, <2>1, <2>2, OneAtATime DEF JobInv
  <1>4. CASE DeleteSchedule(r)
    <2>1. /\ Only(r, s) /\ pc'[r] = "idle" /\ UNCHANGED unitVars
          /\ status'[s] = "deleted"
          /\ \/ pc[r] = "delete" /\ outcome'[s] = "ok"
             \/ pc[r] = "compensate" /\ outcome'[s] = "failed"
      BY <1>1, <1>4 DEF DeleteSchedule, End, Only, unitVars, ForceInv, TypeOK
    <2>2. SchedInv(s)'
      BY <1>1, <2>1 DEF SchedInv, PlaceInv, UnitInv, Present, Off, unitVars
    <2> QED
      BY <1>1, <2>1, <2>2, OneAtATime DEF JobInv
  <1>5. CASE StoreFails(r)
    <2>1. /\ Only(r, s) /\ pc'[r] = "idle" /\ UNCHANGED <<rowVars, unitVars>>
          /\ outcome'[s] = "failed"
      BY <1>1, <1>5 DEF StoreFails, End, Only, rowVars, unitVars, ForceInv, TypeOK
    <2>2. SchedInv(s)'
      BY <1>1, <2>1 DEF SchedInv, Present, Off, rowVars, unitVars
    <2> QED
      BY <1>1, <2>1, <2>2, OneAtATime DEF JobInv
  <1> QED
    BY <1>2, <1>3, <1>4, <1>5

-----------------------------------------------------------------------------
(* The helper's steps.                                                     *)

\* A step of the helper for request r on schedule s: rows and other schedules
\* are left alone, and of a new schedule the service is behind the timer.
UnitsOnly(r, s) ==
  /\ UNCHANGED rowVars
  /\ \A q \in Requests \ {r} : body'[q] = body[q]
  /\ \A t \in Schedules \ {s} :
       /\ staged'[t] = staged[t] /\ service'[t] = service[t]
       /\ file'[t] = file[t] /\ wanted'[t] = wanted[t]
       /\ \/ armed'[t] = armed[t]
          \/ armed'[t] = IF armed[t] = None THEN None ELSE Loaded(file[t])
  /\ job[r].op = "create" /\ armed'[s] # None => service'[s]

\* What is left to show of such a step: a create of a disabled schedule leaves the timer off, and the step's
\* successor, where it has one, finds what it relies on.
LEMMA HelperStep ==
  ASSUME ForceInv, TypeOK', NEW r \in Requests, pc[r] # "idle",
         NEW s \in Schedules, s = job[r].sched,
         NEW next, Proceed(r, next) \/ Fail(r),
         UnitsOnly(r, s),
         job[r].op = "create" /\ ~job[r].on => Off(s)',
         Proceed(r, next) /\ next = "done" =>
           IF status[s] = "enabled" THEN InPlace(s, calendar[s])' ELSE Off(s)',
         Proceed(r, next) /\ pc'[r] = next /\ next # "done"
           /\ job'[r] = job[r] /\ outcome'[s] = "pending" => JobInv(r)'
  PROVE  ForceInv'
  <1>1. /\ PlaceInv(r) /\ UnitInv(r) /\ SchedInv(s)
        /\ \A q \in Requests \ {r} : pc[q] # "idle" => job[q].sched # s
    BY InFlight
  <1>2. /\ \A q \in Requests \ {r} : pc'[q] = pc[q] /\ job'[q] = job[q]
        /\ \A t \in Schedules \ {s} : outcome'[t] = outcome[t]
        /\ \/ /\ pc'[r] = "idle"
              /\ outcome'[s] \in {"ok", "failed"}
              /\ outcome'[s] = "ok" => Proceed(r, next) /\ next = "done"
           \/ /\ pc'[r] = next /\ next # "done" /\ Proceed(r, next)
              /\ job'[r] = job[r] /\ outcome'[s] = outcome[s]
           \/ /\ pc'[r] = "compensate"
              /\ job[r].op = "create" /\ pc[r] # "disableRow"
              /\ job'[r] = job[r] /\ outcome'[s] = outcome[s]
    BY Moves
  <1>3. Only(r, s)
    BY <1>2 DEF Only, UnitsOnly, rowVars
  <1>4. outcome[s] = "pending" /\ Present(s) /\ Present(s)'
    BY <1>1 DEF PlaceInv, Present, UnitsOnly, rowVars
  <1>5. SchedInv(s)'
    BY <1>2, <1>4 DEF SchedInv, Present, InPlace, Off, UnitsOnly, rowVars
  <1>6. JobInv(r)' /\ (pc'[r] # "idle" => job'[r].sched = s)
    <2>1. CASE pc'[r] = "idle"
      BY <2>1 DEF JobInv
    <2>2. CASE pc'[r] = next /\ next # "done" /\ Proceed(r, next)
               /\ job'[r] = job[r] /\ outcome'[s] = outcome[s]
      BY <1>4, <2>2
    <2>3. CASE /\ pc'[r] = "compensate" /\ job[r].op = "create"
               /\ job'[r] = job[r] /\ outcome'[s] = outcome[s]
      <3>1. PlaceInv(r)'
        BY <1>1, <1>4, <2>3 DEF PlaceInv, Removing, UnitsOnly, rowVars
      <3>2. UnitInv(r)'
        BY <2>3 DEF UnitInv, BeforeService, UnitsOnly
      <3> QED
        BY <2>3, <3>1, <3>2 DEF JobInv
    <2> QED
      BY <1>2, <2>1, <2>2, <2>3
  <1> QED
    BY <1>1, <1>3, <1>5, <1>6, OneAtATime

\* A step the helper reports as failed has no successor but the compensation.
LEMMA FailStep ==
  ASSUME ForceInv, TypeOK', NEW r \in Requests, pc[r] # "idle",
         NEW s \in Schedules, s = job[r].sched, Fail(r), UnitsOnly(r, s),
         job[r].op = "create" /\ ~job[r].on => Off(s)'
  PROVE  ForceInv'
  <1>1. pc'[r] = "idle" => JobInv(r)'
    BY DEF JobInv
  <1> DEFINE next == "idle"
  <1>2. /\ Proceed(r, next) \/ Fail(r)
        /\ next # "done"
        /\ pc'[r] = next => JobInv(r)'
    BY <1>1
  <1> HIDE DEF next
  <1> QED
    BY <1>2, HelperStep

LEMMA InstallKeeps ==
  ASSUME ForceInv, TypeOK', NEW r \in Requests,
         \/ Stage(r) \/ PrepareService(r) \/ InstallService(r)
         \/ ReadStaged(r) \/ PrepareTimer(r) \/ InstallTimer(r)
         \/ Enable(r) \/ EnableRefused(r)
  PROVE  ForceInv'
  <1>0. pc[r] # "idle"
    BY DEF Stage, PrepareService, InstallService, ReadStaged, PrepareTimer, InstallTimer,
       Enable, EnableRefused
  <1>1. PICK s \in Schedules :
        /\ s = job[r].sched
        /\ job[r].op \in {"create", "update", "delete"}
        /\ job[r].on \in BOOLEAN /\ job[r].cal \in Calendars \cup {None}
        /\ PlaceInv(r) /\ UnitInv(r) /\ SchedInv(s)
    BY <1>0, InFlight
  <1>2. CASE Stage(r)
    <2>1. /\ pc[r] = "stage" /\ Proceed(r, "service")
          /\ staged' = [staged EXCEPT ![s] = job[r].cal]
          /\ UNCHANGED <<rowVars, service, file, wanted, armed, body>>
      BY <1>1, <1>2 DEF Stage
    <2>2. ASSUME pc'[r] = "service", job'[r] = job[r], outcome'[s] = "pending"
          PROVE  JobInv(r)'
      BY <1>1, <2>1, <2>2
      DEF JobInv, PlaceInv, UnitInv, BeforeService, Removing, Present, Off, rowVars, ForceInv, TypeOK
    <2>3. job[r].op = "create" /\ ~job[r].on => Off(s)'
      BY <1>1, <2>1 DEF UnitInv, Off
    <2>4. UnitsOnly(r, s)
      BY <1>1, <2>1 DEF UnitsOnly, PlaceInv, UnitInv, BeforeService, Removing, SchedInv, rowVars, ForceInv, TypeOK
    <2> QED
      BY <1>0, <1>1, <2>1, <2>2, <2>3, <2>4, HelperStep
  <1>8. CASE PrepareService(r)
    <2>1. /\ pc[r] = "service" /\ Proceed(r, "writeService")
          /\ service' = [service EXCEPT ![s] = FALSE]
          /\ UNCHANGED <<rowVars, staged, file, wanted, armed, body>>
      BY <1>1, <1>8 DEF PrepareService
    <2>2. ASSUME pc'[r] = "writeService", job'[r] = job[r], outcome'[s] = "pending"
          PROVE  JobInv(r)'
      BY <1>1, <2>1, <2>2
      DEF JobInv, PlaceInv, UnitInv, BeforeService, Removing, Present, Off, rowVars, ForceInv, TypeOK
    <2>3. job[r].op = "create" /\ ~job[r].on => Off(s)'
      BY <1>1, <2>1 DEF UnitInv, Off
    <2>4. UnitsOnly(r, s)
      <3>1. job[r].op = "create" => armed'[s] = None
        BY <1>1, <2>1 DEF UnitInv, BeforeService
      <3>2. \A t \in Schedules \ {s} : service'[t] = service[t]
        BY <2>1 DEF ForceInv, TypeOK
      <3> QED
        BY <2>1, <3>1, <3>2, Zenon DEF UnitsOnly
    <2> QED
      BY <1>0, <1>1, <2>1, <2>2, <2>3, <2>4, HelperStep
  <1>3. CASE InstallService(r)
    <2>1. /\ pc[r] = "writeService" /\ Proceed(r, "reloadService")
          /\ service' = [service EXCEPT ![s] = TRUE]
          /\ UNCHANGED <<rowVars, staged, file, wanted, armed, body>>
      BY <1>1, <1>3 DEF InstallService
    <2>2. ASSUME pc'[r] = "reloadService", job'[r] = job[r], outcome'[s] = "pending"
          PROVE  JobInv(r)'
      BY <1>1, <2>1, <2>2
      DEF JobInv, PlaceInv, UnitInv, BeforeService, Removing, Present, Off, rowVars, ForceInv, TypeOK
    <2>3. job[r].op = "create" /\ ~job[r].on => Off(s)'
      BY <1>1, <2>1 DEF UnitInv, Off
    <2>4. UnitsOnly(r, s)
      <3>1. service'[s]
        BY <2>1 DEF ForceInv, TypeOK
      <3>2. \A t \in Schedules \ {s} : service'[t] = service[t]
        BY <2>1 DEF ForceInv, TypeOK
      <3> QED
        BY <2>1, <3>1, <3>2, Zenon DEF UnitsOnly
    <2> QED
      BY <1>0, <1>1, <2>1, <2>2, <2>3, <2>4, HelperStep
  <1>4. CASE ReadStaged(r)
    <2>1. /\ pc[r] = "read" /\ Proceed(r, "timer")
          /\ body' = [body EXCEPT ![r] = staged[s]]
          /\ UNCHANGED <<rowVars, unitVars>>
      BY <1>1, <1>4 DEF ReadStaged, Proceed
    <2>2. ASSUME pc'[r] = "timer", job'[r] = job[r], outcome'[s] = "pending"
          PROVE  JobInv(r)'
      BY <1>1, <2>1, <2>2
      DEF JobInv, PlaceInv, UnitInv, BeforeService, Removing, Present, Off, rowVars, unitVars, ForceInv, TypeOK
    <2>3. job[r].op = "create" /\ ~job[r].on => Off(s)'
      BY <1>1, <2>1 DEF UnitInv, Off, unitVars
    <2>4. UnitsOnly(r, s)
      BY <1>1, <2>1 DEF UnitsOnly, PlaceInv, UnitInv, BeforeService, Removing, SchedInv, rowVars, unitVars, ForceInv, TypeOK
    <2> QED
      BY <1>0, <1>1, <2>1, <2>2, <2>3, <2>4, HelperStep
  <1>9. CASE PrepareTimer(r)
    <2>1. /\ pc[r] = "timer" /\ Proceed(r, "writeTimer")
          /\ file' = [file EXCEPT ![s] = None]
          /\ UNCHANGED <<rowVars, staged, service, wanted, armed>>
      BY <1>1, <1>9 DEF PrepareTimer, Proceed
    <2>2. ASSUME pc'[r] = "writeTimer", job'[r] = job[r], outcome'[s] = "pending"
          PROVE  JobInv(r)'
      <3>1. body' = body
        BY <1>9, <2>1, <2>2 DEF PrepareTimer, Killed, Fail, Goto, End, ForceInv, TypeOK
      <3> QED BY <1>1, <2>1, <2>2, <3>1
      DEF JobInv, PlaceInv, UnitInv, BeforeService, Removing, Present, Off, rowVars, ForceInv, TypeOK
    <2>3. job[r].op = "create" /\ ~job[r].on => Off(s)'
      BY <1>1, <2>1 DEF UnitInv, Off
    <2>4. UnitsOnly(r, s)
      <3>1. \A q \in Requests \ {r} : body'[q] = body[q]
        BY <1>9 DEF PrepareTimer, ForceInv, TypeOK
      <3>2. \A t \in Schedules \ {s} : file'[t] = file[t]
        BY <2>1 DEF ForceInv, TypeOK
      <3>3. job[r].op = "create" /\ armed'[s] # None => service'[s]
        BY <1>1, <2>1 DEF UnitInv, BeforeService
      <3> QED
        BY <2>1, <3>1, <3>2, <3>3, Zenon DEF UnitsOnly
    <2> QED
      BY <1>0, <1>1, <2>1, <2>2, <2>3, <2>4, HelperStep
  <1>5. CASE InstallTimer(r)
    <2>1. /\ pc[r] = "writeTimer" /\ Proceed(r, "reloadTimer")
          /\ file' = [file EXCEPT ![s] = body[r]]
          /\ body' = [body EXCEPT ![r] = None]
          /\ UNCHANGED <<rowVars, staged, service, wanted, armed>>
      BY <1>1, <1>5 DEF InstallTimer
    <2>2. ASSUME pc'[r] = "reloadTimer", job'[r] = job[r], outcome'[s] = "pending"
          PROVE  JobInv(r)'
      BY <1>1, <2>1, <2>2
      DEF JobInv, PlaceInv, UnitInv, BeforeService, Removing, Present, Off, rowVars, ForceInv, TypeOK
    <2>3. job[r].op = "create" /\ ~job[r].on => Off(s)'
      BY <1>1, <2>1 DEF UnitInv, Off
    <2>4. UnitsOnly(r, s)
      BY <1>1, <2>1 DEF UnitsOnly, PlaceInv, UnitInv, BeforeService, Removing, SchedInv, rowVars, ForceInv, TypeOK
    <2> QED
      BY <1>0, <1>1, <2>1, <2>2, <2>3, <2>4, HelperStep
  <1>6. CASE Enable(r)
    <2>1. /\ pc[r] = "enable" /\ Proceed(r, AfterEnable(job[r])) /\ job[r].on
          /\ wanted' = [wanted EXCEPT ![s] = TRUE]
          /\ armed' = [armed EXCEPT ![s] = IF @ = None THEN file[s] ELSE @]
          /\ file[s] \in Valid /\ service[s]
          /\ UNCHANGED <<rowVars, staged, service, file, body>>
      BY <1>1, <1>6 DEF Enable, ForceInv, TypeOK
    <2>2. PICK c \in Valid : c = job[r].cal /\ InPlace(s, c)'
      BY <1>1, <2>1 DEF UnitInv, InPlace, ForceInv, TypeOK
    <2>3. AfterEnable(job[r]) = "done" => status[s] = "enabled" /\ calendar[s] = c
      BY <1>1, <2>1, <2>2 DEF AfterEnable, PlaceInv
    <2>4. ASSUME pc'[r] = AfterEnable(job[r]), AfterEnable(job[r]) # "done",
                 job'[r] = job[r], outcome'[s] = "pending"
          PROVE  JobInv(r)'
      BY <1>1, <2>1, <2>2, <2>4
      DEF AfterEnable, JobInv, PlaceInv, UnitInv, BeforeService, Removing, Present, rowVars
    <2>5. /\ AfterEnable(job[r]) = "done" =>
               IF status[s] = "enabled" THEN InPlace(s, calendar[s])' ELSE Off(s)'
          /\ job[r].op = "create" /\ ~job[r].on => Off(s)'
      BY <2>1, <2>2, <2>3 DEF InPlace, rowVars
    <2>6. UnitsOnly(r, s)
      <3>1. /\ service' = service /\ service[s]
            /\ UNCHANGED <<rowVars, staged, file, body>>
        BY <2>1
      <3>2. \A t \in Schedules \ {s} : wanted'[t] = wanted[t] /\ armed'[t] = armed[t]
        BY <2>1 DEF ForceInv, TypeOK
      <3> QED
        BY <3>1, <3>2, Zenon DEF UnitsOnly
    <2> QED
      BY <1>0, <1>1, <2>1, <2>4, <2>5, <2>6, HelperStep
  <1>7. CASE EnableRefused(r)
    <2>1. /\ pc[r] = "enable" /\ Fail(r) /\ job[r].on
          /\ wanted' = [wanted EXCEPT ![s] = file[s] # None]
          /\ UNCHANGED <<rowVars, staged, service, file, armed, body>>
      BY <1>1, <1>7 DEF EnableRefused, ForceInv, TypeOK
    <2>2. UnitsOnly(r, s)
      BY <1>1, <2>1 DEF UnitsOnly, PlaceInv, UnitInv, BeforeService, Removing, SchedInv, rowVars, ForceInv, TypeOK
    <2> QED
      BY <1>0, <1>1, <2>1, <2>2, FailStep
  <1> QED
    BY <1>2, <1>3, <1>4, <1>5, <1>6, <1>7, <1>8, <1>9

LEMMA RemoveKeeps ==
  ASSUME ForceInv, TypeOK', NEW r \in Requests,
         \/ Disable(r) \/ DisableRefused(r) \/ Unlink(r) \/ UnlinkService(r)
         \/ HelperFails(r)
  PROVE  ForceInv'
  <1>0. pc[r] # "idle"
    BY DEF Disable, DisableRefused, Unlink, UnlinkService, HelperFails,
       HelperSteps, HelperReloads
  <1>1. PICK s \in Schedules :
        /\ s = job[r].sched
        /\ job[r].op \in {"create", "update", "delete"}
        /\ job[r].on \in BOOLEAN
        /\ PlaceInv(r) /\ UnitInv(r) /\ SchedInv(s)
    BY <1>0, InFlight
  <1>2. CASE Disable(r)
    <2>1. /\ pc[r] = "disable" /\ Proceed(r, "unlink")
          /\ Off(s)' /\ ~job[r].on
          /\ UNCHANGED <<rowVars, staged, service, file, body>>
      BY <1>1, <1>2 DEF Disable, Off, PlaceInv, Removing, ForceInv, TypeOK
    <2>2. ASSUME pc'[r] = "unlink", job'[r] = job[r], outcome'[s] = "pending"
          PROVE  JobInv(r)'
      BY <1>1, <2>1, <2>2
      DEF JobInv, PlaceInv, UnitInv, BeforeService, Off, Removing, Present, rowVars
    <2>3. UnitsOnly(r, s)
      <3>1. /\ wanted' = [wanted EXCEPT ![s] = FALSE]
            /\ armed' = [armed EXCEPT ![s] = None]
            /\ UNCHANGED <<rowVars, staged, service, file, body>>
        BY <1>1, <1>2 DEF Disable
      <3>2. armed'[s] = None
        BY <1>1, <3>1 DEF ForceInv, TypeOK
      <3> QED BY <3>1, <3>2 DEF UnitsOnly, ForceInv, TypeOK
    <2> QED
      BY <1>0, <1>1, <2>1, <2>2, <2>3, HelperStep
  <1>3. CASE DisableRefused(r)
    <2>1. /\ Fail(r) /\ pc[r] = "disable"
          /\ UNCHANGED <<rowVars, staged, service, file, wanted, armed, body>>
      BY <1>3 DEF DisableRefused, unitVars
    <2>2. UnitsOnly(r, s)
      BY <1>1, <2>1 DEF UnitsOnly, PlaceInv, UnitInv, BeforeService, Removing, SchedInv
    <2>3. job[r].op # "create"
      BY <1>1, <2>1 DEF PlaceInv, Removing
    <2> QED
      BY <1>0, <1>1, <2>1, <2>2, <2>3, FailStep
  <1>4. CASE Unlink(r)
    <2>1. /\ pc[r] = "unlink" /\ Proceed(r, "reloadUnlinked")
          /\ file' = [file EXCEPT ![s] = None]
          /\ Off(s)' /\ ~job[r].on
          /\ UNCHANGED <<rowVars, staged, service, wanted, armed, body>>
      BY <1>1, <1>4 DEF Unlink, Off, PlaceInv, UnitInv, Removing
    <2>2. ASSUME pc'[r] = "reloadUnlinked", job'[r] = job[r], outcome'[s] = "pending"
          PROVE  JobInv(r)'
      BY <1>1, <2>1, <2>2
      DEF JobInv, PlaceInv, UnitInv, BeforeService, Removing, Present, rowVars
    <2>3. UnitsOnly(r, s)
      BY <1>1, <2>1 DEF UnitsOnly, PlaceInv, Removing, Off, ForceInv, TypeOK
    <2> QED
      BY <1>0, <1>1, <2>1, <2>2, <2>3, HelperStep
  <1>5. CASE UnlinkService(r)
    <2>1. /\ pc[r] = "unlinkService" /\ Proceed(r, "reloadNoService")
          /\ service' = [service EXCEPT ![s] = FALSE]
          /\ Off(s)' /\ ~job[r].on
          /\ UNCHANGED <<rowVars, staged, file, wanted, armed, body>>
      BY <1>1, <1>5 DEF UnlinkService, Off, PlaceInv, UnitInv, Removing
    <2>2. ASSUME pc'[r] = "reloadNoService", job'[r] = job[r], outcome'[s] = "pending"
          PROVE  JobInv(r)'
      BY <1>1, <2>1, <2>2
      DEF JobInv, PlaceInv, UnitInv, BeforeService, Off, Removing, Present, rowVars
    <2>3. UnitsOnly(r, s)
      <3>1. armed'[s] = None
        BY <2>1 DEF Off
      <3>2. \A t \in Schedules \ {s} : service'[t] = service[t]
        BY <2>1 DEF ForceInv, TypeOK
      <3> QED
        BY <2>1, <3>1, <3>2, Zenon DEF UnitsOnly
    <2> QED
      BY <1>0, <1>1, <2>1, <2>2, <2>3, HelperStep
  <1>6. CASE HelperFails(r)
    <2>1. /\ Fail(r) /\ body' = [body EXCEPT ![r] = None]
          /\ UNCHANGED <<rowVars, staged, service, file, wanted, armed>>
      BY <1>6 DEF HelperFails, unitVars
    <2>2. UnitsOnly(r, s)
      BY <1>1, <2>1 DEF UnitsOnly, PlaceInv, UnitInv, BeforeService, Removing, SchedInv, ForceInv, TypeOK
    <2>3. job[r].op = "create" /\ ~job[r].on => Off(s)'
      BY <1>1, <2>1 DEF PlaceInv, UnitInv, Removing, Off
    <2> QED
      BY <1>0, <1>1, <2>1, <2>2, <2>3, FailStep
  <1> QED
    BY <1>2, <1>3, <1>4, <1>5, <1>6

LEMMA ReloadKeeps ==
  ASSUME ForceInv, TypeOK', NEW r \in Requests, DaemonReload(r)
  PROVE  ForceInv'
  <1>1. /\ pc[r] \in HelperReloads /\ pc[r] # "idle"
        /\ Proceed(r, AfterReload(r))
        /\ armed' = [t \in Schedules |->
                       IF armed[t] = None THEN None ELSE Loaded(file[t])]
        /\ UNCHANGED <<rowVars, staged, service, file, wanted, body>>
    BY DEF DaemonReload, HelperReloads
  <1>2. PICK s \in Schedules :
        /\ s = job[r].sched
        /\ job[r].op \in {"create", "update", "delete"}
        /\ job[r].on \in BOOLEAN
        /\ PlaceInv(r) /\ UnitInv(r) /\ SchedInv(s)
    BY <1>1, InFlight
  <1>3. UnitsOnly(r, s)
    BY <1>1, <1>2 DEF UnitsOnly, PlaceInv, UnitInv, BeforeService, Removing, SchedInv
  <1>4. Off(s) => Off(s)'
    BY <1>1 DEF Off
  <1>5. job[r].op = "create" /\ ~job[r].on => Off(s)'
    BY <1>1, <1>2, <1>4 DEF PlaceInv, UnitInv, Removing
  <1>6. AfterReload(r) = "done" =>
          IF status[s] = "enabled" THEN InPlace(s, calendar[s])' ELSE Off(s)'
    <2>1. AfterReload(r) = "done" => job[r].op = "create" /\ ~job[r].on
      BY <1>1, ReloadStep DEF ForceInv
    <2> QED
      BY <1>1, <1>2, <1>5, <2>1 DEF PlaceInv, HelperReloads
  <1>7. ASSUME pc'[r] = AfterReload(r), AfterReload(r) # "done",
               job'[r] = job[r], outcome'[s] = "pending"
        PROVE  JobInv(r)'
    <2>1. CASE pc[r] = "reloadService"
      BY <1>1, <1>2, <1>4, <1>7, <2>1
      DEF AfterReload, AfterEnable, JobInv, PlaceInv, UnitInv, BeforeService, Removing, Present, rowVars
    <2>2. CASE pc[r] = "reloadTimer"
      <3>1. armed'[s] \in {None, job[r].cal}
        BY <1>1, <1>2, <2>2 DEF UnitInv, Loaded
      <3> QED
        BY <1>1, <1>2, <1>4, <1>7, <2>2, <3>1
        DEF AfterReload, JobInv, PlaceInv, UnitInv, BeforeService, Removing, Present, rowVars
    <2>3. CASE pc[r] = "reloadUnlinked"
      BY <1>1, <1>2, <1>4, <1>7, <2>3
      DEF AfterReload, JobInv, PlaceInv, UnitInv, BeforeService, Removing, Present, rowVars
    <2>4. CASE pc[r] = "reloadNoService"
      BY <1>1, <1>2, <1>4, <1>7, <2>4
      DEF AfterReload, JobInv, PlaceInv, UnitInv, BeforeService, Removing, Present, rowVars
    <2> QED
      BY <1>1, <2>1, <2>2, <2>3, <2>4 DEF HelperReloads
  <1> QED
    BY <1>1, <1>2, <1>3, <1>5, <1>6, <1>7, HelperStep

-----------------------------------------------------------------------------
(* Restarts, and the theorems.                                             *)

LEMMA InterruptedKeeps ==
  ASSUME ForceInv, TypeOK', Interrupted,
         \/ UNCHANGED armed
         \/ armed' = [s \in Schedules |->
                        IF wanted[s] /\ service[s] THEN Loaded(file[s]) ELSE None]
  PROVE  ForceInv'
  <1>1. \A r \in Requests : pc'[r] = "idle"
    BY DEF Interrupted
  <1>2. Alone' /\ \A r \in Requests : JobInv(r)'
    BY <1>1 DEF Alone, JobInv
  <1>3. ASSUME NEW s \in Schedules PROVE SchedInv(s)'
    <2>1. SchedInv(s) /\ outcome'[s] \in {"failed", outcome[s]}
      BY DEF ForceInv, Interrupted
    <2>2. UNCHANGED <<rowVars, staged, service, file, wanted>>
      BY DEF Interrupted
    <2>3. \/ armed'[s] = armed[s]
          \/ armed'[s] = IF wanted[s] /\ service[s] THEN Loaded(file[s]) ELSE None
      OBVIOUS
    <2>4. armed'[s] # None =>
            /\ service'[s] \/ outcome'[s] \in {"pending", "failed"}
            /\ armed[s] # None \/ wanted[s]
      BY <2>1, <2>2, <2>3 DEF SchedInv
    <2>5. Off(s) => Off(s)'
      BY <2>2, <2>3 DEF Off
    <2>6. ASSUME NEW c, InPlace(s, c)
          PROVE  InPlace(s, c)'
      BY <2>2, <2>3, <2>6 DEF InPlace, Loaded
    <2> QED
      BY <2>1, <2>2, <2>4, <2>5, <2>6 DEF SchedInv, Present, rowVars
  <1> QED
    BY <1>2, <1>3 DEF ForceInv

LEMMA ForceInit == Init => ForceInv
  <1> SUFFICES ASSUME Init PROVE ForceInv
    OBVIOUS
  <1>1. Alone /\ \A r \in Requests : JobInv(r)
    BY DEF Init, Alone, JobInv
  <1>2. \A s \in Schedules : SchedInv(s)
    BY DEF Init, SchedInv, Off
  <1> QED
    BY <1>1, <1>2, TypeInit DEF ForceInv

LEMMA ForceStep == ~Overlap /\ ForceInv /\ [Next]_vars => ForceInv'
  <1> SUFFICES ASSUME ~Overlap, ForceInv, [Next]_vars PROVE ForceInv'
    OBVIOUS
  <1>0. TypeOK'
    BY TypeStep DEF ForceInv
  <1>1. ASSUME NEW r \in Requests, Handler(r) PROVE ForceInv'
    BY <1>0, <1>1, BeginKeeps, StoreKeeps DEF Handler
  <1>2. ASSUME NEW r \in Requests, Helper(r) PROVE ForceInv'
    BY <1>0, <1>2, InstallKeeps, RemoveKeeps, ReloadKeeps DEF Helper
  <1>3. CASE Crash \/ Reboot
    BY <1>0, <1>3, InterruptedKeeps DEF Crash, Reboot
  <1>4. CASE UNCHANGED vars
    BY <1>0, <1>4 DEF ForceInv, Alone, JobInv, PlaceInv, UnitInv, SchedInv, InPlace,
       Off, Present, vars, rowVars, unitVars
  <1> QED
    BY <1>1, <1>2, <1>3, <1>4 DEF Next

LEMMA ForceInvariant == ~Overlap => (Spec => []ForceInv)
  <1> SUFFICES ASSUME ~Overlap PROVE Spec => []ForceInv
    OBVIOUS
  <1>1. ForceInv /\ [Next]_vars => ForceInv'
    BY ForceStep
  <1> QED
    BY <1>1, ForceInit, PTL DEF Spec

\* Where the requests on one schedule do not overlap, an acknowledged request
\* leaves the timer as the row says, until the next one begins.
THEOREM AcknowledgedInForceCorrect ==
  ~Overlap => (Spec => []AcknowledgedInForce)
  <1>1. ForceInv => AcknowledgedInForce
    BY DEF ForceInv, SchedInv, InPlace, Off, AcknowledgedInForce
  <1> QED
    BY <1>1, ForceInvariant, PTL

\* Where they do not, a timer runs without its service only while that is
\* replaced or after a request that failed or was cut off there.
THEOREM ServiceBehindTimerCorrect ==
  ~Overlap => (Spec => []ServiceBehindTimer)
  <1>1. ForceInv => ServiceBehindTimer
    BY DEF ForceInv, JobInv, UnitInv, SchedInv, ServiceBehindTimer
  <1> QED
    BY <1>1, ForceInvariant, PTL

\* Where they do not, a timer without a row is left behind by a request that
\* was answered with an error or cut off.
THEOREM OrphansAreAnsweredCorrect ==
  ~Overlap => (Spec => []OrphansAreAnswered)
  <1>1. ForceInv => OrphansAreAnswered
    BY DEF ForceInv, SchedInv, OrphansAreAnswered
  <1> QED
    BY <1>1, ForceInvariant, PTL

\* Both together: a timer that runs is backed by its service and its row, or an
\* administrator was told of the request that left it so, or one is mending it.
THEOREM TimersBackedCorrect == ~Overlap => (Spec => []TimersBacked)
  BY ServiceBehindTimerCorrect, OrphansAreAnsweredCorrect, PTL DEF TimersBacked
=============================================================================
