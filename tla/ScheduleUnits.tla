---------------------------- MODULE ScheduleUnits ----------------------------
(***************************************************************************)
(* Schedules: a row in the database and its counterpart in systemd, a      *)
(* service file and a timer.  A handler changes the two in separate steps, *)
(* the units through a privileged helper that writes files and calls       *)
(* systemctl.  Nothing reconciles them afterwards.                         *)
(***************************************************************************)
EXTENDS Naturals

CONSTANTS
  Schedules,
  Requests,   \* requests an administrator may have in flight
  Calendars,  \* values of on_calendar that pass validateScheduleSpec
  Valid,      \* those of them systemd understands
  None,       \* no calendar
  NoJob,      \* no request
  Overlap,    \* requests on one schedule may overlap
  Faults      \* which failures happen: see FaultKinds

FaultKinds == {"crash",   \* the daemon stops and starts again
               "reboot",  \* the host does
               "db",      \* a store call fails
               "helper",  \* staging, the helper or systemctl fails
               "killed"}  \* the helper is killed, its request cancelled, when
                          \* the step is done already

Jobs == [op : {"create", "update", "delete"}, sched : Schedules,
         cal : Calendars \cup {None}, on : BOOLEAN]

ASSUME ScheduleAssumption ==
  /\ Valid \subseteq Calendars
  /\ None \notin Calendars
  /\ NoJob \notin Jobs
  /\ Overlap \in BOOLEAN
  /\ Faults \subseteq FaultKinds

VARIABLES
  status,    \* a schedule's row: "new", "enabled", "disabled", "deleted"
  calendar,  \* its on_calendar
  staged,    \* the staged timer file's calendar
  service,   \* the service file is installed
  file,      \* the installed timer file's calendar
  wanted,    \* the timer is enabled: timers.target starts it at boot
  armed,     \* the calendar by which systemd fires it now
  pc,        \* a request's next step
  job,       \* what it does: its copy of the row
  body,      \* its helper: the calendar read from the staged file
  outcome    \* history: how the schedule's last request ended

rowVars == <<status, calendar>>
unitVars == <<staged, service, file, wanted, armed>>
vars == <<rowVars, unitVars, pc, job, body, outcome>>

HelperReloads ==
  {"reloadService", "reloadTimer", "reloadUnlinked", "reloadNoService"}
HelperSteps ==
  {"stage", "service", "writeService", "read", "timer", "writeTimer", "enable",
   "disable", "unlink", "unlinkService"} \cup HelperReloads
StoreSteps == {"disableRow", "save", "delete", "compensate"}

Init ==
  /\ status = [s \in Schedules |-> "new"]
  /\ calendar = [s \in Schedules |-> None]
  /\ staged = [s \in Schedules |-> None]
  /\ service = [s \in Schedules |-> FALSE]
  /\ file = [s \in Schedules |-> None]
  /\ wanted = [s \in Schedules |-> FALSE]
  /\ armed = [s \in Schedules |-> None]
  /\ pc = [r \in Requests |-> "idle"]
  /\ job = [r \in Requests |-> NoJob]
  /\ body = [r \in Requests |-> None]
  /\ outcome = [s \in Schedules |-> "none"]

-----------------------------------------------------------------------------
Present(s) == status[s] \in {"enabled", "disabled"}
Busy(s) == \E r \in Requests : pc[r] # "idle" /\ job[r].sched = s

Begin(r, j, first) ==
  /\ pc[r] = "idle"
  /\ Overlap \/ ~Busy(j.sched)
  /\ pc' = [pc EXCEPT ![r] = first]
  /\ job' = [job EXCEPT ![r] = j]
  /\ outcome' = [outcome EXCEPT ![j.sched] = "pending"]
  /\ UNCHANGED <<unitVars, body>>

Goto(r, next) ==
  /\ pc' = [pc EXCEPT ![r] = next]
  /\ UNCHANGED <<job, outcome>>

End(r, result) ==
  /\ pc' = [pc EXCEPT ![r] = "idle"]
  /\ job' = [job EXCEPT ![r] = NoJob]
  /\ outcome' = [outcome EXCEPT ![job[r].sched] = result]

\* Only a create undoes something: it deletes its row.
Fail(r) ==
  IF job[r].op = "create" /\ pc[r] # "disableRow"
  THEN Goto(r, "compensate")
  ELSE End(r, "failed")

Killed(r) == "killed" \in Faults /\ Fail(r)

\* After a step of the helper.
Proceed(r, next) ==
  \/ IF next = "done" THEN End(r, "ok") ELSE Goto(r, next)
  \/ Killed(r)

-----------------------------------------------------------------------------
(* The handlers' store calls.                                              *)

\* The row is inserted enabled, and disabled by an update where asked for.
CreateSchedule(r) ==
  \E s \in Schedules, c \in Calendars, on \in BOOLEAN :
    /\ status[s] = "new"
    /\ Begin(r, [op |-> "create", sched |-> s, cal |-> c, on |-> on],
             IF on THEN "stage" ELSE "disableRow")
    /\ status' = [status EXCEPT ![s] = "enabled"]
    /\ calendar' = [calendar EXCEPT ![s] = c]

\* A failure here is not compensated: the row stays, enabled, without units.
DisableRow(r) ==
  /\ pc[r] = "disableRow"
  /\ status' = [status EXCEPT ![job[r].sched] = "disabled"]
  /\ Goto(r, "stage")
  /\ UNCHANGED <<calendar, unitVars, body>>

\* Faulty variant: the timer of a disabled schedule is not removed.
BeginUpdateKeeping(r) ==
  \E s \in Schedules, c \in Calendars, on \in BOOLEAN :
    /\ Present(s)
    /\ Begin(r, [op |-> "update", sched |-> s, cal |-> c, on |-> on], "stage")
    /\ UNCHANGED rowVars

\* GetSchedule, merged with the request's fields.
BeginUpdate(r) ==
  \E s \in Schedules, c \in Calendars, on \in BOOLEAN :
    /\ Present(s)
    /\ Begin(r, [op |-> "update", sched |-> s, cal |-> c, on |-> on],
             IF on THEN "stage" ELSE "disable")
    /\ UNCHANGED rowVars

\* UPDATE by id: of a row deleted meanwhile it changes nothing and succeeds.
UpdateSchedule(r) ==
  LET s == job[r].sched IN
  /\ pc[r] = "save"
  /\ status' = [status EXCEPT ![s] = IF ~Present(s) THEN @
                                     ELSE IF job[r].on THEN "enabled" ELSE "disabled"]
  /\ calendar' = [calendar EXCEPT ![s] = IF Present(s) THEN job[r].cal ELSE @]
  /\ End(r, "ok")
  /\ UNCHANGED <<unitVars, body>>

\* Faulty variant: the row goes before the units.
BeginDeleteRowFirst(r) ==
  \E s \in Schedules :
    /\ Present(s)
    /\ Begin(r, [op |-> "delete", sched |-> s, cal |-> None, on |-> FALSE], "disable")
    /\ status' = [status EXCEPT ![s] = "deleted"]
    /\ UNCHANGED calendar

BeginDelete(r) ==
  \E s \in Schedules :
    /\ Present(s)
    /\ Begin(r, [op |-> "delete", sched |-> s, cal |-> None, on |-> FALSE], "disable")
    /\ UNCHANGED rowVars

DeleteSchedule(r) ==
  /\ pc[r] \in {"delete", "compensate"}
  /\ status' = [status EXCEPT ![job[r].sched] = "deleted"]
  /\ calendar' = [calendar EXCEPT ![job[r].sched] = None]
  /\ End(r, IF pc[r] = "delete" THEN "ok" ELSE "failed")
  /\ UNCHANGED <<unitVars, body>>

\* The error of the compensation is ignored, the others are answered.
StoreFails(r) ==
  /\ "db" \in Faults
  /\ pc[r] \in StoreSteps
  /\ End(r, "failed")
  /\ UNCHANGED <<rowVars, unitVars, body>>

-----------------------------------------------------------------------------
(* Installing: the service, then the timer of an enabled schedule.  The    *)
(* helper removes the unit that is installed, then writes the new one.     *)

Stage(r) ==
  /\ pc[r] = "stage"
  /\ staged' = [staged EXCEPT ![job[r].sched] = job[r].cal]
  /\ Proceed(r, "service")
  /\ UNCHANGED <<rowVars, service, file, wanted, armed, body>>

\* prepareTarget.
PrepareService(r) ==
  /\ pc[r] = "service"
  /\ service' = [service EXCEPT ![job[r].sched] = FALSE]
  /\ Proceed(r, "writeService")
  /\ UNCHANGED <<rowVars, staged, file, wanted, armed, body>>

\* Faulty variant: installing goes on although the new unit was not written.
InstallServiceLoosely(r) ==
  /\ pc[r] = "writeService"
  /\ \E written \in BOOLEAN : service' = [service EXCEPT ![job[r].sched] = written]
  /\ Proceed(r, "reloadService")
  /\ UNCHANGED <<rowVars, staged, file, wanted, armed, body>>

\* writeInstalledUnit renames a file that is written already.
InstallService(r) ==
  /\ pc[r] = "writeService"
  /\ service' = [service EXCEPT ![job[r].sched] = TRUE]
  /\ Proceed(r, "reloadService")
  /\ UNCHANGED <<rowVars, staged, file, wanted, armed, body>>

\* The helper takes the calendar from the staged file, not from its caller;
\* killed here it has done nothing yet, as where HelperFails stops it next.
ReadStaged(r) ==
  /\ pc[r] = "read"
  /\ body' = [body EXCEPT ![r] = staged[job[r].sched]]
  /\ Goto(r, "timer")
  /\ UNCHANGED <<rowVars, unitVars>>

PrepareTimer(r) ==
  /\ pc[r] = "timer"
  /\ file' = [file EXCEPT ![job[r].sched] = None]
  /\ \/ Goto(r, "writeTimer") /\ UNCHANGED body
     \/ Killed(r) /\ body' = [body EXCEPT ![r] = None]
  /\ UNCHANGED <<rowVars, staged, service, wanted, armed>>

InstallTimer(r) ==
  /\ pc[r] = "writeTimer"
  /\ file' = [file EXCEPT ![job[r].sched] = body[r]]
  /\ body' = [body EXCEPT ![r] = None]
  /\ Proceed(r, "reloadTimer")
  /\ UNCHANGED <<rowVars, staged, service, wanted, armed>>

Loaded(c) == IF c \in Valid THEN c ELSE None

AfterEnable(j) == IF j.op = "create" THEN "done" ELSE "save"

\* enable --now; what runs already keeps running.
Enable(r) ==
  LET s == job[r].sched IN
  /\ pc[r] = "enable"
  /\ file[s] \in Valid /\ service[s]
  /\ wanted' = [wanted EXCEPT ![s] = TRUE]
  /\ armed' = [armed EXCEPT ![s] = IF @ = None THEN file[s] ELSE @]
  /\ Proceed(r, AfterEnable(job[r]))
  /\ UNCHANGED <<rowVars, staged, service, file, body>>

\* A timer systemd cannot parse is enabled and then does not start.
EnableRefused(r) ==
  LET s == job[r].sched IN
  /\ pc[r] = "enable"
  /\ file[s] \notin Valid \/ ~service[s]
  /\ wanted' = [wanted EXCEPT ![s] = file[s] # None]
  /\ Fail(r)
  /\ UNCHANGED <<rowVars, staged, service, file, armed, body>>

-----------------------------------------------------------------------------
(* Removing: the timer, then the service.                                  *)

Disable(r) ==
  LET s == job[r].sched IN
  /\ pc[r] = "disable"
  /\ file[s] # None
  /\ wanted' = [wanted EXCEPT ![s] = FALSE]
  /\ armed' = [armed EXCEPT ![s] = None]
  /\ Proceed(r, "unlink")
  /\ UNCHANGED <<rowVars, staged, service, file, body>>

\* systemctl does not disable a unit without a file; the helper stops there.
DisableRefused(r) ==
  /\ pc[r] = "disable"
  /\ file[job[r].sched] = None
  /\ Fail(r)
  /\ UNCHANGED <<rowVars, unitVars, body>>

Unlink(r) ==
  /\ pc[r] = "unlink"
  /\ file' = [file EXCEPT ![job[r].sched] = None]
  /\ Proceed(r, "reloadUnlinked")
  /\ UNCHANGED <<rowVars, staged, service, wanted, armed, body>>

UnlinkService(r) ==
  /\ pc[r] = "unlinkService"
  /\ service' = [service EXCEPT ![job[r].sched] = FALSE]
  /\ Proceed(r, "reloadNoService")
  /\ UNCHANGED <<rowVars, staged, file, wanted, armed, body>>

-----------------------------------------------------------------------------
AfterReload(r) ==
  CASE pc[r] = "reloadService" -> IF job[r].on THEN "read" ELSE AfterEnable(job[r])
    [] pc[r] = "reloadTimer" -> "enable"
    [] pc[r] = "reloadUnlinked" -> "unlinkService"
    [] OTHER -> IF job[r].op = "delete" THEN "delete" ELSE "stage"

\* daemon-reload takes up the files of every unit.
DaemonReload(r) ==
  /\ pc[r] \in HelperReloads
  /\ armed' = [s \in Schedules |-> IF armed[s] = None THEN None ELSE Loaded(file[s])]
  /\ Proceed(r, AfterReload(r))
  /\ UNCHANGED <<rowVars, staged, service, file, wanted, body>>

\* Faulty variant: a failure of the timer's removal is ignored.
HelperFailsIgnored(r) ==
  /\ "helper" \in Faults
  /\ pc[r] \in HelperSteps
  /\ body' = [body EXCEPT ![r] = None]
  /\ IF pc[r] \in {"disable", "unlink", "reloadUnlinked"}
     THEN Goto(r, "unlinkService") ELSE Fail(r)
  /\ UNCHANGED <<rowVars, unitVars>>

HelperFails(r) ==
  /\ "helper" \in Faults
  /\ pc[r] \in HelperSteps
  /\ body' = [body EXCEPT ![r] = None]
  /\ Fail(r)
  /\ UNCHANGED <<rowVars, unitVars>>

\* Requests end where they are; row and units stay as they are.
Interrupted ==
  /\ pc' = [r \in Requests |-> "idle"]
  /\ job' = [r \in Requests |-> NoJob]
  /\ body' = [r \in Requests |-> None]
  /\ outcome' = [s \in Schedules |-> IF Busy(s) THEN "failed" ELSE outcome[s]]
  /\ UNCHANGED <<rowVars, staged, service, file, wanted>>

Crash ==
  /\ "crash" \in Faults
  /\ Interrupted
  /\ UNCHANGED armed

Reboot ==
  /\ "reboot" \in Faults
  /\ Interrupted
  /\ armed' = [s \in Schedules |->
                 IF wanted[s] /\ service[s] THEN Loaded(file[s]) ELSE None]

-----------------------------------------------------------------------------
Handler(r) ==
  \/ CreateSchedule(r) \/ DisableRow(r)
  \/ BeginUpdate(r) \/ UpdateSchedule(r)
  \/ BeginDelete(r) \/ DeleteSchedule(r) \/ StoreFails(r)

Helper(r) ==
  \/ Stage(r) \/ PrepareService(r) \/ InstallService(r)
  \/ ReadStaged(r) \/ PrepareTimer(r) \/ InstallTimer(r)
  \/ Enable(r) \/ EnableRefused(r)
  \/ Disable(r) \/ DisableRefused(r) \/ Unlink(r) \/ UnlinkService(r)
  \/ DaemonReload(r) \/ HelperFails(r)

Next == (\E r \in Requests : Handler(r) \/ Helper(r)) \/ Crash \/ Reboot

Spec == Init /\ [][Next]_vars

-----------------------------------------------------------------------------
(* Properties.                                                             *)

\* Types; the timer's steps are taken for a schedule to be enabled only, the
\* row's removal for a delete only.
TypeOK ==
  /\ status \in [Schedules -> {"new", "enabled", "disabled", "deleted"}]
  /\ calendar \in [Schedules -> Calendars \cup {None}]
  /\ staged \in [Schedules -> Calendars \cup {None}]
  /\ service \in [Schedules -> BOOLEAN]
  /\ file \in [Schedules -> Calendars \cup {None}]
  /\ wanted \in [Schedules -> BOOLEAN]
  /\ armed \in [Schedules -> Valid \cup {None}]
  /\ pc \in [Requests -> {"idle"} \cup HelperSteps \cup StoreSteps]
  /\ job \in [Requests -> Jobs \cup {NoJob}]
  /\ body \in [Requests -> Calendars \cup {None}]
  /\ outcome \in [Schedules -> {"none", "pending", "ok", "failed"}]
  /\ \A r \in Requests :
       /\ pc[r] = "idle" <=> job[r] = NoJob
       /\ pc[r] \in {"read", "timer", "writeTimer", "reloadTimer", "enable"} => job[r].on
       /\ pc[r] = "delete" => job[r].op = "delete"

\* After an acknowledged request the timer runs exactly as the row says, until
\* the next request on the schedule: whatever failed before, whatever happens
\* to other schedules, and through a reboot.
AcknowledgedInForce ==
  \A s \in Schedules :
    outcome[s] = "ok" /\ ~Busy(s) =>
      armed[s] = IF status[s] = "enabled" THEN calendar[s] ELSE None

\* The steps of a request at which a running timer may lack its service.
BeforeService == {"stage", "service", "writeService", "disable"}

\* A timer fires into the void only while its service is replaced, or after a
\* request that failed or was cut off there: an install goes on to the timer
\* with its service in place, a removal takes the timer first, and the next
\* request mends it or stops before either.
ServiceBehindTimer ==
  \A s \in Schedules :
    armed[s] # None /\ ~service[s] =>
      /\ outcome[s] \in {"pending", "failed"}
      /\ \A r \in Requests :
           pc[r] # "idle" /\ job[r].sched = s => pc[r] \in BeforeService

\* A timer runs for a schedule that is not in the table only where a request
\* on it was answered with an error, or cut off: the row comes before the units
\* and goes after them.
OrphansAreAnswered ==
  \A s \in Schedules : armed[s] # None /\ ~Present(s) => outcome[s] = "failed"

\* What fires without its service or its row has an administrator who was told,
\* or is being mended: the orders of handlers and helper, whatever fails between.
TimersBacked == ServiceBehindTimer /\ OrphansAreAnswered
=============================================================================
