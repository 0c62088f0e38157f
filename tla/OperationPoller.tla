--------------------------- MODULE OperationPoller ---------------------------
(***************************************************************************)
(* Asynchronous Incus operations and their mirror in the operations table: *)
(* handlers submit to Incus and then record a row, one poller goroutine    *)
(* lists the active rows and writes back what Incus answers for each.      *)
(* Submission and record are two systems, and so are answer and write.     *)
(***************************************************************************)
EXTENDS IncusClient

CONSTANTS
  Ops,      \* requests that start an operation: instances, schedule runs
  Misnamed, \* those whose instance has "conflict" in its name
  Faults,   \* which failures happen: see FaultKinds
  NoReply   \* no answer of Incus waits to be written

FaultKinds == {"crash",   \* the process stops and starts again
               "db",      \* a store call fails, or the client has gone and
                          \* cancelled the context it runs under
               "incus",   \* Incus does not answer
               "forget"}  \* Incus drops a finished operation

Codes == Refusals \cup {"202", "409", "500", "502"}

Final == {"success", "failure", "cancelled"}
Active == {"pending", "running"}
Replies == [op : Ops, seen : Active, status : {"running"} \cup Final]

ASSUME PollerAssumption ==
  /\ Misnamed \subseteq Ops
  /\ Faults \subseteq FaultKinds
  /\ NoReply \notin Replies

VARIABLES
  upstream,  \* Incus: the operation's state; "sync" is an answer without an id
  known,     \* Incus: operations it can still be asked about
  handler,   \* the request's place in its handler, then the HTTP status
  opID,      \* operations.incus_op_id, as the client read it
  row,       \* operations.status
  todo,      \* poller: rows of this tick still to ask about
  seen,      \* poller: their status when the tick listed them
  reply      \* poller: the answer it is about to write

pollerVars == <<upstream, known, handler, opID, row, todo, seen, reply>>

PollerInit ==
  /\ upstream = [o \in Ops |-> "none"]
  /\ known = {}
  /\ handler = [o \in Ops |-> "new"]
  /\ opID = [o \in Ops |-> NoID]
  /\ row = [o \in Ops |-> "none"]
  /\ todo = {}
  /\ seen = [o \in Ops |-> "none"]
  /\ reply = NoReply

-----------------------------------------------------------------------------
(* Handlers: create, delete, start, stop an instance; run a schedule.      *)

RefuseRequest(o) ==
  /\ handler[o] = "new"
  /\ \E code \in Refusals : handler' = [handler EXCEPT ![o] = code]
  /\ UNCHANGED <<upstream, known, opID, row, todo, seen, reply>>

\* The call goes to Incus and its answer comes back, or is lost.
Call(o, a) ==
  /\ handler[o] = "new"
  /\ upstream' = [upstream EXCEPT ![o] = IF a.did = "refused" THEN "none" ELSE a.did]
  /\ known' = IF a.did = "running" THEN known \cup {o} ELSE known
  /\ opID' = [opID EXCEPT ![o] = doOperation(a)]
  /\ UNCHANGED <<row, todo, seen, reply>>

Text(o, a) == Wrapped(a.error, o \in Misnamed)

Answered(o, a, code) ==
  handler' = [handler EXCEPT ![o] = IF a.error = NoError THEN "submitted" ELSE code]

handleCreateInstance(o) ==
  \E a \in Answers : Call(o, a) /\ Answered(o, a, CreateCode(Text(o, a)))

handleDeleteInstance(o) ==
  \E a \in Answers : Call(o, a) /\ Answered(o, a, DeleteCode(Text(o, a)))

handleInstanceStateChange(o) ==
  \E a \in Answers : Call(o, a) /\ Answered(o, a, StateCode(Text(o, a)))

handleRunSchedule(o) ==
  \E a \in Answers : Call(o, a) /\ Answered(o, a, RunCode(Text(o, a)))

\* After the row of a schedule run, its event may fail to be recorded.
CreateOperation(o) ==
  /\ handler[o] = "submitted"
  /\ \E code \in {"202"} \cup (IF "db" \in Faults THEN {"500"} ELSE {}) :
       handler' = [handler EXCEPT ![o] = code]
  /\ row' = [row EXCEPT ![o] = "pending"]
  /\ UNCHANGED <<upstream, known, opID, todo, seen, reply>>

\* Incus works on, nothing records it.
CreateOperationFails(o) ==
  /\ "db" \in Faults
  /\ handler[o] = "submitted"
  /\ handler' = [handler EXCEPT ![o] = "500"]
  /\ UNCHANGED <<upstream, known, opID, row, todo, seen, reply>>

-----------------------------------------------------------------------------
(* Incus.                                                                  *)

Finish(o) ==
  /\ upstream[o] = "running"
  /\ \E s \in Final : upstream' = [upstream EXCEPT ![o] = s]
  /\ UNCHANGED <<known, handler, opID, row, todo, seen, reply>>

Forget(o) ==
  /\ "forget" \in Faults
  /\ upstream[o] \in Final
  /\ o \in known
  /\ known' = known \ {o}
  /\ UNCHANGED <<upstream, handler, opID, row, todo, seen, reply>>

-----------------------------------------------------------------------------
(* The poller: Run and tick.                                               *)

\* Faulty variants: started operations are missed, finished ones are not.
ListPendingOperations == {o \in Ops : row[o] = "pending"}
ListAllOperations == {o \in Ops : row[o] # "none"}

ListActiveOperations == {o \in Ops : row[o] \in Active}

Tick ==
  /\ todo = {} /\ reply = NoReply
  /\ todo' = ListActiveOperations
  /\ seen' = [o \in Ops |-> IF o \in todo' THEN row[o] ELSE "none"]
  /\ UNCHANGED <<upstream, known, handler, opID, row, reply>>

\* A row without an Incus id counts as done.
Bookkeep(o) ==
  /\ o \in todo /\ reply = NoReply
  /\ opID[o] = NoID
  /\ todo' = todo \ {o}
  /\ row' = [row EXCEPT ![o] = "success"]
  /\ UNCHANGED <<upstream, known, handler, opID, seen, reply>>

GetOperation(o) ==
  /\ o \in todo /\ reply = NoReply
  /\ opID[o] # NoID /\ o \in known
  /\ todo' = todo \ {o}
  /\ \E s \in Reported(upstream[o]) \ {"unknown"} :
       reply' = [op |-> o, seen |-> seen[o], status |-> s]
  /\ UNCHANGED <<upstream, known, handler, opID, row, seen>>

AskInVain(o) ==
  /\ o \in todo /\ reply = NoReply
  /\ opID[o] # NoID
  /\ \/ o \notin known
     \/ "incus" \in Faults
     \/ "unknown" \in Reported(upstream[o])
  /\ todo' = todo \ {o}
  /\ UNCHANGED <<upstream, known, handler, opID, seen, reply>>

\* Faulty variants: an operation Incus does not answer for counts as failed,
\* or as not yet started.
GetOperationFailsAsFailure(o) ==
  AskInVain(o) /\ row' = [row EXCEPT ![o] = "failure"]
GetOperationFailsAsPending(o) ==
  AskInVain(o) /\ row' = [row EXCEPT ![o] = "pending"]

\* No answer, an unknown id, a word the client does not know: the row is left for the next tick.
GetOperationFails(o) ==
  AskInVain(o) /\ UNCHANGED row

\* UPDATE operations SET status, by id alone; skipped when nothing is new.
UpdateOperationStatus ==
  /\ reply # NoReply
  /\ reply' = NoReply
  /\ row' = IF reply.status = reply.seen THEN row
            ELSE [row EXCEPT ![reply.op] = reply.status]
  /\ UNCHANGED <<upstream, known, handler, opID, todo, seen>>

\* A failing update is only logged; the next tick asks again.
UpdateFails ==
  /\ "db" \in Faults
  /\ \/ /\ reply # NoReply
        /\ reply' = NoReply
        /\ UNCHANGED todo
     \/ /\ reply = NoReply
        /\ \E o \in todo : opID[o] = NoID /\ todo' = todo \ {o}
        /\ UNCHANGED reply
  /\ UNCHANGED <<upstream, known, handler, opID, row, seen>>

-----------------------------------------------------------------------------
\* A crash: the tables and Incus survive; a request between its two calls is lost.
PollerStops ==
  /\ "crash" \in Faults
  /\ handler' = [o \in Ops |-> IF handler[o] = "submitted" THEN "gone" ELSE handler[o]]
  /\ todo' = {}
  /\ seen' = [o \in Ops |-> "none"]
  /\ reply' = NoReply
  /\ UNCHANGED <<upstream, known, opID, row>>

-----------------------------------------------------------------------------
Submit(o) ==
  \/ handleCreateInstance(o) \/ handleDeleteInstance(o)
  \/ handleInstanceStateChange(o) \/ handleRunSchedule(o)

Request(o) ==
  \/ RefuseRequest(o) \/ Submit(o)
  \/ CreateOperation(o) \/ CreateOperationFails(o)
Incus(o) == Finish(o) \/ Forget(o)
Poll(o) == Bookkeep(o) \/ GetOperation(o) \/ GetOperationFails(o)

PollerNext ==
  \/ \E o \in Ops : Request(o) \/ Incus(o) \/ Poll(o)
  \/ Tick \/ UpdateOperationStatus \/ UpdateFails \/ PollerStops

PollerSpec == PollerInit /\ [][PollerNext]_pollerVars

Write(o) == reply # NoReply /\ reply.op = o /\ UpdateOperationStatus

\* The ticker fires, and a call that is made again and again succeeds once:
\* failures of Incus, of the store and of the process are not permanent.
Fairness ==
  /\ WF_pollerVars(Tick)
  /\ WF_pollerVars(UpdateOperationStatus \/ UpdateFails)
  /\ \A o \in Ops : /\ WF_pollerVars(Poll(o))
                    /\ SF_pollerVars(Bookkeep(o))
                    /\ SF_pollerVars(GetOperation(o))
                    /\ SF_pollerVars(Write(o))

FairSpec == PollerSpec /\ Fairness

-----------------------------------------------------------------------------
(* Properties.                                                             *)

\* Types; a reply comes from an operation with a row.
PollerTypeOK ==
  /\ upstream \in [Ops -> {"none", "sync", "running"} \cup Final]
  /\ known \in SUBSET Ops
  /\ handler \in [Ops -> {"new", "submitted", "gone"} \cup Codes]
  /\ opID \in [Ops -> {NoID, "id"}]
  /\ row \in [Ops -> {"none"} \cup Active \cup Final]
  /\ todo \in SUBSET Ops
  /\ seen \in [Ops -> {"none"} \cup Active]
  /\ reply \in Replies \cup {NoReply}

\* A final status shown to the client is the one Incus ended with, whatever
\* failed, was lost or was forgotten on the way.
FaithfulOutcome ==
  \A o \in Ops :
    row[o] \in Final =>
      row[o] = IF upstream[o] = "sync" THEN "success" ELSE upstream[o]

\* A client told 4xx or 503 may repeat the request: it started nothing.  One
\* told 202 can read its operation from then on, across restarts.  Beside 500
\* and 502 only the 409 for an instance with "conflict" in its name leaves
\* open whether Incus works: isConflict finds the word in the wrapped name.
AnswersHold ==
  \A o \in Ops :
    /\ handler[o] \in Refusals => upstream[o] = "none"
    /\ handler[o] = "409" /\ o \notin Misnamed => upstream[o] = "none"
    /\ handler[o] = "202" => row[o] # "none"

\* A client that polls GET /v1/operations/{id} never sees the status go back:
\* the write goes by id alone, and its answer may be older than the row.
NeverBack ==
  [][\A o \in Ops : /\ row[o] \in Final => row'[o] = row[o]
                    /\ row[o] = "running" => row'[o] # "pending"]_pollerVars

\* Whatever fails meanwhile, the row of an operation that ended gets a final
\* status, unless Incus drops the operation before the poller has asked.
Settles ==
  \A o \in Ops :
    (upstream[o] \in Final \cup {"sync"} /\ row[o] \in Active)
      ~> (row[o] \in Final \/ (upstream[o] # "sync" /\ o \notin known))
=============================================================================
