----------------------------- MODULE IncusClient -----------------------------
(***************************************************************************)
(* hellingd's client of the Incus API: what it reads from the answer to a  *)
(* call that starts an operation, which HTTP status the handlers make of   *)
(* an error, and which states of an operation it knows.  Only whether an   *)
(* answer names an operation matters here, so an id is "id" or NoID.       *)
(***************************************************************************)
NoID == ""
NoError == ""

\* What the handlers look for in the text of an error, and every other text.
Errors == {"not found", "already exists", "conflict", "other"}

\* What Incus did, and the answer as it arrives: its error, or where in body
\* and header the operation is named.  An answer lost or cut short leaves the
\* call done.
Answers ==
  [did : {"refused"}, error : Errors, metadata : {"null"}, location : {NoID}]
  \cup [did : {"running"}, error : {NoError}, metadata : {"operation", "url"},
        location : {NoID, "id"}]
  \cup [did : {"running"}, error : {NoError}, metadata : {"null", "unnamed"},
        location : {"id"}]
  \cup [did : {"sync"}, error : {NoError}, metadata : {"null", "unnamed"},
        location : {NoID}]
  \cup [did : {"running", "sync"}, error : {"other"}, metadata : {"null"},
        location : {NoID}]

\* Metadata is the operation itself or the URL of one; null and missing
\* metadata leave the id empty.
decodeResponse(a) == IF a.metadata \in {"operation", "url"} THEN "id" ELSE NoID

\* Faulty variant: the Location header is not consulted.
BodyID(a) == decodeResponse(a)

doOperation(a) == IF decodeResponse(a) # NoID THEN decodeResponse(a) ELSE a.location

-----------------------------------------------------------------------------
(* The handlers' answers to an error, by what its text holds.              *)

\* The client wraps every error, of Incus or of the connection, with the name
\* of the instance; a name has no blank, so of Errors it can hold "conflict".
Wrapped(error, named) == {error} \cup (IF named THEN {"conflict"} ELSE {})

\* Refused before Incus is called: bad request, no session, not an
\* administrator, no such schedule, no Incus client.
Refusals == {"400", "401", "403", "404", "503"}

CreateCode(text) == IF "already exists" \in text THEN "409" ELSE "502"

\* Faulty variant: every error is a missing instance, as in handleGetInstance.
DeleteCodeBlunt(text) == "404"

DeleteCode(text) == IF "not found" \in text THEN "404" ELSE "502"

StateCode(text) ==
  IF "not found" \in text THEN "404"
  ELSE IF "conflict" \in text THEN "409"
  ELSE "502"

RunCode(text) == "502"

-----------------------------------------------------------------------------
\* The words Incus has for the state of an operation: one that is being
\* cancelled has a word of its own.
Words(s) ==
  CASE s = "success" -> {"Success"}
    [] s = "failure" -> {"Failure"}
    [] s = "cancelled" -> {"Cancelled"}
    [] OTHER -> {"Pending", "Running", "Cancelling"}

StatusOf(word) ==
  CASE word = "Success" -> "success"
    [] word = "Failure" -> "failure"
    [] word = "Cancelled" -> "cancelled"
    [] word \in {"Pending", "Running"} -> "running"
    [] OTHER -> "unknown"

\* What the client may make of an operation in state s.
Reported(s) == {StatusOf(word) : word \in Words(s)}
=============================================================================
