----------------------------- MODULE EventStream -----------------------------
(***************************************************************************)
(* The server-sent event stream: goroutines emit events, a connection      *)
(* replays what is stored after the client's Last-Event-ID, page by page,  *)
(* then subscribes to the hub and follows.  The store and the hub are      *)
(* separate: an event is visible in the one before it passes the other.    *)
(***************************************************************************)
EXTENDS Naturals, Sequences, FiniteSets

CONSTANTS
  Emitters,   \* goroutines that call emitEvent or emitExternalEvent
  Clients,
  MaxEvents,  \* bound: ids drawn in a behaviour
  Page,       \* eventReplayPageSize
  ReplayMax,  \* eventReplayMaxEvents
  Recent,     \* events shown to a client without a position
  Buffer,     \* places of a subscriber's channel
  Faults      \* which failures happen: see FaultKinds

FaultKinds == {"crash",  \* the process stops and starts again
               "db"}     \* a store call fails

ASSUME StreamAssumption ==
  /\ {MaxEvents, Page, ReplayMax, Recent, Buffer} \subseteq Nat \ {0}
  /\ Faults \subseteq FaultKinds

Ids == 1..MaxEvents

VARIABLES
  event,    \* an id's event: "none", "drawn", "stored", "pruned", "lost"
  emitter,  \* the id an emitter is busy with, or 0
  pc,       \* a connection: "off", "query", "tail" (last page), "live"
  cursor,   \* handler: replay position, 0 without one
  sent,     \* handler: events replayed so far
  page,     \* handler: rows of the page still to write
  buf,      \* the subscriber's channel
  got,      \* client: events received over this connection
  last,     \* client: the newest frame's id, its next Last-Event-ID
  from,     \* history: the position this connection resumed from
  missed    \* history: events given up on at a known point

handlerVars == <<pc, cursor, sent, page>>
clientVars == <<got, last, from>>
vars == <<event, emitter, handlerVars, buf, clientVars, missed>>

Stored == {i \in Ids : event[i] = "stored"}
After(n) == {i \in Stored : i > n}
Largest(S) == CHOOSE i \in S : \A j \in S : j <= i
Smallest(S) == CHOOSE i \in S : \A j \in S : i <= j

Disconnected(c) ==
  /\ pc' = [pc EXCEPT ![c] = "off"]
  /\ cursor' = [cursor EXCEPT ![c] = 0]
  /\ sent' = [sent EXCEPT ![c] = 0]
  /\ page' = [page EXCEPT ![c] = {}]
  /\ buf' = [buf EXCEPT ![c] = <<>>]
  /\ got' = [got EXCEPT ![c] = {}]
  /\ from' = [from EXCEPT ![c] = 0]
  /\ missed' = [missed EXCEPT ![c] = {}]

Init ==
  /\ event = [i \in Ids |-> "none"]
  /\ emitter = [e \in Emitters |-> 0]
  /\ pc = [c \in Clients |-> "off"]
  /\ cursor = [c \in Clients |-> 0]
  /\ sent = [c \in Clients |-> 0]
  /\ page = [c \in Clients |-> {}]
  /\ buf = [c \in Clients |-> <<>>]
  /\ got = [c \in Clients |-> {}]
  /\ last = [c \in Clients |-> 0]
  /\ from = [c \in Clients |-> 0]
  /\ missed = [c \in Clients |-> {}]

-----------------------------------------------------------------------------
(* Emitting: draw an id, commit the row, pass it to the subscribers.       *)

\* uuid.NewV7 orders ids by the time of the draw, before the transaction.
DrawId(e) ==
  /\ emitter[e] = 0
  /\ \E i \in Ids :
       /\ event[i] = "none"
       /\ \A j \in 1..(i - 1) : event[j] # "none"
       /\ event' = [event EXCEPT ![i] = "drawn"]
       /\ emitter' = [emitter EXCEPT ![e] = i]
  /\ UNCHANGED <<handlerVars, buf, clientVars, missed>>

CreateEvent(e) ==
  /\ emitter[e] # 0
  /\ event[emitter[e]] = "drawn"
  /\ event' = [event EXCEPT ![emitter[e]] = "stored"]
  /\ UNCHANGED <<emitter, handlerVars, buf, clientVars, missed>>

\* Faulty variant: the error is not returned and the event is published.
CreateEventFailsUnnoticed(e) ==
  /\ "db" \in Faults
  /\ emitter[e] # 0
  /\ event[emitter[e]] = "drawn"
  /\ event' = [event EXCEPT ![emitter[e]] = "lost"]
  /\ UNCHANGED <<emitter, handlerVars, buf, clientVars, missed>>

CreateEventFails(e) ==
  /\ "db" \in Faults
  /\ emitter[e] # 0
  /\ event[emitter[e]] = "drawn"
  /\ event' = [event EXCEPT ![emitter[e]] = "lost"]
  /\ emitter' = [emitter EXCEPT ![e] = 0]
  /\ UNCHANGED <<handlerVars, buf, clientVars, missed>>

HasRoom(c) == pc[c] = "live" /\ Len(buf[c]) < Buffer

\* The event passes c: no query of its replay will find it, and it is not
\* put into its channel.
PassesBy(c, i) ==
  \/ pc[c] = "tail" /\ i \notin got[c] \cup page[c]
  \/ pc[c] = "query" /\ i <= cursor[c] /\ i \notin got[c] \cup page[c]
  \/ pc[c] = "live" /\ ~HasRoom(c)

PublishTo(e) ==
  LET i == emitter[e] IN
  /\ buf' = [c \in Clients |-> IF HasRoom(c) THEN Append(buf[c], i) ELSE buf[c]]
  /\ missed' = [c \in Clients |->
                  IF PassesBy(c, i) THEN missed[c] \cup {i} ELSE missed[c]]
  /\ emitter' = [emitter EXCEPT ![e] = 0]
  /\ UNCHANGED <<event, handlerVars, clientVars>>

\* One step: the hub's mutex; a full channel is passed over.
Publish(e) ==
  /\ emitter[e] # 0
  /\ event[emitter[e]] # "drawn"
  /\ PublishTo(e)

\* Retention goes by age and count; every batch is a sequence of such steps.
Prune ==
  /\ Stored # {}
  /\ event' = [event EXCEPT ![Smallest(Stored)] = "pruned"]
  /\ UNCHANGED <<emitter, handlerVars, buf, clientVars, missed>>

-----------------------------------------------------------------------------
(* A connection.                                                           *)

\* The position is the last frame's id; a client may also start afresh.
Connect(c) ==
  /\ pc[c] = "off"
  /\ pc' = [pc EXCEPT ![c] = "query"]
  /\ \E n \in {0, last[c]} :
       /\ cursor' = [cursor EXCEPT ![c] = n]
       /\ from' = [from EXCEPT ![c] = n]
  /\ UNCHANGED <<event, emitter, sent, page, buf, got, last, missed>>

\* ORDER BY id LIMIT n
FirstOf(S, n) == {i \in S : Cardinality({j \in S : j < i}) < n}
\* ORDER BY created_at DESC, id DESC LIMIT n
LastOf(S, n) == {i \in S : Cardinality({j \in S : j > i}) < n}

\* limit is the rows asked for, full whether another page follows.
ReplayPage(c, limit, Full(_)) ==
  LET rows == FirstOf(After(cursor[c]), limit) IN
  /\ pc[c] = "query" /\ page[c] = {}
  /\ cursor[c] # 0 /\ sent[c] < ReplayMax
  /\ page' = [page EXCEPT ![c] = rows]
  /\ sent' = [sent EXCEPT ![c] = @ + Cardinality(rows)]
  /\ IF Full(Cardinality(rows))
     THEN /\ cursor' = [cursor EXCEPT ![c] = Largest(rows)]
          /\ UNCHANGED pc
     ELSE /\ pc' = [pc EXCEPT ![c] = "tail"]
          /\ UNCHANGED cursor
  /\ UNCHANGED <<event, emitter, buf, clientVars, missed>>

Limit(c) == IF ReplayMax - sent[c] < Page THEN ReplayMax - sent[c] ELSE Page

\* Faulty variants: the remaining allowance is ignored; a full page ends it.
QueryPageUnclamped(c) ==
  LET IsFull(n) == n = Page IN ReplayPage(c, Page, IsFull)
QueryPageStopsFull(c) ==
  LET IsFull(n) == FALSE IN ReplayPage(c, Limit(c), IsFull)

QueryPage(c) ==
  LET IsFull(n) == n = Limit(c) IN ReplayPage(c, Limit(c), IsFull)

\* Without a position, or after ReplayMax events: the newest ones; what lies
\* between is given up.
QueryRecent(c) ==
  /\ pc[c] = "query" /\ page[c] = {}
  /\ cursor[c] = 0 \/ sent[c] >= ReplayMax
  /\ pc' = [pc EXCEPT ![c] = "tail"]
  /\ page' = [page EXCEPT ![c] = LastOf(Stored, Recent)]
  /\ missed' = [missed EXCEPT ![c] = @ \cup (After(cursor[c]) \ page'[c])]
  /\ UNCHANGED <<event, emitter, cursor, sent, buf, clientVars>>

\* A failing query ends the replay without a word; the stream goes on.
ReplayFails(c) ==
  /\ "db" \in Faults
  /\ pc[c] = "query" /\ page[c] = {}
  /\ pc' = [pc EXCEPT ![c] = "tail"]
  /\ missed' = [missed EXCEPT ![c] = @ \cup After(cursor[c])]
  /\ UNCHANGED <<event, emitter, cursor, sent, page, buf, clientVars>>

\* Pages are written oldest first, the recent ones too (writeEventsReverse).
WriteFrame(c) ==
  /\ page[c] # {}
  /\ LET i == Smallest(page[c]) IN
     /\ page' = [page EXCEPT ![c] = @ \ {i}]
     /\ got' = [got EXCEPT ![c] = @ \cup {i}]
     /\ last' = [last EXCEPT ![c] = i]
  /\ UNCHANGED <<event, emitter, pc, cursor, sent, buf, from, missed>>

Subscribe(c) ==
  /\ pc[c] = "tail" /\ page[c] = {}
  /\ pc' = [pc EXCEPT ![c] = "live"]
  /\ UNCHANGED <<event, emitter, cursor, sent, page, buf, clientVars, missed>>

StreamLive(c) ==
  /\ buf[c] # <<>>
  /\ buf' = [buf EXCEPT ![c] = Tail(@)]
  /\ got' = [got EXCEPT ![c] = @ \cup {Head(buf[c])}]
  /\ last' = [last EXCEPT ![c] = Head(buf[c])]
  /\ UNCHANGED <<event, emitter, handlerVars, from, missed>>

\* The client goes, or a write fails; frames written but not received are
\* those not written yet here.
Disconnect(c) ==
  /\ pc[c] # "off"
  /\ Disconnected(c)
  /\ UNCHANGED <<event, emitter, last>>

\* Connections and emitters end; a row is committed or rolled back.
Crash ==
  /\ "crash" \in Faults
  /\ event' = [i \in Ids |-> IF event[i] = "drawn" THEN "lost" ELSE event[i]]
  /\ emitter' = [e \in Emitters |-> 0]
  /\ pc' = [c \in Clients |-> "off"]
  /\ cursor' = [c \in Clients |-> 0]
  /\ sent' = [c \in Clients |-> 0]
  /\ page' = [c \in Clients |-> {}]
  /\ buf' = [c \in Clients |-> <<>>]
  /\ got' = [c \in Clients |-> {}]
  /\ from' = [c \in Clients |-> 0]
  /\ missed' = [c \in Clients |-> {}]
  /\ UNCHANGED last

-----------------------------------------------------------------------------
Emit(e) == DrawId(e) \/ CreateEvent(e) \/ CreateEventFails(e) \/ Publish(e)
Handle(c) ==
  \/ QueryPage(c) \/ QueryRecent(c) \/ ReplayFails(c)
  \/ WriteFrame(c) \/ Subscribe(c) \/ StreamLive(c)

Next ==
  \/ \E e \in Emitters : Emit(e)
  \/ \E c \in Clients : Connect(c) \/ Handle(c) \/ Disconnect(c)
  \/ Prune \/ Crash

Spec == Init /\ [][Next]_vars

-----------------------------------------------------------------------------
(* Properties.                                                             *)

\* Types; a replay sends at most ReplayMax events by position and a channel
\* holds at most its capacity.
TypeOK ==
  /\ event \in [Ids -> {"none", "drawn", "stored", "pruned", "lost"}]
  /\ emitter \in [Emitters -> {0} \cup Ids]
  /\ pc \in [Clients -> {"off", "query", "tail", "live"}]
  /\ cursor \in [Clients -> {0} \cup Ids]
  /\ sent \in [Clients -> 0..ReplayMax]
  /\ page \in [Clients -> SUBSET Ids]
  /\ buf \in [Clients -> Seq(Ids)]
  /\ \A c \in Clients : Len(buf[c]) <= Buffer
  /\ got \in [Clients -> SUBSET Ids]
  /\ last \in [Clients -> {0} \cup Ids]
  /\ from \in [Clients -> {0} \cup Ids]
  /\ missed \in [Clients -> SUBSET Ids]

InChannel(c) == {buf[c][k] : k \in 1..Len(buf[c])}

\* A client is never shown an event whose transaction did not commit: what it
\* acts on is in the table, or was until retention took it.
OnlyCommitted ==
  \A c \in Clients : \A i \in got[c] \cup page[c] \cup InChannel(c) :
    event[i] \in {"stored", "pruned"}

\* The only ways a connection loses an event after its position are the known
\* ones: published between the last query and the subscription, committed
\* behind the replay, a full channel, a failed query, more than ReplayMax.
LossAccounted ==
  \A c \in Clients :
    pc[c] \in {"tail", "live"} =>
      \A i \in After(from[c]) :
        \/ i \in got[c] \cup page[c] \cup InChannel(c) \cup missed[c]
        \/ \E e \in Emitters : emitter[e] = i
=============================================================================
