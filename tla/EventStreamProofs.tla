-------------------------- MODULE EventStreamProofs --------------------------
(***************************************************************************)
(* Replay shows every stored event after the client's position, and what a *)
(* connection loses it loses at one of five known places.  The arithmetic  *)
(* of the pages (a short page is the last one) is a lemma about FirstOf.   *)
(* The second half is about the administration of webhooks, which decides  *)
(* what events are fanned out to: settings, deletions and deliveries.      *)
(***************************************************************************)
EXTENDS EventStream, WebhookAdmin, FiniteSetTheorems, WellFoundedInduction, TLAPS

-----------------------------------------------------------------------------
(* Finite sets of ids have a smallest and a largest element.               *)

LEMMA SmallestExists ==
  ASSUME NEW S \in SUBSET Nat, S # {}
  PROVE  \E i \in S : \A j \in S : i <= j
<1>1. \E i \in S : \A j \in S : <<j, i>> \notin OpToRel(<, Nat)
  BY NatLessThanWellFounded, WFMin
<1>2. PICK i \in S : \A j \in S : <<j, i>> \notin OpToRel(<, Nat)
  BY <1>1
<1>3. ASSUME NEW j \in S PROVE ~ (j < i)
  <2>1. SUFFICES ASSUME j < i PROVE <<j, i>> \in OpToRel(<, Nat)
    BY <1>2
  <2>2. <<j, i>> \in Nat \X Nat
    OBVIOUS
  <2>3. <<j, i>>[1] < <<j, i>>[2]
    BY <2>1
  <2> QED BY <2>2, <2>3, Zenon DEF OpToRel
<1> QED BY <1>3

LEMMA LargestExists ==
  ASSUME NEW m \in Nat, NEW S \in SUBSET (1..m), S # {}
  PROVE  \E i \in S : \A j \in S : j <= i
<1> DEFINE U == {u \in Nat : \A j \in S : j <= u}
<1>1. m \in U
  OBVIOUS
<1>2. PICK u \in U : \A v \in U : u <= v
  BY <1>1, SmallestExists
<1>3. CASE u \in S
  BY <1>2, <1>3
<1>4. CASE u \notin S
  <2>1. \A j \in S : j <= u - 1
    BY <1>2, <1>4
  <2>2. u - 1 \in Nat
    <3>1. PICK j \in S : TRUE
      OBVIOUS
    <3> QED BY <2>1, <3>1
  <2>3. u - 1 \in U
    BY <2>1, <2>2
  <2> QED BY <2>3, <1>2
<1> QED BY <1>3, <1>4

LEMMA LargestOf ==
  ASSUME NEW m \in Nat, NEW S \in SUBSET (1..m), S # {}
  PROVE  Largest(S) \in S /\ \A j \in S : j <= Largest(S)
BY LargestExists DEF Largest

LEMMA SmallestOf ==
  ASSUME NEW S \in SUBSET Nat, S # {}
  PROVE  Smallest(S) \in S
BY SmallestExists DEF Smallest

-----------------------------------------------------------------------------
(* ORDER BY id LIMIT n.                                                    *)

LEMMA FiniteIds ==
  ASSUME NEW m \in Nat, NEW S \in SUBSET (1..m)
  PROVE  IsFiniteSet(S)
<1>1. IsFiniteSet(1..m)
  BY FS_Interval
<1> QED BY <1>1, FS_Subset

\* A page is the lower part of what is asked for.
LEMMA FirstOfDownward ==
  ASSUME NEW m \in Nat, NEW S \in SUBSET (1..m), NEW n \in Nat,
         NEW j \in FirstOf(S, n), NEW i \in S, i < j
  PROVE  i \in FirstOf(S, n)
<1> DEFINE Below(k) == {l \in S : l < k}
<1>1. j \in S /\ Cardinality(Below(j)) < n
  BY DEF FirstOf
<1>2. IsFiniteSet(Below(j)) /\ IsFiniteSet(Below(i))
  BY FiniteIds, FS_Subset
<1>3. Below(i) \subseteq Below(j)
  <2>1. S \in SUBSET Nat
    OBVIOUS
  <2>2. \A k \in S : k < i => k < j
    BY <1>1, <2>1
  <2> QED BY <2>2
<1>4. Cardinality(Below(i)) <= Cardinality(Below(j))
  BY <1>2, <1>3, FS_Subset
<1>5. Cardinality(Below(i)) \in Nat /\ Cardinality(Below(j)) \in Nat
  BY <1>2, FS_CardinalityType
<1>6. Cardinality(Below(i)) < n
  BY <1>1, <1>4, <1>5
<1> QED BY <1>6 DEF FirstOf

\* It has at most n rows.
LEMMA FirstOfBounded ==
  ASSUME NEW m \in Nat, NEW S \in SUBSET (1..m), NEW n \in Nat
  PROVE  /\ FirstOf(S, n) \in SUBSET S
         /\ IsFiniteSet(FirstOf(S, n))
         /\ Cardinality(FirstOf(S, n)) \in 0..n
<1> DEFINE F == FirstOf(S, n)
<1>1. F \in SUBSET S
  BY DEF FirstOf
<1>2. F \in SUBSET (1..m)
  BY <1>1
<1> HIDE DEF F
<1>3. IsFiniteSet(F) /\ Cardinality(F) \in Nat
  BY <1>2, FiniteIds, FS_CardinalityType
<1>4. ASSUME F = {} PROVE Cardinality(F) <= n
  BY <1>4, FS_EmptySet
<1>5. ASSUME F # {} PROVE Cardinality(F) <= n
  <2>1. PICK i \in F : \A j \in F : j <= i
    BY <1>2, <1>5, LargestExists
  <2>2. ASSUME NEW l \in S, l < i PROVE l \in F
    BY <2>2, FirstOfDownward DEF F
  <2>3. \A l \in F : l < i <=> l # i
    BY <2>1, <1>2
  <2>4. {l \in S : l < i} = F \ {i}
    BY <2>2, <2>3, <1>1
  <2>5. Cardinality({l \in S : l < i}) < n
    BY DEF F, FirstOf
  <2>6. Cardinality(F \ {i}) = Cardinality(F) - 1
    BY <1>3, FS_RemoveElement
  <2> QED BY <1>3, <2>4, <2>5, <2>6
<1>6. Cardinality(F) \in 0..n
  BY <1>3, <1>4, <1>5
<1> QED BY <1>1, <1>3, <1>6 DEF F

\* A page that is not full is the last one.
LEMMA ShortPageIsLast ==
  ASSUME NEW m \in Nat, NEW S \in SUBSET (1..m), NEW n \in Nat,
         Cardinality(FirstOf(S, n)) # n
  PROVE  FirstOf(S, n) = S
<1> DEFINE F == FirstOf(S, n)
<1>1. /\ F \in SUBSET S /\ IsFiniteSet(F)
      /\ Cardinality(F) \in Nat /\ Cardinality(F) < n
  <2>1. F \in SUBSET S /\ IsFiniteSet(F) /\ Cardinality(F) \in 0..n
    BY FirstOfBounded
  <2> QED BY <2>1
<1>2. SUFFICES ASSUME S \ F # {} PROVE FALSE
  BY <1>1
<1>3. S \ F \in SUBSET Nat
  <2>1. S \in SUBSET Nat
    OBVIOUS
  <2> QED BY <2>1
<1>4. PICK i \in S \ F : \A j \in S \ F : i <= j
  BY <1>2, <1>3, SmallestExists
<1> DEFINE Below == {l \in S : l < i}
<1>5. Below \subseteq F
  BY <1>3, <1>4
<1>6. ~ (Cardinality(Below) < n)
  BY <1>4 DEF FirstOf
<1> HIDE DEF F, Below
<1>7. IsFiniteSet(Below) /\ Cardinality(Below) <= Cardinality(F)
  BY <1>1, <1>5, FS_Subset
<1>8. Cardinality(Below) \in Nat
  BY <1>7, FS_CardinalityType
<1> QED BY <1>1, <1>6, <1>7, <1>8

-----------------------------------------------------------------------------
(* The inductive invariant.                                                *)

Held(i) == \E e \in Emitters : emitter[e] = i
Seen(c) == got[c] \cup page[c] \cup InChannel(c) \cup missed[c]

\* An id in an emitter's hands is its own and not lost.
HolderInv ==
  \A e \in Emitters :
    emitter[e] # 0 =>
      /\ event[emitter[e]] \in {"drawn", "stored", "pruned"}
      /\ \A f \in Emitters : emitter[f] = emitter[e] => f = e

\* What a connection has not seen is still to be queried or to be published.
LossInv ==
  \A c \in Clients :
    pc[c] # "off" =>
      \A i \in After(from[c]) :
        \/ i \in Seen(c)
        \/ Held(i)
        \/ pc[c] = "query" /\ i > cursor[c]

StreamInv == TypeOK /\ HolderInv /\ OnlyCommitted /\ LossInv

\* The constants are positive; the ids are naturals without 0.
LEMMA Constants ==
  /\ MaxEvents \in Nat \ {0} /\ Page \in Nat \ {0} /\ ReplayMax \in Nat \ {0}
  /\ Recent \in Nat \ {0} /\ Buffer \in Nat \ {0}
  /\ Ids \subseteq Nat /\ 0 \notin Ids
BY StreamAssumption DEF Ids

LEMMA LossInvImplies == LossInv => LossAccounted
BY DEF LossInv, LossAccounted, Seen, Held

LEMMA InitStream == Init => StreamInv
<1> SUFFICES ASSUME Init PROVE StreamInv
  OBVIOUS
<1>1. TypeOK
  BY Constants DEF Init, TypeOK
<1>2. HolderInv /\ LossInv
  BY DEF Init, HolderInv, LossInv
<1>3. OnlyCommitted
  BY DEF Init, OnlyCommitted, InChannel
<1> QED BY <1>1, <1>2, <1>3 DEF StreamInv

-----------------------------------------------------------------------------
(* Emitting.                                                               *)

\* A step that leaves connections alone and lets nothing committed vanish or
\* appear but through an emitter's hands.
LEMMA EventStep ==
  ASSUME StreamInv,
         event' \in [Ids -> {"none", "drawn", "stored", "pruned", "lost"}],
         UNCHANGED <<handlerVars, buf, clientVars, missed>>,
         \A i \in Ids : event[i] \in {"stored", "pruned"} =>
                          event'[i] \in {"stored", "pruned"},
         \A i \in Ids : event'[i] = "stored" =>
                          (event[i] = "stored" /\ (Held(i) => Held(i)')) \/ Held(i)'
  PROVE  OnlyCommitted' /\ LossInv'
<1> USE DEF handlerVars, clientVars
<1>1. \A c \in Clients : InChannel(c)' = InChannel(c) /\ InChannel(c) \subseteq Ids
  BY DEF InChannel, StreamInv, TypeOK
<1>2. OnlyCommitted'
  <2>1. \A c \in Clients : got[c] \subseteq Ids /\ page[c] \subseteq Ids
    BY DEF StreamInv, TypeOK
  <2> QED BY <1>1, <2>1 DEF StreamInv, OnlyCommitted
<1>3. LossInv'
  <2> SUFFICES ASSUME NEW c \in Clients, pc[c] # "off",
                      NEW i \in After(from[c])'
               PROVE  \/ i \in Seen(c)' \/ Held(i)'
                      \/ pc[c] = "query" /\ i > cursor[c]
    BY DEF LossInv
  <2>1. i \in Ids /\ event'[i] = "stored" /\ i > from[c]
    BY DEF After, Stored
  <2>2. CASE Held(i)'
    BY <2>2
  <2>3. CASE ~ Held(i)'
    <3>1. event[i] = "stored" /\ ~ Held(i)
      BY <2>1, <2>3
    <3>2. i \in After(from[c])
      BY <2>1, <3>1 DEF After, Stored
    <3>3. Seen(c)' = Seen(c)
      BY <1>1 DEF Seen
    <3> QED BY <3>1, <3>2, <3>3 DEF StreamInv, LossInv
  <2> QED BY <2>2, <2>3
<1> QED BY <1>2, <1>3

LEMMA DrawIdStep ==
  ASSUME StreamInv, NEW e \in Emitters, DrawId(e)
  PROVE  StreamInv'
<1> USE Constants
<1>1. PICK i \in Ids : /\ event[i] = "none"
                       /\ event' = [event EXCEPT ![i] = "drawn"]
                       /\ emitter' = [emitter EXCEPT ![e] = i]
  BY DEF DrawId
<1>2. UNCHANGED <<handlerVars, buf, clientVars, missed>>
  BY DEF DrawId
<1>3. TypeOK'
  BY <1>1, <1>2 DEF StreamInv, TypeOK, handlerVars, clientVars
<1>4. HolderInv'
  <2>1. emitter'[e] = i /\ event'[i] = "drawn"
    BY <1>1 DEF StreamInv, TypeOK
  <2>2. \A f \in Emitters : f # e => emitter'[f] = emitter[f]
    BY <1>1 DEF StreamInv, TypeOK
  <2>3. \A f \in Emitters : f # e => emitter[f] # i
    BY <1>1 DEF StreamInv, HolderInv
  <2>4. \A f \in Emitters : f # e /\ emitter[f] # 0 => event'[emitter[f]] = event[emitter[f]]
    BY <1>1, <2>3 DEF StreamInv, TypeOK
  <2> QED BY <2>1, <2>2, <2>3, <2>4 DEF StreamInv, HolderInv
<1>5. emitter[e] = 0
  BY DEF DrawId
<1>6. \A j \in Ids : Held(j) => Held(j)'
  BY <1>1, <1>5 DEF Held, StreamInv, TypeOK
<1>7. \A j \in Ids : j # i => event'[j] = event[j]
  BY <1>1 DEF StreamInv, TypeOK
<1>8. event'[i] = "drawn"
  BY <1>1 DEF StreamInv, TypeOK
<1>9. OnlyCommitted' /\ LossInv'
  BY <1>1, <1>2, <1>3, <1>6, <1>7, <1>8, EventStep DEF TypeOK
<1> QED BY <1>3, <1>4, <1>9 DEF StreamInv

LEMMA CreateEventStep ==
  ASSUME StreamInv, NEW e \in Emitters, CreateEvent(e) \/ CreateEventFails(e)
  PROVE  StreamInv'
<1> USE Constants
<1>1. PICK i \in Ids : i = emitter[e] /\ event[i] = "drawn"
  BY DEF CreateEvent, CreateEventFails, StreamInv, TypeOK
<1>0. UNCHANGED <<handlerVars, buf, clientVars, missed>>
  BY DEF CreateEvent, CreateEventFails
<1>2. CASE CreateEvent(e)
  <2>1. event' = [event EXCEPT ![i] = "stored"] /\ emitter' = emitter
    BY <1>1, <1>2 DEF CreateEvent
  <2>2. TypeOK'
    BY <1>0, <2>1 DEF StreamInv, TypeOK, handlerVars, clientVars
  <2>3. HolderInv'
    BY <1>1, <2>1 DEF StreamInv, TypeOK, HolderInv
  <2>4. \A j \in Ids : Held(j)' <=> Held(j)
    BY <2>1 DEF Held
  <2>5. Held(i)'
    BY <1>1, <2>1 DEF Held
  <2>6. \A j \in Ids : j # i => event'[j] = event[j]
    BY <2>1, <1>1 DEF StreamInv, TypeOK
  <2>7. event'[i] = "stored"
    BY <2>1, <1>1 DEF StreamInv, TypeOK
  <2>8. event' \in [Ids -> {"none", "drawn", "stored", "pruned", "lost"}]
    BY <2>2 DEF TypeOK
  <2>9. \A j \in Ids : event[j] \in {"stored", "pruned"} =>
                         event'[j] \in {"stored", "pruned"}
    BY <2>6, <2>7
  <2>10. \A j \in Ids : event'[j] = "stored" =>
                          (event[j] = "stored" /\ (Held(j) => Held(j)')) \/ Held(j)'
    BY <2>4, <2>5, <2>6
  <2>11. OnlyCommitted' /\ LossInv'
    BY <1>0, <2>8, <2>9, <2>10, EventStep
  <2> QED BY <2>2, <2>3, <2>11 DEF StreamInv
<1>3. CASE CreateEventFails(e)
  <2>1. event' = [event EXCEPT ![i] = "lost"] /\ emitter' = [emitter EXCEPT ![e] = 0]
    BY <1>1, <1>3 DEF CreateEventFails
  <2>2. TypeOK'
    BY <1>0, <2>1 DEF StreamInv, TypeOK, handlerVars, clientVars
  <2>3. HolderInv'
    BY <1>1, <2>1 DEF StreamInv, TypeOK, HolderInv
  <2>4. \A j \in Ids : j # i /\ Held(j) => Held(j)'
    BY <1>1, <2>1 DEF Held, StreamInv, TypeOK
  <2>5. event'[i] = "lost"
    BY <2>1, <1>1 DEF StreamInv, TypeOK
  <2>6. \A j \in Ids : j # i => event'[j] = event[j]
    BY <2>1, <1>1 DEF StreamInv, TypeOK
  <2>7. OnlyCommitted' /\ LossInv'
    BY <1>0, <1>1, <2>2, <2>4, <2>5, <2>6, EventStep DEF TypeOK
  <2> QED BY <2>2, <2>3, <2>7 DEF StreamInv
<1> QED BY <1>2, <1>3

LEMMA PruneStep ==
  ASSUME StreamInv, Prune
  PROVE  StreamInv'
<1> USE Constants
<1> DEFINE i == Smallest(Stored)
<1>1. i \in Stored
  <2>1. Stored \in SUBSET Nat /\ Stored # {}
    BY DEF Stored, Prune
  <2> QED BY <2>1, SmallestOf
<1>2. i \in Ids /\ event[i] = "stored"
  BY <1>1 DEF Stored
<1>3. /\ event' = [event EXCEPT ![i] = "pruned"] /\ emitter' = emitter
      /\ UNCHANGED <<handlerVars, buf, clientVars, missed>>
  BY DEF Prune
<1> HIDE DEF i
<1>4. TypeOK'
  BY <1>2, <1>3 DEF StreamInv, TypeOK, handlerVars, clientVars
<1>5. HolderInv'
  BY <1>2, <1>3 DEF StreamInv, TypeOK, HolderInv
<1>6. \A j \in Ids : Held(j)' <=> Held(j)
  BY <1>3 DEF Held
<1>7. \A j \in Ids : j # i => event'[j] = event[j]
  BY <1>2, <1>3 DEF StreamInv, TypeOK
<1>8. event'[i] = "pruned"
  BY <1>2, <1>3 DEF StreamInv, TypeOK
<1>9. OnlyCommitted' /\ LossInv'
  BY <1>2, <1>3, <1>4, <1>6, <1>7, <1>8, EventStep DEF TypeOK
<1> QED BY <1>4, <1>5, <1>9 DEF StreamInv

-----------------------------------------------------------------------------
(* Channels.                                                               *)

LEMMA AppendToChannel ==
  ASSUME NEW s \in Seq(Ids), NEW i \in Ids
  PROVE  /\ Append(s, i) \in Seq(Ids) /\ Len(Append(s, i)) = Len(s) + 1
         /\ {Append(s, i)[k] : k \in 1..Len(Append(s, i))} = {s[k] : k \in 1..Len(s)} \cup {i}
<1>1. Append(s, i) \in Seq(Ids) /\ Len(Append(s, i)) = Len(s) + 1
  OBVIOUS
<1>2. \A k \in 1..Len(s) : Append(s, i)[k] = s[k]
  OBVIOUS
<1>3. Append(s, i)[Len(s) + 1] = i
  OBVIOUS
<1>4. 1..Len(Append(s, i)) = (1..Len(s)) \cup {Len(s) + 1}
  BY <1>1
<1> QED BY <1>1, <1>2, <1>3, <1>4

LEMMA TakeFromChannel ==
  ASSUME NEW s \in Seq(Ids), s # <<>>
  PROVE  /\ Head(s) \in Ids
         /\ Tail(s) \in Seq(Ids) /\ Len(Tail(s)) < Len(s)
         /\ {s[k] : k \in 1..Len(s)} = {Head(s)} \cup {Tail(s)[k] : k \in 1..Len(Tail(s))}
<1>1. /\ Len(s) \in Nat \ {0} /\ Head(s) = s[1] /\ s[1] \in Ids
      /\ Tail(s) \in Seq(Ids) /\ Len(Tail(s)) = Len(s) - 1
  OBVIOUS
<1>2. \A k \in 1..Len(Tail(s)) : Tail(s)[k] = s[k + 1]
  OBVIOUS
<1>3. \A k \in 1..Len(s) : k = 1 \/ (k - 1 \in 1..Len(Tail(s)) /\ Tail(s)[k - 1] = s[k])
  BY <1>1, <1>2
<1>4. \A k \in 1..Len(Tail(s)) : k + 1 \in 1..Len(s)
  BY <1>1
<1> QED BY <1>1, <1>2, <1>3, <1>4

LEMMA PublishStep ==
  ASSUME StreamInv, NEW e \in Emitters, Publish(e)
  PROVE  StreamInv'
<1> USE Constants
<1>1. PICK i \in Ids : i = emitter[e] /\ event[i] \in {"stored", "pruned"}
  BY DEF Publish, StreamInv, TypeOK, HolderInv
<1>2. /\ buf' = [c \in Clients |-> IF HasRoom(c) THEN Append(buf[c], i) ELSE buf[c]]
      /\ missed' = [c \in Clients |->
                      IF PassesBy(c, i) THEN missed[c] \cup {i} ELSE missed[c]]
      /\ emitter' = [emitter EXCEPT ![e] = 0]
      /\ UNCHANGED <<event, pc, cursor, sent, page, got, last, from>>
  BY <1>1 DEF Publish, PublishTo, handlerVars, clientVars
<1>3. \A c \in Clients : buf[c] \in Seq(Ids) /\ Len(buf[c]) \in Nat
  BY DEF StreamInv, TypeOK
<1>4. \A c \in Clients :
        /\ HasRoom(c) => /\ buf'[c] \in Seq(Ids) /\ Len(buf'[c]) = Len(buf[c]) + 1
                         /\ InChannel(c)' = InChannel(c) \cup {i}
        /\ ~HasRoom(c) => buf'[c] = buf[c] /\ InChannel(c)' = InChannel(c)
  <2> SUFFICES ASSUME NEW c \in Clients
               PROVE  /\ HasRoom(c) => /\ buf'[c] \in Seq(Ids) /\ Len(buf'[c]) = Len(buf[c]) + 1
                                        /\ InChannel(c)' = InChannel(c) \cup {i}
                      /\ ~HasRoom(c) => buf'[c] = buf[c] /\ InChannel(c)' = InChannel(c)
    OBVIOUS
  <2>1. buf'[c] = IF HasRoom(c) THEN Append(buf[c], i) ELSE buf[c]
    BY <1>2
  <2>2. CASE HasRoom(c)
    <3>1. buf'[c] = Append(buf[c], i)
      BY <2>1, <2>2
    <3>2. /\ Append(buf[c], i) \in Seq(Ids) /\ Len(Append(buf[c], i)) = Len(buf[c]) + 1
          /\ {Append(buf[c], i)[k] : k \in 1..Len(Append(buf[c], i))}
               = {buf[c][k] : k \in 1..Len(buf[c])} \cup {i}
      BY <1>3, AppendToChannel
    <3> QED BY <2>2, <3>1, <3>2 DEF InChannel
  <2>3. CASE ~HasRoom(c)
    BY <2>1, <2>3 DEF InChannel
  <2> QED BY <2>2, <2>3
<1>5. TypeOK'
  <2>1. \A c \in Clients : buf'[c] \in Seq(Ids) /\ Len(buf'[c]) <= Buffer
    <3> SUFFICES ASSUME NEW c \in Clients
                 PROVE  buf'[c] \in Seq(Ids) /\ Len(buf'[c]) <= Buffer
      OBVIOUS
    <3>1. CASE HasRoom(c)
      <4>1. buf'[c] \in Seq(Ids) /\ Len(buf'[c]) = Len(buf[c]) + 1
        BY <1>4, <3>1
      <4>2. Len(buf[c]) < Buffer
        BY <3>1 DEF HasRoom
      <4> QED BY <1>3, <4>1, <4>2
    <3>2. CASE ~HasRoom(c)
      BY <1>3, <1>4, <3>2 DEF StreamInv, TypeOK
    <3> QED BY <3>1, <3>2
  <2>2. buf' \in [Clients -> Seq(Ids)]
    BY <1>2, <2>1
  <2>3. missed' \in [Clients -> SUBSET Ids]
    BY <1>2 DEF StreamInv, TypeOK
  <2> QED BY <1>2, <2>1, <2>2, <2>3 DEF StreamInv, TypeOK
<1>6. \A f \in Emitters : emitter'[f] = IF f = e THEN 0 ELSE emitter[f]
  BY <1>2 DEF StreamInv, TypeOK
<1>7. HolderInv'
  BY <1>2, <1>6 DEF StreamInv, HolderInv
<1>8. OnlyCommitted'
  BY <1>1, <1>2, <1>4 DEF StreamInv, OnlyCommitted
<1>9. LossInv'
  <2> SUFFICES ASSUME NEW c \in Clients, pc[c] # "off", NEW j \in After(from[c])
               PROVE  \/ j \in Seen(c)' \/ Held(j)'
                      \/ pc[c] = "query" /\ j > cursor[c]
    BY <1>2 DEF LossInv, After, Stored
  <2>1. Seen(c) \subseteq Seen(c)'
    BY <1>2, <1>4 DEF Seen
  <2>2. CASE j = i
    <3>1. CASE HasRoom(c)
      BY <1>4, <2>2, <3>1 DEF Seen
    <3>2. CASE PassesBy(c, i)
      BY <1>2, <2>2, <3>2 DEF Seen
    <3>3. CASE ~HasRoom(c) /\ ~PassesBy(c, i)
      <4>1. \/ i \in got[c] \cup page[c]
            \/ pc[c] = "query" /\ i > cursor[c]
        <5>1. pc[c] \in {"query", "tail", "live"}
          BY DEF StreamInv, TypeOK
        <5>2. i \in Nat /\ cursor[c] \in Nat
          <6>1. cursor[c] \in {0} \cup Ids
            BY DEF StreamInv, TypeOK
          <6>2. Ids \subseteq Nat /\ 0 \in Nat
            BY Constants
          <6>3. i \in Nat
            BY <6>2
          <6>4. cursor[c] = 0 \/ cursor[c] \in Ids
            BY <6>1
          <6> QED BY <6>2, <6>3, <6>4
        <5>3. i > cursor[c] <=> ~(i <= cursor[c])
          BY <5>2
        <5> QED BY <3>3, <5>1, <5>3 DEF PassesBy
      <4> QED BY <4>1, <2>1, <2>2 DEF Seen
    <3> QED BY <3>1, <3>2, <3>3
  <2>3. CASE j # i
    <3>1. Held(j) => Held(j)'
      BY <1>1, <1>6, <2>3 DEF Held
    <3> QED BY <3>1, <2>1 DEF StreamInv, LossInv
  <2> QED BY <2>2, <2>3
<1> QED BY <1>5, <1>7, <1>8, <1>9 DEF StreamInv

-----------------------------------------------------------------------------
(* Connections.                                                            *)

\* A step of c's handler or client; the other connections are as they were.
Others(c) ==
  \A d \in Clients \ {c} :
    /\ pc'[d] = pc[d] /\ cursor'[d] = cursor[d] /\ page'[d] = page[d]
    /\ buf'[d] = buf[d] /\ got'[d] = got[d] /\ from'[d] = from[d]
    /\ missed'[d] = missed[d]

LEMMA ConnectionStep ==
  ASSUME StreamInv, TypeOK', NEW c \in Clients, Others(c),
         UNCHANGED <<event, emitter>>,
         \A i \in got'[c] \cup page'[c] \cup InChannel(c)' :
           event[i] \in {"stored", "pruned"},
         pc'[c] # "off" =>
           \A i \in Ids : event[i] = "stored" /\ i > from'[c] =>
             \/ i \in Seen(c)' \/ Held(i)
             \/ pc'[c] = "query" /\ i > cursor'[c]
  PROVE  StreamInv'
<1>1. HolderInv'
  BY DEF StreamInv, HolderInv
<1>2. \A d \in Clients \ {c} : InChannel(d)' = InChannel(d) /\ Seen(d)' = Seen(d)
  BY DEF Others, InChannel, Seen
<1>3. \A i : Held(i)' <=> Held(i)
  BY DEF Held
<1>4. OnlyCommitted'
  <2> SUFFICES ASSUME NEW d \in Clients,
                      NEW i \in got'[d] \cup page'[d] \cup InChannel(d)'
               PROVE  event[i] \in {"stored", "pruned"}
    BY DEF OnlyCommitted
  <2> QED BY <1>2 DEF Others, StreamInv, OnlyCommitted
<1>5. LossInv'
  <2> SUFFICES ASSUME NEW d \in Clients, pc'[d] # "off", NEW i \in Ids,
                      event[i] = "stored", i > from'[d]
               PROVE  \/ i \in Seen(d)' \/ Held(i)
                      \/ pc'[d] = "query" /\ i > cursor'[d]
    BY <1>3 DEF LossInv, After, Stored
  <2>1. CASE d = c
    BY <2>1
  <2>2. CASE d # c
    BY <1>2, <2>2 DEF Others, StreamInv, LossInv, After, Stored
  <2> QED BY <2>1, <2>2
<1> QED BY <1>1, <1>4, <1>5 DEF StreamInv

LEMMA ConnectStep ==
  ASSUME StreamInv, NEW c \in Clients, Connect(c)
  PROVE  StreamInv'
<1> USE Constants
<1>1. PICK n \in {0} \cup Ids : /\ cursor' = [cursor EXCEPT ![c] = n]
                                /\ from' = [from EXCEPT ![c] = n]
  BY DEF Connect, StreamInv, TypeOK
<1>2. /\ pc' = [pc EXCEPT ![c] = "query"]
      /\ UNCHANGED <<event, emitter, sent, page, buf, got, last, missed>>
  BY DEF Connect
<1>3. TypeOK'
  BY <1>1, <1>2 DEF StreamInv, TypeOK
<1>4. Others(c)
  BY <1>1, <1>2 DEF Others, StreamInv, TypeOK
<1>5. \A i \in got'[c] \cup page'[c] \cup InChannel(c)' : event[i] \in {"stored", "pruned"}
  BY <1>2 DEF InChannel, StreamInv, OnlyCommitted
<1>6. pc'[c] = "query" /\ cursor'[c] = from'[c]
  BY <1>1, <1>2 DEF StreamInv, TypeOK
<1> QED BY <1>2, <1>3, <1>4, <1>5, <1>6, ConnectionStep

LEMMA DisconnectStep ==
  ASSUME StreamInv, NEW c \in Clients, Disconnect(c)
  PROVE  StreamInv'
<1> USE Constants
<1>1. Disconnected(c) /\ UNCHANGED <<event, emitter, last>>
  BY DEF Disconnect
<1>2. /\ pc'[c] = "off" /\ page'[c] = {} /\ got'[c] = {} /\ buf'[c] = <<>>
  BY <1>1 DEF Disconnected, StreamInv, TypeOK
<1>3. TypeOK'
  BY <1>1 DEF Disconnected, StreamInv, TypeOK
<1>4. Others(c)
  BY <1>1 DEF Disconnected, Others, StreamInv, TypeOK
<1>5. \A i \in got'[c] \cup page'[c] \cup InChannel(c)' : event[i] \in {"stored", "pruned"}
  BY <1>2 DEF InChannel
<1> QED BY <1>1, <1>2, <1>3, <1>4, <1>5, ConnectionStep

LEMMA WriteFrameStep ==
  ASSUME StreamInv, NEW c \in Clients, WriteFrame(c)
  PROVE  StreamInv'
<1> USE Constants
<1>1. PICK i \in page[c] :
        /\ page' = [page EXCEPT ![c] = @ \ {i}]
        /\ got' = [got EXCEPT ![c] = @ \cup {i}]
        /\ last' = [last EXCEPT ![c] = i]
  <2>1. page[c] \in SUBSET Nat /\ page[c] # {}
    BY DEF WriteFrame, StreamInv, TypeOK
  <2>2. Smallest(page[c]) \in page[c]
    BY <2>1, SmallestOf
  <2> QED BY <2>2 DEF WriteFrame
<1>2. UNCHANGED <<event, emitter, pc, cursor, sent, buf, from, missed>>
  BY DEF WriteFrame
<1>3. i \in Ids
  BY DEF StreamInv, TypeOK
<1>4. TypeOK'
  BY <1>1, <1>2, <1>3 DEF StreamInv, TypeOK
<1>5. Others(c)
  BY <1>1, <1>2 DEF Others, StreamInv, TypeOK
<1>6. InChannel(c)' = InChannel(c)
  BY <1>2 DEF InChannel
<1>7. got'[c] \cup page'[c] = got[c] \cup page[c]
  BY <1>1 DEF StreamInv, TypeOK
<1>8. \A j \in got'[c] \cup page'[c] \cup InChannel(c)' : event[j] \in {"stored", "pruned"}
  BY <1>6, <1>7 DEF StreamInv, OnlyCommitted
<1>9. Seen(c)' = Seen(c)
  BY <1>2, <1>6, <1>7 DEF Seen
<1>10. pc[c] # "off" =>
         \A j \in Ids : event[j] = "stored" /\ j > from[c] =>
           j \in Seen(c)' \/ Held(j) \/ (pc[c] = "query" /\ j > cursor[c])
  BY <1>9 DEF StreamInv, LossInv, After, Stored
<1> QED BY <1>2, <1>4, <1>5, <1>8, <1>10, ConnectionStep

LEMMA StreamLiveStep ==
  ASSUME StreamInv, NEW c \in Clients, StreamLive(c)
  PROVE  StreamInv'
<1> USE Constants
<1>1. buf[c] \in Seq(Ids) /\ buf[c] # <<>> /\ Len(buf[c]) <= Buffer
  BY DEF StreamLive, StreamInv, TypeOK
<1> DEFINE s == buf[c]
<1>2. /\ Head(s) \in Ids
      /\ Tail(s) \in Seq(Ids) /\ Len(Tail(s)) < Len(s)
      /\ {s[k] : k \in 1..Len(s)} = {Head(s)} \cup {Tail(s)[k] : k \in 1..Len(Tail(s))}
  BY <1>1, TakeFromChannel
<1>3. /\ buf' = [buf EXCEPT ![c] = Tail(buf[c])]
      /\ got' = [got EXCEPT ![c] = @ \cup {Head(buf[c])}]
      /\ last' = [last EXCEPT ![c] = Head(buf[c])]
      /\ UNCHANGED <<event, emitter, pc, cursor, sent, page, from, missed>>
  BY DEF StreamLive, handlerVars
<1>4. /\ buf'[c] = Tail(buf[c])
      /\ got'[c] = got[c] \cup {Head(buf[c])}
  BY <1>3 DEF StreamInv, TypeOK
<1>5. TypeOK'
  <2>1. Len(Tail(s)) <= Buffer
    BY <1>1, <1>2
  <2>2. \A d \in Clients : d # c => buf'[d] = buf[d]
    BY <1>3 DEF StreamInv, TypeOK
  <2>3. \A d \in Clients : Len(buf'[d]) <= Buffer
    BY <1>4, <2>1, <2>2 DEF StreamInv, TypeOK
  <2>4. /\ buf' \in [Clients -> Seq(Ids)] /\ got' \in [Clients -> SUBSET Ids]
        /\ last' \in [Clients -> {0} \cup Ids]
    BY <1>2, <1>3 DEF StreamInv, TypeOK
  <2> QED BY <1>3, <2>3, <2>4 DEF StreamInv, TypeOK
<1>6. Others(c)
  BY <1>3 DEF Others, StreamInv, TypeOK
<1>7. got'[c] \cup InChannel(c)' = got[c] \cup InChannel(c)
  BY <1>2, <1>4 DEF InChannel
<1>8. \A j \in got'[c] \cup page'[c] \cup InChannel(c)' : event[j] \in {"stored", "pruned"}
  BY <1>3, <1>7 DEF StreamInv, OnlyCommitted
<1>9. Seen(c)' = Seen(c)
  BY <1>3, <1>7 DEF Seen
<1>10. pc[c] # "off" =>
         \A j \in Ids : event[j] = "stored" /\ j > from[c] =>
           j \in Seen(c)' \/ Held(j) \/ (pc[c] = "query" /\ j > cursor[c])
  BY <1>9 DEF StreamInv, LossInv, After, Stored
<1> QED BY <1>3, <1>5, <1>6, <1>8, <1>10, ConnectionStep

LEMMA SubscribeStep ==
  ASSUME StreamInv, NEW c \in Clients, Subscribe(c)
  PROVE  StreamInv'
<1> USE Constants
<1>1. /\ pc[c] = "tail" /\ pc' = [pc EXCEPT ![c] = "live"]
      /\ UNCHANGED <<event, emitter, cursor, sent, page, buf, got, last, from, missed>>
  BY DEF Subscribe, clientVars
<1>2. TypeOK'
  BY <1>1 DEF StreamInv, TypeOK
<1>3. Others(c)
  BY <1>1 DEF Others, StreamInv, TypeOK
<1>4. InChannel(c)' = InChannel(c) /\ Seen(c)' = Seen(c)
  BY <1>1 DEF InChannel, Seen
<1>5. \A j \in got'[c] \cup page'[c] \cup InChannel(c)' : event[j] \in {"stored", "pruned"}
  BY <1>1, <1>4 DEF StreamInv, OnlyCommitted
<1>6. \A j \in Ids : event[j] = "stored" /\ j > from'[c] => j \in Seen(c)' \/ Held(j)
  BY <1>1, <1>4 DEF StreamInv, LossInv, After, Stored
<1> QED BY <1>1, <1>2, <1>3, <1>5, <1>6, ConnectionStep

\* The last query of a replay: what it leaves out is given up.
LEMMA LastQueryStep ==
  ASSUME StreamInv, TypeOK', NEW c \in Clients, Others(c), pc[c] = "query",
         NEW rows \in SUBSET Stored,
         page[c] = {}, page'[c] = rows,
         missed[c] \subseteq missed'[c],
         \A i \in After(cursor[c]) : i \in rows \cup missed'[c],
         UNCHANGED <<event, emitter, cursor, buf, got, from>>
  PROVE  StreamInv'
<1>1. InChannel(c)' = InChannel(c)
  BY DEF InChannel
<1>2. \A i \in got'[c] \cup page'[c] \cup InChannel(c)' : event[i] \in {"stored", "pruned"}
  BY <1>1 DEF StreamInv, OnlyCommitted, Stored
<1>3. Seen(c) \subseteq Seen(c)' /\ rows \cup missed'[c] \subseteq Seen(c)'
  BY <1>1 DEF Seen
<1>4. ASSUME NEW i \in Ids, event[i] = "stored", i > from[c]
      PROVE  i \in Seen(c)' \/ Held(i)
  <2>1. i \in Seen(c) \/ Held(i) \/ i > cursor[c]
    BY <1>4 DEF StreamInv, LossInv, After, Stored
  <2>2. i > cursor[c] => i \in After(cursor[c])
    BY <1>4 DEF After, Stored
  <2> QED BY <1>3, <2>1, <2>2
<1> QED BY <1>2, <1>4, ConnectionStep

LEMMA QueryRecentStep ==
  ASSUME StreamInv, NEW c \in Clients, QueryRecent(c)
  PROVE  StreamInv'
<1> USE Constants
<1> DEFINE rows == LastOf(Stored, Recent)
<1>1. rows \in SUBSET Stored /\ Stored \in SUBSET Ids
  BY DEF LastOf, Stored
<1> HIDE DEF rows
<1>2. /\ pc[c] = "query" /\ page[c] = {} /\ pc' = [pc EXCEPT ![c] = "tail"]
      /\ page' = [page EXCEPT ![c] = rows]
      /\ missed' = [missed EXCEPT ![c] = @ \cup (After(cursor[c]) \ page'[c])]
      /\ UNCHANGED <<event, emitter, cursor, sent, buf, got, last, from>>
  BY DEF QueryRecent, clientVars, rows
<1>3. TypeOK'
  BY <1>1, <1>2 DEF StreamInv, TypeOK, After
<1>4. Others(c)
  BY <1>2 DEF Others, StreamInv, TypeOK
<1>5. page'[c] = rows /\ missed'[c] = missed[c] \cup (After(cursor[c]) \ rows)
  BY <1>2 DEF StreamInv, TypeOK
<1> QED BY <1>1, <1>2, <1>3, <1>4, <1>5, LastQueryStep

LEMMA ReplayFailsStep ==
  ASSUME StreamInv, NEW c \in Clients, ReplayFails(c)
  PROVE  StreamInv'
<1> USE Constants
<1>1. /\ pc[c] = "query" /\ page[c] = {} /\ pc' = [pc EXCEPT ![c] = "tail"]
      /\ missed' = [missed EXCEPT ![c] = @ \cup After(cursor[c])]
      /\ UNCHANGED <<event, emitter, cursor, sent, page, buf, got, last, from>>
  BY DEF ReplayFails, clientVars
<1>2. TypeOK'
  BY <1>1 DEF StreamInv, TypeOK, After, Stored
<1>3. Others(c)
  BY <1>1 DEF Others, StreamInv, TypeOK
<1>4. page'[c] = {} /\ missed'[c] = missed[c] \cup After(cursor[c])
  BY <1>1 DEF StreamInv, TypeOK
<1> QED BY <1>1, <1>2, <1>3, <1>4, LastQueryStep

LEMMA QueryPageStep ==
  ASSUME StreamInv, NEW c \in Clients, QueryPage(c)
  PROVE  StreamInv'
<1> USE Constants
<1> DEFINE n == Limit(c)
           rows == FirstOf(After(cursor[c]), n)
           size == Cardinality(rows)
<1>1. /\ pc[c] = "query" /\ page[c] = {} /\ sent[c] < ReplayMax
      /\ page' = [page EXCEPT ![c] = rows]
      /\ sent' = [sent EXCEPT ![c] = @ + size]
      /\ UNCHANGED <<event, emitter, buf, got, last, from, missed>>
  BY DEF QueryPage, ReplayPage, clientVars
<1>2. IF size = n
      THEN cursor' = [cursor EXCEPT ![c] = Largest(rows)] /\ pc' = pc
      ELSE pc' = [pc EXCEPT ![c] = "tail"] /\ cursor' = cursor
  BY DEF QueryPage, ReplayPage
<1>3. n \in Nat \ {0} /\ n <= ReplayMax - sent[c] /\ sent[c] \in Nat
  <2>1. sent[c] \in 0..ReplayMax
    BY DEF StreamInv, TypeOK
  <2> QED BY <1>1, <2>1 DEF Limit
<1>4. After(cursor[c]) \in SUBSET (1..MaxEvents) /\ After(cursor[c]) \in SUBSET Stored
  BY DEF After, Stored, Ids
<1>5. rows \in SUBSET After(cursor[c]) /\ size \in 0..n /\ IsFiniteSet(rows)
  BY <1>3, <1>4, FirstOfBounded
<1>6. rows \in SUBSET Ids /\ rows \in SUBSET Stored /\ rows \in SUBSET (1..MaxEvents)
  BY <1>4, <1>5 DEF Ids
<1>7. size = n => /\ Largest(rows) \in rows
                  /\ \A i \in After(cursor[c]) : i \in rows \/ i > Largest(rows)
  <2> SUFFICES ASSUME size = n
               PROVE  /\ Largest(rows) \in rows
                      /\ \A i \in After(cursor[c]) : i \in rows \/ i > Largest(rows)
    OBVIOUS
  <2>1. rows # {}
    BY <1>3, FS_EmptySet
  <2>2. Largest(rows) \in rows
    BY <1>6, <2>1, LargestOf
  <2>3. ASSUME NEW i \in After(cursor[c]), i \notin rows PROVE i > Largest(rows)
    <3>1. ~(i < Largest(rows))
      BY <1>3, <1>4, <2>2, <2>3, FirstOfDownward
    <3>2. i \in Nat /\ Largest(rows) \in Nat /\ i # Largest(rows)
      BY <1>4, <1>6, <2>2, <2>3
    <3> QED BY <3>1, <3>2
  <2> QED BY <2>2, <2>3
<1>8. size # n => rows = After(cursor[c])
  BY <1>3, <1>4, ShortPageIsLast
<1> HIDE DEF n, rows, size
<1>9. TypeOK'
  <2>0. sent \in [Clients -> 0..ReplayMax]
    BY DEF StreamInv, TypeOK
  <2>1. sent'[c] \in 0..ReplayMax
    BY <1>1, <1>3, <1>5, <2>0
  <2>2. sent' \in [Clients -> 0..ReplayMax]
    BY <1>1, <2>0, <2>1
  <2>3. cursor' \in [Clients -> {0} \cup Ids] /\ pc' \in [Clients -> {"off", "query", "tail", "live"}]
    <3>1. cursor \in [Clients -> {0} \cup Ids] /\ pc \in [Clients -> {"off", "query", "tail", "live"}]
      BY DEF StreamInv, TypeOK
    <3> QED BY <3>1, <1>2, <1>6, <1>7
  <2>4. page' \in [Clients -> SUBSET Ids]
    <3>1. page \in [Clients -> SUBSET Ids]
      BY DEF StreamInv, TypeOK
    <3> QED BY <3>1, <1>1, <1>6
  <2> QED BY <1>1, <2>2, <2>3, <2>4 DEF StreamInv, TypeOK
<1>10. Others(c)
  BY <1>1, <1>2 DEF Others, StreamInv, TypeOK
<1>11. page'[c] = rows
  <2>1. page \in [Clients -> SUBSET Ids]
    BY DEF StreamInv, TypeOK
  <2> QED BY <1>1, <2>1
<1>12. CASE size # n
  BY <1>1, <1>2, <1>6, <1>8, <1>9, <1>10, <1>11, <1>12, LastQueryStep
<1>13. CASE size = n
  <2>1. cursor'[c] = Largest(rows) /\ pc' = pc
    BY <1>2, <1>13 DEF StreamInv, TypeOK
  <2>2. InChannel(c)' = InChannel(c)
    BY <1>1 DEF InChannel
  <2>3. \A i \in got'[c] \cup page'[c] \cup InChannel(c)' : event[i] \in {"stored", "pruned"}
    BY <1>1, <1>6, <1>11, <2>2 DEF StreamInv, OnlyCommitted, Stored
  <2>4. Seen(c) \subseteq Seen(c)' /\ rows \subseteq Seen(c)'
    BY <1>1, <1>11, <2>2 DEF Seen
  <2>5. ASSUME NEW i \in Ids, event[i] = "stored", i > from[c]
        PROVE  i \in Seen(c)' \/ Held(i) \/ i > cursor'[c]
    <3>1. i \in Seen(c) \/ Held(i) \/ i > cursor[c]
      BY <1>1, <2>5 DEF StreamInv, LossInv, After, Stored
    <3>2. i > cursor[c] => i \in After(cursor[c])
      BY <2>5 DEF After, Stored
    <3> QED BY <1>7, <1>13, <2>1, <2>4, <3>1, <3>2
  <2> QED BY <1>1, <1>9, <1>10, <2>1, <2>3, <2>5, ConnectionStep
<1> QED BY <1>12, <1>13

LEMMA CrashStep ==
  ASSUME StreamInv, Crash
  PROVE  StreamInv'
<1> USE Constants
<1>1. TypeOK'
  BY DEF Crash, StreamInv, TypeOK
<1>2. HolderInv' /\ LossInv'
  BY DEF Crash, HolderInv, LossInv
<1>3. OnlyCommitted'
  BY DEF Crash, OnlyCommitted, InChannel
<1> QED BY <1>1, <1>2, <1>3 DEF StreamInv

-----------------------------------------------------------------------------
LEMMA StreamInductive == StreamInv /\ [Next]_vars => StreamInv'
<1> SUFFICES ASSUME StreamInv, [Next]_vars PROVE StreamInv'
  OBVIOUS
<1>1. CASE \E e \in Emitters : Emit(e)
  BY <1>1, DrawIdStep, CreateEventStep, PublishStep DEF Emit
<1>2. CASE \E c \in Clients : Connect(c) \/ Handle(c) \/ Disconnect(c)
  BY <1>2, ConnectStep, DisconnectStep, QueryPageStep, QueryRecentStep,
     ReplayFailsStep, WriteFrameStep, SubscribeStep, StreamLiveStep DEF Handle
<1>3. CASE Prune \/ Crash
  BY <1>3, PruneStep, CrashStep
<1>4. CASE UNCHANGED vars
  BY <1>4 DEF vars, handlerVars, clientVars, StreamInv, TypeOK, HolderInv,
     OnlyCommitted, LossInv, InChannel, Seen, Held, After, Stored
<1> QED BY <1>1, <1>2, <1>3, <1>4 DEF Next

LEMMA StreamInvariant == Spec => []StreamInv
BY InitStream, StreamInductive, PTL DEF Spec

\* Every variable keeps its type; a replay never exceeds ReplayMax and a
\* channel never its capacity.
THEOREM StreamTypeCorrect == Spec => []TypeOK
BY StreamInvariant, PTL DEF StreamInv

\* Clients are shown committed events only, whatever fails or is pruned.
THEOREM OnlyCommittedCorrect == Spec => []OnlyCommitted
BY StreamInvariant, PTL DEF StreamInv

\* Connections lose events only at the known places: pages join without a gap
\* whatever their size, and the subscription misses nothing after it.
THEOREM LossAccountedCorrect == Spec => []LossAccounted
BY StreamInvariant, LossInvImplies, PTL DEF StreamInv
-----------------------------------------------------------------------------
(* Administration of webhooks.  Requests and the tables they share are tied *)
(* by what a request holds: a copy of a row that still agrees with the row  *)
(* outside of what was asked, unless the webhook is gone or its requests    *)
(* overlap; and the number of an event that no log holds yet.              *)

Fields == {"enabled", "events", "secret"}
Writing == {"update", "disable"}
Delivering == {"check", "dial", "log"}

Copies == [hook : Hooks \cup {None}, row : Row \cup {None}, asked : SUBSET Fields,
           event : 0..MaxTests, sent : 0..(MaxRequests - 1)]

AdminTypes ==
  /\ hook \in [Hooks -> Row \cup {None}] /\ promised \in [Hooks -> Row \cup {None}]
  /\ subs \in [Hooks -> SUBSET Patterns] /\ log \in [Hooks -> Seq(1..MaxTests)]
  /\ step \in [Requests -> {"idle"} \cup Writing \cup Delivering]
  /\ job \in [Requests -> Copies]
  /\ used \in SUBSET Hooks /\ blurred \in SUBSET used
  /\ changes \in 0..MaxChanges /\ events \in 0..MaxTests
  /\ reached \in SUBSET Addresses

CopyInv ==
  \A r \in Requests :
    /\ step[r] = "idle" <=> job[r] = NoJob
    /\ step[r] # "idle" => job[r].hook \in used
    /\ step[r] \in Writing => job[r].row \in Row

TablesInv ==
  \A h \in Hooks :
    /\ subs[h] = IF hook[h] = None THEN {} ELSE hook[h].events
    /\ hook[h] = None => log[h] = <<>>
    /\ hook[h] # None => h \in used

LogInv ==
  /\ \A h \in Hooks : \A i \in 1..Len(log[h]) :
       /\ log[h][i] \in 1..events
       /\ \A j \in 1..Len(log[h]) : log[h][i] = log[h][j] => i = j
  /\ \A r \in Requests : step[r] \in Delivering =>
       /\ job[r].event \in 1..events
       /\ \A h \in Hooks : \A i \in 1..Len(log[h]) : log[h][i] # job[r].event
       /\ \A q \in Requests :
            step[q] \in Delivering /\ job[q].event = job[r].event => q = r

Agrees(r, h) == \A f \in Fields \ job[r].asked : job[r].row[f] = hook[h][f]

Settled(h) ==
  /\ promised[h] = hook[h]
  /\ \A r \in Requests : r \in About(h) =>
       About(h) = {r} /\ (hook[h] = None \/ Agrees(r, h))

SettingsInv == \A h \in used \ blurred : Settled(h)

AdminInv == AdminTypes /\ CopyInv /\ TablesInv /\ LogInv /\ SettingsInv /\ PublicOnly

LEMMA RowFacts ==
  ASSUME NEW row \in Row
  PROVE  /\ row # None
         /\ row \in [enabled : BOOLEAN, events : EventChoices, secret : 1..MaxChanges]
         /\ row.enabled \in BOOLEAN /\ row.events \in EventChoices /\ row.events \in SUBSET Patterns
         /\ row.secret \in 1..MaxChanges
         /\ DOMAIN row = Fields
<1>1. row.enabled \in BOOLEAN /\ row.events \in EventChoices /\ row.secret \in 1..MaxChanges
  BY DEF Row
<1>2. row.events \in SUBSET Patterns
  BY <1>1 DEF EventChoices
<1>3. DOMAIN row = Fields
  BY DEF Row, Fields
<1>4. row \in [enabled : BOOLEAN, events : SUBSET Patterns, secret : Nat]
  <2>1. \A n \in 1..MaxChanges : n \in Nat
    BY AdminAssumption
  <2> QED BY <1>1, <1>2, <2>1 DEF Row
<1>5. row # None
  BY <1>4, AdminAssumption
<1> QED BY <1>1, <1>2, <1>3, <1>5 DEF Row

\* Two rows with the same fields are the same.
LEMMA RowEquality ==
  ASSUME NEW a \in Row, NEW b \in Row, \A f \in Fields : a[f] = b[f]
  PROVE  a = b
<1>1. a.enabled = b.enabled /\ a.events = b.events /\ a.secret = b.secret
  BY DEF Fields
<1> QED BY <1>1 DEF Row

\* Adding up a change and the row it was asked of gives the copy.
LEMMA RowMerge ==
  ASSUME NEW a \in Row, NEW b \in Row, NEW asked \in SUBSET Fields,
         \A f \in Fields \ asked : b[f] = a[f]
  PROVE  [f \in DOMAIN a |-> IF f \in asked THEN b[f] ELSE a[f]] = b
<1>1. DOMAIN a = Fields /\ DOMAIN b = Fields
  BY RowFacts
<1>2. [f \in Fields |-> IF f \in asked THEN b[f] ELSE a[f]] = [f \in Fields |-> b[f]]
  OBVIOUS
<1>3. b = [f \in Fields |-> b[f]]
  BY <1>1 DEF Row
<1> QED BY <1>1, <1>2, <1>3

LEMMA NoJobFacts ==
  /\ NoJob \in Copies
  /\ NoJob.hook = None /\ NoJob.row = None /\ NoJob.event = 0 /\ NoJob.sent = 0 /\ NoJob.asked = {}
<1>1. 0 \in 0..MaxTests /\ 0 \in 0..(MaxRequests - 1)
  BY AdminAssumption DEF MaxRequests
<1> QED BY <1>1 DEF NoJob, Test, Copies

LEMMA GotoEffect ==
  ASSUME AdminTypes, NEW r \in Requests, NEW next, NEW j, Goto(r, next, j)
  PROVE  /\ step'[r] = next /\ job'[r] = j
         /\ \A q \in Requests \ {r} : step'[q] = step[q] /\ job'[q] = job[q]
         /\ next \in {"idle"} \cup Writing \cup Delivering
              => step' \in [Requests -> {"idle"} \cup Writing \cup Delivering]
         /\ j \in Copies => job' \in [Requests -> Copies]
BY DEF Goto, AdminTypes

-----------------------------------------------------------------------------
(* What steps that only move a request on keep.                            *)
LEMMA CopyFrame ==
  ASSUME AdminTypes, CopyInv, NEW r \in Requests, NEW next, NEW j, Goto(r, next, j),
         used \in SUBSET used',
         \/ next = "idle" /\ j = NoJob
         \/ /\ next # "idle" /\ j.hook \in used' /\ used' \in SUBSET Hooks
            /\ next \in Writing => j.row \in Row
  PROVE  CopyInv'
<1>1. /\ step'[r] = next /\ job'[r] = j
      /\ \A q \in Requests \ {r} : step'[q] = step[q] /\ job'[q] = job[q]
  BY GotoEffect
<1>2. next # "idle" => j # NoJob
  BY NoJobFacts, AdminAssumption
<1>3. ASSUME NEW q \in Requests
      PROVE  /\ step'[q] = "idle" <=> job'[q] = NoJob
             /\ step'[q] # "idle" => job'[q].hook \in used'
             /\ step'[q] \in Writing => job'[q].row \in Row
  <2>1. CASE q = r
    BY <1>1, <1>2, <2>1 DEF Writing
  <2>2. CASE q # r
    BY <1>1, <2>2 DEF CopyInv
  <2> QED BY <2>1, <2>2
<1> QED BY <1>3 DEF CopyInv

LEMMA TablesFrame ==
  ASSUME TablesInv, UNCHANGED <<hook, subs, log>>, used \in SUBSET used'
  PROVE  TablesInv'
BY DEF TablesInv

LEMMA LogFrame ==
  ASSUME LogInv, UNCHANGED <<log, events>>,
         \A q \in Requests : step'[q] \in Delivering =>
           step[q] \in Delivering /\ job'[q].event = job[q].event
  PROVE  LogInv'
<1>1. \A h \in Hooks : \A i \in 1..Len(log'[h]) :
       /\ log'[h][i] \in 1..events'
       /\ \A j \in 1..Len(log'[h]) : log'[h][i] = log'[h][j] => i = j
  BY DEF LogInv
<1>2. ASSUME NEW r \in Requests, step'[r] \in Delivering
      PROVE  /\ job'[r].event \in 1..events'
             /\ \A h \in Hooks : \A i \in 1..Len(log'[h]) : log'[h][i] # job'[r].event
             /\ \A q \in Requests :
                  step'[q] \in Delivering /\ job'[q].event = job'[r].event => q = r
  <2>1. step[r] \in Delivering /\ job'[r].event = job[r].event
    BY <1>2
  <2>2. /\ job[r].event \in 1..events
        /\ \A h \in Hooks : \A i \in 1..Len(log[h]) : log[h][i] # job[r].event
        /\ \A q \in Requests :
             step[q] \in Delivering /\ job[q].event = job[r].event => q = r
    BY <2>1 DEF LogInv
  <2> QED BY <2>1, <2>2
<1> QED BY <1>1, <1>2 DEF LogInv

LEMMA SettledFrame ==
  ASSUME NEW h \in Hooks, Settled(h), hook'[h] = hook[h], promised'[h] = promised[h],
         \A q \in Requests : q \in About(h)' => q \in About(h) /\ job'[q] = job[q]
  PROVE  Settled(h)'
<1>1. ASSUME NEW r \in Requests, r \in About(h)'
      PROVE  About(h)' = {r} /\ (hook'[h] = None \/ Agrees(r, h)')
  <2>1. About(h)' \in SUBSET About(h)
    BY DEF About
  <2>2. job'[r] = job[r]
    BY <1>1
  <2>3. About(h) = {r} /\ (hook[h] = None \/ Agrees(r, h))
    BY <1>1, <2>1 DEF Settled
  <2> QED BY <1>1, <2>1, <2>2, <2>3 DEF Agrees
<1> QED BY <1>1 DEF Settled

LEMMA SettingsFrame ==
  ASSUME AdminTypes, SettingsInv, UNCHANGED <<hook, promised, used, blurred>>,
         \A q \in Requests : step'[q] \in Writing => step[q] \in Writing /\ job'[q] = job[q]
  PROVE  SettingsInv'
<1>1. ASSUME NEW h \in used \ blurred
      PROVE  Settled(h)'
  <2>1. h \in Hooks /\ Settled(h)
    BY DEF SettingsInv, AdminTypes
  <2>2. \A q \in Requests : q \in About(h)' => q \in About(h) /\ job'[q] = job[q]
    BY DEF About, Writing
  <2> QED BY <2>1, <2>2, SettledFrame
<1> QED BY <1>1 DEF SettingsInv

LEMMA InitAdmin ==
  ASSUME AdminInit
  PROVE  AdminInv
<1>1. AdminTypes
  <2>1. 0 \in 0..MaxTests /\ 0 \in 0..MaxChanges
    BY AdminAssumption
  <2>2. <<>> \in Seq(1..MaxTests)
    OBVIOUS
  <2> QED BY <2>1, <2>2, NoJobFacts DEF AdminInit, AdminTypes
<1>2. CopyInv /\ TablesInv /\ SettingsInv /\ PublicOnly
  BY DEF AdminInit, CopyInv, TablesInv, SettingsInv, PublicOnly, Writing
<1>3. LogInv
  BY DEF AdminInit, LogInv, Delivering
<1> QED BY <1>1, <1>2, <1>3 DEF AdminInv

-----------------------------------------------------------------------------
(* What a request may hold.                                                *)
LEMMA CopyForms ==
  ASSUME NEW h \in Hooks
  PROVE  /\ \A w \in Row, A \in SUBSET Fields :
              /\ Copy(h, w, A) \in Copies
              /\ Copy(h, w, A).hook = h /\ Copy(h, w, A).row = w /\ Copy(h, w, A).asked = A
         /\ \A n \in 0..MaxTests :
              Test(h, n) \in Copies /\ Test(h, n).hook = h /\ Test(h, n).event = n
<1>1. 0 \in 0..MaxTests /\ 0 \in 0..(MaxRequests - 1)
  BY AdminAssumption DEF MaxRequests
<1>2. \A w \in Row, A \in SUBSET Fields :
        [hook |-> h, row |-> w, asked |-> A, event |-> 0, sent |-> 0] \in Copies
  BY <1>1 DEF Copies
<1>3. \A n \in 0..MaxTests :
        [hook |-> h, row |-> None, asked |-> {}, event |-> n, sent |-> 0] \in Copies
  BY <1>1 DEF Copies
<1> QED BY <1>2, <1>3 DEF Copy, Test

LEMMA SentForms ==
  ASSUME NEW j \in Copies, NEW k \in 0..(MaxRequests - 1)
  PROVE  /\ [j EXCEPT !.sent = k] \in Copies
         /\ [j EXCEPT !.sent = k].hook = j.hook
         /\ [j EXCEPT !.sent = k].event = j.event
BY DEF Copies

-----------------------------------------------------------------------------
(* The rows: created, read, written and deleted.                           *)
LEMMA CreateWebhookStep ==
  ASSUME AdminInv, NEW r \in Requests, CreateWebhook(r)
  PROVE  AdminInv'
<1>1. PICK h \in Hooks \ used, S \in EventChoices, on \in BOOLEAN :
        LET row == [enabled |-> TRUE, events |-> S, secret |-> changes + 1] IN
        /\ used' = used \cup {h} /\ changes' = changes + 1
        /\ hook' = [hook EXCEPT ![h] = row]
        /\ replaceWebhookEventSubscriptions(h, S)
        /\ IF on
           THEN End(r) /\ promised' = [promised EXCEPT ![h] = row] /\ UNCHANGED blurred
           ELSE /\ Goto(r, "disable", Copy(h, [row EXCEPT !.enabled = FALSE], DOMAIN row))
                /\ blurred' = blurred \cup {h}
                /\ UNCHANGED promised
  BY DEF CreateWebhook
<1> DEFINE row == [enabled |-> TRUE, events |-> S, secret |-> changes + 1]
           off == [row EXCEPT !.enabled = FALSE]
           copy == Copy(h, off, DOMAIN row)
<1>2. step[r] = "idle" /\ changes < MaxChanges /\ UNCHANGED <<log, events, reached>>
  BY DEF CreateWebhook
<1>3. AdminTypes /\ CopyInv /\ TablesInv /\ LogInv /\ SettingsInv /\ PublicOnly
  BY DEF AdminInv
<1>4. changes + 1 \in 1..MaxChanges /\ changes' \in 0..MaxChanges
  BY <1>1, <1>2, <1>3, AdminAssumption DEF AdminTypes
<1>5. row \in Row /\ off \in Row /\ row.events = S /\ DOMAIN row = Fields
  BY <1>4 DEF Row, Fields
<1>6. row # None /\ S \in SUBSET Patterns
  BY <1>5, RowFacts
<1>7. copy \in Copies /\ copy.hook = h /\ copy.row = off
  BY <1>5, CopyForms
<1>8. /\ hook' = [hook EXCEPT ![h] = row] /\ subs' = [subs EXCEPT ![h] = S]
      /\ used' = used \cup {h} /\ h \in Hooks /\ h \notin used
  BY <1>1 DEF replaceWebhookEventSubscriptions
<1>9. \/ /\ Goto(r, "idle", NoJob) /\ promised' = [promised EXCEPT ![h] = row] /\ blurred' = blurred
      \/ Goto(r, "disable", copy) /\ blurred' = blurred \cup {h} /\ promised' = promised
  BY <1>1 DEF End
<1> HIDE DEF row, off, copy
<1>10. AdminTypes'
  <2>1. step' \in [Requests -> {"idle"} \cup Writing \cup Delivering] /\ job' \in [Requests -> Copies]
    BY <1>3, <1>7, <1>9, GotoEffect, NoJobFacts DEF Writing
  <2>2. hook' \in [Hooks -> Row \cup {None}] /\ subs' \in [Hooks -> SUBSET Patterns]
    BY <1>3, <1>5, <1>6, <1>8 DEF AdminTypes
  <2>3. promised' \in [Hooks -> Row \cup {None}]
    BY <1>3, <1>5, <1>9 DEF AdminTypes
  <2>4. used' \in SUBSET Hooks /\ blurred' \in SUBSET used'
    BY <1>3, <1>8, <1>9 DEF AdminTypes
  <2> QED BY <1>2, <1>3, <1>4, <2>1, <2>2, <2>3, <2>4 DEF AdminTypes
<1>11. CopyInv'
  <2>1. used \in SUBSET used' /\ used' \in SUBSET Hooks /\ h \in used'
    BY <1>8, <1>10 DEF AdminTypes
  <2>2. CASE Goto(r, "idle", NoJob)
    BY <1>3, <2>1, <2>2, CopyFrame
  <2>3. CASE Goto(r, "disable", copy)
    BY <1>3, <1>5, <1>7, <2>1, <2>3, CopyFrame
  <2> QED BY <1>9, <2>2, <2>3
<1>12. TablesInv'
  <2>1. ASSUME NEW g \in Hooks
        PROVE  /\ subs'[g] = IF hook'[g] = None THEN {} ELSE hook'[g].events
               /\ hook'[g] = None => log'[g] = <<>>
               /\ hook'[g] # None => g \in used'
    <3>1. CASE g = h
      <4>1. hook'[g] = row /\ subs'[g] = S
        BY <1>3, <1>8, <3>1 DEF AdminTypes
      <4> QED BY <1>5, <1>6, <1>8, <3>1, <4>1
    <3>2. CASE g # h
      <4>1. hook'[g] = hook[g] /\ subs'[g] = subs[g] /\ log'[g] = log[g]
        BY <1>2, <1>3, <1>8, <3>2 DEF AdminTypes
      <4> QED BY <1>3, <1>8, <4>1 DEF TablesInv
    <3> QED BY <3>1, <3>2
  <2> QED BY <2>1 DEF TablesInv
<1>13. /\ step'[r] \notin Delivering
       /\ \A q \in Requests \ {r} : step'[q] = step[q] /\ job'[q] = job[q]
  BY <1>3, <1>9, GotoEffect DEF Delivering
<1>14. LogInv'
  BY <1>2, <1>3, <1>13, LogFrame
<1>15. SettingsInv'
  <2>1. ASSUME NEW g \in used' \ blurred'
        PROVE  Settled(g)'
    <3>1. CASE g = h
      <4>1. Goto(r, "idle", NoJob) /\ promised' = [promised EXCEPT ![h] = row]
        BY <1>9, <2>1, <3>1
      <4>2. promised'[h] = row /\ hook'[h] = row
        BY <1>3, <1>8, <4>1 DEF AdminTypes
      <4>3. \A q \in Requests : q \notin About(h)'
        <5>1. step'[r] = "idle"
          BY <1>3, <4>1, GotoEffect
        <5>2. \A q \in Requests : step[q] # "idle" => job[q].hook # h
          BY <1>3, <1>8 DEF CopyInv
        <5> QED BY <1>13, <5>1, <5>2 DEF About
      <4> QED BY <3>1, <4>2, <4>3 DEF Settled
    <3>2. CASE g # h
      <4>1. g \in used \ blurred /\ g \in Hooks
        BY <1>3, <1>8, <1>9, <2>1, <3>2 DEF AdminTypes
      <4>2. hook'[g] = hook[g] /\ promised'[g] = promised[g]
        BY <1>3, <1>8, <1>9, <3>2, <4>1 DEF AdminTypes
      <4>3. r \notin About(g)'
        <5>1. step'[r] = "idle" \/ job'[r].hook = h
          BY <1>3, <1>7, <1>9, GotoEffect
        <5> QED BY <3>2, <5>1 DEF About
      <4>4. \A q \in Requests : q \in About(g)' => q \in About(g) /\ job'[q] = job[q]
        BY <1>13, <4>3 DEF About
      <4> QED BY <1>3, <4>1, <4>2, <4>4, SettledFrame DEF SettingsInv
    <3> QED BY <3>1, <3>2
  <2> QED BY <2>1 DEF SettingsInv
<1>16. PublicOnly'
  BY <1>2, <1>3 DEF PublicOnly
<1> QED BY <1>10, <1>11, <1>12, <1>14, <1>15, <1>16 DEF AdminInv

LEMMA GetWebhookStep ==
  ASSUME AdminInv, NEW r \in Requests, GetWebhook(r)
  PROVE  AdminInv'
<1>1. /\ step[r] = "idle"
      /\ UNCHANGED <<hook, subs, log, used, events, reached, promised>>
  BY DEF GetWebhook, tables
<1>2. PICK h \in Hooks, asked \in {{"enabled"}, {"events"}, {"secret"}} :
       /\ hook[h] # None
       /\ asked = {"secret"} => changes < MaxChanges
       /\ changes' = IF asked = {"secret"} THEN changes + 1 ELSE changes
       /\ \E row \in {[hook[h] EXCEPT !.enabled = ~@], [hook[h] EXCEPT !.secret = changes']}
                     \cup {[hook[h] EXCEPT !.events = S] : S \in EventChoices} :
            /\ \A f \in DOMAIN row \ asked : row[f] = hook[h][f]
            /\ Goto(r, "update", Copy(h, row, asked))
       /\ blurred' = IF About(h) = {} THEN blurred ELSE blurred \cup {h}
  BY DEF GetWebhook
<1>3. PICK row \in {[hook[h] EXCEPT !.enabled = ~@], [hook[h] EXCEPT !.secret = changes']}
                   \cup {[hook[h] EXCEPT !.events = S] : S \in EventChoices} :
            /\ \A f \in DOMAIN row \ asked : row[f] = hook[h][f]
            /\ Goto(r, "update", Copy(h, row, asked))
  BY <1>2
<1>4. AdminTypes /\ CopyInv /\ TablesInv /\ LogInv /\ SettingsInv /\ PublicOnly
  BY DEF AdminInv
<1>5. hook[h] \in Row /\ h \in used /\ h \in Hooks
  BY <1>2, <1>4 DEF AdminTypes, TablesInv
<1>6. changes' \in 0..MaxChanges /\ (asked = {"secret"} => changes' \in 1..MaxChanges)
  BY <1>2, <1>4, AdminAssumption DEF AdminTypes
<1>7. row \in Row
  <2>0. hook[h].enabled \in BOOLEAN /\ hook[h].events \in EventChoices /\ hook[h].secret \in 1..MaxChanges
    BY <1>5, RowFacts
  <2>1. CASE row = [hook[h] EXCEPT !.enabled = ~@]
    <3>1. (~hook[h].enabled) \in BOOLEAN
      BY <2>0
    <3> QED BY <1>5, <2>1, <3>1 DEF Row
  <2>2. CASE row = [hook[h] EXCEPT !.secret = changes']
    <3>1. DOMAIN row = Fields /\ row.secret = changes'
      BY <1>5, <2>2 DEF Row, Fields
    <3>2. "secret" \in asked \/ changes' = hook[h].secret
      BY <1>3, <3>1 DEF Fields
    <3>3. "secret" \in asked => asked = {"secret"}
      BY <1>2
    <3>4. changes' \in 1..MaxChanges
      BY <1>6, <2>0, <3>2, <3>3
    <3> QED BY <1>5, <2>2, <3>4 DEF Row
  <2>3. CASE \E S \in EventChoices : row = [hook[h] EXCEPT !.events = S]
    BY <1>5, <2>3 DEF Row
  <2> QED BY <1>3, <2>1, <2>2, <2>3
<1>8. asked \in SUBSET Fields /\ DOMAIN row = Fields
  BY <1>2, <1>7, RowFacts DEF Fields
<1> DEFINE copy == Copy(h, row, asked)
<1>9. copy \in Copies /\ copy.hook = h /\ copy.row = row /\ copy.asked = asked /\ Goto(r, "update", copy)
  BY <1>3, <1>5, <1>7, <1>8, CopyForms
<1> HIDE DEF copy
<1>10. /\ step'[r] = "update" /\ job'[r] = copy
       /\ \A q \in Requests \ {r} : step'[q] = step[q] /\ job'[q] = job[q]
       /\ step' \in [Requests -> {"idle"} \cup Writing \cup Delivering]
       /\ job' \in [Requests -> Copies]
  BY <1>4, <1>9, GotoEffect DEF Writing
<1>11. AdminTypes'
  <2>1. blurred' \in SUBSET used'
    BY <1>1, <1>2, <1>4, <1>5 DEF AdminTypes
  <2> QED BY <1>1, <1>4, <1>6, <1>10, <2>1 DEF AdminTypes
<1>12. CopyInv'
  <2>1. used \in SUBSET used' /\ h \in used' /\ used' \in SUBSET Hooks
    BY <1>1, <1>4, <1>5 DEF AdminTypes
  <2> QED BY <1>4, <1>7, <1>9, <2>1, CopyFrame
<1>13. TablesInv'
  BY <1>1, <1>4, TablesFrame
<1>14. LogInv'
  BY <1>1, <1>4, <1>10, LogFrame DEF Delivering
<1>15. SettingsInv'
  <2>1. ASSUME NEW g \in used' \ blurred'
        PROVE  Settled(g)'
    <3>1. g \in used \ blurred /\ g \in Hooks /\ Settled(g)
      BY <1>1, <1>2, <1>4, <2>1 DEF AdminTypes, SettingsInv
    <3>2. CASE g # h
      <4>1. r \notin About(g)'
        BY <1>9, <1>10, <3>2 DEF About
      <4>2. \A q \in Requests : q \in About(g)' => q \in About(g) /\ job'[q] = job[q]
        BY <1>10, <4>1 DEF About
      <4> QED BY <1>1, <3>1, <4>2, SettledFrame
    <3>3. CASE g = h
      <4>1. About(h) = {}
        BY <1>2, <2>1, <3>3
      <4>2. About(h)' \in SUBSET {r}
        BY <1>10, <4>1 DEF About
      <4>3. Agrees(r, h)'
        BY <1>1, <1>3, <1>8, <1>9, <1>10 DEF Agrees
      <4> QED BY <1>1, <3>1, <3>3, <4>2, <4>3 DEF Settled
    <3> QED BY <3>2, <3>3
  <2> QED BY <2>1 DEF SettingsInv
<1>16. PublicOnly'
  BY <1>1, <1>4 DEF PublicOnly
<1> QED BY <1>11, <1>12, <1>13, <1>14, <1>15, <1>16 DEF AdminInv

LEMMA UpdateWebhookStep ==
  ASSUME AdminInv, NEW r \in Requests, UpdateWebhook(r)
  PROVE  AdminInv'
<1> DEFINE j == job[r]
           h == job[r].hook
           row == job[r].row
<1>1. /\ step[r] \in Writing /\ StoreUpdate(h, row) /\ Acknowledge(r) /\ Goto(r, "idle", NoJob)
      /\ UNCHANGED <<log, used, changes, events, reached>>
  BY DEF UpdateWebhook, End, Writing
<1>2. AdminTypes /\ CopyInv /\ TablesInv /\ LogInv /\ SettingsInv /\ PublicOnly
  BY DEF AdminInv
<1>3. h \in used /\ h \in Hooks /\ row \in Row /\ j.asked \in SUBSET Fields
  BY <1>1, <1>2 DEF AdminTypes, CopyInv, Writing, Copies
<1>4. /\ hook[h] # None /\ hook' = [hook EXCEPT ![h] = row]
      /\ subs' = [subs EXCEPT ![h] = row.events]
  BY <1>1 DEF StoreUpdate, replaceWebhookEventSubscriptions
<1>5. row # None /\ row.events \in SUBSET Patterns
  BY <1>3, RowFacts
<1>6. /\ blurred' = IF About(h) = {r} THEN blurred \ {h} ELSE blurred
      /\ promised' = [promised EXCEPT ![h] =
           IF h \in blurred \/ @ = None THEN hook'[h]
           ELSE [f \in DOMAIN @ |-> IF f \in j.asked THEN row[f] ELSE @[f]]]
  BY <1>1 DEF Acknowledge
<1>7. /\ step'[r] = "idle" /\ job'[r] = NoJob
      /\ \A q \in Requests \ {r} : step'[q] = step[q] /\ job'[q] = job[q]
      /\ step' \in [Requests -> {"idle"} \cup Writing \cup Delivering]
      /\ job' \in [Requests -> Copies]
  BY <1>1, <1>2, GotoEffect, NoJobFacts
<1>8. hook'[h] = row /\ subs'[h] = row.events
  BY <1>2, <1>3, <1>4 DEF AdminTypes
<1>9. \A g \in Hooks \ {h} : hook'[g] = hook[g] /\ subs'[g] = subs[g] /\ promised'[g] = promised[g]
  BY <1>2, <1>4, <1>6 DEF AdminTypes
<1>10. r \in About(h)
  BY <1>1 DEF About, Writing
<1>11. promised'[h] = row
  <2>1. promised'[h] = IF h \in blurred \/ promised[h] = None THEN hook'[h]
           ELSE [f \in DOMAIN promised[h] |-> IF f \in j.asked THEN row[f] ELSE promised[h][f]]
    BY <1>2, <1>3, <1>6 DEF AdminTypes
  <2>2. CASE h \in blurred \/ promised[h] = None
    BY <1>8, <2>1, <2>2
  <2>3. CASE h \notin blurred /\ promised[h] # None
    <3>1. Settled(h)
      BY <1>2, <1>3, <2>3 DEF SettingsInv
    <3>2. promised[h] = hook[h] /\ Agrees(r, h)
      BY <1>4, <1>10, <3>1 DEF Settled
    <3>3. promised[h] \in Row
      BY <1>2, <1>3, <2>3 DEF AdminTypes
    <3>4. \A f \in Fields \ j.asked : row[f] = promised[h][f]
      BY <3>2 DEF Agrees
    <3>5. [f \in DOMAIN promised[h] |-> IF f \in j.asked THEN row[f] ELSE promised[h][f]] = row
      BY <1>3, <3>3, <3>4, RowMerge
    <3> QED BY <2>1, <2>3, <3>5
  <2> QED BY <2>2, <2>3
<1> HIDE DEF j, h, row
<1>12. AdminTypes'
  <2>1. promised' \in [Hooks -> Row \cup {None}]
    <3>1. \A g \in Hooks : promised'[g] \in Row \cup {None}
      BY <1>2, <1>3, <1>9, <1>11 DEF AdminTypes
    <3>2. DOMAIN promised' = Hooks /\ promised' = [g \in Hooks |-> promised'[g]]
      BY <1>2, <1>6 DEF AdminTypes
    <3> QED BY <3>1, <3>2
  <2>2. hook' \in [Hooks -> Row \cup {None}] /\ subs' \in [Hooks -> SUBSET Patterns]
    BY <1>2, <1>3, <1>4, <1>5 DEF AdminTypes
  <2>3. blurred' \in SUBSET used'
    BY <1>1, <1>2, <1>6 DEF AdminTypes
  <2> QED BY <1>1, <1>2, <1>7, <2>1, <2>2, <2>3 DEF AdminTypes
<1>13. CopyInv'
  BY <1>1, <1>2, CopyFrame
<1>14. TablesInv'
  <2>1. ASSUME NEW g \in Hooks
        PROVE  /\ subs'[g] = IF hook'[g] = None THEN {} ELSE hook'[g].events
               /\ hook'[g] = None => log'[g] = <<>>
               /\ hook'[g] # None => g \in used'
    <3>1. CASE g = h
      BY <1>1, <1>3, <1>5, <1>8, <3>1
    <3>2. CASE g # h
      BY <1>1, <1>2, <1>9, <3>2 DEF TablesInv
    <3> QED BY <3>1, <3>2
  <2> QED BY <2>1 DEF TablesInv
<1>15. LogInv'
  BY <1>1, <1>2, <1>7, LogFrame DEF Delivering
<1>16. SettingsInv'
  <2>1. ASSUME NEW g \in used' \ blurred'
        PROVE  Settled(g)'
    <3>1. g \in Hooks /\ g \in used
      BY <1>1, <1>2, <2>1 DEF AdminTypes
    <3>2. CASE g # h
      <4>1. g \notin blurred
        BY <1>6, <2>1, <3>2
      <4>2. \A q \in Requests : q \in About(g)' => q \in About(g) /\ job'[q] = job[q]
        BY <1>7 DEF About
      <4> QED BY <1>2, <1>9, <3>1, <3>2, <4>1, <4>2, SettledFrame DEF SettingsInv
    <3>3. CASE g = h
      <4>1. About(h) = {r}
        <5>1. CASE h \in blurred
          BY <1>6, <2>1, <3>3, <5>1
        <5>2. CASE h \notin blurred
          BY <1>2, <1>3, <1>10, <5>2 DEF SettingsInv, Settled
        <5> QED BY <5>1, <5>2
      <4>2. \A q \in Requests : q \notin About(g)'
        BY <1>7, <3>3, <4>1 DEF About
      <4> QED BY <1>8, <1>11, <3>3, <4>2 DEF Settled
    <3> QED BY <3>2, <3>3
  <2> QED BY <2>1 DEF SettingsInv
<1>17. PublicOnly'
  BY <1>1, <1>2 DEF PublicOnly
<1> QED BY <1>12, <1>13, <1>14, <1>15, <1>16, <1>17 DEF AdminInv

LEMMA DeleteWebhookStep ==
  ASSUME AdminInv, NEW r \in Requests, DeleteWebhook(r)
  PROVE  AdminInv'
<1>1. UNCHANGED <<step, job, used, changes, events, reached, blurred>>
  BY DEF DeleteWebhook
<1>2. PICK h \in Hooks :
       /\ hook[h] # None
       /\ hook' = [hook EXCEPT ![h] = None]
       /\ subs' = [subs EXCEPT ![h] = {}]
       /\ log' = [log EXCEPT ![h] = <<>>]
       /\ promised' = [promised EXCEPT ![h] = None]
  BY DEF DeleteWebhook
<1>3. AdminTypes /\ CopyInv /\ TablesInv /\ LogInv /\ SettingsInv /\ PublicOnly
  BY DEF AdminInv
<1>4. AdminTypes'
  <2>1. <<>> \in Seq(1..MaxTests)
    OBVIOUS
  <2>2. log' \in [Hooks -> Seq(1..MaxTests)]
    BY <1>2, <1>3, <2>1 DEF AdminTypes
  <2> QED BY <1>1, <1>2, <1>3, <2>2 DEF AdminTypes
<1>5. /\ hook'[h] = None /\ subs'[h] = {} /\ log'[h] = <<>> /\ promised'[h] = None
      /\ \A g \in Hooks \ {h} : /\ hook'[g] = hook[g] /\ subs'[g] = subs[g]
                                /\ log'[g] = log[g] /\ promised'[g] = promised[g]
  BY <1>2, <1>3 DEF AdminTypes
<1>6. CopyInv'
  BY <1>1, <1>3 DEF CopyInv
<1>7. TablesInv'
  BY <1>1, <1>3, <1>5 DEF TablesInv
<1>8. LogInv'
  <2>1. \A g \in Hooks : log'[g] = log[g] \/ Len(log'[g]) = 0
    BY <1>5
  <2>2. \A g \in Hooks : \A i \in 1..Len(log'[g]) : log'[g] = log[g]
    BY <2>1
  <2>3. \A g \in Hooks : \A i \in 1..Len(log'[g]) :
         /\ log'[g][i] \in 1..events'
         /\ \A k \in 1..Len(log'[g]) : log'[g][i] = log'[g][k] => i = k
    BY <1>1, <1>3, <2>2 DEF LogInv
  <2>4. ASSUME NEW p \in Requests, step'[p] \in Delivering
        PROVE  /\ job'[p].event \in 1..events'
               /\ \A g \in Hooks : \A i \in 1..Len(log'[g]) : log'[g][i] # job'[p].event
               /\ \A q \in Requests :
                    step'[q] \in Delivering /\ job'[q].event = job'[p].event => q = p
    BY <1>1, <1>3, <2>2, <2>4 DEF LogInv
  <2> QED BY <2>3, <2>4 DEF LogInv
<1>9. SettingsInv'
  <2>1. ASSUME NEW g \in used' \ blurred'
        PROVE  Settled(g)'
    <3>1. g \in Hooks /\ Settled(g)
      BY <1>1, <1>3, <2>1 DEF AdminTypes, SettingsInv
    <3>2. About(g)' = About(g)
      BY <1>1 DEF About
    <3>3. CASE g # h
      BY <1>1, <1>5, <3>1, <3>2, <3>3, SettledFrame
    <3>4. CASE g = h
      BY <1>5, <3>1, <3>2, <3>4 DEF Settled
    <3> QED BY <3>3, <3>4
  <2> QED BY <2>1 DEF SettingsInv
<1>10. PublicOnly'
  BY <1>1, <1>3 DEF PublicOnly
<1> QED BY <1>4, <1>6, <1>7, <1>8, <1>9, <1>10 DEF AdminInv

-----------------------------------------------------------------------------
(* Deliveries that administrators ask for, and the log.                    *)

LEMMA SeqElement ==
  ASSUME NEW T, NEW s \in Seq(T), NEW i \in 1..Len(s)
  PROVE  s[i] \in T
OBVIOUS

LEMMA FunctionIsSeq ==
  ASSUME NEW T, NEW n \in Nat, NEW f \in [1..n -> T]
  PROVE  f \in Seq(T) /\ Len(f) = n
OBVIOUS

\* Keeping the newest entries drops some of the first and nothing else.
LEMMA NewestIsTail ==
  ASSUME NEW s \in Seq(1..MaxTests)
  PROVE  /\ Newest(s) \in Seq(1..MaxTests)
         /\ \E k \in Nat : \A i \in 1..Len(Newest(s)) :
              i + k \in 1..Len(s) /\ Newest(s)[i] = s[i + k]
<1>1. Len(s) \in Nat /\ LogLimit \in Nat
  BY AdminAssumption
<1>2. CASE Len(s) > LogLimit
  <2> DEFINE k == Len(s) - LogLimit
  <2>1. k \in Nat /\ k + 1 \in 1..(Len(s) + 1)
    BY <1>1, <1>2
  <2>2. Newest(s) = SubSeq(s, k + 1, Len(s))
    BY <1>2 DEF Newest
  <2>3. SubSeq(s, k + 1, Len(s)) = [i \in 1..(Len(s) - k) |-> s[i + k]]
    BY <1>1, <2>1
  <2> HIDE DEF k
  <2>4. Len(s) - k \in Nat /\ \A i \in 1..(Len(s) - k) : i + k \in 1..Len(s)
    <3>1. PICK n \in Nat : n = Len(s)
      BY <1>1
    <3>2. k \in Nat /\ k <= n
      BY <2>1, <3>1
    <3>3. n - k \in Nat /\ \A i \in 1..(n - k) : i + k \in 1..n
      BY <3>2
    <3> QED BY <3>1, <3>3
  <2>5. \A i \in 1..(Len(s) - k) : s[i + k] \in 1..MaxTests
    <3>1. \A i \in 1..Len(s) : s[i] \in 1..MaxTests
      BY SeqElement
    <3> QED BY <2>4, <3>1
  <2>6. Newest(s) \in Seq(1..MaxTests) /\ Len(Newest(s)) = Len(s) - k
    <3>1. [i \in 1..(Len(s) - k) |-> s[i + k]] \in [1..(Len(s) - k) -> 1..MaxTests]
      BY <2>5
    <3>2. Newest(s) \in [1..(Len(s) - k) -> 1..MaxTests]
      BY <2>2, <2>3, <3>1, Zenon
    <3> QED BY <2>4, <3>2, FunctionIsSeq, Zenon
  <2>7. \A i \in 1..Len(Newest(s)) : i + k \in 1..Len(s) /\ Newest(s)[i] = s[i + k]
    BY <2>2, <2>3, <2>4, <2>6
  <2> QED BY <2>1, <2>6, <2>7
<1>3. CASE ~(Len(s) > LogLimit)
  <2>1. Newest(s) = s
    BY <1>3 DEF Newest
  <2>2. \A i \in 1..Len(s) : i + 0 \in 1..Len(s) /\ s[i] = s[i + 0]
    BY <1>1
  <2> QED BY <2>1, <2>2
<1> QED BY <1>2, <1>3

LEMMA BeginTestStep ==
  ASSUME AdminInv, NEW r \in Requests, BeginTest(r)
  PROVE  AdminInv'
<1>1. /\ step[r] = "idle" /\ events < MaxTests /\ events' = events + 1
      /\ UNCHANGED <<hook, subs, log, used, changes, reached, promised, blurred>>
  BY DEF BeginTest, tables
<1>2. PICK h \in Hooks : hook[h] # None /\ Goto(r, "check", Test(h, events'))
  BY DEF BeginTest
<1>3. AdminTypes /\ CopyInv /\ TablesInv /\ LogInv /\ SettingsInv /\ PublicOnly
  BY DEF AdminInv
<1>4. events \in 0..MaxTests /\ events' \in 0..MaxTests /\ events' \in 1..events'
  BY <1>1, <1>3, AdminAssumption DEF AdminTypes
<1> DEFINE copy == Test(h, events')
<1>5. copy \in Copies /\ copy.hook = h /\ copy.event = events'
  BY <1>4, CopyForms
<1>6. Goto(r, "check", copy)
  BY <1>2
<1> HIDE DEF copy
<1>7. /\ step'[r] = "check" /\ job'[r] = copy
      /\ \A q \in Requests \ {r} : step'[q] = step[q] /\ job'[q] = job[q]
      /\ step' \in [Requests -> {"idle"} \cup Writing \cup Delivering]
      /\ job' \in [Requests -> Copies]
  BY <1>3, <1>5, <1>6, GotoEffect DEF Delivering
<1>8. AdminTypes'
  BY <1>1, <1>3, <1>4, <1>7 DEF AdminTypes
<1>9. CopyInv'
  <2>1. h \in used' /\ used' \in SUBSET Hooks /\ used \in SUBSET used'
    BY <1>1, <1>2, <1>3 DEF TablesInv, AdminTypes
  <2> QED BY <1>3, <1>5, <1>6, <2>1, CopyFrame DEF Writing
<1>10. TablesInv'
  BY <1>1, <1>3, TablesFrame
<1>11. LogInv'
  <2>1. \A n \in 1..events : n \in 1..events' /\ n # events'
    BY <1>1, <1>4
  <2>2. \A g \in Hooks : \A i \in 1..Len(log'[g]) :
         /\ log'[g][i] \in 1..events' /\ log'[g][i] # events'
         /\ \A k \in 1..Len(log'[g]) : log'[g][i] = log'[g][k] => i = k
    BY <1>1, <1>3, <2>1 DEF LogInv
  <2>3. \A q \in Requests \ {r} : step'[q] \in Delivering =>
          /\ step[q] \in Delivering /\ job'[q] = job[q]
          /\ job'[q].event \in 1..events' /\ job'[q].event # events'
    BY <1>3, <1>7, <2>1 DEF LogInv
  <2>4. ASSUME NEW p \in Requests, step'[p] \in Delivering
        PROVE  /\ job'[p].event \in 1..events'
               /\ \A g \in Hooks : \A i \in 1..Len(log'[g]) : log'[g][i] # job'[p].event
               /\ \A q \in Requests :
                    step'[q] \in Delivering /\ job'[q].event = job'[p].event => q = p
    <3>1. CASE p = r
      BY <1>4, <1>5, <1>7, <2>2, <2>3, <3>1
    <3>2. CASE p # r
      <4>1. \A g \in Hooks : \A i \in 1..Len(log'[g]) : log'[g][i] # job'[p].event
        BY <1>1, <1>3, <2>3, <2>4, <3>2 DEF LogInv
      <4>2. job'[p].event # job'[r].event
        BY <1>5, <1>7, <2>3, <2>4, <3>2
      <4>3. \A q \in Requests \ {r} :
              step'[q] \in Delivering /\ job'[q].event = job'[p].event => q = p
        BY <1>3, <2>3, <2>4, <3>2 DEF LogInv
      <4> QED BY <2>3, <2>4, <3>2, <4>1, <4>2, <4>3
    <3> QED BY <3>1, <3>2
  <2> QED BY <2>2, <2>4 DEF LogInv
<1>12. SettingsInv'
  BY <1>1, <1>3, <1>7, SettingsFrame DEF Writing
<1>13. PublicOnly'
  BY <1>1, <1>3 DEF PublicOnly
<1> QED BY <1>8, <1>9, <1>10, <1>11, <1>12, <1>13 DEF AdminInv

\* A delivery goes on: its event stays, and what it reached is public.
LEMMA DeliveryStep ==
  ASSUME AdminInv, NEW r \in Requests, NEW next \in Delivering, NEW k \in 0..(MaxRequests - 1),
         step[r] \in Delivering, Goto(r, next, [job[r] EXCEPT !.sent = k]),
         UNCHANGED <<tables, used, changes, events, promised, blurred>>,
         reached' \in SUBSET Addresses, PublicOnly'
  PROVE  AdminInv'
<1>1. AdminTypes /\ CopyInv /\ TablesInv /\ LogInv /\ SettingsInv
  BY DEF AdminInv
<1>2. UNCHANGED <<hook, subs, log>>
  BY DEF tables
<1>3. PICK j : j = [job[r] EXCEPT !.sent = k]
  OBVIOUS
<1>4. j \in Copies /\ j.hook = job[r].hook /\ j.event = job[r].event /\ Goto(r, next, j)
  BY <1>1, <1>3, SentForms DEF AdminTypes
<1>5. /\ step'[r] = next /\ job'[r] = j
      /\ \A q \in Requests \ {r} : step'[q] = step[q] /\ job'[q] = job[q]
      /\ step' \in [Requests -> {"idle"} \cup Writing \cup Delivering]
      /\ job' \in [Requests -> Copies]
  BY <1>1, <1>4, GotoEffect
<1>6. AdminTypes'
  BY <1>1, <1>2, <1>5 DEF AdminTypes
<1>7. CopyInv'
  <2>1. j.hook \in used' /\ used' \in SUBSET Hooks /\ used \in SUBSET used' /\ next # "idle"
    BY <1>1, <1>4 DEF CopyInv, AdminTypes, Delivering
  <2> QED BY <1>1, <1>4, <2>1, CopyFrame DEF Writing, Delivering
<1>8. TablesInv'
  BY <1>1, <1>2, TablesFrame
<1>9. LogInv'
  BY <1>1, <1>2, <1>4, <1>5, LogFrame
<1>10. SettingsInv'
  BY <1>1, <1>2, <1>5, SettingsFrame DEF Writing, Delivering
<1> QED BY <1>6, <1>7, <1>8, <1>9, <1>10 DEF AdminInv

LEMMA OverStep ==
  ASSUME AdminInv, NEW r \in Requests, step[r] \in Delivering, Over(r),
         UNCHANGED <<tables, used, changes, events, promised, blurred>>,
         reached' \in SUBSET Addresses, PublicOnly'
  PROVE  AdminInv'
<1>1. Goto(r, "log", [job[r] EXCEPT !.sent = 0]) /\ "log" \in Delivering
  BY DEF Over, Delivering
<1>2. 0 \in 0..(MaxRequests - 1)
  BY DEF MaxRequests
<1> QED BY <1>1, <1>2, DeliveryStep

LEMMA CheckURLStep ==
  ASSUME AdminInv, NEW r \in Requests, CheckURL(r)
  PROVE  AdminInv'
<1>1. /\ step[r] \in Delivering /\ UNCHANGED <<tables, used, changes, events, promised, blurred>>
      /\ UNCHANGED reached
  BY DEF CheckURL, history, Delivering
<1>2. reached' \in SUBSET Addresses /\ PublicOnly'
  BY <1>1 DEF AdminInv, AdminTypes, PublicOnly
<1>3. CASE Over(r)
  BY <1>1, <1>2, <1>3, OverStep
<1>4. CASE Goto(r, "dial", job[r])
  <2>1. job[r] \in Copies /\ job[r].sent \in 0..(MaxRequests - 1)
    BY DEF AdminInv, AdminTypes, Copies
  <2>2. job[r] = [job[r] EXCEPT !.sent = job[r].sent]
    BY <2>1 DEF Copies
  <2> QED BY <1>1, <1>2, <1>4, <2>1, <2>2, DeliveryStep DEF Delivering
<1> QED BY <1>3, <1>4 DEF CheckURL

LEMMA DialStep ==
  ASSUME AdminInv, NEW r \in Requests, Dial(r)
  PROVE  AdminInv'
<1>1. step[r] \in Delivering /\ UNCHANGED <<tables, used, changes, events, promised, blurred>>
  BY DEF Dial, Delivering
<1>2. reached \in SUBSET Addresses /\ PublicOnly
  BY DEF AdminInv, AdminTypes
<1>3. PICK answer \in SUBSET Addresses :
        IF answer # {} /\ \A a \in answer : ~blockedWebhookIP(a)
        THEN Answered(r) /\ \E a \in answer : reached' = reached \cup {a}
        ELSE Over(r) /\ UNCHANGED reached
  BY DEF Dial
<1>4. CASE Over(r) /\ UNCHANGED reached
  <2>1. reached' \in SUBSET Addresses /\ PublicOnly'
    BY <1>2, <1>4 DEF PublicOnly
  <2> QED BY <1>1, <1>4, <2>1, OverStep
<1>5. CASE /\ \A a \in answer : ~blockedWebhookIP(a)
           /\ Answered(r) /\ \E a \in answer : reached' = reached \cup {a}
  <2>1. PICK a \in answer : reached' = reached \cup {a}
    BY <1>5
  <2>2. ~a.special
    <3>1. RangeContains("special use", a) = a.special
      BY DEF RangeContains
    <3> QED BY <1>5, <2>1, <3>1 DEF blockedWebhookIP
  <2>3. reached' \in SUBSET Addresses
    BY <1>2, <2>1
  <2>4. PublicOnly'
    BY <1>2, <2>1, <2>2 DEF PublicOnly
  <2>5. CASE Over(r)
    BY <1>1, <2>3, <2>4, <2>5, OverStep
  <2>6. CASE /\ job[r].sent + 1 < MaxRequests
             /\ Goto(r, "check", [job[r] EXCEPT !.sent = @ + 1])
    <3>1. job[r].sent \in 0..(MaxRequests - 1)
      BY DEF AdminInv, AdminTypes, Copies
    <3>2. job[r].sent + 1 \in 0..(MaxRequests - 1)
      BY <2>6, <3>1 DEF MaxRequests
    <3> QED BY <1>1, <2>3, <2>4, <2>6, <3>2, DeliveryStep DEF Delivering
  <2> QED BY <1>5, <2>5, <2>6 DEF Answered
<1> QED BY <1>3, <1>4, <1>5

\* Appending a new event and dropping older ones keeps the log's entries apart.
LEMMA LoggedEntries ==
  ASSUME NEW s \in Seq(1..MaxTests), NEW e \in 1..MaxTests, NEW t,
         t = Newest(Append(s, e)) \/ t = Append(s, e),
         \A i \in 1..Len(s) : s[i] # e,
         \A i \in 1..Len(s), k \in 1..Len(s) : s[i] = s[k] => i = k
  PROVE  /\ t \in Seq(1..MaxTests)
         /\ \A i \in 1..Len(t) : t[i] = e \/ \E k \in 1..Len(s) : t[i] = s[k]
         /\ \A i \in 1..Len(t), k \in 1..Len(t) : t[i] = t[k] => i = k
<1> DEFINE a == Append(s, e)
<1>1. /\ a \in Seq(1..MaxTests) /\ Len(a) = Len(s) + 1 /\ Len(s) \in Nat
      /\ \A i \in 1..Len(s) : a[i] = s[i]
      /\ a[Len(s) + 1] = e
  OBVIOUS
<1>2. PICK n \in Nat : n = Len(s)
  BY <1>1
<1>3. \A i \in 1..(n + 1) : i \in 1..n \/ i = n + 1
  BY <1>2
<1> HIDE DEF a
<1>4. \A i \in 1..Len(a) : a[i] = e \/ \E k \in 1..Len(s) : a[i] = s[k]
  BY <1>1, <1>2, <1>3
<1>5. \A i, k \in 1..Len(a) : a[i] = a[k] => i = k
  BY <1>1, <1>2, <1>3
<1>6. CASE t = a
  BY <1>1, <1>4, <1>5, <1>6
<1>7. CASE t = Newest(a)
  <2>1. t \in Seq(1..MaxTests)
    BY <1>1, <1>7, NewestIsTail
  <2>2. PICK k \in Nat : \A i \in 1..Len(t) : i + k \in 1..Len(a) /\ t[i] = a[i + k]
    BY <1>1, <1>7, NewestIsTail
  <2>3. \A i \in 1..Len(t) : t[i] = e \/ \E l \in 1..Len(s) : t[i] = s[l]
    BY <1>4, <2>2
  <2>4. ASSUME NEW i \in 1..Len(t), NEW l \in 1..Len(t), t[i] = t[l]
        PROVE  i = l
    <3>1. i + k = l + k
      BY <1>5, <2>2, <2>4
    <3>2. i \in Int /\ l \in Int /\ k \in Int
      OBVIOUS
    <3> QED BY <3>1, <3>2
  <2> QED BY <2>1, <2>3, <2>4
<1> QED BY <1>6, <1>7 DEF a

LEMMA CreateWebhookDeliveryStep ==
  ASSUME AdminInv, NEW r \in Requests, CreateWebhookDelivery(r)
  PROVE  AdminInv'
<1>1. PICK h : h = job[r].hook
  OBVIOUS
<1>2. PICK e : e = job[r].event
  OBVIOUS
<1>3. PICK t : t = Newest(Append(log[h], e)) \/ t = Append(log[h], e)
  OBVIOUS
<1>4. /\ step[r] = "log" /\ hook[h] # None /\ Goto(r, "idle", NoJob)
      /\ UNCHANGED <<hook, subs, used, changes, events, reached, promised, blurred>>
  BY <1>1 DEF CreateWebhookDelivery, End, history
<1>5. \E s : /\ s = Newest(Append(log[h], e)) \/ s = Append(log[h], e)
             /\ log' = [log EXCEPT ![h] = s]
  BY <1>1, <1>2 DEF CreateWebhookDelivery, Logged
<1>6. PICK s : /\ s = Newest(Append(log[h], e)) \/ s = Append(log[h], e)
               /\ log' = [log EXCEPT ![h] = s]
  BY <1>5
<1>7. AdminTypes /\ CopyInv /\ TablesInv /\ LogInv /\ SettingsInv /\ PublicOnly
  BY DEF AdminInv
<1>8. h \in Hooks /\ log[h] \in Seq(1..MaxTests)
  BY <1>1, <1>4, <1>7 DEF AdminTypes, CopyInv
<1>9. /\ e \in 1..events
      /\ \A g \in Hooks : \A i \in 1..Len(log[g]) : log[g][i] # e
      /\ \A q \in Requests : step[q] \in Delivering /\ job[q].event = e => q = r
  BY <1>2, <1>4, <1>7 DEF LogInv, Delivering
<1>10. e \in 1..MaxTests
  <2>1. events \in 0..MaxTests /\ MaxTests \in Nat
    BY <1>7, AdminAssumption DEF AdminTypes
  <2> QED BY <1>9, <2>1
<1>11. \A i, k \in 1..Len(log[h]) : log[h][i] = log[h][k] => i = k
  BY <1>7, <1>8 DEF LogInv
<1>12. /\ s \in Seq(1..MaxTests)
       /\ \A i \in 1..Len(s) : s[i] = e \/ \E k \in 1..Len(log[h]) : s[i] = log[h][k]
       /\ \A i, k \in 1..Len(s) : s[i] = s[k] => i = k
  <2>1. PICK l : l = log[h]
    OBVIOUS
  <2>2. l \in Seq(1..MaxTests) /\ (s = Newest(Append(l, e)) \/ s = Append(l, e))
    BY <1>6, <1>8, <2>1
  <2>3. /\ \A i \in 1..Len(l) : l[i] # e
        /\ \A i \in 1..Len(l), k \in 1..Len(l) : l[i] = l[k] => i = k
    BY <1>8, <1>9, <1>11, <2>1
  <2>4. /\ s \in Seq(1..MaxTests)
        /\ \A i \in 1..Len(s) : s[i] = e \/ \E k \in 1..Len(l) : s[i] = l[k]
        /\ \A i \in 1..Len(s), k \in 1..Len(s) : s[i] = s[k] => i = k
    BY <1>10, <2>2, <2>3, LoggedEntries
  <2> QED BY <2>1, <2>4
<1>13. log'[h] = s /\ \A g \in Hooks \ {h} : log'[g] = log[g]
  BY <1>6, <1>7, <1>8 DEF AdminTypes
<1>14. /\ step'[r] = "idle" /\ job'[r] = NoJob
       /\ \A q \in Requests \ {r} : step'[q] = step[q] /\ job'[q] = job[q]
       /\ step' \in [Requests -> {"idle"} \cup Writing \cup Delivering]
       /\ job' \in [Requests -> Copies]
  BY <1>4, <1>7, GotoEffect, NoJobFacts
<1>15. AdminTypes'
  <2>1. log' \in [Hooks -> Seq(1..MaxTests)]
    BY <1>6, <1>7, <1>12 DEF AdminTypes
  <2> QED BY <1>4, <1>7, <1>14, <2>1 DEF AdminTypes
<1>16. CopyInv'
  BY <1>4, <1>7, CopyFrame
<1>17. TablesInv'
  <2>1. \A g \in Hooks : hook'[g] = None => log'[g] = <<>>
    BY <1>4, <1>7, <1>13 DEF TablesInv
  <2> QED BY <1>4, <1>7, <2>1 DEF TablesInv
<1>18. LogInv'
  <2>1. ASSUME NEW g \in Hooks, NEW i \in 1..Len(log'[g])
        PROVE  /\ log'[g][i] \in 1..events'
               /\ log'[g][i] = e \/ \E k \in 1..Len(log[g]) : log'[g][i] = log[g][k]
               /\ \A k \in 1..Len(log'[g]) : log'[g][i] = log'[g][k] => i = k
    <3>1. CASE g = h
      <4>1. s[i] = e \/ \E k \in 1..Len(log[h]) : s[i] = log[h][k]
        BY <1>12, <1>13, <2>1, <3>1
      <4>2. s[i] \in 1..events
        BY <1>7, <1>8, <1>9, <4>1 DEF LogInv
      <4> QED BY <1>4, <1>12, <1>13, <3>1, <4>1, <4>2
    <3>2. CASE g # h
      BY <1>4, <1>7, <1>13, <2>1, <3>2 DEF LogInv
    <3> QED BY <3>1, <3>2
  <2>2. ASSUME NEW p \in Requests, step'[p] \in Delivering
        PROVE  /\ job'[p].event \in 1..events'
               /\ \A g \in Hooks : \A i \in 1..Len(log'[g]) : log'[g][i] # job'[p].event
               /\ \A q \in Requests :
                    step'[q] \in Delivering /\ job'[q].event = job'[p].event => q = p
    <3>1. p # r /\ step[p] \in Delivering /\ job'[p] = job[p]
      BY <1>14, <2>2 DEF Delivering
    <3>2. job[p].event # e
      BY <1>9, <3>1
    <3>3. \A g \in Hooks : \A k \in 1..Len(log[g]) : log[g][k] # job[p].event
      BY <1>7, <3>1 DEF LogInv
    <3>4. \A g \in Hooks : \A i \in 1..Len(log'[g]) : log'[g][i] # job'[p].event
      BY <2>1, <3>1, <3>2, <3>3
    <3>5. \A q \in Requests : step'[q] \in Delivering => step[q] \in Delivering /\ job'[q] = job[q]
      BY <1>14 DEF Delivering
    <3> QED BY <1>4, <1>7, <3>1, <3>4, <3>5 DEF LogInv
  <2> QED BY <2>1, <2>2 DEF LogInv
<1>19. SettingsInv'
  BY <1>4, <1>7, <1>14, SettingsFrame DEF Writing
<1>20. PublicOnly'
  BY <1>4, <1>7 DEF PublicOnly
<1> QED BY <1>15, <1>16, <1>17, <1>18, <1>19, <1>20 DEF AdminInv

LEMMA StoreFailsStep ==
  ASSUME AdminInv, NEW r \in Requests, StoreFails(r)
  PROVE  AdminInv'
<1>1. /\ Goto(r, "idle", NoJob)
      /\ UNCHANGED <<hook, subs, log, used, changes, events, reached, promised, blurred>>
  BY DEF StoreFails, End, tables, history
<1>2. AdminTypes /\ CopyInv /\ TablesInv /\ LogInv /\ SettingsInv /\ PublicOnly
  BY DEF AdminInv
<1>3. /\ step'[r] = "idle" /\ job'[r] = NoJob
      /\ \A q \in Requests \ {r} : step'[q] = step[q] /\ job'[q] = job[q]
      /\ step' \in [Requests -> {"idle"} \cup Writing \cup Delivering]
      /\ job' \in [Requests -> Copies]
  BY <1>1, <1>2, GotoEffect, NoJobFacts
<1>4. AdminTypes'
  BY <1>1, <1>2, <1>3 DEF AdminTypes
<1>5. CopyInv' /\ TablesInv'
  BY <1>1, <1>2, CopyFrame, TablesFrame
<1>6. LogInv'
  BY <1>1, <1>2, <1>3, LogFrame DEF Delivering
<1>7. SettingsInv'
  BY <1>1, <1>2, <1>3, SettingsFrame DEF Writing
<1>8. PublicOnly'
  BY <1>1, <1>2 DEF PublicOnly
<1> QED BY <1>4, <1>5, <1>6, <1>7, <1>8 DEF AdminInv

LEMMA AdminStopsStep ==
  ASSUME AdminInv, AdminStops
  PROVE  AdminInv'
<1>1. /\ step' = [r \in Requests |-> "idle"] /\ job' = [r \in Requests |-> NoJob]
      /\ UNCHANGED <<hook, subs, log, used, changes, events, reached, promised, blurred>>
  BY DEF AdminStops, tables, history
<1>2. AdminTypes /\ CopyInv /\ TablesInv /\ LogInv /\ SettingsInv /\ PublicOnly
  BY DEF AdminInv
<1>3. AdminTypes'
  BY <1>1, <1>2, NoJobFacts DEF AdminTypes
<1>4. CopyInv'
  BY <1>1 DEF CopyInv, Writing
<1>5. TablesInv'
  BY <1>1, <1>2, TablesFrame
<1>6. LogInv'
  BY <1>1, <1>2, LogFrame DEF Delivering
<1>7. SettingsInv'
  BY <1>1, <1>2, SettingsFrame DEF Writing
<1>8. PublicOnly'
  BY <1>1, <1>2 DEF PublicOnly
<1> QED BY <1>3, <1>4, <1>5, <1>6, <1>7, <1>8 DEF AdminInv

LEMMA AdminStutter ==
  ASSUME AdminInv, UNCHANGED adminVars
  PROVE  AdminInv'
<1>1. /\ UNCHANGED <<step, job>>
      /\ UNCHANGED <<hook, subs, log, used, changes, events, reached, promised, blurred>>
  BY DEF adminVars, tables, history
<1>2. AdminTypes /\ CopyInv /\ TablesInv /\ LogInv /\ SettingsInv /\ PublicOnly
  BY DEF AdminInv
<1>3. AdminTypes' /\ CopyInv' /\ TablesInv' /\ PublicOnly'
  BY <1>1, <1>2 DEF AdminTypes, CopyInv, TablesInv, PublicOnly
<1>4. LogInv' /\ SettingsInv'
  BY <1>1, <1>2, LogFrame, SettingsFrame
<1> QED BY <1>3, <1>4 DEF AdminInv

LEMMA AdminInductive == AdminInv /\ [AdminNext]_adminVars => AdminInv'
<1> SUFFICES ASSUME AdminInv, [AdminNext]_adminVars PROVE AdminInv'
  OBVIOUS
<1>1. CASE \E r \in Requests : CreateWebhook(r) \/ GetWebhook(r) \/ UpdateWebhook(r) \/ DeleteWebhook(r)
  BY <1>1, CreateWebhookStep, GetWebhookStep, UpdateWebhookStep, DeleteWebhookStep
<1>2. CASE \E r \in Requests : \/ BeginTest(r) \/ CheckURL(r) \/ Dial(r)
                               \/ CreateWebhookDelivery(r) \/ StoreFails(r)
  BY <1>2, BeginTestStep, CheckURLStep, DialStep, CreateWebhookDeliveryStep, StoreFailsStep
<1>3. CASE AdminStops
  BY <1>3, AdminStopsStep
<1>4. CASE UNCHANGED adminVars
  BY <1>4, AdminStutter
<1> QED BY <1>1, <1>2, <1>3, <1>4 DEF AdminNext

LEMMA AdminInvariant == AdminSpec => []AdminInv
BY InitAdmin, AdminInductive, PTL DEF AdminSpec

-----------------------------------------------------------------------------
(* What the invariant says of the properties.                              *)

\* Entries that are apart and numbered up to events are at most that many.
LEMMA LogLength ==
  ASSUME AdminInv, NEW h \in Hooks
  PROVE  Len(log[h]) <= events
<1>1. /\ log[h] \in Seq(1..MaxTests) /\ Len(log[h]) \in Nat /\ events \in Nat
  <2>1. log[h] \in Seq(1..MaxTests) /\ events \in 0..MaxTests
    BY DEF AdminInv, AdminTypes
  <2> QED BY <2>1
<1>2. PICK n \in Nat : n = Len(log[h])
  BY <1>1
<1> DEFINE f == [i \in 1..n |-> log[h][i]]
<1>3. f \in [1..n -> 1..events] /\ \A i \in 1..n, k \in 1..n : f[i] = f[k] => i = k
  <2>1. \A i \in 1..n : /\ log[h][i] \in 1..events
                       /\ \A k \in 1..n : log[h][i] = log[h][k] => i = k
    BY <1>2 DEF AdminInv, LogInv
  <2> QED BY <2>1
<1>4. /\ IsFiniteSet(1..n) /\ IsFiniteSet(1..events)
      /\ Cardinality(1..n) = n /\ Cardinality(1..events) = events
  <2>1. \A k \in Nat : IsFiniteSet(1..k) /\ Cardinality(1..k) = k
    <3>1. ASSUME NEW k \in Nat PROVE IsFiniteSet(1..k) /\ Cardinality(1..k) = k
      <4>1. IsFiniteSet(1..k) /\ Cardinality(1..k) = IF 1 > k THEN 0 ELSE k - 1 + 1
        BY FS_Interval
      <4> QED BY <4>1
    <3> QED BY <3>1
  <2> QED BY <1>1, <1>2, <2>1
<1> HIDE DEF f
<1>5. SUFFICES ASSUME events < n PROVE FALSE
  BY <1>1, <1>2
<1>6. \E x, y \in 1..n : x # y /\ f[x] = f[y]
  BY <1>3, <1>4, <1>5, FS_PigeonHole
<1> QED BY <1>3, <1>6

LEMMA AdminInvImplies ==
  ASSUME AdminInv
  PROVE  SettingsHold
<1>1. AdminTypes /\ CopyInv /\ TablesInv /\ LogInv /\ SettingsInv
  BY DEF AdminInv
<1>2. AdminTypeOK
  <2>1. \A h \in Hooks : Len(log[h]) <= events
    BY LogLength
  <2>2. \A h \in Hooks : \A i \in 1..Len(log[h]) : log[h][i] \in 1..events
    BY <1>1 DEF LogInv
  <2>3. \A r \in Requests : step[r] = "idle" <=> job[r] = NoJob
    BY <1>1 DEF CopyInv
  <2>4. \A r \in Requests : job[r].sent \in 0..(MaxRequests - 1)
    BY <1>1 DEF AdminTypes, Copies
  <2> QED BY <1>1, <2>1, <2>2, <2>3, <2>4 DEF AdminTypeOK, AdminTypes
<1>3. FanoutFollowsRow
  BY <1>1 DEF TablesInv, FanoutFollowsRow
<1>4. AcknowledgedSettings
  BY <1>1 DEF SettingsInv, Settled, AcknowledgedSettings
<1> QED BY <1>2, <1>3, <1>4 DEF SettingsHold

\* Nothing a step does touches a webhook that was deleted.
LEMMA GoneStaysGone ==
  ASSUME AdminInv, [AdminNext]_adminVars, NEW h \in used, hook[h] = None
  PROVE  hook'[h] = None /\ subs'[h] = {} /\ log'[h] = <<>>
<1>1. /\ AdminTypes /\ CopyInv /\ h \in Hooks
      /\ subs[h] = {} /\ log[h] = <<>>
  BY DEF AdminInv, AdminTypes, TablesInv
<1>2. CASE UNCHANGED <<hook, subs, log>>
  BY <1>1, <1>2
<1>3. CASE \E r \in Requests : CreateWebhook(r)
  <2>1. PICK g \in Hooks \ used : \E row, S :
          hook' = [hook EXCEPT ![g] = row] /\ subs' = [subs EXCEPT ![g] = S] /\ log' = log
    BY <1>3 DEF CreateWebhook, replaceWebhookEventSubscriptions
  <2> QED BY <1>1, <2>1 DEF AdminTypes
<1>4. CASE \E r \in Requests : UpdateWebhook(r)
  <2>1. PICK g, row, S : /\ hook[g] # None /\ hook' = [hook EXCEPT ![g] = row]
                         /\ subs' = [subs EXCEPT ![g] = S] /\ log' = log
    BY <1>4 DEF UpdateWebhook, StoreUpdate, replaceWebhookEventSubscriptions
  <2> QED BY <1>1, <2>1 DEF AdminTypes
<1>5. CASE \E r \in Requests : DeleteWebhook(r)
  <2>1. PICK g \in Hooks : /\ hook' = [hook EXCEPT ![g] = None]
                           /\ subs' = [subs EXCEPT ![g] = {}] /\ log' = [log EXCEPT ![g] = <<>>]
    BY <1>5 DEF DeleteWebhook
  <2> QED BY <1>1, <2>1 DEF AdminTypes
<1>6. CASE \E r \in Requests : CreateWebhookDelivery(r)
  <2>1. PICK g, s : hook[g] # None /\ log' = [log EXCEPT ![g] = s] /\ hook' = hook /\ subs' = subs
    BY <1>6 DEF CreateWebhookDelivery, Logged
  <2> QED BY <1>1, <2>1 DEF AdminTypes
<1>7. CASE \/ \E r \in Requests : GetWebhook(r) \/ BeginTest(r) \/ CheckURL(r) \/ Dial(r) \/ StoreFails(r)
           \/ AdminStops \/ UNCHANGED adminVars
  BY <1>2, <1>7 DEF GetWebhook, BeginTest, CheckURL, Dial, StoreFails, AdminStops, adminVars, tables
<1> QED BY <1>3, <1>4, <1>5, <1>6, <1>7 DEF AdminNext

\* What administrators were told is what is stored: the subscriptions the
\* fan-out goes by follow the row, acknowledged settings are the row's, and
\* every variable keeps its type, however requests interleave, fail or are cut.
THEOREM SettingsHoldCorrect == AdminSpec => []SettingsHold
BY AdminInvariant, AdminInvImplies, PTL

\* Deliveries go to public addresses only: the connection asks again for the
\* address that the check let pass, and a redirect starts over at the check.
THEOREM PublicOnlyCorrect == AdminSpec => []PublicOnly
BY AdminInvariant, PTL DEF AdminInv

\* A deleted webhook stays deleted, with its subscriptions and its log.
THEOREM DeletedIsGoneCorrect == AdminSpec => DeletedIsGone
<1> DEFINE Gone == \A h \in used : hook[h] = None =>
                     hook'[h] = None /\ subs'[h] = {} /\ log'[h] = <<>>
<1>1. AdminInv /\ [AdminNext]_adminVars => [Gone]_adminVars
  BY GoneStaysGone
<1>2. AdminSpec => [][Gone]_adminVars
  <2> HIDE DEF Gone
  <2> QED BY <1>1, AdminInvariant, PTL DEF AdminSpec
<1> QED BY <1>2 DEF DeletedIsGone
=============================================================================
