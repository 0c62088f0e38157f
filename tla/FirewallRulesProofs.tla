-------------------------- MODULE FirewallRulesProofs --------------------------
(***************************************************************************)
(* Theorems about FirewallRules, for any rows, requests, reboots, failures *)
(* and any way in which handles can be mistaken for one another.           *)
(***************************************************************************)
EXTENDS FirewallRules, TLAPS

Steps == {"idle", "apply", "lookup", "save", "undo", "find", "check", "remove", "drop"}
Creating == {"apply", "lookup", "save", "undo"}
Deleting == {"find", "check", "remove", "drop"}
Removing == {"check", "remove", "drop"}

Typed ==
  /\ TypeOK
  /\ pc \in [Requests -> Steps]
  /\ promised \subseteq Ids /\ targeted \subseteq Ids
  /\ unsure \subseteq Ids /\ stale \subseteq Ids

-----------------------------------------------------------------------------
(* The inductive invariant.  A row has one rule at most, since it is       *)
(* applied once; a handle that is not older than a reboot numbers the rule *)
(* of its row or, the kernel giving no number twice, none for ever.        *)

RowKnown(i) ==
  /\ \A h, l \in RulesOf(i) : h = l
  /\ row[i] \in {"none", "off"} => RulesOf(i) = {}
  /\ row[i] = "none" => handle[i] = 0
  /\ i \in stale => RulesOf(i) = {} /\ handle[i] # 0
  /\ i \notin stale /\ handle[i] # 0 =>
       handle[i] <= top /\ owner[handle[i]] \in {i, "none"}

\* One request creates a row; while it has not applied the rule nobody is
\* removing one.  A handle a request goes by cannot be given to a rule again.
RequestKnown(r) ==
  LET i == job[r].id
      h == job[r].handle IN
  /\ pc[r] # "idle" => row[i] # "none"
  /\ pc[r] \in Creating =>
       /\ i \notin stale
       /\ \A q \in Requests : pc[q] \in Creating /\ job[q].id = i => q = r
  /\ pc[r] = "apply" =>
       /\ row[i] = "on" /\ handle[i] = 0 /\ RulesOf(i) = {}
       /\ \A q \in Requests : pc[q] \in Removing => job[q].id # i
  /\ pc[r] \in {"lookup", "save"} /\ i \notin targeted => RulesOf(i) # {}
  /\ pc[r] = "undo" => i \in unsure \/ RulesOf(i) = {}
  /\ pc[r] \in Deleting => i \in targeted
  /\ pc[r] \in {"save", "check", "remove"} /\ i \notin stale =>
       h <= top /\ owner[h] \in {i, "none"}
  /\ pc[r] = "remove" => h <= top /\ owner[h] \in Ids \cup {"none"}
  /\ pc[r] = "drop" => RulesOf(i) = {}

FirewallInv ==
  /\ Typed /\ AcknowledgedRule /\ RulesHaveRows
  /\ \A i \in Ids : RowKnown(i)
  /\ \A r \in Requests : RequestKnown(r)

-----------------------------------------------------------------------------
(* Types.                                                                  *)

RowsTyped ==
  /\ row \in [Ids -> {"none", "on", "off", "gone"}]
  /\ handle \in [Ids -> 0..MaxHandle]
  /\ owner \in [Handles -> Ids \cup {"none", "foreign"}]
  /\ top \in 0..MaxHandle /\ boots \in 0..MaxBoots
  /\ \A h \in Handles : h > top => owner[h] = "none"
  /\ promised \subseteq Ids /\ targeted \subseteq Ids
  /\ unsure \subseteq Ids /\ stale \subseteq Ids
  /\ promised \cap targeted = {}

RequestsTyped ==
  /\ pc \in [Requests -> Steps]
  /\ job \in [Requests -> [id : Ids \cup {"none"}, handle : 0..MaxHandle]]
  /\ \A r \in Requests : pc[r] = "idle" <=> job[r].id = "none"
  /\ \A r \in Requests : pc[r] \in {"save", "check", "remove"} => job[r].handle # 0

LEMMA TypeParts == Typed <=> RowsTyped /\ RequestsTyped
  BY DEF Typed, TypeOK, RowsTyped, RequestsTyped

\* The bounds are numbers, and no row is called what nobody's rule is.
LEMMA BoundsTyped ==
  /\ MaxHandle \in Nat /\ MaxBoots \in Nat
  /\ "none" \notin Ids /\ "foreign" \notin Ids
  BY FirewallAssumption

\* A request at work is about a row; one that goes by a handle has one.
LEMMA JobTyped ==
  ASSUME RequestsTyped, NEW r \in Requests
  PROVE  /\ pc[r] \in Steps /\ job[r].id \in Ids \cup {"none"}
         /\ job[r].handle \in 0..MaxHandle
         /\ pc[r] # "idle" => job[r].id \in Ids
         /\ pc[r] \in {"save", "check", "remove"} => job[r].handle \in Handles
  BY BoundsTyped DEF RequestsTyped, Handles

\* Only the request that takes the step moves.
OthersStay(r) == \A q \in Requests \ {r} : pc'[q] = pc[q] /\ job'[q] = job[q]

LEMMA StartMoves ==
  ASSUME RequestsTyped, NEW r \in Requests, NEW i \in Ids \cup {"none"},
         NEW h \in 0..MaxHandle, NEW next \in Steps, Start(r, i, h, next),
         next = "idle" <=> i = "none", next \in {"save", "check", "remove"} => h # 0
  PROVE  /\ RequestsTyped' /\ OthersStay(r)
         /\ pc'[r] = next /\ job'[r].id = i /\ job'[r].handle = h
  BY DEF RequestsTyped, Start, OthersStay

LEMMA EndMoves ==
  ASSUME RequestsTyped, NEW r \in Requests, End(r)
  PROVE  RequestsTyped' /\ OthersStay(r) /\ pc'[r] = "idle"
  <1>1. Start(r, "none", 0, "idle") /\ 0 \in 0..MaxHandle /\ "idle" \in Steps
    BY BoundsTyped DEF End, Steps
  <1> QED
    BY <1>1, StartMoves

LEMMA WithMoves ==
  ASSUME RequestsTyped, NEW r \in Requests, pc[r] # "idle", NEW h \in Handles,
         NEW next \in Steps \ {"idle"}, With(r, h, next)
  PROVE  /\ RequestsTyped' /\ OthersStay(r)
         /\ pc'[r] = next /\ job'[r].id = job[r].id /\ job'[r].handle = h
  <1>1. /\ Start(r, job[r].id, h, next) /\ job[r].id \in Ids /\ job[r].id # "none"
        /\ h \in 0..MaxHandle /\ h # 0
    BY JobTyped, BoundsTyped DEF With, Handles
  <1> QED
    BY <1>1, StartMoves

LEMMA GotoMoves ==
  ASSUME RequestsTyped, NEW r \in Requests, pc[r] # "idle",
         NEW next \in Steps \ {"idle"}, Goto(r, next),
         next \in {"save", "check", "remove"} => job[r].handle # 0
  PROVE  /\ RequestsTyped' /\ OthersStay(r)
         /\ pc'[r] = next /\ job'[r] = job[r]
  BY DEF RequestsTyped, Goto, OthersStay

-----------------------------------------------------------------------------
(* What a step that leaves the chain alone has to show.                    *)

\* Nothing is asked of a request that is done.
LEMMA IdleKnown ==
  ASSUME NEW r \in Requests, pc[r] = "idle"
  PROVE  RequestKnown(r)
  BY DEF RequestKnown, Creating, Deleting, Removing

LEMMA IdleKnownNext ==
  ASSUME NEW r \in Requests, pc'[r] = "idle"
  PROVE  RequestKnown(r)'
  BY DEF RequestKnown, Creating, Deleting, Removing

LEMMA OthersKnown ==
  ASSUME FirewallInv, NEW r \in Requests, OthersStay(r),
         UNCHANGED <<owner, top, stale>>,
         targeted \subseteq targeted', unsure \subseteq unsure',
         \A q \in Requests \ {r} :
           /\ pc[q] # "idle" => row'[job[q].id] # "none"
           /\ pc[q] \in Creating /\ pc'[r] \in Creating => job[q].id # job'[r].id
           /\ pc[q] = "apply" =>
                /\ row'[job[q].id] = "on" /\ handle'[job[q].id] = 0
                /\ pc'[r] \in Removing => job'[r].id # job[q].id
  PROVE  \A q \in Requests \ {r} : RequestKnown(q)'
  <1> SUFFICES ASSUME NEW q \in Requests \ {r} PROVE RequestKnown(q)'
    OBVIOUS
  <1>1. RequestKnown(q) /\ pc'[q] = pc[q] /\ job'[q] = job[q]
    BY DEF FirewallInv, OthersStay
  <1>2. \A i : RulesOf(i)' = RulesOf(i)
    BY DEF RulesOf
  <1>3. pc[q] \in Creating =>
          \A p \in Requests : pc'[p] \in Creating /\ job'[p].id = job[q].id => p = q
    BY <1>1 DEF RequestKnown, OthersStay
  <1>4. pc[q] = "apply" =>
          \A p \in Requests : pc'[p] \in Removing => job'[p].id # job[q].id
    BY <1>1 DEF RequestKnown, OthersStay
  <1> QED
    BY <1>1, <1>2, <1>3, <1>4 DEF RequestKnown

\* The step writes no row either: it remains to look at its own request.
LEMMA QuietStep ==
  ASSUME FirewallInv, NEW r \in Requests, OthersStay(r), RequestsTyped',
         UNCHANGED <<row, handle, owner, top, boots, stale>>,
         targeted \subseteq targeted', unsure \subseteq unsure',
         targeted' \subseteq Ids, unsure' \subseteq Ids, promised' \subseteq Ids,
         promised' \cap targeted' = {},
         \A i \in promised' : i \in promised \/ RulesOf(i) # {},
         \A q \in Requests \ {r} :
           /\ pc[q] \in Creating /\ pc'[r] \in Creating => job[q].id # job'[r].id
           /\ pc[q] = "apply" /\ pc'[r] \in Removing => job'[r].id # job[q].id,
         RequestKnown(r)'
  PROVE  FirewallInv'
  <1>1. Typed'
    <2>1. RowsTyped /\ boots' = boots /\ top' = top
      BY TypeParts DEF FirewallInv
    <2>2. RowsTyped'
      BY <2>1 DEF RowsTyped
    <2> QED
      BY <2>2 DEF Typed, TypeOK, RowsTyped, RequestsTyped
  <1>2. \A i : RulesOf(i)' = RulesOf(i)
    BY DEF RulesOf
  <1>3. AcknowledgedRule' /\ RulesHaveRows'
    BY <1>2 DEF FirewallInv, AcknowledgedRule, RulesHaveRows
  <1>4. \A i \in Ids : RowKnown(i)'
    BY <1>2 DEF FirewallInv, RowKnown
  <1>5. \A q \in Requests \ {r} : RequestKnown(q)'
    <2>1. \A q \in Requests \ {r} :
            /\ pc[q] # "idle" => row[job[q].id] # "none"
            /\ pc[q] = "apply" => row[job[q].id] = "on" /\ handle[job[q].id] = 0
      BY DEF FirewallInv, RequestKnown
    <2> QED
      BY <2>1, OthersKnown
  <1> QED
    BY <1>1, <1>3, <1>4, <1>5 DEF FirewallInv

\* Who creates a row does so alone; who applies its rule, before any removal.
LEMMA Apart ==
  ASSUME FirewallInv, NEW r \in Requests, NEW q \in Requests \ {r}
  PROVE  /\ pc[q] \in Creating /\ pc[r] \in Creating => job[q].id # job[r].id
         /\ pc[q] = "apply" /\ pc[r] \in Removing => job[q].id # job[r].id
         /\ pc[q] = "apply" => RulesOf(job[q].id) = {} /\ handle[job[q].id] = 0
                               /\ row[job[q].id] = "on"
  BY DEF FirewallInv, RequestKnown

\* The one rule of a row is the one the chain's search finds.
LEMMA Found ==
  ASSUME FirewallInv, NEW i \in Ids, RulesOf(i) # {}
  PROVE  /\ Lowest(RulesOf(i)) \in RulesOf(i) /\ Lowest(RulesOf(i)) \in Handles
         /\ owner[Lowest(RulesOf(i))] = i /\ Lowest(RulesOf(i)) <= top
         /\ i \notin stale
  <1>1. RowKnown(i) /\ RowsTyped
    BY TypeParts DEF FirewallInv
  <1>2. PICK h \in RulesOf(i) : RulesOf(i) = {h}
    BY <1>1 DEF RowKnown
  <1>3. h \in Handles /\ owner[h] = i /\ h <= h
    BY BoundsTyped DEF RulesOf, Handles
  <1>4. Lowest(RulesOf(i)) = h
    <2>1. \A k \in RulesOf(i) : (\A l \in RulesOf(i) : k <= l) <=> k = h
      BY <1>2, <1>3
    <2> QED
      BY <1>2, <2>1, Zenon DEF Lowest
  <1>5. h <= top
    BY <1>1, <1>3, BoundsTyped DEF RowsTyped, Handles
  <1>6. i \notin stale
    BY <1>1, <1>2 DEF RowKnown
  <1> QED
    BY <1>2, <1>3, <1>4, <1>5, <1>6
-----------------------------------------------------------------------------
(* The steps that read the chain and write neither it nor a row.           *)

\* A request that stays in its creation remains alone in it.
LEMMA StaysAlone ==
  ASSUME FirewallInv, NEW r \in Requests, OthersStay(r),
         pc[r] \in Creating, job'[r].id = job[r].id
  PROVE  \A q \in Requests :
           pc'[q] \in Creating /\ job'[q].id = job'[r].id => q = r
  BY DEF FirewallInv, RequestKnown, OthersStay

\* A request that is done asks nothing of the others.
LEMMA EndStep ==
  ASSUME FirewallInv, NEW r \in Requests, End(r),
         UNCHANGED <<rowVars, chainVars, boots, targeted, unsure, stale>>,
         promised' \subseteq Ids, promised' \cap targeted = {},
         \A i \in promised' : i \in promised \/ RulesOf(i) # {}
  PROVE  FirewallInv'
  <1>1. RequestsTyped /\ RowsTyped
    BY TypeParts DEF FirewallInv
  <1>2. RequestsTyped' /\ OthersStay(r) /\ pc'[r] = "idle"
    BY <1>1, EndMoves
  <1>3. RequestKnown(r)'
    BY <1>2, IdleKnownNext
  <1>4. pc'[r] \notin Creating \cup Removing
    BY <1>2 DEF Creating, Removing
  <1> QED
    BY <1>1, <1>2, <1>3, <1>4, QuietStep DEF rowVars, chainVars, RowsTyped

\* The answer to a creation whose rule nobody removed finds it in force.
LEMMA AcknowledgeStep ==
  ASSUME FirewallInv, NEW r \in Requests, pc[r] = "lookup", End(r),
         Acknowledge(job[r].id), UNCHANGED <<rowVars, chainVars, boots>>
  PROVE  FirewallInv'
  <1>1. RequestsTyped /\ RowsTyped /\ RequestKnown(r) /\ job[r].id \in Ids
    BY TypeParts, JobTyped DEF FirewallInv
  <1>2. job[r].id \notin targeted => RulesOf(job[r].id) # {}
    BY <1>1 DEF RequestKnown
  <1> QED
    BY <1>1, <1>2, EndStep DEF Acknowledge, RowsTyped

LEMMA LookupKeeps ==
  ASSUME FirewallInv, NEW r \in Requests, Lookup(r)
  PROVE  FirewallInv'
  <1> DEFINE i == job[r].id
             h == Lowest(RulesOf(i))
  <1>1. /\ RequestsTyped /\ RowsTyped /\ RequestKnown(r) /\ i \in Ids
        /\ pc[r] = "lookup" /\ pc[r] \in Creating
    BY TypeParts, JobTyped DEF FirewallInv, Lookup, Creating
  <1>2. CASE RulesOf(i) = {}
    BY <1>1, <1>2, AcknowledgeStep DEF Lookup
  <1>3. CASE RulesOf(i) # {}
    <2>1. /\ With(r, h, "save") /\ UNCHANGED history
          /\ UNCHANGED <<rowVars, chainVars, boots>>
      BY <1>3 DEF Lookup
    <2>2. h \in Handles /\ owner[h] = i /\ h <= top
      BY <1>1, <1>3, Found
    <2>3. "save" \in Steps \ {"idle"} /\ "save" \in Creating
          /\ "save" \notin Deleting /\ "save" \notin Removing
      BY DEF Steps, Creating, Deleting, Removing
    <2>4. /\ RequestsTyped' /\ OthersStay(r)
          /\ pc'[r] = "save" /\ job'[r].id = i /\ job'[r].handle = h
      BY <1>1, <2>1, <2>2, <2>3, WithMoves
    <2>5. \A q \in Requests : pc'[q] \in Creating /\ job'[q].id = i => q = r
      BY <1>1, <2>4, StaysAlone
    <2>6. i \notin stale /\ row[i] # "none"
      BY <1>1 DEF RequestKnown
    <2>7. UNCHANGED <<owner, top, row, stale, targeted>>
      BY <2>1 DEF chainVars, rowVars, history
    <2>8. RequestKnown(r)'
      BY <1>3, <2>2, <2>3, <2>4, <2>5, <2>6, <2>7 DEF RequestKnown, RulesOf
    <2>9. \A q \in Requests \ {r} :
            /\ pc[q] \in Creating /\ pc'[r] \in Creating => job[q].id # job'[r].id
            /\ pc[q] = "apply" /\ pc'[r] \in Removing => job'[r].id # job[q].id
      BY <1>1, <2>3, <2>4, Apart
    <2> QED
      BY <1>1, <2>1, <2>4, <2>8, <2>9, QuietStep
         DEF chainVars, rowVars, history, RowsTyped
  <1> QED
    BY <1>2, <1>3

LEMMA FindKeeps ==
  ASSUME FirewallInv, NEW r \in Requests, Find(r)
  PROVE  FirewallInv'
  <1> DEFINE i == job[r].id
             h == Lowest(RulesOf(i))
  <1>1. /\ RequestsTyped /\ RowsTyped /\ RequestKnown(r) /\ i \in Ids
        /\ pc[r] = "find" /\ pc[r] \in Deleting
    BY TypeParts, JobTyped DEF FirewallInv, Find, Deleting
  <1>2. UNCHANGED <<rowVars, chainVars, boots, history>>
    BY DEF Find
  <1>3. CASE RulesOf(i) = {}
    BY <1>1, <1>2, <1>3, EndStep DEF Find, history, RowsTyped
  <1>4. CASE RulesOf(i) # {}
    <2>1. With(r, h, "check")
      BY <1>4 DEF Find
    <2>2. h \in Handles /\ owner[h] = i /\ h <= top
      BY <1>1, <1>4, Found
    <2>3. "check" \in Steps \ {"idle"} /\ "check" \notin Creating
      BY DEF Steps, Creating
    <2>4. /\ RequestsTyped' /\ OthersStay(r)
          /\ pc'[r] = "check" /\ job'[r].id = i /\ job'[r].handle = h
      BY <1>1, <2>1, <2>2, <2>3, WithMoves
    <2>5. row[i] # "none" /\ i \in targeted
      BY <1>1 DEF RequestKnown
    <2>6. RequestKnown(r)'
      BY <1>2, <2>2, <2>3, <2>4, <2>5 DEF RequestKnown, rowVars, chainVars, history
    <2>7. \A q \in Requests \ {r} :
            /\ pc[q] \in Creating /\ pc'[r] \in Creating => job[q].id # job'[r].id
            /\ pc[q] = "apply" /\ pc'[r] \in Removing => job'[r].id # job[q].id
      BY <1>4, <2>3, <2>4, Apart
    <2> QED
      BY <1>1, <1>2, <2>4, <2>6, <2>7, QuietStep
         DEF chainVars, rowVars, history, RowsTyped
  <1> QED
    BY <1>3, <1>4
\* The first line with the handle's digits is a rule with that handle or,
\* handles growing, one given later: the handle itself is not new.
LEMMA CheckKeeps ==
  ASSUME FirewallInv, NEW r \in Requests, Check(r)
  PROVE  FirewallInv'
  <1> DEFINE i == job[r].id
             h == job[r].handle
             lines == {l \in {h} \cup Longer[h] : owner[l] # "none"}
             mine == lines # {} /\ owner[Lowest(lines)] \in Ids
  <1>1. /\ RequestsTyped /\ RowsTyped /\ RequestKnown(r) /\ i \in Ids
        /\ pc[r] = "check" /\ pc[r] \in Deleting /\ pc[r] \in Removing
        /\ h \in Handles
    BY TypeParts, JobTyped DEF FirewallInv, Check, Deleting, Removing
  <1>2. UNCHANGED <<rowVars, chainVars, boots, history>>
    BY DEF Check
  <1>3. CASE ~mine
    <2>1. End(r)
      BY <1>3 DEF Check
    <2> QED
      BY <1>1, <1>2, <2>1, EndStep DEF history, RowsTyped
  <1>4. CASE mine
    <2>1. Goto(r, "remove")
      BY <1>4 DEF Check
    <2>2. "remove" \in Steps \ {"idle"} /\ "remove" \notin Creating
      BY DEF Steps, Creating
    <2>3. /\ RequestsTyped' /\ OthersStay(r)
          /\ pc'[r] = "remove" /\ job'[r] = job[r]
      BY <1>1, <2>1, <2>2, GotoMoves DEF RequestsTyped
    <2>4. Longer[h] \subseteq Handles /\ \A l \in Longer[h] : l > h
      BY <1>1, FirewallAssumption
    <2>5. h <= top /\ owner[h] \in Ids \cup {"none"}
      <3>1. CASE owner[h] = "none"
        <4>1. PICK l \in Longer[h] : owner[l] # "none"
          BY <1>4, <3>1
        <4>2. l \in Handles /\ l > h /\ ~(l > top)
          BY <1>1, <2>4, <4>1 DEF RowsTyped
        <4>3. l \in Nat /\ h \in Nat /\ top \in Nat
          BY <1>1, <4>2, BoundsTyped DEF Handles, RowsTyped
        <4> QED
          BY <3>1, <4>2, <4>3
      <3>2. CASE owner[h] # "none"
        <4>1. h \in lines /\ lines \subseteq Handles
          BY <1>1, <2>4, <3>2
        <4>2. \A k \in lines : (\A l \in lines : k <= l) <=> k = h
          BY <1>1, <2>4, <4>1, BoundsTyped DEF Handles
        <4>3. Lowest(lines) = h
          <5> HIDE DEF lines, h
          <5> QED
            BY <4>1, <4>2, Zenon DEF Lowest
        <4>4. ~(h > top) /\ h \in Nat /\ top \in Nat
          BY <1>1, <3>2, BoundsTyped DEF Handles, RowsTyped
        <4> QED
          BY <1>4, <4>3, <4>4
      <3> QED
        BY <3>1, <3>2
    <2>6. /\ row[i] # "none" /\ i \in targeted
          /\ i \notin stale => owner[h] \in {i, "none"}
      BY <1>1 DEF RequestKnown
    <2>7. "remove" \notin {"lookup", "save", "undo", "apply", "drop"}
      OBVIOUS
    <2>8. RequestKnown(r)'
      BY <1>2, <2>2, <2>3, <2>5, <2>6, <2>7
         DEF RequestKnown, rowVars, chainVars, history
    <2>9. \A q \in Requests \ {r} :
            /\ pc[q] \in Creating /\ pc'[r] \in Creating => job[q].id # job'[r].id
            /\ pc[q] = "apply" /\ pc'[r] \in Removing => job'[r].id # job[q].id
      BY <1>1, <2>2, <2>3, Apart
    <2> QED
      BY <1>1, <1>2, <2>3, <2>8, <2>9, QuietStep
         DEF chainVars, rowVars, history, RowsTyped
  <1> QED
    BY <1>3, <1>4

\* A deletion begins: what the row says of its rule still holds.
LEMMA GetFirewallRuleKeeps ==
  ASSUME FirewallInv, NEW r \in Requests, GetFirewallRule(r)
  PROVE  FirewallInv'
  <1>1. PICK i \in Ids :
          /\ row[i] \in {"on", "off"}
          /\ Start(r, i, handle[i],
               IF row[i] = "off" THEN "drop" ELSE IF handle[i] = 0 THEN "find" ELSE "check")
          /\ promised' = promised \ {i} /\ targeted' = targeted \cup {i}
    BY DEF GetFirewallRule
  <1> DEFINE next == IF row[i] = "off" THEN "drop"
                     ELSE IF handle[i] = 0 THEN "find" ELSE "check"
  <1>2. RequestsTyped /\ RowsTyped /\ RowKnown(i)
    BY TypeParts DEF FirewallInv
  <1>3. UNCHANGED <<rowVars, chainVars, boots, unsure, stale>>
    BY DEF GetFirewallRule
  <1>4. /\ next \in Steps /\ next # "idle" /\ i # "none"
        /\ next \in {"save", "check", "remove"} => handle[i] # 0
        /\ handle[i] \in 0..MaxHandle
    BY <1>2, BoundsTyped DEF Steps, RowsTyped
  <1>5. /\ RequestsTyped' /\ OthersStay(r)
        /\ pc'[r] = next /\ job'[r].id = i /\ job'[r].handle = handle[i]
    BY <1>1, <1>2, <1>4, StartMoves
  <1>6. /\ next \in {"drop", "find", "check"} /\ next \notin Creating
        /\ next \in Removing => row[i] = "off" \/ handle[i] # 0
    BY DEF Creating, Removing
  <1>7. next = "drop" => RulesOf(i) = {}
    BY <1>2 DEF RowKnown
  <1>8. next = "check" /\ i \notin stale =>
          handle[i] <= top /\ owner[handle[i]] \in {i, "none"}
    BY <1>2 DEF RowKnown
  <1>9. RequestKnown(r)'
    <2> HIDE DEF next
    <2>1. next \notin {"apply", "lookup", "save", "undo", "remove"}
      BY <1>6
    <2> QED
      BY <1>1, <1>3, <1>5, <1>6, <1>7, <1>8, <2>1
         DEF RequestKnown, RulesOf, rowVars, chainVars
  <1>10. \A q \in Requests \ {r} :
           /\ pc[q] \in Creating /\ pc'[r] \in Creating => job[q].id # job'[r].id
           /\ pc[q] = "apply" /\ pc'[r] \in Removing => job'[r].id # job[q].id
    BY <1>5, <1>6, Apart
  <1> QED
    BY <1>1, <1>2, <1>3, <1>5, <1>9, <1>10, QuietStep
       DEF chainVars, rowVars, RowsTyped

\* A command fails: an addition is undone, anything else just ends.
LEMMA FailKeeps ==
  ASSUME FirewallInv, NEW r \in Requests, Fail(r)
  PROVE  FirewallInv'
  <1>1. RequestsTyped /\ RowsTyped /\ RequestKnown(r)
    BY TypeParts DEF FirewallInv
  <1>2. UNCHANGED <<rowVars, chainVars, boots>>
    BY DEF Fail
  <1>3. CASE pc[r] = "apply"
    <2>1. Goto(r, "undo") /\ UNCHANGED history /\ pc[r] \in Creating
      BY <1>3 DEF Fail, Creating
    <2>2. "undo" \in Steps \ {"idle"} /\ "undo" \notin Removing /\ "undo" \notin Deleting
      BY DEF Steps, Removing, Deleting
    <2>3. /\ RequestsTyped' /\ OthersStay(r)
          /\ pc'[r] = "undo" /\ job'[r] = job[r]
      BY <1>1, <1>3, <2>1, <2>2, GotoMoves
    <2>4. \A q \in Requests :
            pc'[q] \in Creating /\ job'[q].id = job'[r].id => q = r
      BY <2>1, <2>3, StaysAlone
    <2>5. /\ row[job[r].id] # "none" /\ job[r].id \notin stale
          /\ RulesOf(job[r].id) = {}
      BY <1>1, <1>3, <2>1 DEF RequestKnown
    <2>6. RequestKnown(r)'
      BY <1>2, <2>1, <2>2, <2>3, <2>4, <2>5
         DEF RequestKnown, RulesOf, rowVars, chainVars, history
    <2>7. \A q \in Requests \ {r} :
            /\ pc[q] \in Creating /\ pc'[r] \in Creating => job[q].id # job'[r].id
            /\ pc[q] = "apply" /\ pc'[r] \in Removing => job'[r].id # job[q].id
      BY <2>1, <2>2, <2>3, Apart
    <2> QED
      BY <1>1, <1>2, <2>1, <2>3, <2>6, <2>7, QuietStep
         DEF chainVars, rowVars, history, RowsTyped
  <1>4. CASE pc[r] = "lookup"
    BY <1>2, <1>4, AcknowledgeStep DEF Fail
  <1>5. CASE pc[r] \notin {"apply", "lookup"}
    <2>1. End(r) /\ UNCHANGED history
      BY <1>5 DEF Fail
    <2> QED
      BY <1>1, <1>2, <2>1, EndStep DEF history, RowsTyped
  <1> QED
    BY <1>3, <1>4, <1>5
-----------------------------------------------------------------------------
(* The steps that write one row and leave the chain alone.                 *)

LEMMA RowStep ==
  ASSUME FirewallInv, NEW r \in Requests, NEW i \in Ids,
         OthersStay(r), RequestsTyped',
         UNCHANGED <<chainVars, boots, targeted, unsure, stale>>,
         row' \in [Ids -> {"none", "on", "off", "gone"}],
         handle' \in [Ids -> 0..MaxHandle],
         \A k \in Ids \ {i} : row'[k] = row[k] /\ handle'[k] = handle[k],
         promised' \subseteq Ids, promised' \cap targeted = {},
         \A k \in promised' : k \in promised \/ RulesOf(k) # {},
         row'[i] # "none", RowKnown(i)',
         RulesOf(i) = {} \/ i \in unsure \/ row'[i] = "on",
         \A q \in Requests \ {r} :
           /\ pc[q] \in Creating /\ pc'[r] \in Creating => job[q].id # job'[r].id
           /\ pc[q] = "apply" => job[q].id # i
           /\ pc[q] = "apply" /\ pc'[r] \in Removing => job'[r].id # job[q].id,
         RequestKnown(r)'
  PROVE  FirewallInv'
  <1>1. RowsTyped /\ RequestsTyped
    BY TypeParts DEF FirewallInv
  <1>2. UNCHANGED <<owner, top>> /\ \A k : RulesOf(k)' = RulesOf(k)
    BY DEF RulesOf, chainVars
  <1>3. Typed'
    <2>1. RowsTyped'
      BY <1>1, <1>2 DEF RowsTyped
    <2> QED
      BY <2>1 DEF Typed, TypeOK, RowsTyped, RequestsTyped
  <1>4. AcknowledgedRule'
    BY <1>2 DEF FirewallInv, AcknowledgedRule
  <1>5. RulesHaveRows'
    <2> SUFFICES ASSUME NEW h \in Handles, owner[h] \in Ids \ unsure
                 PROVE  row'[owner[h]] = "on"
      BY <1>2 DEF RulesHaveRows
    <2>1. row[owner[h]] = "on"
      BY DEF FirewallInv, RulesHaveRows
    <2>2. owner[h] = i => RulesOf(i) # {}
      BY DEF RulesOf
    <2> QED
      BY <2>1, <2>2
  <1>6. \A k \in Ids : RowKnown(k)'
    <2> SUFFICES ASSUME NEW k \in Ids \ {i} PROVE RowKnown(k)'
      OBVIOUS
    <2>1. RowKnown(k)
      BY DEF FirewallInv
    <2> QED
      BY <1>2, <2>1 DEF RowKnown
  <1>7. \A q \in Requests \ {r} : RequestKnown(q)'
    <2>1. \A q \in Requests \ {r} :
            /\ pc[q] # "idle" => row[job[q].id] # "none" /\ job[q].id \in Ids
            /\ pc[q] = "apply" => row[job[q].id] = "on" /\ handle[job[q].id] = 0
                                  /\ job[q].id \in Ids
      BY <1>1, JobTyped DEF FirewallInv, RequestKnown
    <2>2. \A q \in Requests \ {r} :
            /\ pc[q] # "idle" => row'[job[q].id] # "none"
            /\ pc[q] = "apply" => row'[job[q].id] = "on" /\ handle'[job[q].id] = 0
      BY <2>1
    <2> QED
      BY <1>2, <2>2, OthersKnown
  <1> QED
    BY <1>3, <1>4, <1>5, <1>6, <1>7 DEF FirewallInv

\* A new row: no request is about it, no rule stands for it.
LEMMA CreateFirewallRuleKeeps ==
  ASSUME FirewallInv, NEW r \in Requests, CreateFirewallRule(r)
  PROVE  FirewallInv'
  <1>1. PICK i \in Ids :
          /\ row[i] = "none"
          /\ \/ row' = [row EXCEPT ![i] = "off"] /\ End(r)
             \/ row' = [row EXCEPT ![i] = "on"] /\ Start(r, i, 0, "apply")
    BY DEF CreateFirewallRule
  <1>2. /\ RequestsTyped /\ RowsTyped /\ RowKnown(i)
        /\ UNCHANGED <<handle, chainVars, boots, history>>
    BY TypeParts DEF FirewallInv, CreateFirewallRule
  <1>3. RulesOf(i) = {} /\ handle[i] = 0 /\ i \notin stale
    BY <1>1, <1>2 DEF RowKnown
  <1>4. \A q \in Requests : pc[q] # "idle" => job[q].id # i
    BY <1>1 DEF FirewallInv, RequestKnown
  <1>5. UNCHANGED <<promised, targeted, unsure, stale>>
    BY <1>2 DEF history
  <1>6. /\ row' \in [Ids -> {"none", "on", "off", "gone"}]
        /\ row'[i] \in {"on", "off"} /\ row'[i] # "none"
        /\ \A k \in Ids \ {i} : row'[k] = row[k]
    BY <1>1, <1>2 DEF RowsTyped
  <1>7. RowKnown(i)'
    BY <1>2, <1>3, <1>5, <1>6 DEF RowKnown, RulesOf, chainVars
  <1>8. "apply" \in Steps /\ "idle" # "apply" /\ 0 \in 0..MaxHandle
        /\ "apply" \notin Removing /\ "apply" \notin Deleting /\ "apply" \in Creating
        /\ "idle" \notin Creating /\ "idle" \notin Removing
    BY BoundsTyped DEF Steps, Creating, Deleting, Removing
  <1>9. /\ RequestsTyped' /\ OthersStay(r)
        /\ \/ pc'[r] = "idle"
           \/ pc'[r] = "apply" /\ job'[r].id = i /\ row'[i] = "on"
    <2>1. CASE End(r)
      BY <1>2, <2>1, EndMoves
    <2>2. CASE row' = [row EXCEPT ![i] = "on"] /\ Start(r, i, 0, "apply")
      <3>1. row'[i] = "on"
        BY <1>2, <2>2 DEF RowsTyped
      <3>2. "apply" = "idle" <=> i = "none"
        BY BoundsTyped
      <3> QED
        BY <1>2, <1>8, <2>2, <3>1, <3>2, StartMoves
    <2> QED
      BY <1>1, <2>1, <2>2
  <1>10. RequestKnown(r)'
    <2>1. CASE pc'[r] = "idle"
      BY <2>1, IdleKnownNext
    <2>2. CASE pc'[r] = "apply" /\ job'[r].id = i /\ row'[i] = "on"
      <3>1. \A q \in Requests : pc'[q] \in Creating /\ job'[q].id = i => q = r
        BY <1>4, <1>8, <1>9 DEF OthersStay
      <3>2. \A q \in Requests : pc'[q] \in Removing => job'[q].id # i
        <4>1. \A q \in Requests \ {r} : pc'[q] = pc[q] /\ job'[q].id = job[q].id
          BY <1>9 DEF OthersStay
        <4>2. pc'[r] \notin Removing
          BY <1>8, <2>2
        <4> QED
          BY <1>4, <1>8, <4>1, <4>2
      <3>3. handle'[i] = 0 /\ RulesOf(i)' = {} /\ i \notin stale'
        BY <1>2, <1>3, <1>5 DEF RulesOf, chainVars
      <3>4. "apply" \notin {"lookup", "save", "undo", "check", "remove", "drop"}
        OBVIOUS
      <3> QED
        BY <1>8, <2>2, <3>1, <3>2, <3>3, <3>4 DEF RequestKnown
    <2> QED
      BY <1>9, <2>1, <2>2
  <1>11. \A q \in Requests \ {r} :
           /\ pc[q] \in Creating /\ pc'[r] \in Creating => job[q].id # job'[r].id
           /\ pc[q] = "apply" => job[q].id # i
           /\ pc[q] = "apply" /\ pc'[r] \in Removing => job'[r].id # job[q].id
    BY <1>4, <1>8, <1>9
  <1> QED
    BY <1>2, <1>3, <1>5, <1>6, <1>7, <1>9, <1>10, <1>11, RowStep DEF RowsTyped

LEMMA SaveHandleKeeps ==
  ASSUME FirewallInv, NEW r \in Requests, SaveHandle(r)
  PROVE  FirewallInv'
  <1>0. PICK i \in Ids, h \in 0..MaxHandle : i = job[r].id /\ h = job[r].handle
    BY TypeParts, JobTyped DEF FirewallInv, SaveHandle
  <1>1. /\ RequestsTyped /\ RowsTyped /\ RequestKnown(r) /\ RowKnown(i)
        /\ pc[r] = "save" /\ pc[r] \in Creating
    BY TypeParts DEF FirewallInv, SaveHandle, Creating
  <1>2. /\ End(r) /\ UNCHANGED <<row, chainVars, boots>>
        /\ Acknowledge(i)
        /\ \/ handle' = [handle EXCEPT ![i] = IF row[i] = "on" THEN h ELSE @]
           \/ UNCHANGED handle
    BY <1>0 DEF SaveHandle
  <1>3. /\ RequestsTyped' /\ OthersStay(r) /\ pc'[r] = "idle"
        /\ pc'[r] \notin Creating /\ pc'[r] \notin Removing
    BY <1>1, <1>2, EndMoves DEF Creating, Removing
  <1>4. RequestKnown(r)'
    BY <1>3, IdleKnownNext
  <1>5. /\ row[i] # "none" /\ i \notin stale
        /\ i \notin targeted => RulesOf(i) # {}
        /\ h <= top /\ owner[h] \in {i, "none"}
    BY <1>0, <1>1 DEF RequestKnown
  <1>6. /\ promised' \subseteq Ids /\ promised' \cap targeted = {}
        /\ \A k \in promised' : k \in promised \/ RulesOf(k) # {}
        /\ UNCHANGED <<targeted, unsure, stale>>
    BY <1>1, <1>2, <1>5 DEF Acknowledge, RowsTyped
  <1>7. /\ handle' \in [Ids -> 0..MaxHandle]
        /\ \A k \in Ids \ {i} : handle'[k] = handle[k]
        /\ handle'[i] \in {h, handle[i]}
    BY <1>1, <1>2 DEF RowsTyped
  <1>8. RowKnown(i)'
    <2>1. UNCHANGED <<row, owner, top, stale>>
      BY <1>2, <1>6 DEF chainVars
    <2> QED
      BY <1>1, <1>5, <1>7, <2>1 DEF RowKnown, RulesOf
  <1>9. RulesOf(i) = {} \/ i \in unsure \/ row[i] = "on"
    <2>1. \A k \in RulesOf(i) : owner[k] = i /\ k \in Handles
      BY DEF RulesOf
    <2> QED
      BY <1>1, <2>1 DEF FirewallInv, RulesHaveRows
  <1>10. \A q \in Requests \ {r} : pc[q] = "apply" => job[q].id # i
    BY <1>0, <1>1, Apart DEF Creating
  <1>11. row' = row /\ row \in [Ids -> {"none", "on", "off", "gone"}]
    BY <1>1, <1>2 DEF RowsTyped
  <1> QED
    BY <1>2, <1>3, <1>4, <1>5, <1>6, <1>7, <1>8, <1>9, <1>10, <1>11, RowStep

\* A row goes whose rule is not in the chain, or perhaps not.
LEMMA RowGoes ==
  ASSUME FirewallInv, NEW r \in Requests, pc[r] \in {"undo", "drop"},
         row' = [row EXCEPT ![job[r].id] = "gone"], End(r),
         UNCHANGED <<handle, chainVars, boots, history>>
  PROVE  FirewallInv'
  <1>0. PICK i \in Ids : i = job[r].id
    BY TypeParts, JobTyped DEF FirewallInv
  <1>1. RequestsTyped /\ RowsTyped /\ RequestKnown(r) /\ RowKnown(i)
    BY TypeParts DEF FirewallInv
  <1>2. /\ RequestsTyped' /\ OthersStay(r) /\ pc'[r] = "idle"
        /\ pc'[r] \notin Creating /\ pc'[r] \notin Removing
    BY <1>1, EndMoves DEF Creating, Removing
  <1>3. RequestKnown(r)'
    BY <1>2, IdleKnownNext
  <1>4. RulesOf(i) = {} \/ i \in unsure
    BY <1>0, <1>1 DEF RequestKnown
  <1>5. UNCHANGED <<promised, targeted, unsure, stale>>
    BY DEF history
  <1>6. /\ row' \in [Ids -> {"none", "on", "off", "gone"}]
        /\ row'[i] = "gone" /\ \A k \in Ids \ {i} : row'[k] = row[k]
    BY <1>0, <1>1 DEF RowsTyped
  <1>7. RowKnown(i)'
    BY <1>1, <1>5, <1>6 DEF RowKnown, RulesOf, chainVars
  <1>8. \A q \in Requests \ {r} : pc[q] = "apply" => job[q].id # i
    BY <1>0, Apart DEF Creating, Removing
  <1>9. /\ handle' \in [Ids -> 0..MaxHandle]
        /\ \A k \in Ids \ {i} : row'[k] = row[k] /\ handle'[k] = handle[k]
        /\ promised' \subseteq Ids /\ promised' \cap targeted = {}
        /\ \A k \in promised' : k \in promised \/ RulesOf(k) # {}
        /\ row'[i] # "none"
    BY <1>1, <1>5, <1>6 DEF RowsTyped
  <1>10. \A q \in Requests \ {r} :
           /\ pc[q] \in Creating /\ pc'[r] \in Creating => job[q].id # job'[r].id
           /\ pc[q] = "apply" => job[q].id # i
           /\ pc[q] = "apply" /\ pc'[r] \in Removing => job'[r].id # job[q].id
    BY <1>2, <1>8
  <1> QED
    BY <1>1, <1>2, <1>3, <1>4, <1>5, <1>6, <1>7, <1>9, <1>10, RowStep

LEMMA UndoKeeps ==
  ASSUME FirewallInv, NEW r \in Requests, Undo(r)
  PROVE  FirewallInv'
  <1>1. RowsTyped
    BY TypeParts DEF FirewallInv
  <1>2. CASE UNCHANGED row
    BY <1>1, <1>2, EndStep DEF Undo, rowVars, history, RowsTyped
  <1>3. CASE row' = [row EXCEPT ![job[r].id] = "gone"]
    BY <1>3, RowGoes DEF Undo
  <1> QED
    BY <1>2, <1>3 DEF Undo

LEMMA DropKeeps ==
  ASSUME FirewallInv, NEW r \in Requests, Drop(r)
  PROVE  FirewallInv'
  BY RowGoes DEF Drop
-----------------------------------------------------------------------------
(* The steps that write the chain.                                         *)

\* The number the kernel gives is new: no rule, request or row has it.
LEMMA AddRuleAdds ==
  ASSUME RowsTyped, NEW o \in Ids \cup {"foreign"}, AddRule(o)
  PROVE  /\ top' \in Handles /\ top' = top + 1 /\ owner[top'] = "none"
         /\ owner' \in [Handles -> Ids \cup {"none", "foreign"}]
         /\ \A h \in Handles : owner'[h] = IF h = top' THEN o ELSE owner[h]
         /\ \A h \in Handles : h > top' => owner'[h] = "none"
         /\ \A h \in Handles : h <= top => owner'[h] = owner[h] /\ h <= top'
  <1>1. top \in Nat /\ MaxHandle \in Nat /\ top < MaxHandle /\ top' = top + 1
    BY BoundsTyped DEF AddRule, RowsTyped
  <1>2. top' \in Handles /\ top' > top
    BY <1>1 DEF Handles
  <1>3. owner[top'] = "none"
    BY <1>2 DEF RowsTyped
  <1>4. \A h \in Handles : owner'[h] = IF h = top' THEN o ELSE owner[h]
    BY <1>2 DEF AddRule, RowsTyped
  <1>5. owner' \in [Handles -> Ids \cup {"none", "foreign"}]
    BY <1>2 DEF AddRule, RowsTyped
  <1>6. \A h \in Handles : h > top' => h > top /\ h # top'
    BY <1>1 DEF Handles
  <1>7. \A h \in Handles : h <= top => h # top' /\ h <= top'
    BY <1>1 DEF Handles
  <1>8. \A h \in Handles : h > top' => owner'[h] = "none"
    BY <1>4, <1>6 DEF RowsTyped
  <1> QED
    BY <1>1, <1>2, <1>3, <1>4, <1>5, <1>7, <1>8

\* Rules appear only for whom one is added.
LEMMA AddRuleRules ==
  ASSUME RowsTyped, NEW o \in Ids \cup {"foreign"}, AddRule(o), NEW k \in Ids
  PROVE  /\ RulesOf(k) \subseteq RulesOf(k)'
         /\ RulesOf(k)' = IF k = o THEN RulesOf(k) \cup {top'} ELSE RulesOf(k)
  <1>1. /\ top' \in Handles /\ owner[top'] = "none"
        /\ \A h \in Handles : owner'[h] = IF h = top' THEN o ELSE owner[h]
    BY AddRuleAdds
  <1> QED
    BY <1>1, BoundsTyped DEF RulesOf

\* What was known of a row stays known when a rule is added for another.
LEMMA AddRuleRow ==
  ASSUME RowsTyped, NEW o \in Ids \cup {"foreign"}, AddRule(o), NEW k \in Ids,
         k # o, RowKnown(k), UNCHANGED <<row, handle, stale>>
  PROVE  RowKnown(k)'
  <1>1. RulesOf(k)' = RulesOf(k)
    BY AddRuleRules
  <1>2. \A h \in Handles : h <= top => owner'[h] = owner[h] /\ h <= top'
    BY AddRuleAdds
  <1>3. handle[k] # 0 => handle[k] \in Handles
    BY BoundsTyped DEF RowsTyped, Handles
  <1> QED
    BY <1>1, <1>2, <1>3 DEF RowKnown

\* Nor does a request's handle come to number another's rule.
LEMMA AddRuleRequest ==
  ASSUME FirewallInv, NEW o \in Ids \cup {"foreign"}, AddRule(o),
         NEW q \in Requests, UNCHANGED <<row, handle, stale, targeted>>,
         unsure \subseteq unsure', pc'[q] = pc[q], job'[q] = job[q],
         pc[q] # "idle" => job[q].id # o \/ pc[q] \in {"lookup", "save", "find"},
         \A p \in Requests : pc'[p] \in Creating /\ job'[p].id = job[q].id =>
                               pc[p] \in Creating /\ job[p].id = job[q].id,
         \A p \in Requests : pc'[p] \in Removing => pc[p] \in Removing /\ job'[p] = job[p]
  PROVE  RequestKnown(q)'
  <1>1. RowsTyped /\ RequestsTyped /\ RequestKnown(q)
    BY TypeParts DEF FirewallInv
  <1>2. PICK i \in Ids \cup {"none"}, h \in 0..MaxHandle :
          i = job[q].id /\ h = job[q].handle /\ job'[q].id = i /\ job'[q].handle = h
    BY <1>1, JobTyped
  <1>3. CASE pc[q] = "idle"
    BY <1>3, IdleKnownNext
  <1>4. CASE pc[q] # "idle"
    <2>1. i \in Ids
      BY <1>1, <1>2, <1>4, JobTyped
    <2>2. /\ RulesOf(i) \subseteq RulesOf(i)'
          /\ i # o => RulesOf(i)' = RulesOf(i)
      BY <1>1, <2>1, AddRuleRules
    <2>3. pc[q] \in {"save", "check", "remove"} => h \in Handles
      BY <1>1, <1>2, JobTyped
    <2>4. \A l \in Handles : l <= top => owner'[l] = owner[l] /\ l <= top'
      BY <1>1, AddRuleAdds
    <2>5. pc[q] \in Creating =>
            \A p \in Requests : pc'[p] \in Creating /\ job'[p].id = i => p = q
      BY <1>1, <1>2 DEF RequestKnown
    <2>6. pc[q] = "apply" =>
            \A p \in Requests : pc'[p] \in Removing => job'[p].id # i
      BY <1>1, <1>2 DEF RequestKnown
    <2>7. pc[q] \in {"lookup", "save"} /\ i \notin targeted => RulesOf(i)' # {}
      BY <1>1, <1>2, <2>2 DEF RequestKnown
    <2>8. pc[q] \in {"apply", "undo", "drop"} => i # o
      BY <1>2, <1>4
    <2>9. /\ pc[q] = "apply" => RulesOf(i)' = {}
          /\ pc[q] = "undo" => i \in unsure' \/ RulesOf(i)' = {}
          /\ pc[q] = "drop" => RulesOf(i)' = {}
      BY <1>1, <1>2, <2>2, <2>8 DEF RequestKnown
    <2>10. /\ pc[q] \in {"save", "check", "remove"} /\ i \notin stale =>
                h <= top' /\ owner'[h] \in {i, "none"}
           /\ pc[q] = "remove" => h <= top' /\ owner'[h] \in Ids \cup {"none"}
      BY <1>1, <1>2, <2>3, <2>4 DEF RequestKnown
    <2>11. /\ row[i] # "none"
           /\ pc[q] \in Creating => i \notin stale
           /\ pc[q] = "apply" => row[i] = "on" /\ handle[i] = 0
           /\ pc[q] \in Deleting => i \in targeted
      BY <1>1, <1>2, <1>4 DEF RequestKnown
    <2> QED
      BY <1>2, <2>5, <2>6, <2>7, <2>9, <2>10, <2>11 DEF RequestKnown
  <1> QED
    BY <1>3, <1>4
\* The rows' side of an added rule: its row, if any, is enabled and had none.
LEMMA AddRuleRows ==
  ASSUME FirewallInv, NEW o \in Ids \cup {"foreign"}, AddRule(o),
         UNCHANGED <<row, handle, boots, promised, targeted, stale>>,
         unsure \subseteq unsure', unsure' \subseteq Ids,
         o \in Ids => /\ row[o] = "on" /\ RulesOf(o) = {}
                      /\ o \notin stale /\ handle[o] = 0
  PROVE  /\ RowsTyped' /\ AcknowledgedRule' /\ RulesHaveRows'
         /\ \A i \in Ids : RowKnown(i)'
  <1>1. RowsTyped
    BY TypeParts DEF FirewallInv
  <1>2. /\ top' \in Handles
        /\ owner' \in [Handles -> Ids \cup {"none", "foreign"}]
        /\ \A h \in Handles : owner'[h] = IF h = top' THEN o ELSE owner[h]
        /\ \A h \in Handles : h > top' => owner'[h] = "none"
    BY <1>1, AddRuleAdds
  <1>3. RowsTyped'
    <2>1. top' \in 0..MaxHandle
      BY <1>2, BoundsTyped DEF Handles
    <2> QED
      BY <1>1, <1>2, <2>1 DEF RowsTyped
  <1>4. AcknowledgedRule'
    <2>1. \A i \in promised : RulesOf(i) # {} /\ RulesOf(i) \subseteq RulesOf(i)'
      BY <1>1, AddRuleRules DEF FirewallInv, AcknowledgedRule, RowsTyped
    <2> QED
      BY <2>1 DEF AcknowledgedRule
  <1>5. RulesHaveRows'
    BY <1>2 DEF FirewallInv, RulesHaveRows
  <1>6. \A i \in Ids : RowKnown(i)'
    <2> SUFFICES ASSUME NEW i \in Ids PROVE RowKnown(i)'
      OBVIOUS
    <2>1. CASE i # o
      BY <1>1, <2>1, AddRuleRow DEF FirewallInv
    <2>2. CASE i = o
      <3>1. RulesOf(i)' = {top'}
        BY <1>1, <2>2, AddRuleRules
      <3> QED
        BY <2>2, <3>1 DEF RowKnown
    <2> QED
      BY <2>1, <2>2
  <1> QED
    BY <1>3, <1>4, <1>5, <1>6

LEMMA ForeignRuleKeeps ==
  ASSUME FirewallInv, ForeignRule
  PROVE  FirewallInv'
  <1>1. /\ RowsTyped /\ RequestsTyped /\ AddRule("foreign")
        /\ UNCHANGED <<row, handle, boots, pc, job, promised, targeted, unsure, stale>>
    BY TypeParts DEF FirewallInv, ForeignRule, rowVars, history
  <1>2. /\ RowsTyped' /\ AcknowledgedRule' /\ RulesHaveRows'
        /\ \A i \in Ids : RowKnown(i)'
    BY <1>1, BoundsTyped, AddRuleRows DEF RowsTyped
  <1>3. Typed'
    BY <1>1, <1>2 DEF Typed, TypeOK, RowsTyped, RequestsTyped
  <1>4. \A q \in Requests : RequestKnown(q)'
    <2>1. \A q \in Requests : pc[q] # "idle" => job[q].id # "foreign"
      BY <1>1, JobTyped, BoundsTyped
    <2> QED
      BY <1>1, <2>1, AddRuleRequest
  <1> QED
    BY <1>2, <1>3, <1>4 DEF FirewallInv

LEMMA ApplyKeeps ==
  ASSUME FirewallInv, NEW r \in Requests, Apply(r)
  PROVE  FirewallInv'
  <1>0. PICK i \in Ids : i = job[r].id
    BY TypeParts, JobTyped DEF FirewallInv, Apply
  <1>1. /\ RowsTyped /\ RequestsTyped /\ RequestKnown(r)
        /\ pc[r] = "apply" /\ pc[r] \in Creating /\ pc[r] # "idle"
    BY TypeParts DEF FirewallInv, Apply, Creating
  <1>2. /\ AddRule(i)
        /\ \/ Goto(r, "lookup") /\ UNCHANGED unsure
           \/ Goto(r, "undo") /\ unsure' = unsure \cup {i}
        /\ UNCHANGED <<row, handle, boots, promised, targeted, stale>>
    BY <1>0 DEF Apply, rowVars
  <1>3. /\ row[i] = "on" /\ handle[i] = 0 /\ RulesOf(i) = {} /\ i \notin stale
        /\ \A q \in Requests : pc[q] \in Creating /\ job[q].id = i => q = r
        /\ \A q \in Requests : pc[q] \in Removing => job[q].id # i
    BY <1>0, <1>1 DEF RequestKnown
  <1>4. unsure \subseteq unsure' /\ unsure' \subseteq Ids
    BY <1>1, <1>2 DEF RowsTyped
  <1>5. /\ RowsTyped' /\ AcknowledgedRule' /\ RulesHaveRows'
        /\ \A k \in Ids : RowKnown(k)'
    BY <1>2, <1>3, <1>4, AddRuleRows
  <1>6. /\ {"lookup", "undo"} \subseteq Steps \ {"idle"}
        /\ {"lookup", "undo"} \subseteq Creating
        /\ "lookup" \notin Deleting /\ "undo" \notin Deleting
        /\ "lookup" \notin Removing /\ "undo" \notin Removing
    BY DEF Steps, Creating, Deleting, Removing
  <1>7. /\ RequestsTyped' /\ OthersStay(r) /\ job'[r] = job[r]
        /\ pc'[r] \in {"lookup", "undo"}
        /\ pc'[r] = "undo" => i \in unsure'
    <2>1. CASE Goto(r, "lookup")
      BY <1>1, <1>6, <2>1, GotoMoves
    <2>2. CASE Goto(r, "undo") /\ unsure' = unsure \cup {i}
      BY <1>1, <1>6, <2>2, GotoMoves
    <2> QED
      BY <1>2, <2>1, <2>2
  <1>8. Typed'
    BY <1>5, <1>7 DEF Typed, TypeOK, RowsTyped, RequestsTyped
  <1>9. RequestKnown(r)'
    <2>1. RulesOf(i)' # {}
      BY <1>1, <1>2, AddRuleRules
    <2>2. \A q \in Requests : pc'[q] \in Creating /\ job'[q].id = i => q = r
      BY <1>3, <1>7 DEF OthersStay
    <2>3. job'[r].id = i /\ row'[i] # "none" /\ i \notin stale'
      BY <1>0, <1>2, <1>3, <1>7
    <2>4. pc'[r] \notin {"apply", "save", "check", "remove", "drop"}
      BY <1>7
    <2> QED
      BY <1>6, <1>7, <2>1, <2>2, <2>3, <2>4 DEF RequestKnown
  <1>10. \A q \in Requests \ {r} : RequestKnown(q)'
    <2> SUFFICES ASSUME NEW q \in Requests \ {r} PROVE RequestKnown(q)'
      OBVIOUS
    <2>1. pc'[q] = pc[q] /\ job'[q] = job[q]
      BY <1>7 DEF OthersStay
    <2>2. pc[q] # "idle" => job[q].id # i \/ pc[q] \in {"lookup", "save", "find"}
      <3>1. pc[q] \in Steps
        BY <1>1, JobTyped
      <3> QED
        BY <1>3, <3>1 DEF Steps, Creating, Removing
    <2>3. \A p \in Requests : pc'[p] \in Creating /\ job'[p].id = job[q].id =>
                                pc[p] \in Creating /\ job[p].id = job[q].id
      BY <1>1, <1>7 DEF OthersStay
    <2>4. \A p \in Requests : pc'[p] \in Removing => pc[p] \in Removing /\ job'[p] = job[p]
      BY <1>6, <1>7 DEF OthersStay
    <2> QED
      BY <1>2, <1>4, <2>1, <2>2, <2>3, <2>4, AddRuleRequest
  <1> QED
    BY <1>5, <1>8, <1>9, <1>10 DEF FirewallInv
\* The rule a request removes is of its row or, when its handle is older than
\* a reboot, of another one: a rule of Helling's always.
LEMMA RemovedRule ==
  ASSUME FirewallInv, NEW r \in Requests, pc[r] = "remove",
         owner[job[r].handle] # "none"
  PROVE  /\ job[r].handle \in Handles /\ job[r].id \in Ids \cap targeted
         /\ owner[job[r].handle] \in Ids
         /\ job[r].id \notin stale => owner[job[r].handle] = job[r].id
         /\ job[r].id \in stale => RulesOf(job[r].id) = {}
         /\ RulesOf(owner[job[r].handle]) = {job[r].handle}
  <1>1. RequestsTyped /\ RequestKnown(r)
    BY TypeParts DEF FirewallInv
  <1>2. job[r].handle \in Handles /\ job[r].id \in Ids
    BY <1>1, JobTyped
  <1>3. /\ job[r].id \in targeted /\ owner[job[r].handle] \in Ids
        /\ job[r].id \notin stale => owner[job[r].handle] = job[r].id
    BY <1>1 DEF RequestKnown, Deleting
  <1>4. RowKnown(job[r].id) /\ RowKnown(owner[job[r].handle])
    BY <1>2, <1>3 DEF FirewallInv
  <1>5. job[r].handle \in RulesOf(owner[job[r].handle])
    BY <1>2 DEF RulesOf
  <1> QED
    BY <1>2, <1>3, <1>4, <1>5 DEF RowKnown

\* Nothing known of a request is lost with the one rule of a row that is being
\* deleted or was hit.
LEMMA RemoveRequest ==
  ASSUME FirewallInv, NEW q \in Requests, NEW o \in Ids, o \in targeted',
         NEW g \in Handles, owner' = [owner EXCEPT ![g] = "none"], owner[g] = o,
         UNCHANGED <<row, handle, top, stale>>,
         targeted \subseteq targeted', unsure \subseteq unsure',
         pc'[q] = pc[q], job'[q] = job[q],
         \A p \in Requests : pc'[p] \in Creating =>
                               pc[p] \in Creating /\ job'[p] = job[p],
         \A p \in Requests : pc'[p] \in Removing => pc[p] \in Removing /\ job'[p] = job[p]
  PROVE  RequestKnown(q)'
  <1>1. RowsTyped /\ RequestsTyped /\ RequestKnown(q)
    BY TypeParts DEF FirewallInv
  <1>2. PICK i \in Ids \cup {"none"}, h \in 0..MaxHandle :
          i = job[q].id /\ h = job[q].handle /\ job'[q].id = i /\ job'[q].handle = h
    BY <1>1, JobTyped
  <1>3. CASE pc[q] = "idle"
    BY <1>3, IdleKnownNext
  <1>4. CASE pc[q] # "idle"
    <2>1. i \in Ids
      BY <1>1, <1>2, <1>4, JobTyped
    <2>2. \A l \in Handles : owner'[l] = IF l = g THEN "none" ELSE owner[l]
      BY <1>1 DEF RowsTyped
    <2>3. /\ RulesOf(i)' \subseteq RulesOf(i)
          /\ i # o => RulesOf(i)' = RulesOf(i)
      BY <2>1, <2>2, BoundsTyped DEF RulesOf
    <2>4. pc[q] \in {"save", "check", "remove"} => h \in Handles
      BY <1>1, <1>2, JobTyped
    <2>5. pc[q] \in Creating =>
            \A p \in Requests : pc'[p] \in Creating /\ job'[p].id = i => p = q
      BY <1>1, <1>2 DEF RequestKnown
    <2>6. pc[q] = "apply" =>
            \A p \in Requests : pc'[p] \in Removing => job'[p].id # i
      BY <1>1, <1>2 DEF RequestKnown
    <2>7. pc[q] \in {"lookup", "save"} /\ i \notin targeted' => RulesOf(i)' # {}
      BY <1>1, <1>2, <2>3 DEF RequestKnown
    <2>8. /\ pc[q] = "apply" => RulesOf(i)' = {}
          /\ pc[q] = "undo" => i \in unsure' \/ RulesOf(i)' = {}
          /\ pc[q] = "drop" => RulesOf(i)' = {}
      BY <1>1, <1>2, <2>3 DEF RequestKnown
    <2>9. /\ pc[q] \in {"save", "check", "remove"} /\ i \notin stale =>
               h <= top /\ owner'[h] \in {i, "none"}
          /\ pc[q] = "remove" => h <= top /\ owner'[h] \in Ids \cup {"none"}
      BY <1>1, <1>2, <2>2, <2>4 DEF RequestKnown
    <2>10. /\ row[i] # "none"
           /\ pc[q] \in Creating => i \notin stale
           /\ pc[q] = "apply" => row[i] = "on" /\ handle[i] = 0
           /\ pc[q] \in Deleting => i \in targeted
      BY <1>1, <1>2, <1>4 DEF RequestKnown
    <2> QED
      BY <1>2, <2>5, <2>6, <2>7, <2>8, <2>9, <2>10 DEF RequestKnown
  <1> QED
    BY <1>3, <1>4

LEMMA RemoveKeeps ==
  ASSUME FirewallInv, NEW r \in Requests, Remove(r)
  PROVE  FirewallInv'
  <1>1. /\ RowsTyped /\ RequestsTyped /\ RequestKnown(r)
        /\ pc[r] = "remove" /\ pc[r] \in Removing /\ pc[r] # "idle"
    BY TypeParts DEF FirewallInv, Remove, Removing
  <1>2. CASE owner[job[r].handle] = "none"
    <2>1. /\ End(r)
          /\ UNCHANGED <<rowVars, chainVars, boots, promised, targeted, unsure, stale>>
      BY <1>2 DEF Remove, chainVars
    <2> QED
      BY <1>1, <2>1, EndStep DEF RowsTyped
  <1>3. CASE owner[job[r].handle] # "none"
    <2>1. PICK i \in Ids, g \in Handles, o \in Ids :
            i = job[r].id /\ g = job[r].handle /\ o = owner[g]
      BY <1>1, <1>3, RemovedRule
    <2>2. /\ i \in targeted /\ RulesOf(o) = {g}
          /\ i \notin stale => o = i
          /\ i \in stale => RulesOf(i) = {}
      BY <1>1, <1>3, <2>1, RemovedRule
    <2> DEFINE hit == IF i \in stale THEN {o} ELSE {}
    <2>3. /\ owner' = [owner EXCEPT ![g] = "none"]
          /\ promised' = promised \ hit /\ targeted' = targeted \cup (hit \cap Ids)
          /\ \/ Goto(r, "drop") /\ UNCHANGED unsure
             \/ End(r) /\ unsure' = unsure \cup {i}
      BY <1>3, <2>1 DEF Remove
    <2>4. UNCHANGED <<row, handle, top, boots, stale>>
      BY DEF Remove, rowVars
    <2>5. \A l \in Handles : owner'[l] = IF l = g THEN "none" ELSE owner[l]
      BY <1>1, <2>3 DEF RowsTyped
    <2>6. /\ o \in targeted' /\ o \notin promised'
          /\ targeted \subseteq targeted' /\ targeted' \subseteq Ids
          /\ promised' \subseteq promised /\ promised' \cap targeted' = {}
          /\ unsure \subseteq unsure' /\ unsure' \subseteq Ids
      BY <1>1, <2>2, <2>3 DEF RowsTyped
    <2>7. \A k \in Ids : /\ RulesOf(k)' \subseteq RulesOf(k)
                         /\ k # o => RulesOf(k)' = RulesOf(k)
      BY <2>1, <2>5, BoundsTyped DEF RulesOf
    <2>8. RulesOf(i)' = {}
      <3>1. RulesOf(o)' = {}
        BY <2>2, <2>5, BoundsTyped DEF RulesOf
      <3> QED
        BY <2>2, <2>7, <3>1
    <2>9. RowsTyped'
      <3>1. owner' \in [Handles -> Ids \cup {"none", "foreign"}]
        BY <1>1, <2>3 DEF RowsTyped
      <3>2. \A h \in Handles : h > top' => owner'[h] = "none"
        BY <1>1, <2>4, <2>5 DEF RowsTyped
      <3> QED
        BY <1>1, <2>4, <2>6, <3>1, <3>2 DEF RowsTyped
    <2>10. "drop" \in Steps \ {"idle"} /\ "drop" \notin Creating
           /\ "idle" \notin Creating /\ "idle" \notin Removing
      BY DEF Steps, Creating, Removing
    <2>11. /\ RequestsTyped' /\ OthersStay(r)
           /\ pc'[r] \in {"drop", "idle"}
           /\ pc'[r] = "drop" => job'[r] = job[r]
      <3>1. CASE Goto(r, "drop")
        BY <1>1, <2>10, <3>1, GotoMoves
      <3>2. CASE End(r)
        BY <1>1, <3>2, EndMoves
      <3> QED
        BY <2>3, <3>1, <3>2
    <2>12. Typed'
      BY <2>9, <2>11 DEF Typed, TypeOK, RowsTyped, RequestsTyped
    <2>13. AcknowledgedRule'
      BY <1>1, <2>6, <2>7 DEF FirewallInv, AcknowledgedRule, RowsTyped
    <2>14. RulesHaveRows'
      BY <2>4, <2>5, <2>6, BoundsTyped DEF FirewallInv, RulesHaveRows
    <2>15. \A k \in Ids : RowKnown(k)'
      <3> SUFFICES ASSUME NEW k \in Ids PROVE RowKnown(k)'
        OBVIOUS
      <3>1. RowKnown(k) /\ RulesOf(k)' \subseteq RulesOf(k)
        BY <2>7 DEF FirewallInv
      <3>2. handle[k] # 0 => handle[k] \in Handles
        BY <1>1, BoundsTyped DEF RowsTyped, Handles
      <3> QED
        BY <2>4, <2>5, <3>1, <3>2 DEF RowKnown
    <2>16. RequestKnown(r)'
      <3>1. CASE pc'[r] = "idle"
        BY <3>1, IdleKnownNext
      <3>2. CASE pc'[r] = "drop"
        <4>1. job'[r].id = i /\ i \in targeted' /\ row'[i] # "none"
          BY <1>1, <2>1, <2>2, <2>4, <2>6, <2>11, <3>2 DEF RequestKnown
        <4> QED
          BY <2>8, <2>10, <3>2, <4>1 DEF RequestKnown
      <3> QED
        BY <2>11, <3>1, <3>2
    <2>17. \A q \in Requests \ {r} : RequestKnown(q)'
      <3>1. \A p \in Requests : pc'[p] \in Creating =>
                                  pc[p] \in Creating /\ job'[p] = job[p]
        BY <2>10, <2>11 DEF OthersStay
      <3>2. \A p \in Requests : pc'[p] \in Removing =>
                                  pc[p] \in Removing /\ job'[p] = job[p]
        BY <1>1, <2>10, <2>11 DEF OthersStay
      <3>3. \A q \in Requests \ {r} : pc'[q] = pc[q] /\ job'[q] = job[q]
        BY <2>11 DEF OthersStay
      <3> QED
        BY <2>1, <2>3, <2>4, <2>6, <3>1, <3>2, <3>3, RemoveRequest
    <2> QED
      BY <2>12, <2>13, <2>14, <2>15, <2>16, <2>17 DEF FirewallInv
  <1> QED
    BY <1>2, <1>3

-----------------------------------------------------------------------------
(* hellingd stops, or the host.                                            *)

LEMMA DroppedMoves ==
  ASSUME Dropped
  PROVE  RequestsTyped' /\ \A r \in Requests : RequestKnown(r)'
  <1>1. \A r \in Requests : pc'[r] = "idle" /\ job'[r] = NoJob
    BY DEF Dropped
  <1>2. \A r \in Requests : RequestKnown(r)'
    BY <1>1, IdleKnownNext
  <1>3. NoJob \in [id : Ids \cup {"none"}, handle : 0..MaxHandle] /\ NoJob.id = "none"
    BY BoundsTyped DEF NoJob
  <1>4. RequestsTyped'
    BY <1>1, <1>3 DEF Dropped, RequestsTyped, Steps
  <1> QED
    BY <1>2, <1>4

LEMMA CrashKeeps ==
  ASSUME FirewallInv, Crash
  PROVE  FirewallInv'
  <1>1. RequestsTyped' /\ \A r \in Requests : RequestKnown(r)'
    BY DroppedMoves DEF Crash
  <1>2. UNCHANGED <<row, handle, owner, top, boots, promised, targeted, unsure, stale>>
    BY DEF Crash, rowVars, chainVars, history
  <1>3. Typed'
    BY <1>1, <1>2 DEF FirewallInv, Typed, TypeOK, RequestsTyped
  <1>4. AcknowledgedRule' /\ RulesHaveRows' /\ \A i \in Ids : RowKnown(i)'
    BY <1>2 DEF FirewallInv, AcknowledgedRule, RulesHaveRows, RowKnown, RulesOf
  <1> QED
    BY <1>1, <1>3, <1>4 DEF FirewallInv

LEMMA RebootKeeps ==
  ASSUME FirewallInv, Reboot
  PROVE  FirewallInv'
  <1>1. RequestsTyped' /\ \A r \in Requests : RequestKnown(r)'
    BY DroppedMoves DEF Reboot
  <1>2. /\ owner' = [h \in Handles |-> "none"] /\ top' = 0
        /\ promised' = {} /\ stale' = {i \in Ids : handle[i] # 0}
        /\ boots < MaxBoots /\ boots' = boots + 1
        /\ UNCHANGED <<row, handle, targeted, unsure>>
    BY DEF Reboot, rowVars
  <1>3. RowsTyped
    BY TypeParts DEF FirewallInv
  <1>4. boots' \in 0..MaxBoots /\ top' \in 0..MaxHandle
    BY <1>2, <1>3, BoundsTyped DEF RowsTyped
  <1>5. RowsTyped'
    BY <1>2, <1>3, <1>4 DEF RowsTyped
  <1>6. Typed'
    BY <1>1, <1>5 DEF Typed, TypeOK, RowsTyped, RequestsTyped
  <1>7. \A i \in Ids : RulesOf(i)' = {}
    BY <1>2, BoundsTyped DEF RulesOf
  <1>8. AcknowledgedRule' /\ RulesHaveRows'
    BY <1>2, BoundsTyped DEF AcknowledgedRule, RulesHaveRows
  <1>9. \A i \in Ids : RowKnown(i)'
    BY <1>2, <1>7 DEF FirewallInv, RowKnown
  <1> QED
    BY <1>1, <1>6, <1>8, <1>9 DEF FirewallInv
-----------------------------------------------------------------------------
LEMMA InvInit == Init => FirewallInv
  <1> SUFFICES ASSUME Init PROVE FirewallInv
    OBVIOUS
  <1>1. \A r \in Requests : pc[r] = "idle" /\ job[r] = NoJob
    BY DEF Init
  <1>2. NoJob \in [id : Ids \cup {"none"}, handle : 0..MaxHandle] /\ NoJob.id = "none"
    BY BoundsTyped DEF NoJob
  <1>3. RequestsTyped
    BY <1>1, <1>2 DEF Init, RequestsTyped, Steps
  <1>4. RowsTyped
    BY BoundsTyped DEF Init, RowsTyped
  <1>5. AcknowledgedRule /\ RulesHaveRows
    BY BoundsTyped DEF Init, AcknowledgedRule, RulesHaveRows
  <1>6. \A i \in Ids : RowKnown(i)
    <2>1. \A i \in Ids : RulesOf(i) = {} /\ handle[i] = 0 /\ i \notin stale
      BY BoundsTyped DEF Init, RulesOf
    <2> QED
      BY <2>1 DEF RowKnown
  <1>7. \A r \in Requests : RequestKnown(r)
    BY <1>1, IdleKnown
  <1> QED
    BY <1>3, <1>4, <1>5, <1>6, <1>7, TypeParts DEF FirewallInv

LEMMA StepKeeps ==
  ASSUME FirewallInv, NEW r \in Requests, Step(r)
  PROVE  FirewallInv'
  BY CreateFirewallRuleKeeps, ApplyKeeps, LookupKeeps, SaveHandleKeeps, UndoKeeps,
     GetFirewallRuleKeeps, FindKeeps, CheckKeeps, RemoveKeeps, DropKeeps, FailKeeps
     DEF Step

LEMMA StutterKeeps ==
  ASSUME FirewallInv, UNCHANGED vars
  PROVE  FirewallInv'
  <1>1. UNCHANGED <<row, handle, owner, top, boots, pc, job>>
        /\ UNCHANGED <<promised, targeted, unsure, stale>>
    BY DEF vars, rowVars, chainVars, history
  <1>2. Typed' /\ AcknowledgedRule' /\ RulesHaveRows'
    BY <1>1 DEF FirewallInv, Typed, TypeOK, AcknowledgedRule, RulesHaveRows, RulesOf
  <1>3. \A i \in Ids : RowKnown(i)'
    BY <1>1 DEF FirewallInv, RowKnown, RulesOf
  <1>4. \A r \in Requests : RequestKnown(r)'
    BY <1>1 DEF FirewallInv, RequestKnown, RulesOf
  <1> QED
    BY <1>2, <1>3, <1>4 DEF FirewallInv

LEMMA InvStep == FirewallInv /\ [Next]_vars => FirewallInv'
  BY StepKeeps, ForeignRuleKeeps, CrashKeeps, RebootKeeps, StutterKeeps DEF Next

\* Rows, chain and requests fit together in every reachable state
\* (firewall_handlers.go with helling-nft-apply).
THEOREM FirewallInvHolds == Spec => []FirewallInv
  BY InvInit, InvStep, PTL DEF Spec

\* Until the host restarts an acknowledged rule stays in the chain however
\* requests interleave, fail or are cut off, and a rule in the chain has its
\* enabled row except where a command lied about failing
\* (handleCreateFirewallRule, handleDeleteFirewallRule).
THEOREM ChainFollowsRowsHolds == Spec => []ChainFollowsRows
  <1>1. FirewallInv => ChainFollowsRows
    BY DEF FirewallInv, Typed, ChainFollowsRows
  <1> QED
    BY <1>1, FirewallInvHolds, PTL

\* The step of OwnRuleOnly.
LEMMA OwnRuleStep ==
  ASSUME FirewallInv, [Next]_vars, NEW g \in Handles, boots' = boots,
         owner[g] # "none", owner'[g] # owner[g]
  PROVE  /\ owner[g] \in Ids
         /\ \E r \in Requests : /\ pc[r] = "remove" /\ job[r].handle = g
                                /\ job[r].id \in {owner[g]} \cup stale
  <1>1. RowsTyped /\ RequestsTyped
    BY TypeParts DEF FirewallInv
  <1>2. CASE Reboot
    BY <1>1, <1>2, BoundsTyped DEF Reboot, RowsTyped
  <1>3. CASE ForeignRule
    <2>1. AddRule("foreign")
      BY <1>3 DEF ForeignRule
    <2> QED
      BY <1>1, <2>1, AddRuleAdds
  <1>4. CASE UNCHANGED owner
    BY <1>4
  <1>5. ASSUME NEW r \in Requests, Apply(r) PROVE FALSE
    <2>1. AddRule(job[r].id) /\ job[r].id \in Ids
      BY <1>1, <1>5, JobTyped DEF Apply
    <2> QED
      BY <1>1, <2>1, AddRuleAdds
  <1>6. ASSUME NEW r \in Requests, Remove(r)
        PROVE  /\ owner[g] \in Ids
               /\ pc[r] = "remove" /\ job[r].handle = g
               /\ job[r].id \in {owner[g]} \cup stale
    <2>1. /\ pc[r] = "remove" /\ owner[job[r].handle] # "none"
          /\ owner' = [owner EXCEPT ![job[r].handle] = "none"]
      BY <1>6 DEF Remove
    <2>2. job[r].handle = g
      BY <1>1, <2>1 DEF RowsTyped
    <2> QED
      BY <2>1, <2>2, RemovedRule
  <1>7. ASSUME NEW r \in Requests, Step(r), ~Apply(r), ~Remove(r)
        PROVE  UNCHANGED owner
    BY <1>7 DEF Step, CreateFirewallRule, Lookup, SaveHandle, Undo, GetFirewallRule,
                Find, Check, Drop, Fail, chainVars
  <1>8. Crash \/ UNCHANGED vars => UNCHANGED owner
    BY DEF Crash, vars, chainVars
  <1> QED
    BY <1>2, <1>3, <1>4, <1>5, <1>6, <1>7, <1>8 DEF Next

\* Within a boot a rule leaves the chain only through a request that removes
\* it, the rule of its own row unless its handle is older than a reboot, and a
\* rule that is not Helling's never (validateDeleteOwnership).
THEOREM OwnRuleOnlyHolds == Spec => OwnRuleOnly
  <1>1. FirewallInv /\ [Next]_vars =>
          [\A h \in Handles :
             boots' = boots /\ owner[h] # "none" /\ owner'[h] # owner[h] =>
               /\ owner[h] \in Ids
               /\ \E r \in Requests : /\ pc[r] = "remove" /\ job[r].handle = h
                                      /\ job[r].id \in {owner[h]} \cup stale]_vars
    BY OwnRuleStep
  <1> QED
    BY <1>1, FirewallInvHolds, PTL DEF Spec, OwnRuleOnly
-----------------------------------------------------------------------------
(* What the handler accepts the helper accepts.  The helper's walk over the *)
(* tokens is a recursive function; that it is one follows from a fixpoint,  *)
(* and a valid rule is then followed from its last part back to its first.  *)

\* Every token a rule's arguments may hold.
Tokens == {"ip", "saddr", "daddr", "dport", "comment", "helling", "unset", "cidr", "text", "port",
           "range", "tcp", "udp", "icmp", "any", "other", "accept", "drop", "reject"}

Places(args) == 0..Len(args) + 3

\* One look at each place: whether the tokens from there on are accepted.
Look(args, f) ==
  [i \in Places(args) |->
     i \in DOMAIN args /\ (CommentEnds(args, i) \/ f[TokenEnd(args, i)])]

\* Behind a token there is a place, be it one beyond the last token.
LEMMA TokenEndTyped ==
  ASSUME NEW args \in Seq(Tokens), NEW i \in DOMAIN args
  PROVE  TokenEnd(args, i) \in Places(args)
  <1>1. Len(args) \in Nat /\ i \in 1..Len(args)
    OBVIOUS
  <1> QED
    BY <1>1 DEF TokenEnd, Places

\* A set of places that holds every place from which looking on leads into it.
Closed(args, S) ==
  \A i \in Places(args) :
    i \in DOMAIN args /\ (CommentEnds(args, i) \/ TokenEnd(args, i) \in S) => i \in S

\* The least such set answers every look alike: the recursion of
\* validateAddRuleArgs defines a function.
LEMMA LookHasFixpoint ==
  ASSUME NEW args \in Seq(Tokens)
  PROVE  \E f : f = Look(args, f)
  <1> DEFINE L == {i \in Places(args) : \A S \in SUBSET Places(args) : Closed(args, S) => i \in S}
             f == [i \in Places(args) |-> i \in L]
             M == {i \in Places(args) :
                     i \in DOMAIN args /\ (CommentEnds(args, i) \/ TokenEnd(args, i) \in L)}
  <1>1. Closed(args, L)
    <2> SUFFICES ASSUME NEW i \in Places(args), i \in DOMAIN args,
                        CommentEnds(args, i) \/ TokenEnd(args, i) \in L,
                        NEW S \in SUBSET Places(args), Closed(args, S)
                 PROVE  i \in S
      BY DEF Closed
    <2>1. CommentEnds(args, i) \/ TokenEnd(args, i) \in S
      OBVIOUS
    <2> QED
      BY <2>1 DEF Closed
  <1>2. M \subseteq L
    BY <1>1 DEF Closed
  <1>3. Closed(args, M)
    BY <1>2 DEF Closed
  <1>4. L \subseteq M
    BY <1>3
  <1>5. \A i \in Places(args) :
          f[i] = (i \in DOMAIN args /\ (CommentEnds(args, i) \/ f[TokenEnd(args, i)]))
    <2> SUFFICES ASSUME NEW i \in Places(args)
                 PROVE f[i] = (i \in DOMAIN args /\ (CommentEnds(args, i) \/ f[TokenEnd(args, i)]))
      OBVIOUS
    <2>1. i \in L <=> i \in M
      BY <1>2, <1>4
    <2>2. f[i] = (i \in L)
      <3> HIDE DEF L
      <3> QED
        OBVIOUS
    <2>3. i \in M <=> i \in DOMAIN args /\ (CommentEnds(args, i) \/ TokenEnd(args, i) \in L)
      OBVIOUS
    <2>4. i \in DOMAIN args => f[TokenEnd(args, i)] = (TokenEnd(args, i) \in L)
      BY TokenEndTyped
    <2> DEFINE c == CommentEnds(args, i)
               t == TokenEnd(args, i)
               d == i \in DOMAIN args
               p == t \in L
               q == i \in L
    <2>5. q = (d /\ (c \/ p))
      <3> HIDE DEF f, L, M, c, t
      <3>1. q <=> (d /\ (c \/ p))
        BY <2>1, <2>3 DEF c, t
      <3> QED
        BY <3>1
    <2>6. (d /\ (c \/ p)) = (d /\ (c \/ f[t]))
      <3>1. CASE d
        <4>1. f[t] = p
          BY <2>4, <3>1
        <4> HIDE DEF f, L, M, c, t, p
        <4> QED
          BY <4>1
      <3>2. CASE ~d
        <4> HIDE DEF f, L, M, c, t, p, d
        <4> QED
          BY <3>2
      <3> QED
        BY <3>1, <3>2
    <2> HIDE DEF f, L, M, c, t, p
    <2> QED
      BY <2>2, <2>5, <2>6 DEF c, t
  <1>6. f = Look(args, f)
    BY <1>5 DEF Look
  <1> QED
    BY <1>6

\* So the helper accepts as far as it looks on from one place to the next.
LEMMA LooksOn ==
  ASSUME NEW args \in Seq(Tokens)
  PROVE  \E f : /\ f = Look(args, f)
                /\ validateAddRuleArgs(args) <=> Len(args) >= 3 /\ f[1]
  <1> DEFINE f == CHOOSE g : g = Look(args, g)
  <1>1. f = Look(args, f)
    BY LookHasFixpoint
  <1>2. validateAddRuleArgs(args) <=> Len(args) >= 3 /\ f[1]
    BY Zenon DEF validateAddRuleArgs, Look, Places
  <1> QED
    BY <1>1, <1>2

\* What nftArgsForRule puts together.
SourceArgs(rule) == IF rule.source # "unset" THEN <<"ip", "saddr", rule.source>> ELSE <<>>
DestinationArgs(rule) ==
  IF rule.destination # "unset" THEN <<"ip", "daddr", rule.destination>> ELSE <<>>
ProtocolArgs(rule) == IF rule.protocol # "any" THEN <<rule.protocol>> ELSE <<>>
PortArgs(rule) == IF rule.port # "unset" THEN <<"dport", rule.port>> ELSE <<>>
LastArgs(rule) == <<"comment", "helling", rule.action>>

\* One sequence after another, place by place: the first ends at n, both at m.
Joined(C, A, B, n, m) ==
  /\ C = A \o B /\ Len(C) = m
  /\ \A k \in 1..n : C[k] = A[k]
  /\ \A k \in 1..m - n : C[n + k] = B[k]

LEMMA JoinedArgs ==
  ASSUME NEW A \in Seq(Tokens), NEW B \in Seq(Tokens), NEW n \in Nat, NEW m \in Nat,
         Len(A) = n, m = n + Len(B)
  PROVE  \E C \in Seq(Tokens) : Joined(C, A, B, n, m)
  <1>1. A \o B \in Seq(Tokens)
    OBVIOUS
  <1>2. Joined(A \o B, A, B, n, m)
    BY DEF Joined
  <1> QED
    BY <1>1, <1>2

LEMMA RulePartsTyped ==
  ASSUME NEW rule \in Rule
  PROVE  /\ SourceArgs(rule) \in Seq(Tokens) /\ DestinationArgs(rule) \in Seq(Tokens)
         /\ ProtocolArgs(rule) \in Seq(Tokens) /\ PortArgs(rule) \in Seq(Tokens)
         /\ LastArgs(rule) \in Seq(Tokens)
         /\ Len(SourceArgs(rule)) = (IF rule.source # "unset" THEN 3 ELSE 0)
         /\ Len(DestinationArgs(rule)) = (IF rule.destination # "unset" THEN 3 ELSE 0)
         /\ Len(ProtocolArgs(rule)) = (IF rule.protocol # "any" THEN 1 ELSE 0)
         /\ Len(PortArgs(rule)) = (IF rule.port # "unset" THEN 2 ELSE 0)
         /\ Len(LastArgs(rule)) = 3
  <1>1. /\ rule.source \in {"unset", "cidr", "text"}
        /\ rule.destination \in {"unset", "cidr", "text"}
        /\ rule.port \in {"unset", "port", "range"}
        /\ rule.protocol \in {"tcp", "udp", "icmp", "any", "other"}
        /\ rule.action \in {"accept", "drop", "reject", "other"}
    BY DEF Rule
  <1>2. /\ rule.source \in Tokens /\ rule.destination \in Tokens /\ rule.port \in Tokens
        /\ rule.protocol \in Tokens /\ rule.action \in Tokens
    BY <1>1 DEF Tokens
  <1>3. \A t, u, v \in Tokens :
          /\ <<t>> \in Seq(Tokens) /\ Len(<<t>>) = 1
          /\ <<t, u>> \in Seq(Tokens) /\ Len(<<t, u>>) = 2
          /\ <<t, u, v>> \in Seq(Tokens) /\ Len(<<t, u, v>>) = 3
    OBVIOUS
  <1>4. <<>> \in Seq(Tokens) /\ Len(<<>>) = 0
    OBVIOUS
  <1>5. {"ip", "saddr", "daddr", "dport", "comment", "helling"} \subseteq Tokens
    BY DEF Tokens
  <1>6. /\ SourceArgs(rule) \in Seq(Tokens)
        /\ Len(SourceArgs(rule)) = (IF rule.source # "unset" THEN 3 ELSE 0)
    BY <1>2, <1>3, <1>4, <1>5 DEF SourceArgs
  <1>7. /\ DestinationArgs(rule) \in Seq(Tokens)
        /\ Len(DestinationArgs(rule)) = (IF rule.destination # "unset" THEN 3 ELSE 0)
    BY <1>2, <1>3, <1>4, <1>5 DEF DestinationArgs
  <1>8. /\ ProtocolArgs(rule) \in Seq(Tokens)
        /\ Len(ProtocolArgs(rule)) = (IF rule.protocol # "any" THEN 1 ELSE 0)
    BY <1>2, <1>3, <1>4 DEF ProtocolArgs
  <1>9. /\ PortArgs(rule) \in Seq(Tokens)
        /\ Len(PortArgs(rule)) = (IF rule.port # "unset" THEN 2 ELSE 0)
    BY <1>2, <1>3, <1>4, <1>5 DEF PortArgs
  <1>10. LastArgs(rule) \in Seq(Tokens) /\ Len(LastArgs(rule)) = 3
    BY <1>2, <1>3, <1>5 DEF LastArgs
  <1> QED
    BY <1>6, <1>7, <1>8, <1>9, <1>10

\* The places at which the four optional parts of a rule's arguments end.
ArgsLaidOut(rule, args, a, b, c, d) ==
  /\ a = (IF rule.source # "unset" THEN 3 ELSE 0)
  /\ b = (IF rule.destination # "unset" THEN a + 3 ELSE a)
  /\ c = (IF rule.protocol # "any" THEN b + 1 ELSE b)
  /\ d = (IF rule.port # "unset" THEN c + 2 ELSE c)
  /\ Len(args) = d + 3
  /\ \A k \in 1..a : args[k] = SourceArgs(rule)[k]
  /\ \A k \in 1..b - a : args[a + k] = DestinationArgs(rule)[k]
  /\ \A k \in 1..c - b : args[b + k] = ProtocolArgs(rule)[k]
  /\ \A k \in 1..d - c : args[c + k] = PortArgs(rule)[k]
  /\ \A k \in 1..3 : args[d + k] = LastArgs(rule)[k]

\* nftArgsForRule lays its arguments out like that.
LEMMA RuleArgsLaidOut ==
  ASSUME NEW rule \in Rule
  PROVE  /\ nftArgsForRule(rule) \in Seq(Tokens)
         /\ \E a, b, c, d \in Nat : ArgsLaidOut(rule, nftArgsForRule(rule), a, b, c, d)
  <1> DEFINE S == SourceArgs(rule)
             T == DestinationArgs(rule)
             P == ProtocolArgs(rule)
             D == PortArgs(rule)
             L == LastArgs(rule)
             a == Len(S)
             b == a + Len(T)
             c == b + Len(P)
             d == c + Len(D)
  <1>2. /\ S \in Seq(Tokens) /\ T \in Seq(Tokens) /\ P \in Seq(Tokens)
        /\ D \in Seq(Tokens) /\ L \in Seq(Tokens)
        /\ Len(S) = (IF rule.source # "unset" THEN 3 ELSE 0)
        /\ Len(T) = (IF rule.destination # "unset" THEN 3 ELSE 0)
        /\ Len(P) = (IF rule.protocol # "any" THEN 1 ELSE 0)
        /\ Len(D) = (IF rule.port # "unset" THEN 2 ELSE 0)
        /\ Len(L) = 3
    BY RulePartsTyped
  <1> HIDE DEF S, T, P, D, L
  <1>3. /\ a \in Nat /\ b \in Nat /\ c \in Nat /\ d \in Nat /\ a <= b /\ b <= c /\ c <= d
        /\ b = a + Len(T) /\ c = b + Len(P) /\ d = c + Len(D)
    BY <1>2
  <1>4. /\ Len(S) = a
        /\ a = (IF rule.source # "unset" THEN 3 ELSE 0)
        /\ b = (IF rule.destination # "unset" THEN a + 3 ELSE a)
        /\ c = (IF rule.protocol # "any" THEN b + 1 ELSE b)
        /\ d = (IF rule.port # "unset" THEN c + 2 ELSE c)
    BY <1>2
  <1> HIDE DEF a, b, c, d
  <1>5. PICK ST \in Seq(Tokens) : Joined(ST, S, T, a, b)
    BY <1>2, <1>3, <1>4, JoinedArgs
  <1>6. PICK STP \in Seq(Tokens) : Joined(STP, ST, P, b, c)
    <2>1. Len(ST) = b
      BY <1>5 DEF Joined
    <2> QED
      BY <1>2, <1>3, <2>1, JoinedArgs
  <1>7. PICK STPD \in Seq(Tokens) : Joined(STPD, STP, D, c, d)
    <2>1. Len(STP) = c
      BY <1>6 DEF Joined
    <2> QED
      BY <1>2, <1>3, <2>1, JoinedArgs
  <1>8. PICK All \in Seq(Tokens) : Joined(All, STPD, L, d, d + 3)
    <2>1. Len(STPD) = d /\ d + 3 \in Nat
      BY <1>3, <1>7 DEF Joined
    <2> QED
      BY <1>2, <1>3, <2>1, JoinedArgs
  <1> USE DEF Joined
  <1>9. nftArgsForRule(rule) = All
    BY <1>5, <1>6, <1>7, <1>8
    DEF nftArgsForRule, SourceArgs, DestinationArgs, ProtocolArgs, PortArgs, LastArgs, S, T, P, D, L
  <1>10. \A k \in 1..a : All[k] = S[k]
    <2> SUFFICES ASSUME NEW k \in 1..a PROVE All[k] = S[k]
      OBVIOUS
    <2>1. k \in 1..b /\ k \in 1..c /\ k \in 1..d
      BY <1>3
    <2>2. ST[k] = S[k]
      BY <1>5
    <2> QED
      BY <1>6, <1>7, <1>8, <2>1, <2>2
  <1>11. \A k \in 1..b - a : All[a + k] = T[k]
    <2> SUFFICES ASSUME NEW k \in 1..b - a PROVE All[a + k] = T[k]
      OBVIOUS
    <2>1. a + k \in 1..b /\ a + k \in 1..c /\ a + k \in 1..d
      BY <1>3
    <2>2. ST[a + k] = T[k]
      BY <1>5
    <2> QED
      BY <1>6, <1>7, <1>8, <2>1, <2>2
  <1>12. \A k \in 1..c - b : All[b + k] = P[k]
    <2> SUFFICES ASSUME NEW k \in 1..c - b PROVE All[b + k] = P[k]
      OBVIOUS
    <2>1. b + k \in 1..c /\ b + k \in 1..d
      BY <1>3
    <2>2. STP[b + k] = P[k]
      BY <1>6
    <2> QED
      BY <1>7, <1>8, <2>1, <2>2
  <1>13. \A k \in 1..d - c : All[c + k] = D[k]
    <2> SUFFICES ASSUME NEW k \in 1..d - c PROVE All[c + k] = D[k]
      OBVIOUS
    <2>1. c + k \in 1..d
      BY <1>3
    <2>2. STPD[c + k] = D[k]
      BY <1>7
    <2> QED
      BY <1>8, <2>1, <2>2
  <1>14. \A k \in 1..3 : All[d + k] = L[k]
    <2>1. (d + 3) - d = 3
      BY <1>3
    <2>2. \A k \in 1..(d + 3) - d : All[d + k] = L[k]
      BY <1>8
    <2> QED
      BY <2>1, <2>2
  <1>15. ArgsLaidOut(rule, All, a, b, c, d)
    BY <1>4, <1>8, <1>10, <1>11, <1>12, <1>13, <1>14 DEF ArgsLaidOut, S, T, P, D, L
  <1> QED
    BY <1>3, <1>8, <1>9, <1>15

\* From the last token to the first the helper looks from each optional part of
\* a valid rule to the next (validateFirewallRule, validateAddRuleArgs).
LEMMA ValidAccepted == ValidRulesAccepted
  <1> SUFFICES ASSUME NEW rule \in Rule, validateFirewallRule(rule)
               PROVE  validateAddRuleArgs(nftArgsForRule(rule))
    BY DEF ValidRulesAccepted
  <1> DEFINE args == nftArgsForRule(rule)
  <1>1. PICK a, b, c, d \in Nat : ArgsLaidOut(rule, args, a, b, c, d)
    BY RuleArgsLaidOut
  <1>2. args \in Seq(Tokens)
    BY RuleArgsLaidOut
  <1>3. PICK f : /\ f = Look(args, f)
                 /\ validateAddRuleArgs(args) <=> Len(args) >= 3 /\ f[1]
    BY <1>2, LooksOn
  <1> HIDE DEF args
  <1>4. /\ rule.source \in {"unset", "cidr"} /\ rule.destination \in {"unset", "cidr"}
        /\ rule.protocol \in {"tcp", "udp", "icmp", "any"}
        /\ rule.port \in {"unset", "port"}
        /\ (rule.port # "unset" => rule.protocol \in {"tcp", "udp"})
        /\ rule.action \in {"accept", "drop", "reject"}
    BY DEF validateFirewallRule, Rule
  <1>5. \A i \in 1..Len(args) : f[i] <=> CommentEnds(args, i) \/ f[TokenEnd(args, i)]
    <2> SUFFICES ASSUME NEW i \in 1..Len(args)
                 PROVE  f[i] <=> CommentEnds(args, i) \/ f[TokenEnd(args, i)]
      OBVIOUS
    <2>1. i \in Places(args) /\ i \in DOMAIN args
      BY <1>2 DEF Places
    <2>2. Look(args, f)[i] = (i \in DOMAIN args /\ (CommentEnds(args, i) \/ f[TokenEnd(args, i)]))
      BY <2>1 DEF Look
    <2>3. f[i] = (i \in DOMAIN args /\ (CommentEnds(args, i) \/ f[TokenEnd(args, i)]))
      BY <1>3, <2>2, Zenon
    <2> QED
      BY <2>1, <2>3
  <1>6. /\ a = (IF rule.source # "unset" THEN 3 ELSE 0)
        /\ b = (IF rule.destination # "unset" THEN a + 3 ELSE a)
        /\ c = (IF rule.protocol # "any" THEN b + 1 ELSE b)
        /\ d = (IF rule.port # "unset" THEN c + 2 ELSE c)
        /\ Len(args) = d + 3 /\ a <= b /\ b <= c /\ c <= d
    BY <1>1 DEF ArgsLaidOut
  \* From the last part to the first.
  <1>7. f[d + 1]
    <2>1. args[d + 1] = "comment" /\ args[d + 2] = "helling" /\ args[d + 3] = rule.action
      <3>1. \A k \in 1..3 : args[d + k] = <<"comment", "helling", rule.action>>[k]
        BY <1>1 DEF ArgsLaidOut, LastArgs
      <3> QED
        BY <3>1
    <2>2. CommentEnds(args, d + 1)
      BY <1>4, <1>6, <2>1 DEF CommentEnds
    <2> QED
      BY <1>5, <1>6, <2>2
  <1>8. rule.port # "unset" => args[c + 1] = "dport" /\ args[c + 2] = "port" /\ d = c + 2
    <2> SUFFICES ASSUME rule.port # "unset"
                 PROVE  args[c + 1] = "dport" /\ args[c + 2] = "port" /\ d = c + 2
      OBVIOUS
    <2>1. \A k \in 1..2 : args[c + k] = <<"dport", "port">>[k]
      BY <1>1, <1>4, <1>6 DEF ArgsLaidOut, PortArgs
    <2> QED
      BY <1>6, <2>1
  <1>9. f[b + 1]
    <2>1. CASE rule.protocol = "any"
      <3>1. b = d
        BY <1>4, <1>6, <2>1
      <3> QED
        BY <1>7, <3>1
    <2>2. CASE rule.protocol # "any"
      <3>1. c = b + 1 /\ args[b + 1] = rule.protocol
        <4>1. \A k \in 1..1 : args[b + k] = <<rule.protocol>>[k]
          BY <1>1, <1>6, <2>2 DEF ArgsLaidOut, ProtocolArgs
        <4> QED
          BY <1>6, <2>2, <4>1
      <3>2. CASE rule.port # "unset"
        <4>1. TokenEnd(args, b + 1) = d + 1
          BY <1>4, <1>6, <1>8, <3>1, <3>2 DEF TokenEnd
        <4> QED
          BY <1>5, <1>6, <1>7, <4>1
      <3>3. CASE rule.port = "unset"
        <4>1. d = c /\ args[c + 1] = "comment"
          <5>1. \A k \in 1..3 : args[d + k] = <<"comment", "helling", rule.action>>[k]
            BY <1>1 DEF ArgsLaidOut, LastArgs
          <5> QED
            BY <1>6, <3>3, <5>1
        <4>2. TokenEnd(args, b + 1) = d + 1
          BY <1>4, <1>6, <2>2, <3>1, <4>1 DEF TokenEnd
        <4> QED
          BY <1>5, <1>6, <1>7, <4>2
      <3> QED
        BY <3>2, <3>3
    <2> QED
      BY <2>1, <2>2
  <1>10. f[a + 1]
    <2>1. CASE rule.destination = "unset"
      BY <1>6, <1>9, <2>1
    <2>2. CASE rule.destination # "unset"
      <3>1. \A k \in 1..3 : args[a + k] = <<"ip", "daddr", "cidr">>[k]
        BY <1>1, <1>4, <1>6, <2>2 DEF ArgsLaidOut, DestinationArgs
      <3>2. args[a + 1] = "ip" /\ args[a + 2] = "daddr" /\ args[a + 3] = "cidr" /\ b = a + 3
        BY <1>6, <2>2, <3>1
      <3>3. TokenEnd(args, a + 1) = b + 1
        BY <1>6, <3>2 DEF TokenEnd
      <3> QED
        BY <1>5, <1>6, <1>9, <3>3
    <2> QED
      BY <2>1, <2>2
  <1>11. f[1]
    <2>1. CASE rule.source = "unset"
      BY <1>6, <1>10, <2>1
    <2>2. CASE rule.source # "unset"
      <3>1. \A k \in 1..3 : args[k] = <<"ip", "saddr", "cidr">>[k]
        BY <1>1, <1>4, <1>6, <2>2 DEF ArgsLaidOut, SourceArgs
      <3>2. args[1] = "ip" /\ args[2] = "saddr" /\ args[3] = "cidr" /\ a = 3
        BY <1>6, <2>2, <3>1
      <3>3. TokenEnd(args, 1) = a + 1
        BY <1>6, <3>2 DEF TokenEnd
      <3> QED
        BY <1>5, <1>6, <1>10, <3>3
    <2> QED
      BY <2>1, <2>2
  <1> QED
    BY <1>3, <1>6, <1>11 DEF args

\* No rule that was validated is refused by the helper after its row was
\* written (validateFirewallRule, nftArgsForRule, validateAddRuleArgs).
THEOREM HelperAcceptsValidRulesHolds == Spec => []HelperAcceptsValidRules
  <1>1. HelperAcceptsValidRules
    BY ValidAccepted DEF HelperAcceptsValidRules
  <1> QED
    BY <1>1, PTL
================================================================================
