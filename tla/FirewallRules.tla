---------------------------- MODULE FirewallRules ----------------------------
(***************************************************************************)
(* Host firewall rules: rows of firewall_host_rules, the rules of the      *)
(* kernel's chain they stand for, and the set-uid helper between them.     *)
(* Handlers run a command or a store call per step and interleave; rows    *)
(* outlive a reboot, rules and their handles do not.  One chain is         *)
(* modelled: a handle is looked for in the chain of its row only.          *)
(***************************************************************************)
EXTENDS Naturals, FiniteSets, Sequences

CONSTANTS
  Ids,        \* the ids rows may get
  Requests,
  MaxHandle,  \* bound: rules added to the chain between two boots
  MaxBoots,   \* bound: reboots
  Longer,     \* the handles whose digits begin with those of a handle
  Faults      \* of "fail", "late" (done, but reported as failed), "crash"

Handles == 1..MaxHandle

ASSUME FirewallAssumption ==
  /\ MaxHandle \in Nat /\ MaxBoots \in Nat
  /\ Ids \cap {"none", "foreign"} = {}
  /\ Longer \in [Handles -> SUBSET Handles]
  /\ \A h \in Handles : \A l \in Longer[h] : l > h
  /\ Faults \subseteq {"fail", "late", "crash"}

VARIABLES
  row,      \* a row: "none" yet, enabled "on" or "off", or "gone"
  handle,   \* its nft_handle, 0 for NULL
  owner,    \* the chain: the row whose comment a handle's rule bears
  top,      \* the last handle the kernel gave
  boots,    \* reboots so far
  pc,       \* a request's next step
  job,      \* the row it is about and the handle it goes by
  promised, \* history: rules acknowledged that nobody began to delete
  targeted, \* history: rows a deletion was begun of, or a stale handle hit
  unsure,   \* history: rows of commands that were done and reported failed
  stale     \* history: rows whose handle is older than a reboot

chainVars == <<owner, top>>
rowVars == <<row, handle>>
history == <<promised, targeted, unsure, stale>>
vars == <<rowVars, chainVars, boots, pc, job, history>>

NoJob == [id |-> "none", handle |-> 0]

Init ==
  /\ row = [i \in Ids |-> "none"] /\ handle = [i \in Ids |-> 0]
  /\ owner = [h \in Handles |-> "none"] /\ top = 0 /\ boots = 0
  /\ pc = [r \in Requests |-> "idle"] /\ job = [r \in Requests |-> NoJob]
  /\ promised = {} /\ targeted = {} /\ unsure = {} /\ stale = {}

Goto(r, next) == pc' = [pc EXCEPT ![r] = next] /\ UNCHANGED job
Start(r, i, h, next) ==
  pc' = [pc EXCEPT ![r] = next] /\ job' = [job EXCEPT ![r] = [id |-> i, handle |-> h]]
With(r, h, next) == Start(r, job[r].id, h, next)
End(r) == Start(r, "none", 0, "idle")

RulesOf(i) == {h \in Handles : owner[h] = i}
Lowest(S) == CHOOSE h \in S : \A l \in S : h <= l

-----------------------------------------------------------------------------
(* handleCreateFirewallRule                                                *)

\* The row comes first; a rule that is not enabled is not applied.
CreateFirewallRule(r) ==
  /\ pc[r] = "idle"
  /\ \E i \in Ids :
       /\ row[i] = "none"
       /\ \/ row' = [row EXCEPT ![i] = "off"] /\ End(r)
          \/ row' = [row EXCEPT ![i] = "on"] /\ Start(r, i, 0, "apply")
  /\ UNCHANGED <<handle, chainVars, boots, history>>

\* Adding a rule to a chain that is made first where it is missing.
AddRule(i) ==
  /\ top < MaxHandle
  /\ top' = top + 1
  /\ owner' = [owner EXCEPT ![top'] = i]

Apply(r) ==
  /\ pc[r] = "apply"
  /\ AddRule(job[r].id)
  /\ \/ Goto(r, "lookup") /\ UNCHANGED unsure
     \/ /\ "late" \in Faults
        /\ Goto(r, "undo")
        /\ unsure' = unsure \cup {job[r].id}
  /\ UNCHANGED <<rowVars, boots, promised, targeted, stale>>

\* The answer is 201: with a handle, or without when it was not found.
Acknowledge(i) ==
  /\ promised' = promised \cup ({i} \ targeted)
  /\ UNCHANGED <<targeted, unsure, stale>>

\* Faulty variant: the last rule of the chain is taken for the new one.
LookupLast(r) ==
  /\ pc[r] = "lookup"
  /\ With(r, top, "save")
  /\ UNCHANGED <<rowVars, chainVars, boots, history>>

\* Faulty variant: the error of the search is ignored and its zero stored.
LookupIgnoringError(r) ==
  /\ pc[r] = "lookup"
  /\ LET found == RulesOf(job[r].id) IN
     With(r, IF found # {} THEN Lowest(found) ELSE 0, "save")
  /\ UNCHANGED <<rowVars, chainVars, boots, history>>

\* lookupFirewallHandle goes by the comment, which names the row.
Lookup(r) ==
  /\ pc[r] = "lookup"
  /\ LET found == RulesOf(job[r].id) IN
     IF found # {} THEN With(r, Lowest(found), "save") /\ UNCHANGED history
     ELSE End(r) /\ Acknowledge(job[r].id)
  /\ UNCHANGED <<rowVars, chainVars, boots>>

\* UpdateFirewallRuleHandle; a failure of it is ignored.
SaveHandle(r) ==
  /\ pc[r] = "save"
  /\ LET i == job[r].id IN
       /\ \/ handle' = [handle EXCEPT ![i] = IF row[i] = "on" THEN job[r].handle ELSE @]
          \/ "fail" \in Faults /\ UNCHANGED handle
       /\ Acknowledge(i)
  /\ End(r)
  /\ UNCHANGED <<row, chainVars, boots>>

\* The rule was not applied: the row goes, unless that fails as well.
Undo(r) ==
  /\ pc[r] = "undo"
  /\ \/ row' = [row EXCEPT ![job[r].id] = "gone"]
     \/ "fail" \in Faults /\ UNCHANGED row
  /\ End(r)
  /\ UNCHANGED <<handle, chainVars, boots, history>>

-----------------------------------------------------------------------------
(* handleDeleteFirewallRule                                                *)

\* The handle in the row is trusted; without one the chain is searched.
GetFirewallRule(r) ==
  /\ pc[r] = "idle"
  /\ \E i \in Ids :
       /\ row[i] \in {"on", "off"}
       /\ Start(r, i, handle[i],
            IF row[i] = "off" THEN "drop" ELSE IF handle[i] = 0 THEN "find" ELSE "check")
       /\ promised' = promised \ {i} /\ targeted' = targeted \cup {i}
  /\ UNCHANGED <<rowVars, chainVars, boots, unsure, stale>>

Find(r) ==
  /\ pc[r] = "find"
  /\ LET found == RulesOf(job[r].id) IN
     IF found # {} THEN With(r, Lowest(found), "check") ELSE End(r)
  /\ UNCHANGED <<rowVars, chainVars, boots, history>>

\* Faulty variant: the helper deletes whatever the handle numbers.
CheckUnowned(r) ==
  /\ pc[r] = "check"
  /\ IF owner[job[r].handle] # "none" THEN Goto(r, "remove") ELSE End(r)
  /\ UNCHANGED <<rowVars, chainVars, boots, history>>

\* validateDeleteOwnership: of the chain's lines, which are in the order of
\* their handles, the first that shows these digits must bear a Helling comment.
Check(r) ==
  /\ pc[r] = "check"
  /\ LET h == job[r].handle
         lines == {l \in {h} \cup Longer[h] : owner[l] # "none"} IN
     IF lines # {} /\ owner[Lowest(lines)] \in Ids THEN Goto(r, "remove") ELSE End(r)
  /\ UNCHANGED <<rowVars, chainVars, boots, history>>

\* nft delete rule ... handle: fails when no rule has it.
Remove(r) ==
  /\ pc[r] = "remove"
  /\ LET h == job[r].handle IN
     IF owner[h] = "none" THEN End(r) /\ UNCHANGED <<owner, promised, targeted, unsure>>
     ELSE /\ owner' = [owner EXCEPT ![h] = "none"]
          /\ LET hit == IF job[r].id \in stale THEN {owner[h]} ELSE {} IN
               promised' = promised \ hit /\ targeted' = targeted \cup (hit \cap Ids)
          /\ \/ Goto(r, "drop") /\ UNCHANGED unsure
             \/ /\ "late" \in Faults
                /\ End(r)
                /\ unsure' = unsure \cup {job[r].id}
  /\ UNCHANGED <<rowVars, top, boots, stale>>

\* DeleteFirewallRule, which refuses when another deletion was first.
Drop(r) ==
  /\ pc[r] = "drop"
  /\ row' = [row EXCEPT ![job[r].id] = "gone"]
  /\ End(r)
  /\ UNCHANGED <<handle, chainVars, boots, history>>

-----------------------------------------------------------------------------
\* Faulty variant: a rule that could not be removed is forgotten all the same.
FailForgetting(r) ==
  /\ "fail" \in Faults
  /\ pc[r] \in {"apply", "lookup", "find", "check", "remove", "drop"}
  /\ CASE pc[r] = "apply" -> Goto(r, "undo") /\ UNCHANGED history
       [] pc[r] = "lookup" -> End(r) /\ Acknowledge(job[r].id)
       [] pc[r] \in {"check", "remove"} -> Goto(r, "drop") /\ UNCHANGED history
       [] OTHER -> End(r) /\ UNCHANGED history
  /\ UNCHANGED <<rowVars, chainVars, boots>>

\* Faulty variant: a rule that could not be applied is acknowledged.
FailAcknowledging(r) ==
  /\ "fail" \in Faults
  /\ pc[r] \in {"apply", "lookup", "find", "check", "remove", "drop"}
  /\ IF pc[r] \in {"apply", "lookup"} THEN Acknowledge(job[r].id) ELSE UNCHANGED history
  /\ End(r)
  /\ UNCHANGED <<rowVars, chainVars, boots>>

\* A command fails, is refused or runs out of its 5 seconds, or the client has
\* gone: only an addition is undone, and a handle that is not found is done without.
Fail(r) ==
  /\ "fail" \in Faults
  /\ pc[r] \in {"apply", "lookup", "find", "check", "remove", "drop"}
  /\ CASE pc[r] = "apply" -> Goto(r, "undo") /\ UNCHANGED history
       [] pc[r] = "lookup" -> End(r) /\ Acknowledge(job[r].id)
       [] OTHER -> End(r) /\ UNCHANGED history
  /\ UNCHANGED <<rowVars, chainVars, boots>>

\* Somebody else adds a rule to the chain.
ForeignRule ==
  /\ AddRule("foreign")
  /\ UNCHANGED <<rowVars, boots, pc, job, history>>

Dropped == pc' = [r \in Requests |-> "idle"] /\ job' = [r \in Requests |-> NoJob]

\* hellingd stops and is started again: nothing is reconciled.
Crash ==
  /\ "crash" \in Faults
  /\ \E r \in Requests : pc[r] # "idle"
  /\ Dropped
  /\ UNCHANGED <<rowVars, chainVars, boots, history>>

\* The host restarts with an empty ruleset; nothing applies the rows again.
Reboot ==
  /\ boots < MaxBoots
  /\ boots' = boots + 1
  /\ owner' = [h \in Handles |-> "none"] /\ top' = 0
  /\ Dropped
  /\ promised' = {} /\ stale' = {i \in Ids : handle[i] # 0}
  /\ UNCHANGED <<rowVars, targeted, unsure>>

Step(r) ==
  \/ CreateFirewallRule(r) \/ Apply(r) \/ Lookup(r) \/ SaveHandle(r) \/ Undo(r)
  \/ GetFirewallRule(r) \/ Find(r) \/ Check(r) \/ Remove(r) \/ Drop(r) \/ Fail(r)

Next == (\E r \in Requests : Step(r)) \/ ForeignRule \/ Crash \/ Reboot

Spec == Init /\ [][Next]_vars

-----------------------------------------------------------------------------
(* What the handler accepts and what the helper accepts: a rule's tokens.  *)
(* "unset" is the empty string of a field that is left out.                *)
Rule == [protocol : {"tcp", "udp", "icmp", "any", "other"}, source : {"unset", "cidr", "text"},
         destination : {"unset", "cidr", "text"}, port : {"unset", "port", "range"},
         action : {"accept", "drop", "reject", "other"}]

validateFirewallRule(rule) ==
  /\ rule.action # "other" /\ rule.protocol # "other"
  /\ {rule.source, rule.destination} \subseteq {"unset", "cidr"}
  /\ rule.port # "range"
  /\ rule.port # "unset" => rule.protocol \in {"tcp", "udp"}

\* Faulty variant: the protocol is passed on as it is.
nftArgsAnyProtocol(rule) ==
  (IF rule.source # "unset" THEN <<"ip", "saddr", rule.source>> ELSE <<>>)
  \o (IF rule.destination # "unset" THEN <<"ip", "daddr", rule.destination>> ELSE <<>>)
  \o <<rule.protocol>>
  \o (IF rule.port # "unset" THEN <<"dport", rule.port>> ELSE <<>>)
  \o <<"comment", "helling", rule.action>>

\* nftArgsForRule, after the five tokens that name the chain.
nftArgsForRule(rule) ==
  (IF rule.source # "unset" THEN <<"ip", "saddr", rule.source>> ELSE <<>>)
  \o (IF rule.destination # "unset" THEN <<"ip", "daddr", rule.destination>> ELSE <<>>)
  \o (IF rule.protocol # "any" THEN <<rule.protocol>> ELSE <<>>)
  \o (IF rule.port # "unset" THEN <<"dport", rule.port>> ELSE <<>>)
  \o <<"comment", "helling", rule.action>>

\* validateRuleToken: the place after the token at i, 0 for none.
TokenEnd(args, i) ==
  LET at(k) == IF k <= Len(args) THEN args[k] ELSE "end" IN
  CASE args[i] = "ip" /\ at(i + 1) \in {"saddr", "daddr"} /\ at(i + 2) = "cidr" -> i + 3
    [] args[i] \in {"tcp", "udp"} /\ at(i + 1) = "dport" /\ i + 2 <= Len(args) ->
         IF args[i + 2] = "port" THEN i + 3 ELSE 0
    [] args[i] \in {"tcp", "udp"} /\ (at(i + 1) # "dport" \/ i + 2 > Len(args)) -> i + 1
    [] args[i] = "icmp" -> i + 1
    [] OTHER -> 0

CommentEnds(args, i) ==
  args[i] = "comment" /\ Len(args) = i + 2 /\ args[i + 1] = "helling"
  /\ args[i + 2] \in {"accept", "drop", "reject"}

\* validateAddRuleArgs: tokens until the comment and action, which are the last.
validateAddRuleArgs(args) ==
  LET accepts[i \in 0..Len(args) + 3] ==
        i \in DOMAIN args /\ (CommentEnds(args, i) \/ accepts[TokenEnd(args, i)])
  IN Len(args) >= 3 /\ accepts[1]

-----------------------------------------------------------------------------
TypeOK ==
  /\ row \in [Ids -> {"none", "on", "off", "gone"}]
  /\ handle \in [Ids -> 0..MaxHandle]
  /\ owner \in [Handles -> Ids \cup {"none", "foreign"}]
  /\ top \in 0..MaxHandle /\ boots \in 0..MaxBoots
  /\ \A h \in Handles : h > top => owner[h] = "none"
  /\ job \in [Requests -> [id : Ids \cup {"none"}, handle : 0..MaxHandle]]
  /\ \A r \in Requests : pc[r] = "idle" <=> job[r].id = "none"
  /\ \A r \in Requests : pc[r] \in {"save", "check", "remove"} => job[r].handle # 0
  /\ promised \cap targeted = {}

(* A rule that was acknowledged and that nobody began to delete is in force *)
(* until the host restarts, whatever else is created, deleted or fails.     *)
(* Only the deletion of a row whose handle is older than that may hit it.   *)
AcknowledgedRule == \A i \in promised : RulesOf(i) # {}

(* A Helling rule in the chain has its row, so that it is listed and can be *)
(* deleted, except where a command was done and reported as failed.         *)
RulesHaveRows == \A h \in Handles : owner[h] \in Ids \ unsure => row[owner[h]] = "on"

(* Rows and chain agree: what was acknowledged is in force, and what is in  *)
(* force can be found and deleted.                                          *)
ChainFollowsRows == TypeOK /\ AcknowledgedRule /\ RulesHaveRows

(* A deletion removes the rule of its own row, also when creations and      *)
(* deletions of other rows interleave, and a rule of another program never, *)
(* be its handle stale or its digits the beginning of another's             *)
(* (validateDeleteOwnership).  A handle from before a reboot may hit        *)
(* another rule of Helling's: removeFirewallRule trusts the row.            *)
OwnRuleOnly ==
  [][\A h \in Handles :
       boots' = boots /\ owner[h] # "none" /\ owner'[h] # owner[h] =>
         /\ owner[h] \in Ids
         /\ \E r \in Requests : /\ pc[r] = "remove" /\ job[r].handle = h
                                /\ job[r].id \in {owner[h]} \cup stale]_vars

ValidRulesAccepted ==
  \A rule \in Rule : validateFirewallRule(rule) => validateAddRuleArgs(nftArgsForRule(rule))

(* Whatever rule was validated by the time it is applied, the helper takes   *)
(* the arguments made of it: the two checks agree, so none is refused after  *)
(* its row was written.                                                      *)
HelperAcceptsValidRules ==
  \A r \in Requests : pc[r] = "apply" => ValidRulesAccepted
=============================================================================
