\* Every failure, any interleaving of two operations, one of them on an
\* instance with "conflict" in its name.
SPECIFICATION FairSpec
CONSTANTS
  Ops = {o1, o2}
  Misnamed = {o2}
  Faults = {"crash", "db", "incus", "forget"}
  NoReply = NoReply
INVARIANTS PollerTypeOK AnswersHold FaithfulOutcome
PROPERTIES NeverBack Settles
