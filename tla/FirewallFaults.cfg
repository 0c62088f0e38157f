\* Creations and deletions interleave with failures, crashes and a reboot.
SPECIFICATION Spec
CONSTANTS
  Ids = {i1, i2, i3}
  Requests = {r1, r2}
  MaxHandle = 3
  MaxBoots = 1
  Longer <- ThirdLikeFirst
  Faults = {"fail", "late", "crash"}
SYMMETRY Symmetry
INVARIANTS ChainFollowsRows HelperAcceptsValidRules
PROPERTIES OwnRuleOnly
\* With every row used and deleted there is nothing left to ask for.
CHECK_DEADLOCK FALSE
