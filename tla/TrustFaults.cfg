SPECIFICATION Spec
CONSTANTS
  Users = {u1, u2}
  Requests = {r1, r2}
  Certs = {c1, c2}
  Projects = {default, p, q}
  Project = p
  Elsewhere = q
  PolicyDirs <- MCPolicyDirs
  Default = default
  None = None
  NoJob = NoJob
  Overlap = FALSE
  Faults = {"crash", "store", "helper", "late", "hangup"}
SYMMETRY Symmetry
INVARIANTS TypeOK TrustFollowsRows NeverStranded OneFirstAdmin
CHECK_DEADLOCK FALSE
PROPERTIES OneFailureIsUndone
