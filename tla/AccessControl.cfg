\* Requests with any credential interleave with changes of users and credentials.
SPECIFICATION Spec
CONSTANTS
  Users = {admin, user}
  Root = admin
  Requests = {r1, r2}
  MaxSessions = 1
  Given = "write"
  MaxTokens = 2
  MaxUpdates = 1
  None = None
SYMMETRY Symmetry
INVARIANTS OnlyEntitled AcknowledgedUpdate
PROPERTIES ReadTokensOnlyRead
\* With the bound on sessions reached no credential may be left to ask with.
CHECK_DEADLOCK FALSE
