\* Two invocations side by side, two servers, two sessions; four
\* invocations in all, one of them killed.
SPECIFICATION ClientSpec
CONSTANTS
  Commands = {c1, c2}
  Endpoints = {a, b}
  MaxSessions = 2
  MaxRuns = 4
  MaxCuts = 1
  None = None
  Torn = Torn
SYMMETRY Symmetry
INVARIANTS  SessionsFollowed
\* The bound on invocations ends every behaviour.
CHECK_DEADLOCK FALSE
