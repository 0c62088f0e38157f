\* Two requests about two webhooks interleave, fail and are cut off.
SPECIFICATION AdminSpec
CONSTANTS
  Hooks = {h1, h2}
  Requests = {r1, r2}
  Types <- SomeTypes
  Patterns <- SomePatterns
  MaxChanges = 2
  LogLimit = 1
  MaxTests = 2
  None = None
SYMMETRY Symmetry
INVARIANTS SettingsHold PublicOnly
PROPERTIES DeletedIsGone
\* With every id used and deleted nothing is left to ask for.
CHECK_DEADLOCK FALSE
