\* Starts from every earlier release's database, cut off once anywhere, with a
\* key file lost.
SPECIFICATION Spec
CONSTANTS
  Hooks = {h1, h2}
  Users = {u1}
  MaxCrashes = 1
  MaxLosses = 1
  Missing = Missing
  Torn = Torn
  None = None
  Null = Null
  Nameless = Nameless
  Plain = Plain
  NoConfig = NoConfig
  BadConfig = BadConfig
INVARIANTS StartsSoundly
PROPERTIES KeysKept ServesUnlessDamaged
\* A torn identity file stops every start.
CHECK_DEADLOCK FALSE
