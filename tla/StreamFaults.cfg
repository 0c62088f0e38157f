\* Every failure; pages of two, an allowance that is no multiple of them.
SPECIFICATION Spec
CONSTANTS
  Emitters = {e1, e2}
  Clients = {c1}
  MaxEvents = 5
  Page = 2
  ReplayMax = 3
  Recent = 1
  Buffer = 1
  Faults = {"crash", "db"}
INVARIANTS TypeOK OnlyCommitted LossAccounted
