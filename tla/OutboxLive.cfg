\* Leases expire under live jobs; every row settles once failures are over.
SPECIFICATION LiveSpec
CONSTANTS
  Events = {e1}
  Hooks = {h1}
  Workers = {w1, w2}
  QueueCap = 1
  MaxBatch = 1
  Retries = 1
  MaxAttempts = 3
  Faults = {"crash", "slow", "db"}
  NoJob = NoJob
INVARIANTS ClaimsSpentOnce
PROPERTIES Quiescence HonoursContract
