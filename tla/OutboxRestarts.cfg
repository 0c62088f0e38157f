\* Crashes and failing calls, but no job outlives its lease; and everything
\* that happens before the first of them.
SPECIFICATION HistorySpec
CONSTANTS
  Events = {e1, e2}
  Hooks = {h1}
  Workers = {w1, w2}
  QueueCap = 1
  MaxBatch = 2
  Retries = 1
  MaxAttempts = 3
  Faults = {"crash", "db", "key"}
  NoJob = NoJob
SYMMETRY Symmetry
INVARIANTS TypeOK QueueNeverOverflows ExclusiveClaim
PROPERTIES SettledStaysSettled AsDocumentedUntilFailure
