\* Requests on different schedules interleave, with every failure.
SPECIFICATION Spec
CONSTANTS
  Schedules = {s1, s2}
  Requests = {r1, r2}
  Calendars = {daily, broken}
  Valid = {daily}
  None = None
  NoJob = NoJob
  Overlap = FALSE
  Faults = {"crash", "reboot", "db", "helper", "killed"}
SYMMETRY Symmetry
INVARIANTS AcknowledgedInForce TimersBacked
