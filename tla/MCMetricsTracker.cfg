SPECIFICATION Spec
CONSTANTS
  Threads = {t1, t2}
  WindowSize = 3
  MaxRequests = 3
  None = None
INVARIANTS WindowExact ReportSound
CHECK_DEADLOCK FALSE
