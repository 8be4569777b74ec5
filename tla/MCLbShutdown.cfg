SPECIFICATION PSpec
CONSTANTS
  Requests = {r1}
  Connections = {c1}
  Lines <- MCLines
  MaxWrites = 1
  Newline = newline
PROPERTIES ShutdownEnds
CHECK_DEADLOCK FALSE
