SPECIFICATION PSpec
CONSTANTS
  Requests = {r1}
  Connections = {c1, c2}
  Lines <- MCLines
  MaxWrites = 2
  Newline = newline
INVARIANTS ObeysWhatWasWritten NothingKeptBack OneAnswer NeverTruncated
PROPERTIES QuietAfterStop Answered
CHECK_DEADLOCK FALSE
