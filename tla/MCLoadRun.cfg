SPECIFICATION Spec
CONSTANTS
  Runs = {r1, r2}
  Rates = {0, 1, 3, 4}
  Threads = {0, 1, 2}
  Automatic = Automatic
  MaxRate = 3
  Cpus = 2
  RatePerThread = 2
  Answers <- MCAnswers
  NoRun = NoRun
INVARIANTS OneLoadUnlessFailed
PROPERTIES AllCounted PercentilesPooled ImplementsOneRun
CHECK_DEADLOCK FALSE
