SPECIFICATION CSpec
CONSTANTS
  Intervals = {2}
  MinSendInterval = 2
  Jitter = 0
  MaxDelay = 0
  MaxWire = 2
INVARIANTS NoLapse
