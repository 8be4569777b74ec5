SPECIFICATION CSpec
CONSTANTS
  Intervals = {6, 7}
  MinSendInterval = 1
  Jitter = 1
  MaxDelay = 1
  MaxWire = 2
INVARIANTS NoLapse
PROPERTIES GoneReleases Agreement
