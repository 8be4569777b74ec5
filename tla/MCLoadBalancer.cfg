SPECIFICATION LBSpec
CONSTANTS
  N = 3
  Servers <- MCServers
  TypeOf <- MCTypeOf
  Types <- MCTypes
  NoType = NoType
  KeyOf <- MCKeyOf
  Durations = {1, 2}
  TimeoutMax = 2
  TimerIds <- MCTimerIds
  NoTimer = NoTimer
  NoServer = NoServer
INVARIANTS HTypeOK NoOrphanTimer SafetyNet HeldForDuration
PROPERTIES ImplementsLease DrainsEnd RespectsDrains TrafficReturns
