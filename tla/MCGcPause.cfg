SPECIFICATION Spec
CONSTANTS
  PauseDuration = 3
  Reports = {0, 3}
  Cooldown = 2
  MinSendInterval = 2
  MaxFaults = 2
  Forever = Forever
PROPERTIES BackInRotation
