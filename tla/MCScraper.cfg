SPECIFICATION SSpec
CONSTANTS
  Interval = 2
  Timeout = 5
  Retention = 3
INVARIANTS InFlightBounded StatusCurrent ChartCurrent
