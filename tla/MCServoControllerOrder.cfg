SPECIFICATION Spec
CONSTANTS
  CommandCapacity = 3
  MinPulse = 500
  MaxPulse = 2500
  OpenDegrees = 975
  ClosedDegrees = 1800
  FullRangeMs = 5000
  TickIntervalMs = 382
  MaxCommands = 5
INVARIANT
  LastCommandWins
