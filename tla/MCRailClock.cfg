\* Two pushes after each start, one failing transfer.
\* The board may be halted by a panic, or asleep.
SPECIFICATION Spec
CONSTANTS
  StoredPhases = {0, 2, 4}
  StoredLags = {0, 1}
  MaxPushes = 2
  MaxFailures = 1
INVARIANTS
  OnePulseIsLost
  AlarmsAreServed
PROPERTIES
  PulsesArePowered
  PushesAreMade
CHECK_DEADLOCK FALSE
