\* The code's times and baud rate; a short chain and the longest that keeps them.
SPECIFICATION Spec
CONSTANTS
  Chains = {2, 18}
  Interval = 576
  ConversionWait = 230
  ReadTimeout = 115
  Conversion = 173
  TxFifo = 128
  TxThreshold = 10
  BatchSize = 3
  MaxRounds = 6
INVARIANTS
  SamplesAreTrue
  TicksAreKept
  PacketsAreWhole
CHECK_DEADLOCK FALSE
