\* The same statement, read from its other end, with the channel of the code.
CONSTANTS
  ChannelCapacity = 4
  ShutterCapacity = 1
  MaxFires = 2
  MaxFailures = 0
SPECIFICATION Spec
PROPERTY BuzzerLastsItsTime
