\* A statement of the design that the code does not keep.
CONSTANTS
  ChannelCapacity = 2
  ShutterCapacity = 1
  MaxFires = 1
  MaxFailures = 0
SPECIFICATION Spec
PROPERTY BuzzerFallsSilent
