\* One application call and one failing transfer.
CONSTANTS
  ChannelCapacity = 2
  AppRequests = {"boost_on", "passive"}
  MaxAppCalls = 1
  MaxFailures = 1
SPECIFICATION Spec
INVARIANTS
  HardwareFollowsMode
  ModeFollowsVbus
  AsleepSafely
PROPERTIES
  ImplementsPowerDesign
  CallsReturn
  ShutdownCompletes
  RestartIsHealed
