\* No call fails and nobody but ext_interrupt_task and main asks for anything.
CONSTANTS
  ChannelCapacity = 2
  AppRequests = {}
  MaxAppCalls = 0
  MaxFailures = 0
SPECIFICATION Spec
PROPERTY VbusLossIsServed
