\* Two retained topics, a queue of two, one command, connections that break anywhere.
SPECIFICATION Spec
CONSTANTS
  Order <- MCOrder
  Values = {"idle", "FIRE"}
  Capacity = 2
  BatchSize = 2
  MaxSensors = 1
  CommandTopics <- MCCommandTopics
  MaxCommands = 1
INVARIANTS
  SentCanBeRead
  RetainedIsCurrent
PROPERTIES
  StatusArrives
  Reconnects
  ImplementsOutbound
