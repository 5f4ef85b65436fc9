\* The queue fills while the task reconnects.
SPECIFICATION Spec
CONSTANTS
  Order <- MCOrder
  Values = {"idle", "FIRE"}
  Capacity = 3
  BatchSize = 2
  MaxSensors = 1
  CommandTopics <- MCCommandTopics
  MaxCommands = 1
PROPERTY ConnectPublishesState
