\* Two pages and main as callers.  Each behaviour is one scene (MCWebServer).
CONSTANTS
  Pages = {"ap", "sta"}
  Clients = {"ap", "sta", "main"}
  Requests = {"low", "high", "OpenDrain", "PushPull"}
  Capacity = 2
  Outsides <- ResistorOrShort
  BufferSlots = 2
  RxSlots = 2
  TxSlots = 1
  Scenes <- FourScenes
SPECIFICATION WebSpec
INVARIANTS
  OwnAnswer
  PinIsShown
  VoltageKeepsUp
  SleepsFloating
PROPERTIES
  ImplementsDesign
  PagesCatchUp
