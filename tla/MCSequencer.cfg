\* One failing transfer and two launches, channels at their limits.
CONSTANTS
  ChannelCapacity = 2
  ShutterCapacity = 1
  MaxFires = 2
  MaxFailures = 1
SPECIFICATION Spec
INVARIANTS
  OneIgnitionPerFire
  FireNotLost
  CancelNotLost
  ArmedValueFresh
  TriggerNeedsLaunch
PROPERTIES
  AbortIsAskedFor
  FireLeadsToIgnition
  ShutterSettles
  ImplementsDesign
