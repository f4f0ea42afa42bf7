SPECIFICATION Spec
CONSTANTS
  MaxTimers = 2
  Durations = {1, 2}
INVARIANTS
  QueuesExact
PROPERTIES
  ImplementsTimerSpec
  ArmedTimerFires
  ShutdownDrainsTimers
