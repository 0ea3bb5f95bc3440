SPECIFICATION Spec
CONSTANTS
  wan = wan
  internet = internet
  temperature = temperature
  Keys = {temperature, wan}
  Values = {x, y}
  Absent = Absent
  Samples <- MCSamples
  Interval = 2
  MinObserveInterval = 2
  Horizon = 7
INVARIANTS
  CandidatesAreAlive
  ReportedWithinBound
PROPERTIES
  Debounced
  PromotedOnCadence
  Floored
CHECK_DEADLOCK FALSE
