SPECIFICATION Spec
CONSTANTS
  wan = wan
  internet = internet
  temperature = temperature
  Keys = {internet}
  Values = {x, y}
  Absent = Absent
  Samples <- MCSamples
  Interval = 2
  MinObserveInterval = 1
  Horizon = 5
PROPERTIES
  DeliveriesNeverPromote
CHECK_DEADLOCK FALSE
