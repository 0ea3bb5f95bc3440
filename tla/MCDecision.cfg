SPECIFICATION DecisionSpec
CONSTANTS
  a1 = a1
  a2 = a2
  a3 = a3
  a4 = a4
  Claimants = {a1, a2, a3, a4}
  Levels <- MCLevels
  When <- MCWhen
  DeviceRecords <- MCDevices
  HealthAnswers <- MCHealth
  MaxDevices = 2
  PerDeviceKeys = TRUE
  MinAvailability = 5
  MaxLatency = 5
  CriticalBattery = 1
  LowBattery = 2
  CriticalRuntime = 1
  ShortRuntime = 2
  HighLoad = 90
  HighTemperature = 7
  MaxPoEUtilization = 90
INVARIANTS
  OrderIndependent
  PreviewIsTheCounterfactual
  PartialViewOnlyHides
  QualityIsOfTheLiveUplink
  NoNameSpeaksForTwo
PROPERTIES
  AlarmsAreNotMasked
