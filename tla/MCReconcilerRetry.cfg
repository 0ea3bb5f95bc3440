SPECIFICATION Spec
CONSTANTS
  NTargets = 2
  Values = {"online", "offline"}
  Trigger = "offline"
  NoValue = "absent"
  MaxReleaseAttempts = 3
  MaxActionAttempts = 5
  Limit <- RetryLimit
  MaxDisturbances = 4
PROPERTIES
  RetriesWaitTheirTurn
CHECK_DEADLOCK FALSE
