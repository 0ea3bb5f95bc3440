SPECIFICATION FairSpec
CONSTANTS
  NTargets = 2
  Values = {"online", "offline"}
  Trigger = "offline"
  NoValue = "absent"
  MaxReleaseAttempts = 2
  MaxActionAttempts = 2
  Limit <- AllLimit
  MaxDisturbances = 4
INVARIANTS
  HeldUnderFinalizer
PROPERTIES
  SentAtMostOnce
  SaysWhatIsStored
  CommittedOnceApplied
  Settles
  DeletionEnds
CHECK_DEADLOCK FALSE
