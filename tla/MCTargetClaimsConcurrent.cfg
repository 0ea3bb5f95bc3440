SPECIFICATION FairSpec
CONSTANTS
  a = a
  b = b
  Automations = {a, b}
  Levels <- MCSwitchLevels
  NoLevel = NoLevel
  ClaimLevel <- MCClaimLevel
  OnExitLevel <- MCSwitchOnExit
  Reversal <- BothPolicies
  Kind = "switch"
  DryRun = FALSE
  DetectHPA = FALSE
  Adopted = {a, b}
  MaxConcurrentReconciles = 2
  MaxReleaseAttempts = 3
  Limit <- QuietLimit
INVARIANTS
  TypeOK
  HeldIsRecordedUnlessCrossed
PROPERTIES
  Converges
  RecordedOnce
  RecordsTheLevelFound
CHECK_DEADLOCK FALSE
