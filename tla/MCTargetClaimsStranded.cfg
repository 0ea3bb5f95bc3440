SPECIFICATION Spec
CONSTANTS
  a = a
  b = b
  Automations = {a, b}
  Levels <- MCLevels
  NoLevel = NoLevel
  ClaimLevel <- MCClaimLevel
  OnExitLevel <- MCOnExit
  Reversal <- AllBaseline
  Kind = "replicas"
  DryRun = FALSE
  DetectHPA = FALSE
  Adopted = {a, b}
  MaxConcurrentReconciles = 2
  MaxReleaseAttempts = 3
  Limit <- NewbornLimit
INVARIANTS
  HeldIsRecorded
CHECK_DEADLOCK FALSE
