SPECIFICATION Spec
CONSTANTS
  a = a
  b = b
  Automations = {a, b}
  Levels <- MCLevels
  NoLevel = NoLevel
  ClaimLevel <- MCClaimLevel
  OnExitLevel <- MCOnExit
  Reversal <- AllBaseline
  Kind = "replicas"
  DryRun = FALSE
  DetectHPA = FALSE
  Adopted = {a}
  MaxConcurrentReconciles = 1
  MaxReleaseAttempts = 3
  Limit <- NewbornLimit
INVARIANTS
  NothingLeftHeld
CHECK_DEADLOCK FALSE
