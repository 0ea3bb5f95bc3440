SPECIFICATION Spec
CONSTANTS
  a = a
  b = b
  Automations = {a, b}
  Levels <- MCLevels
  NoLevel = NoLevel
  ClaimLevel <- MCClaimLevel
  OnExitLevel <- MCOnExit
  Reversal <- AllBaseline
  Kind = "replicas"
  DryRun = FALSE
  DetectHPA = TRUE
  Adopted = {a, b}
  MaxConcurrentReconciles = 1
  MaxReleaseAttempts = 2
  Limit <- SerialLimit
INVARIANTS
  HeldIsRecorded
  RoundTrip
  NothingLeftHeld
PROPERTIES
  ImplementsContract
CONSTRAINT FewDisturbances
CHECK_DEADLOCK FALSE
