SPECIFICATION MCSpec
CONSTANTS
  a1 = a1
  a2 = a2
  a3 = a3
  t1 = t1
  t2 = t2
  r1 = r1
  r2 = r2
  Automations = {a1, a2, a3}
  Targets = {t1, t2}
  Levels = {0, 1, 2, 3}
  Claims = {0}
  Original <- MCOriginal
  References <- MCReferences
  Reversal <- MCReversal
  None = None
  AtBaseline = AtBaseline
  MaxFailures = 2
  MaxRuns = 2
  Releases = {r1, r2}
  Manifests <- MCManifests
  Nobody = Nobody
  MaxVersion = 2
  MaxBroken = 1
INVARIANTS
  SweptClean
  SweepKeepsTheRecord
  SchemaBeforeOperator
PROPERTIES
  NeverTaken
CHECK_DEADLOCK FALSE
SYMMETRY Symmetric
