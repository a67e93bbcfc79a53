SPECIFICATION EngineSpec
CONSTANTS
  r1 = r1 r2 = r2 c1 = c1 n1 = n1 m1 = m1
  None = None
  Runs = {r1, r2}
  Cleanups = {c1}
  Names = {n1, m1}
  Target <- MCTarget
  RunOf <- MCRunOf
  MaxReplaced = 1
INVARIANT ReleasedAfterFinalManifest
VIEW MCView
CHECK_DEADLOCK FALSE
