SPECIFICATION FairRunSpec
CONSTANTS
  Tasks = {"verified", "plain"}
  Profiles = {"wide", "narrow"}
  Repeats = 1
  ProfileOrder <- MCProfileOrder
  TaskOrder <- MCTaskOrder
  Baseline = "narrow"
  Candidate = "wide"
  Trials = {1, 2, 3, 4}
  Batches = 2
  BatchOf <- PlannedBatch
  Verified = {1, 3}
  Concurrency <- MCConcurrency
INVARIANTS
  OnlyBatchmatesOverlap
  CompletedIsDecided
  PassesAreVerified
  RaisedMeansInterrupted
  AnalyzedIsWhole
PROPERTIES
  NothingAfterFailedCleanup
  ConclusionsStand
  ImplementsContract
  RunEnds
CHECK_DEADLOCK FALSE
