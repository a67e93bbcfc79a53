SPECIFICATION ClusterSpec
CONSTANTS
  i1 = i1 i2 = i2 i3 = i3 k1 = k1 k2 = k2
  o1 = o1 w1 = w1 w2 = w2 cheap = cheap good = good bad = bad
  None = None
  Invocations = {i1, i3}
  By <- MCByRestart
  Owners = {o1}
  Workers = {w1}
  Jobs = {1}
  Keys = {k1}
  Items = {cheap}
  Bundles = {good, bad}
  Trials <- MCTrials
  Serves <- MCServes
  ValidFor <- MCValidFor
  Size <- MCSize
  LeaseSeconds = 1
  TrialQuota = 3
  ArtifactQuota = 1
  MaxActive = 2
  MaxRetained = 2
  MaxAttempts = 3
  MaxTime = 1
INVARIANTS
  EvidenceFromLeaseholder
  CompletedMeansAccepted
  FailedByItsHolder
VIEW MCView
