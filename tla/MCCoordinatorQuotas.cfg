SPECIFICATION Spec
CONSTANTS
  k1 = k1 k2 = k2 k3 = k3
  o1 = o1 o2 = o2 w1 = w1 w2 = w2 cheap = cheap dear = dear b1 = b1 b2 = b2
  None = None
  Owners = {o1}
  Workers = {w1}
  Jobs = {1, 2, 3}
  Keys = {k1, k2, k3}
  Items = {cheap, dear}
  Bundles = {b1, b2}
  Trials <- MCTrials
  Serves <- MCServesOne
  ValidFor <- MCValidFor
  Size <- MCSize
  LeaseSeconds = 1
  TrialQuota = 5
  ArtifactQuota = 3
  MaxActive = 2
  MaxRetained = 3
  MaxAttempts = 3
  MaxTime = 2
INVARIANTS
  ActiveWithinQuota
  UsageAccounted
  EvidenceWithinQuota
VIEW MCView
SYMMETRY MCSymmetry
