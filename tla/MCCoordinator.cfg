SPECIFICATION Spec
CONSTANTS
  k1 = k1 k2 = k2 k3 = k3
  o1 = o1 o2 = o2 w1 = w1 w2 = w2 cheap = cheap dear = dear b1 = b1 b2 = b2
  None = None
  Owners = {o1, o2}
  Workers = {w1, w2}
  Jobs = {1, 2}
  Keys = {k1, k2}
  Items = {cheap, dear}
  Bundles = {b1, b2}
  Trials <- MCTrials
  Serves <- MCServes
  ValidFor <- MCValidFor
  Size <- MCSize
  LeaseSeconds = 1
  TrialQuota = 4
  ArtifactQuota = 2
  MaxActive = 2
  MaxRetained = 2
  MaxAttempts = 2
  MaxTime = 2
INVARIANTS
  TypeOK
  OneLeasePerWorker
  FencedByLastLease
  RevokedHoldNothing
  ReceiptsVerify
PROPERTIES
  AcceptedOnlyUnderLease
  ImplementsLifecycle
VIEW MCView
SYMMETRY MCSymmetry
