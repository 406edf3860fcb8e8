SPECIFICATION Spec
CONSTANTS
  v1 = v1
  v2 = v2
  s1 = s1
  s2 = s2
  None = None
  Volumes = {v1, v2}
  Snapshots = {s1}
  NodeName = {v1, v2, s1}
  QSDID <- MCQSDID
  CloneSources = {v1, s1}
  Workers = {w1}
  Disciplined = FALSE
  Failures = TRUE
  MaxFaults = 2
INVARIANTS TypeOK BackingChain LayersAcyclic RefCountCovers ReferencedHasNode ActiveHasVolume FilesPresent
PROPERTY ImplementsForest
