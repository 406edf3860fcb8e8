SPECIFICATION Spec
CONSTANTS
  v1 = v1
  v2 = v2
  s1 = s1
  s2 = s2
  None = None
  Volumes = {v1, v2}
  Snapshots = {s1, s2}
  NodeName = {v1, v2, s1, s2}
  QSDID <- MCQSDID
  CloneSources = {v1, s1}
  Workers = {w1, w2}
  Disciplined = TRUE
  Failures = FALSE
  MaxFaults = 0
INVARIANT ReferencedHasNode
