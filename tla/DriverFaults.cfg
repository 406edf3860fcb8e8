SPECIFICATION DriverSpec
CONSTANTS
  v1 = v1
  v2 = v2
  s1 = s1
  s2 = s2
  None = None
  Volumes = {v1, v2}
  Snapshots = {s1}
  NodeName = {v1, v2, s1}
  QSDID <- MCQSDID
  CloneSources = {v1, s1}
  Workers = {w1, w2}
  Requests = {r1, r2}
  Disciplined = TRUE
  Failures = TRUE
  MaxFaults = 1
SYMMETRY Alike
INVARIANTS DriverTypeOK ReadyVolumeServed ReadySnapshotHeld ServedVolumeInTable DeletedVolumeGone
