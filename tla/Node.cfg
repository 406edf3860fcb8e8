SPECIFICATION NodeSpec
CONSTANTS
  t1 = t1
  t2 = t2
  v1 = v1
  Targets = {t1, t2}
  TargetVolume <- MCTargetVolume
  Handlers = {h1, h2}
  MaxStack = 3
  MaxFaults = 3
INVARIANTS
  PublishedReachable
  UnpublishedClean
PROPERTIES
  UnpublishSettles
  PluginServes
