SPECIFICATION MetadataSpec
CONSTANTS
  None = None
  IDs = {p1}
  Bases = {b1}
  Nodes = {n1, n2}
  Callers = {c1, c2}
  RefCounts = {0, 2}
  MaxParsed = 1
  MaxVersion = 5
  MaxFaults = 2
INVARIANTS
  ListedAsRecorded
PROPERTIES
  NodeStays
  LabelsOfOthersStay
