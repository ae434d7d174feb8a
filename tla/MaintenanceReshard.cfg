SPECIFICATION Spec
CONSTANTS
  c1 = c1
  c2 = c2
  c3 = c3
  main = main
  dev = dev
  m1 = m1
  m2 = m2
  None = None
  Refs = {main, dev}
  DefaultBranch = main
  Commits = {c1, c2}
  Reach <- Short
  Maintainers = {m1, m2}
  Takes = {1}
  MaxDeltas = 2
  Settings <- OnlyResharding
PROPERTIES MaintenanceKeepsRefs
