SPECIFICATION Spec
CONSTANTS
  g1 = g1
  g2 = g2
  p1 = p1
  p2 = p2
  p3 = p3
  f1 = f1
  main = main
  dev = dev
  c1 = c1
  c2 = c2
  None = None
  Keep = Keep
  Gateways = {g1, g2}
  Pushes = {p1, p2, p3}
  Fetches = {}
  Home <- Spread
  Refs = {main, dev}
  DefaultBranch = main
  Commits = {c1, c2}
  Reach <- Short
  Rewrites = TRUE
  Crashes = TRUE
  StorageErrors = TRUE
SYMMETRY Symmetry
INVARIANTS TypeOK RootClosed MirrorCurrent OkMeansReplacedAsSeen StompedFromOutside
PROPERTIES OnlyNamedRefsMove
