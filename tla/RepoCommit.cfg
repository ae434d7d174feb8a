SPECIFICATION Spec
CONSTANTS
  Writers = {p1, p2}
  MaxRetries = 2
  MaxCalls = 2
  ProviderRetries = FALSE
INVARIANTS TypeOK AckedIsDurable WonHasRecord MarkerMeansWon
  GaveUpMeansContention 
PROPERTIES RootOnlyGrows AtomicCommitSpec
SYMMETRY Symmetry
