SPECIFICATION FairSpec
CONSTANTS
  Writers = {p1, p2}
  MaxRetries = 2
  MaxCalls = 1
  ProviderRetries = TRUE
INVARIANTS AckedIsDurable
PROPERTIES CallsReturn
