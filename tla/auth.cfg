SPECIFICATION FairSpec
CONSTANTS
  p1 = p1 p2 = p2 c1 = c1 c2 = c2 c3 = c3 a = a b = b
  Processes = {p1, p2}
  Calls = {c1, c2, c3}
  Owner <- OwnerOf
  About <- ProviderOf
  Providers = {a, b}
  None = None
  ApiKey = ApiKey
  Absent = Absent
  Torn = Torn
  Nobody = Nobody
  MaxTokens = 2
  MaxFaults = 1
INVARIANTS
  LockExcludes
  TokensAreKept
PROPERTIES
  WritesAreMerged
  LockReleased
CHECK_DEADLOCK FALSE
