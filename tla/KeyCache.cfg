CONSTANTS
  q1 = q1
  q2 = q2
  Requests = {q1, q2}
  Keys <- MCKeys
  RefreshAfter = 2
  MaxStale = 3
  FetchTimeout = 1
  CacheControl = 1
  MaxMishaps = 1
SPECIFICATION Spec
INVARIANTS
  WithdrawnKeysDie
  RefusedForCause
PROPERTIES
  EveryRequestAnswered
