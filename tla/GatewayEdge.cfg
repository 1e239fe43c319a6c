CONSTANTS
  q1 = q1
  q2 = q2
  Requests = {q1, q2}
  Clients = {"client"}
  Routes = {"login", "list_orders", "create_order"}
  classes <- MCclasses
  limits <- MClimits
  Window = 2
  MaxInFlight = 1
  Timeout = 2
  FetchTimeout = 1
  Margin = 3
  TokenTTL = 4
  MaxMishaps = 2
SPECIFICATION Spec
INVARIANTS
  
  SlotsAccounted
  
  SentTokensAreLive
PROPERTIES
  EveryRequestAnswered
