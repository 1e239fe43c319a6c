CONSTANTS
  r1 = r1
  r2 = r2
  Relays = {r1, r2}
  Rows <- MCRows
  BatchSize = 2
  MaxMishaps = 2
SPECIFICATION Spec
CHECK_DEADLOCK FALSE
INVARIANTS
  CopiesBounded
  FirstDeliveriesInOrder
PROPERTIES
  ImplementsDelivery
