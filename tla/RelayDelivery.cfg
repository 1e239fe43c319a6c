SPECIFICATION FairSpec
CONSTANTS
  Rows = {1, 2, 3}
  Relays = {r1, r2}
  BatchSize = 2
  Lease = 1
  Delays <- TwoDelays
  MaxMishaps = 2
 
PROPERTIES ImplementsDelivery
