SPECIFICATION FairSpec
CONSTANTS
  Orders = {o1}
  Keys = {"k1", "k2"}
  Bodies = {"b1", "b2"}
  Replicas = {r1}
  MaxAttempts = 2
  MaxMishaps = 1
  Requests <- CreateAndCancel
  FactKinds <- RepliedFacts
  Validity <- OnlyValid
CHECK_DEADLOCK FALSE
PROPERTIES OrderSettles FactsAcknowledged
