SPECIFICATION Spec
CONSTANTS
  Orders = {o1}
  Keys = {"k1", "k2"}
  Bodies = {"b1"}
  Replicas = {r1}
  MaxAttempts = 2
  MaxMishaps = 0
  Requests <- CreateAndCancel
  FactKinds <- RepliedFacts
  Validity <- OnlyValid
CHECK_DEADLOCK FALSE
INVARIANT CancelledHoldsNothing
