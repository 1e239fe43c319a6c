SPECIFICATION Spec
CONSTANTS
  Orders = {o1}
  Keys = {"k1", "k2"}
  Bodies = {"b1", "b2"}
  Replicas = {r1}
  MaxAttempts = 2
  MaxMishaps = 1
  Requests <- CreateAndCancel
  FactKinds <- AllFacts
  Validity <- BothValid
CHECK_DEADLOCK FALSE
INVARIANTS StepsInOrder CompensationIssued CompensationConfirmed CancellationSticks
PROPERTIES TransitionsAreAllowed
