SPECIFICATION Spec
CONSTANTS
  Orders = {o1, o2}
  Keys = {"k1", "k2"}
  Bodies = {"b1", "b2"}
  Replicas = {r1}
  MaxAttempts = 2
  MaxMishaps = 0
  Requests <- KeyedRequests
  FactKinds <- EarlyFacts
  Validity <- OnlyValid
CHECK_DEADLOCK FALSE
INVARIANTS KeysIdentifyRequests
