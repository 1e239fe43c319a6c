SPECIFICATION Spec
CONSTANTS
  Orders = {o1}
  Keys = {"k1", "k2"}
  Bodies = {"b1", "b2"}
  Replicas = {r1, r2}
  MaxAttempts = 2
  MaxMishaps = 2
  Requests <- CreateAndCancel
  FactKinds <- CoreFacts
  Validity <- OnlyValid
CHECK_DEADLOCK FALSE
INVARIANTS VersionIdentifiesRow OutcomeAnnouncedOnce ForwardStepsOnce AcknowledgedAreSettled
PROPERTY TerminalIsFinal
SYMMETRY ReplicaSymmetry
