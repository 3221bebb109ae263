SPECIFICATION Spec
CONSTANTS
  Callers = {"actuator", "recovery"}
  Bitrates = {"low", "high"}
  Tiers = {"native", "reduced"}
  NativeTier = "native"
  CeilingRate = "high"
  MaxRevisions = 3
INVARIANT ActuatorTypeOK
INVARIANT NothingStaleRequested
INVARIANT RecoveryBarrierSurvives
INVARIANT NoStrandedPlan
PROPERTY AppliedIsTrue
CHECK_DEADLOCK FALSE
