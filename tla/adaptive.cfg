SPECIFICATION Spec
CONSTANTS
  Viewers = {"v1", "v2"}
  Floor = 1000
  Ceiling = 1250
  Quantum = 250
  MaxStep = 500
  ModerateWindows = 2
  CleanWindows = 2
  CooldownWindows = 1
  FloorBreachWindows = 1
  RecoveryCleanWindows = 1
  RecoveryPressureWindows = 1
  MaxAttempts = 2
  ScaleModerateWindows = 2
  ScaleCleanWindows = 2
  MaxClaims = 2
  MaxEvents = 5
INVARIANT RecoveringCountExact
INVARIANT RegistrationOwnsContributor
INVARIANT DetachIsEarned
PROPERTY RaiseIsEarned
CHECK_DEADLOCK FALSE
