SPECIFICATION FairGenSpec
CONSTANTS
  Tasks = {"t1", "t2", "t3"}
  MaxGenerations = 3
  MaxLeases = 4
INVARIANT GenTypeOK
INVARIANT OneLiveProducer
INVARIANT LeaseHoldsGeneration
INVARIANT WaiterHasWaker
PROPERTY WaiterWakes
CHECK_DEADLOCK FALSE
