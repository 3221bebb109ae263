SPECIFICATION FairSpec
CONSTANTS
  Revisions = {r1, r2, r3}
  NoRevision = none
  MaxTransactions = 2
  MaxInstances = 2
  MaxFaults = 2
  MaxEdits = 1
  StatusWrites = {TRUE, FALSE}
INVARIANT RecoveryPossible
PROPERTY InterruptedFinishes
PROPERTY RegisterSpec
