SPECIFICATION FairHostSpec
CONSTANTS
  Peers = {"a"}
  LegacyPeers = {}
  MediaPeers = {"a"}
  FeedbackPeers = {}
  InputPeers = {"a"}
  InputGrants = {"pk"}
  MaxViewers = 2
  Generations = {1}
  DetachViewers = FALSE
  ResetCanFail = TRUE
  MaxSession = 2
  MaxRequests = 1
  MaxStoreRevision = 2
  ControlCanFail = TRUE
  FocusOwner <- MCOwner
PROPERTY EvictedSessionEnds
PROPERTY AdminAnswered
CHECK_DEADLOCK FALSE
