SPECIFICATION FairHostSpec
CONSTANTS
  Peers = {"a", "b"}
  LegacyPeers = {}
  MediaPeers = {"a", "b"}
  FeedbackPeers = {}
  InputPeers = {"a", "b"}
  InputGrants = {"pk"}
  MaxViewers = 2
  Generations = {1}
  DetachViewers = FALSE
  ResetCanFail = FALSE
  MaxSession = 2
  MaxRequests = 1
  MaxStoreRevision = 1
  ControlCanFail = FALSE
  FocusOwner <- MCOwner
PROPERTY SlotRecovers
CHECK_DEADLOCK FALSE
