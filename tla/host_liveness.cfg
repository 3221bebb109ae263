SPECIFICATION FairHostSpec
CONSTANTS
  Peers = {"a", "b"}
  LegacyPeers = {}
  MediaPeers = {"a", "b"}
  FeedbackPeers = {}
  InputPeers = {"a"}
  InputGrants = {"pk"}
  MaxViewers = 2
  Generations = {1}
  DetachViewers = FALSE
  ResetCanFail = FALSE
  MaxSession = 2
  MaxRequests = 2
  MaxStoreRevision = 1
  ControlCanFail = FALSE
  FocusOwner <- MCNoOwner
PROPERTY ProposalResolves
PROPERTY OwnedTransitionEnds
CHECK_DEADLOCK FALSE
