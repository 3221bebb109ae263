SPECIFICATION Spec
CONSTANTS
  Peers = {"a", "b"}
  LegacyPeers = {"a"}
  MediaPeers = {"a"}
  FeedbackPeers = {"b"}
  InputPeers = {"b"}
  InputGrants = {"pk"}
  MaxViewers = 2
  Generations = {1}
  DetachViewers = TRUE
  ResetCanFail = TRUE
  MaxSession = 2
  MaxRequests = 1
  MaxStoreRevision = 2
  FocusOwner <- MCOtherOwner
INVARIANT LegacyExclusive
INVARIANT RateKeysBounded
INVARIANT SidecarFlagsExact
PROPERTY NeutralizingTransient
CHECK_DEADLOCK FALSE
