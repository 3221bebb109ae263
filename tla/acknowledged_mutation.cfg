SPECIFICATION Spec
CONSTANTS
  Peers = {"a", "b"}
  LegacyPeers = {}
  MediaPeers = {}
  FeedbackPeers = {}
  InputPeers = {"a", "b"}
  InputGrants = {"pk"}
  MaxViewers = 2
  Generations = {1}
  DetachViewers = FALSE
  ResetCanFail = FALSE
  MaxSession = 2
  MaxRequests = 0
  MaxStoreRevision = 2
  FocusOwner <- MCOwner
INVARIANT AcknowledgedMutationIsLive
CHECK_DEADLOCK FALSE
