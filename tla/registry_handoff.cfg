SPECIFICATION Spec
CONSTANTS
  Peers = {"a", "b"}
  LegacyPeers = {}
  MediaPeers = {}
  FeedbackPeers = {}
  InputPeers = {"a", "b"}
  InputGrants = {"pk"}
  MaxViewers = 2
  Generations = {1}
  DetachViewers = FALSE
  ResetCanFail = FALSE
  MaxSession = 3
  MaxRequests = 3
  MaxStoreRevision = 1
  FocusOwner <- MCOwner
INVARIANT TypeOK
INVARIANT HolderEligible
INVARIANT ActivationIsHolders
INVARIANT AnnouncedIsCurrent
PROPERTY NoDirectHandoff
PROPERTY StreamFenceFinal
INVARIANT NoGhostViewer
INVARIANT Publishable
CHECK_DEADLOCK FALSE
