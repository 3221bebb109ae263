SPECIFICATION Spec
CONSTANTS
  MaxFrames = 4
  MaxGop = 2
  MaxTroubles = 1
  Kinds = {"idr", "delta"}
  CutReasons = {"stale","object"}
  FrameCapacity = 2
INVARIANT CursorMatchesGroup
INVARIANT PortalAccepts
INVARIANT SlotsExact
PROPERTY DecoderChain
CHECK_DEADLOCK FALSE
