\* <input> has no end tag and is removed.
CONSTANTS
  Tags = {"table", "td", "input"}  RemovedTags = {"input"}  VoidTags = {"input"}
  MaxDepth = 3
SPECIFICATION FragmentSpec
INVARIANTS SkippingEnds
CHECK_DEADLOCK FALSE
