SPECIFICATION SectorSpec
INVARIANTS
  LaidFollowsItsHeader
CHECK_DEADLOCK FALSE
