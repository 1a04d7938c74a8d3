SPECIFICATION HangSpec
PROPERTIES
  ReadsAreAnswered
CHECK_DEADLOCK FALSE
