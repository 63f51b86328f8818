CONSTANTS
  Alphabets = {{"a", "%", "ee"}}
  HexDigits = 2
  MaxLength = 5
  Longer = {}
SPECIFICATION Spec
CHECK_DEADLOCK FALSE
INVARIANT EveryLineIsDrawn
