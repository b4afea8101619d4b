CONSTANTS
  MaxDepth = 6
  MaxLevel = 1
  Ceiling = 10
  MaxBodySteps = 3
  MaxOpen = 3
  MaxNumeral = 2
  Fuel = 16
  Annotations = {"calls"}
SPECIFICATION SpecRecursion
PROPERTIES
  AcceptedRunsEnd
CHECK_DEADLOCK FALSE
