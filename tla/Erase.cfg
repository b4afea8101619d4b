CONSTANTS
  MaxDepth = 8
  MaxLevel = 1
  Ceiling = 10
  MaxBodySteps = 3
  MaxOpen = 3
  MaxNumeral = 2
  Fuel = 16
  Annotations = {"plain"}
  MaxBuildSteps = 2
  Handed = {"lambda"}
SPECIFICATION SpecErase
PROPERTIES CompiledPreserves
CHECK_DEADLOCK FALSE
