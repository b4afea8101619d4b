CONSTANTS
  MaxDepth = 8
  MaxLevel = 1
  Ceiling = 10
  MaxBodySteps = 1
  MaxOpen = 1
  MaxNumeral = 2
  Fuel = 16
  Annotations = {"plain"}
  MaxBuildSteps = 1
  Handed = {"global"}
SPECIFICATION SpecErase
PROPERTIES CompiledPreserves
CHECK_DEADLOCK FALSE
