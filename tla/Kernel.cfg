CONSTANTS
  MaxDepth = 8
  MaxLevel = 1
  Ceiling = 10
  MaxBodySteps = 3
  MaxOpen = 3
  MaxNumeral = 2
  Fuel = 16
  Annotations = {"plain"}
  MaxFieldSteps = 3
  MaxBuildSteps = 2
  Handed = {"lambda"}
  MaxGrown = 2
  MaxBoth = 3
  Carriers = {"nat"}
SPECIFICATION SpecKernel
PROPERTIES AcceptedRunsEnd EvaluatesAsRun NoSelfApplication UsesAsDeclared EvaluationPreserves ConversionSeparates
CHECK_DEADLOCK FALSE
