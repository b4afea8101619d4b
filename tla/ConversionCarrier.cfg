CONSTANTS
  MaxDepth = 8
  MaxLevel = 1
  Ceiling = 10
  MaxGrown = 2
  MaxBoth = 3
  Carriers = {"variable"}
SPECIFICATION SpecConversion
PROPERTIES ConversionSeparates
CHECK_DEADLOCK FALSE
