CONSTANTS
  Programs <- MCPrograms
  MaxDepth = 8
  MaxLevel = 3
  Ceiling = 10
  FamilyOrder <- FamiliesByName
  MaxSourceSteps = 2
  MaxSchemeSteps = 2
  MaxInstance = 2
SPECIFICATION SpecElaboration
INVARIANTS NoReport NothingLeaked OneRunOrder
PROPERTIES ElaboratesAsNamed InstancesAsWritten
