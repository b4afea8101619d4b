SPECIFICATION SpecVerification
CONSTANTS
  Instances <- MCInstances
  OtherReports = {0, 1, 2, 4}
  NodeLimits = {5, 20}
  PollEvery = 4
INVARIANTS ResidualExact OptimumPending NeverIrrational CertificateAccepted SettledExact TruthDominates
PROPERTIES ImplementsSettlement RefusedForCause
CHECK_DEADLOCK FALSE
