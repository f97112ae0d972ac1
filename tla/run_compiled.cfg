CONSTANTS
  Templates <- MCRunTemplates
  Fillers <- RunFillers
  Names <- MCNames
  Literals <- MCLiterals
  UnsetDimensions <- NoDimension
  StackSize = 16
  MinInt <- MCMinInt
  MaxInt <- MCMaxInt
  AnyDouble <- MCAnyDouble
SPECIFICATION ToolchainSpec
INVARIANTS OperandsAsCompiled ConventionKept Sound
CHECK_DEADLOCK FALSE
