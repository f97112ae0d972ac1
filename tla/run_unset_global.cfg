CONSTANTS
  Templates <- MCGlobalTemplates
  Fillers <- NoFillers
  Names <- MCNames
  Literals <- MCLiterals
  UnsetDimensions <- NoDimension
  StackSize = 16
  MinInt <- MCMinInt
  MaxInt <- MCMaxInt
  AnyDouble <- MCAnyDouble
SPECIFICATION ToolchainSpec
INVARIANTS UnsetGlobalsAreZero
CHECK_DEADLOCK FALSE
