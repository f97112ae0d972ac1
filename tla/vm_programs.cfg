CONSTANTS
  StackSize = 24
  MinInt <- MCMinInt
  MaxInt <- MCMaxInt
  AnyDouble <- MCAnyDouble
  Programs <- MCPrograms
SPECIFICATION FairSpec
INVARIANTS TypeOK Outcome NothingLeft FaultsForeseen LeftByLocals
PROPERTIES ImplementsCallStack Terminates
CHECK_DEADLOCK FALSE
