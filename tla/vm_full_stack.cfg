CONSTANTS
  StackSize = 24
  MinInt <- MCMinInt
  MaxInt <- MCMaxInt
  AnyDouble <- MCAnyDouble
  Programs <- MCLocals
SPECIFICATION Spec
PROPERTIES PushBeyondIsError
CHECK_DEADLOCK FALSE
