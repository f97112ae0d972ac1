CONSTANTS
  Templates <- MCForwardTemplates
  Fillers <- ForwardFillers
  Names <- MCNames
  Literals <- MCLiterals
  UnsetDimensions <- MCUnsetDimensions
SPECIFICATION Spec
INVARIANTS CallsReachFunctions
CHECK_DEADLOCK FALSE
