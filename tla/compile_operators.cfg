CONSTANTS
  Templates <- MCOperatorTemplates
  Fillers <- OperatorFillers
  Names <- MCNames
  Literals <- MCLiterals
  UnsetDimensions <- MCUnsetDimensions
SPECIFICATION Spec
INVARIANTS StatementsBalanced
CHECK_DEADLOCK FALSE
