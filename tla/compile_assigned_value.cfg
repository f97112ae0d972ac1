CONSTANTS
  Templates <- MCAssignedTemplates
  Fillers <- AssignedFillers
  Names <- MCNames
  Literals <- MCLiterals
  UnsetDimensions <- MCUnsetDimensions
SPECIFICATION Spec
INVARIANTS ValueDescribed
CHECK_DEADLOCK FALSE
