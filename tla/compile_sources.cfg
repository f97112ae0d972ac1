CONSTANTS
  Templates <- MCTemplates
  Fillers <- MCFillers
  Names <- MCNames
  Literals <- MCLiterals
  UnsetDimensions <- MCUnsetDimensions
SPECIFICATION FairSpec
INVARIANTS TypeOK CodeVerified OperandsAwaited SlotsAgree DomainsNested MembersLaidOut
PROPERTIES ParseEnds
CHECK_DEADLOCK FALSE
