CONSTANTS
  Chars <- MCChars
  ARG_DSTR_SIZE = 2
  SmallSpace = 3
  FirstSpace = 5
  BigSpace = 7
  START_VSNBUFF = 2
  Keys <- MCKeys
  Values <- MCValues
  Calls <- MCCalls
  Hash <- MCHash
  Primes <- MCPrimes
  ModuleNames <- MCModuleNames
  MaxText = 3
  MaxServed = 1
SPECIFICATION Spec
INVARIANTS Consistent IteratorAttached WalkComplete StringInOrder
PROPERTIES ImplementsDirectory
CHECK_DEADLOCK FALSE
