CONSTANTS
  IntMax = 127
  LongMax = 2047
  Kilo = 4
  Mega = 16
  Giga = 64
  MaxErrors = 2
  Many = 7
  Expressions <- NoExpressions
  PatternTexts <- MCPatternTexts
  DateValues <- NoExpressions
  Matches <- MCMatches
  Doubles <- MCDoubles
  Inputs <- DashInputs
  Disk <- MCDisk
  Locked <- MCLocked
SPECIFICATION Spec
PROPERTIES ParseEnds
