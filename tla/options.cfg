CONSTANTS
  IntMax = 127
  LongMax = 2047
  Kilo = 4
  Mega = 16
  Giga = 64
  MaxErrors = 2
  Many = 7
  Expressions <- MCExpressions
  PatternTexts <- MCPatternTexts
  DateValues <- MCDateValues
  Matches <- MCMatches
  Doubles <- MCDoubles
  Inputs <- MCInputs
  Disk <- MCDisk
  Locked <- MCLocked
SPECIFICATION Spec
INVARIANTS ErrorsBounded Arranged OutcomeRight TextsRead FilesKept StatusTells
INVARIANTS PatternsSound PatternsComplete BufferKept UsageAccepted TextWrapped ErrorsReported
PROPERTIES Advances
