CONSTANTS
  Texts <- MCTexts
  Letters <- MCLetters
  Digits <- MCDigits
  LongMax = 199
  IntModulus = 128
  HugeDoubles <- MCHugeDoubles
SPECIFICATION Spec
INVARIANTS TypeOK LongestMatch LinesCounted IntegersCongruent
PROPERTIES Decided
CHECK_DEADLOCK FALSE
