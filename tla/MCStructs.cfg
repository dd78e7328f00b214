SPECIFICATION Spec
CONSTANTS
  NumFields = 3
  Optional <- MCOptional
  Symbols <- MCSymbols
INVARIANTS TypeOK ReadLengthIsExact AccessIsInBuffer OptionalIsOptional
