\* Two values per column; types of up to three digits.
SPECIFICATION Spec
CONSTANTS
    Types <- MCTypes
    Numerals <- MCNumerals
    Words = {word}
    Options <- MCOptions
    MaxDigits = 3
    NULL = NULL
    Error = Error
    Changed = Changed
    MaxRows = 2
INVARIANTS
    TypeOK
    AnalysedRowsComeBack
