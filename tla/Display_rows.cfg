SPECIFICATION Spec
CONSTANTS
  Texts <- SomeTexts
  RowLen = 3
  NumberOfRows = 3
  FontHeight = 2
  LineSpacing = 1
  Height = 8
  WordBits = 4
INVARIANTS TypeOK CleanLinesShown
PROPERTY ScreenKept
