SPECIFICATION Spec
CONSTANTS
  M = 2
  R = 2
  Letters = {97, 98}
  MaxLen = 5
  LINE_MAX = 5
  MaxValuesPerKey = 2
  HashWidth = 16
  NoFile = NoFile
INVARIANTS
  CountsExact
  OverflowFailsExactly
