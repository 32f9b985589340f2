CONSTANTS
  IntBytes = 2
  Base = 4
  FloatUnit = 2
  RowBound = 2
  NoQuery = NoQuery
  Chars <- MCChars
  Schemas <- MCShortSchemas
  Literals <- MCShort
  Conditions <- MCNoConditions
SPECIFICATION Spec
INVARIANT OffsetsInside
