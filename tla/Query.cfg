CONSTANTS
  IntBytes = 2
  Base = 4
  FloatUnit = 2
  RowBound = 2
  NoQuery = NoQuery
  Chars <- MCChars
  Schemas <- MCSchemas
  Literals <- MCLiterals
  Conditions <- MCConditions
SPECIFICATION Spec
INVARIANTS SelectIsRight PrintedIsAnswer
