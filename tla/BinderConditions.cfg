CONSTANTS
  Words <- MCWords
  Upper <- MCUpper
  Statements <- MCStatements
  Literals <- MCLiterals
  EditTokens <- MCEditTokens
  SizeModulus = 64
  NoStatement = NoStatement
  Catalogs <- MCCatalogs
  NoPlan = NoPlan
SPECIFICATION BinderSpec
CHECK_DEADLOCK FALSE
INVARIANT ConditionsOnTable
