CONSTANTS
  PageSize = 20
  Word = 2
  SizeModulus = 64
  Base = 8
  NoView = NoView
  Records <- MCRecords
SPECIFICATION Spec
INVARIANTS HeadReadsBack IndexStaysClear RecordsReadBack
PROPERTY EnoughMeansRoom
