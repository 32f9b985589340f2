CONSTANTS
  Names = {1, 2}
  Schemas <- MCSchemas
  Rows <- MCRows
  RowBound = 2
  NoFile = NoFile
  Torn = Torn
SPECIFICATION Spec
INVARIANTS TypeOK CatalogMatchesStore RowsMatchSchema DroppedStaysDropped KeptSurvives
