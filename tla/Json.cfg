CONSTANTS
  Names <- MCNames
  Schemas <- MCSchemas
  Documents <- MCDocuments
  Texts <- MCTexts
  Huge = 100000000
  Down = Down
  Failed = Failed
  NoText = NoText
SPECIFICATION Spec
INVARIANTS SavedIsRead NeverAnother
