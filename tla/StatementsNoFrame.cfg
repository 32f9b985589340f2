CONSTANTS
  NumFrames = 2
  LastPid = 3
  BitsPerByte = 8
  MaxPageCount = 8
  PinMax = 7
  LeakBound = 2
  WrapBound = 2
  Zero = Zero
  PageSize = 9
  Word = 1
  SizeModulus = 64
  NoScan = NoScan
  NoRow = NoRow
  SlotBound = 2
  select = select
  short = short  long = long
  Scanners = {select}
  Rows = {short, long}
  RowSize <- MCRowSize
SPECIFICATION SpecNoFrame
PROPERTY InsertInserts
