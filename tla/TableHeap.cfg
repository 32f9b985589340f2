CONSTANTS
  NumFrames = 2
  LastPid = 2
  BitsPerByte = 8
  MaxPageCount = 8
  PinMax = 7
  Zero = Zero
  PageSize = 10
  Word = 1
  SizeModulus = 64
  NoScan = NoScan
  NoRow = NoRow
  SlotBound = 2
  scan1 = scan1  scan2 = scan2
  short = short  long = long  huge = huge
  Scanners = {scan1, scan2}
  Rows = {short, long}
  RowSize <- MCRowSize
SYMMETRY Symmetry
SPECIFICATION Spec
INVARIANTS ScansReadTheirPage PinsReturned PagesLaidOut ScanSeesAll
PROPERTY ImplementsTable
