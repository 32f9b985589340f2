CONSTANTS
  NumFrames = 2
  LastPid = 3
  BitsPerByte = 8
  MaxPageCount = 8
  PinMax = 3
  Zero = Zero
  NoRef = NoRef
  PhyBound = 4
  c1 = c1  c2 = c2
  c3 = c3
  Clients = {c1, c2}
  d1 = d1  d2 = d2
  Data = {d1, d2}
SYMMETRY Symmetry
SPECIFICATION SpecWithDeletes
INVARIANTS TypeOK DirConsistent FramePartition RefsStable CleanMeansOnDisk HeadCounts
PROPERTIES NewPageIsUnused ImplementsPageStore
