CONSTANTS
  NumFrames = 1
  LastPid = 5
  BitsPerByte = 3
  MaxPageCount = 8
  PinMax = 3
  Zero = Zero
  AreaBytes = 2
  PhyBound = 8
SPECIFICATION Spec
INVARIANTS ObjIsHead PageIsImage LoopsFind
