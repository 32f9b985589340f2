CONSTANTS
  NumFrames = 2
  LastPid = 3
  BitsPerByte = 2
  MaxPageCount = 3
  PinMax = 3
  Zero = Zero
  NoRef = NoRef
  PhyBound = 4
  c1 = c1  c2 = c2
  c3 = c3
  Clients = {c1, c2}
  d1 = d1  d2 = d2
  Data = {d1, d2}
SYMMETRY ClientSymmetry
SPECIFICATION SpecWithFailures
PROPERTY NewPageIsUnused
