CONSTANTS
  n1 = n1  n2 = n2  n3 = n3  n4 = n4
  Nodes <- MCNodes
  Values = {1, 2, 3, 4}
  Capacity = 3
  NoValue = NoValue
  NoNode = NoNode
  EndNode = EndNode
SPECIFICATION Spec
INVARIANT DirMirrorsList
PROPERTIES ComputesLruOps ImplementsLru
