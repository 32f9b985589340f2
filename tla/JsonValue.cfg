CONSTANTS
  x = x  y = y
  Vars = {x, y}
  text = text
  Names = {1}
  Texts = {text}
  Numbers <- MCNumbers
  NoText = NoText
  n1 = n1  n2 = n2  n3 = n3  n4 = n4
  Refs = {n1, n2, n3, n4}
  Free = Free
  Width = 2
SYMMETRY Symmetry
SPECIFICATION Spec
INVARIANT OwnedOnce
PROPERTY ImplementsTrees
