CONSTANTS
  p1 = p1
  p2 = p2
  p3 = p3
  p4 = p4
  HeapSz = 240
  Header = 16
  MinSplit = 32
  Align = 8
  Ptr = {p1, p2, p3, p4}
  Request = {1, 24, 40, 61}
  Null = Null
  Outside = Outside
SPECIFICATION Spec
INVARIANTS
  TypeOK
  Tiled
  Coalesced
  OneOwner
  FreedIsWiped
  EmptyHeapIsWhole
SYMMETRY Symmetry
