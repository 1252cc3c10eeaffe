\* Up to three regions in a memory with room for two small blocks that may double.
SPECIFICATION Spec
CONSTANTS
  Classes = {5, 6, 7}
  Units <- MCUnits
  Sizes = {1, 2}
  Aligns = {1, 2, 4}
  HeapBase = 3
  PageUnits = 4
  FirstMemory = 8
  MaxMemory = 16
  MaxLive = 3
  Junk = 99
INVARIANTS
  TypeOK
  HeadersKept
  FreeListsWhole
  NoneWasted
PROPERTIES
  ImplementsHeap
