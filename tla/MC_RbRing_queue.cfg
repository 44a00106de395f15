\* Three slots, two byte values, counts past the capacity, no counters: every
\* call with every argument in every position of the indices.
SPECIFICATION Spec
CONSTANTS
  Size = 3
  Byte = {a, b}
  a = a
  b = b
  Untouched = Untouched
  MaxCount = 4
  Offsets <- NoOffset
  Word <- NoStats
INVARIANTS TypeOK RegionsPartition
PROPERTIES RegionsStayValid ImplementsQueue JavaAgrees
