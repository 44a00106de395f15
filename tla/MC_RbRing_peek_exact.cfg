\* A peek at an offset across the end of the byte buffer.
SPECIFICATION Spec
CONSTANTS
  Size = 4
  Byte = {a, b}
  a = a
  b = b
  Untouched = Untouched
  MaxCount = 2
  Offsets <- EveryOffset
  Word <- NoStats
INVARIANT PeekExact
CHECK_DEADLOCK FALSE
