\* Four slots, one byte value, counts past the capacity, counters that wrap.
SPECIFICATION Spec
CONSTANTS
  Size = 4
  Byte = {b}
  b = b
  Untouched = Untouched
  MaxCount = 5
  Offsets <- NoOffset
  Word <- ByteStats
PROPERTIES StatsMatchFill JavaAgrees
