\* Four slots, the smallest ring in which the second copy size of rb_peek_at
\* goes below zero; a caller stops there.  Two bytes, of which one is a command.
SPECIFICATION ScanSpec
CONSTANTS
  Size = 4
  Byte = {data, command}
  data = data
  command = command
  Untouched = Untouched
  MaxCount = 2
  Offsets <- SplitOffsets
  Word <- NoStats
  MsgLen <- Messages2
  FloatSize = 2
  Patterns <- ShortPatterns
  Layouts <- SmallLayouts
INVARIANT PeekPrefix
PROPERTIES FindsFirst DeinterleavesAligned MidiFraming FloatsWhole
CHECK_DEADLOCK FALSE
