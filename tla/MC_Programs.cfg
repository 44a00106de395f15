\* Each of eight parts on a small instance; most of them may come to an end.
SPECIFICATION ProgramsSpec
CONSTANTS
  Sender = {t1, t2, t3}
  NoSender = NoSender
  MaxSends = 4
  MaxFile = 3
  Block = 2
  Size <- JackSize
  MaxSent = 7
  CueInputs <- SomeFiles
  maxOtherChunks = 1
  MaxLocations = 2
  MaxDigits = 2
  UINT32_MAX = 91
  ByteValues = 16
  CopyBlock = 8
  HostEndianness = "LittleEndian"
  Bits = 8
  Plus <- SumOfWords
  HashK <- RoundConstant
  HashInputs <- SomeInputs
  PadLengths <- SomeLengths
  Item = {i, j}
  i = i
  j = j
  NULL = NULL
  Junk = Junk
  Capacities = {0, 1, 2, 5}
  MaxSize = 5
  AllocMayFail = TRUE
  MaxCalls = 8
  Reading = {r1, r2}
  Writing = {w1, w2}
  Free = Free
  ExcItem = {i1, i2}
  Slots = 2
INVARIANTS
  SndInOrder TailShowsLast JackIntact CueFileWhole CueLocationsAreLines
  HashIsStandard PadIsStandard TypeOK CapacityTracksSize AmortizedConstant
PROPERTIES
  JackIsPipe ImplementsList ExclusiveIsSpsc
CHECK_DEADLOCK FALSE
