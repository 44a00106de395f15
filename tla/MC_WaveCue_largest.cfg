\* Two digits a line; 91 stands for 4,294,967,295.
SPECIFICATION CueSpec
CONSTANTS
  CueInputs <- SomeFiles
  maxOtherChunks = 1
  MaxLocations = 2
  MaxDigits = 2
  UINT32_MAX = 91
  ByteValues = 16
  CopyBlock = 8
  HostEndianness = "LittleEndian"
INVARIANT LargestIsLocation
CHECK_DEADLOCK FALSE
