\* The smallest lossy interleaving.
SPECIFICATION Spec
CONSTANTS
  Size = 2
  Byte = {a, b}
  a = a
  b = b
  MaxCount = 2
  ReaderOps <- JustRead
  WriterOps <- JustWrite
  Word = 2
INVARIANT StreamIntact
