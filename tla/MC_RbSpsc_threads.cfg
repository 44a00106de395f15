\* All calls of both sides on three slots: every interleaving, full and empty
\* meet often, and the two decisions of a zero-copy side may disagree.
SPECIFICATION FairSpec
CONSTANTS
  Size = 3
  Byte = {a, b}
  a = a
  b = b
  MaxCount = 3
  ReaderOps <- AllReader
  WriterOps <- AllWriter
  Word = 3
INVARIANTS TypeOK IntactUnlessMisled SerialCallsIntact IndicesFollowTotals
PROPERTY BothSidesProgress
