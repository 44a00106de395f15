\* A file that is cut and begun again while stdio still holds its old bytes.
SPECIFICATION TailSpec
CONSTANTS
  MaxFile = 4
  Block = 8
INVARIANT TailPrintsLast
CHECK_DEADLOCK FALSE
