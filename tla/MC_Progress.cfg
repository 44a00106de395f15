\* Each of four programs on a small instance: two keys and two port bytes, a ring
\* of two for the clients, three processes that share a buffer, one of another
\* version, with failing maps; two readers and two writers under the two locks.
SPECIFICATION ProgressSpec
CONSTANTS
  MaxKeys = 2
  MaxArrive = 2
  Capacity = 2
  bufsize = 2
  content_length = 3
  headersize = 3
  buf_size = 4
  MaxBytes = 6
  Proc = {p, q, r}
  p = p
  q = q
  r = r
  Stranger = p
  RB_VERSION <- OtherVersion
  MapMayFail = TRUE
  Reading = {r1, r2}
  Writing = {w1, w2}
  Free = Free
  ExcItem = {i1}
  Slots = 2
INVARIANTS
  ComPassesAll CliNothingLost TypeOK WholeUnlessUnlinked NoFault FileStays
PROPERTIES
  ComEndsOnHangup CliAllPrinted DisappearsGracefully
  ExclusiveGoesOn
CHECK_DEADLOCK FALSE
