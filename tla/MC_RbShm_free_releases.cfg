\* One process creates and frees.
SPECIFICATION Spec
CONSTANTS
  Proc = {p, q}
  p = p
  q = q
  Stranger = p
  RB_VERSION <- OtherVersion
  MapMayFail = FALSE
INVARIANT FreeReleases
CHECK_DEADLOCK FALSE
