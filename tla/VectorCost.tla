----------------------------- MODULE VectorCost -----------------------------
(***************************************************************************)
(* Vector with two history variables that meter what its resizing costs.   *)
(***************************************************************************)
EXTENDS Vector

CONSTANT MaxCalls    \* bound: adds, inserts and deletes in a run

VARIABLES
  calls,   \* adds, inserts and deletes that changed the list
  moved    \* pointers realloc() had to carry over for them

Least(a, b) == IF a <= b THEN a ELSE b

Init_metered == Init /\ calls = 0 /\ moved = 0

\* vector_clear asks for its own resize and is not metered.
Next_metered ==
  /\ calls < MaxCalls
  /\ Next
  /\ calls' = calls + (IF size' # size /\ ret'.op # "vector_clear"
                         THEN 1 ELSE 0)
  /\ moved' = moved + (IF capacity' # capacity /\ ret'.op # "vector_clear"
                         THEN Least(capacity, capacity') ELSE 0)

Metered == Init_metered /\ [][Next_metered]_<<vars, calls, moved>>

(* While no allocation fails, every item is stored inside the block, and a *)
(* vector that has shed its items gives its memory back: more than four    *)
(* times the items it holds is only kept up to the initial capacity, or    *)
(* when a handful of slots is left.                                        *)
CapacityTracksSize ==
  \/ denied
  \/ ~stray /\ \/ capacity <= initial_capacity
               \/ capacity <= 3
               \/ capacity \div 4 < size

(* Growing by doubling and shrinking by half at a quarter never fight each *)
(* other: whatever the sequence of calls, realloc() carries at most two    *)
(* pointers for every add, insert or delete, so a call costs constant time *)
(* on average, unless an allocation fails.  (vector/archive/index.html:    *)
(* the conditions "work well in practice to balance memory capacity and    *)
(* computation time".)                                                     *)
AmortizedConstant == denied \/ moved <= 2 * calls
=============================================================================
