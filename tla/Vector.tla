------------------------------- MODULE Vector -------------------------------
(***************************************************************************)
(* vector/vector.c: a growable array of pointers in a malloc()ed block.    *)
(* An action is one call of one caller; there is no locking and none is    *)
(* promised.  int is wide enough here: sizes stay below MaxSize.           *)
(*                                                                         *)
(* The result of vector_resize is ignored by vector_add and vector_insert. *)
(* When it fails the item is stored past the end of the block; what        *)
(* happens then is undefined and the run of the model stops (stray).       *)
(***************************************************************************)
EXTENDS Integers, Sequences

CONSTANTS Item,          \* the pointers callers store
          NULL,
          Junk,          \* what malloc() and realloc() leave in new memory
          Capacities,    \* the initial capacities callers ask for
          MaxSize,       \* bound: callers keep at most so many items
          AllocMayFail   \* whether malloc() and realloc() may return NULL

ASSUME CapacitiesAssumption == Capacities \subseteq Int
ASSUME BoundAssumption == MaxSize \in Nat \ {0} /\ AllocMayFail \in BOOLEAN

VARIABLES
  items,              \* the block, a function on 0 .. its length - 1
  initial_capacity, capacity, size,
  ret,                \* the last call and what it returned
  stray,              \* a store went past the block
  denied              \* history: an allocation has failed

vars == <<items, initial_capacity, capacity, size, ret, stray, denied>>

VECTOR_INIT_CAPACITY == 4

Index == -1 .. MaxSize

Return(op, value) == ret' = [op |-> op, value |-> value]

Valid(index) == index \in 0 .. size - 1

\* A refused call, and vector_get, change nothing.
Refuse(op, value) ==
  /\ Return(op, value)
  /\ UNCHANGED <<items, initial_capacity, capacity, size, stray, denied>>
-----------------------------------------------------------------------------
\* Mutant: the caller's capacity is taken as it is.
InitialCapacity_raw(c) == c

InitialCapacity(c) == IF c <= 0 THEN VECTOR_INIT_CAPACITY ELSE c

\* Callers of VEC_NEW do not look at the -1 of a failed malloc().
vector_init(c) ==
  /\ initial_capacity = InitialCapacity(c)
  /\ capacity = initial_capacity
  /\ size = 0
  /\ \/ items = [k \in 0 .. capacity - 1 |-> Junk]
     \/ AllocMayFail /\ items = [k \in {} |-> Junk]
  /\ ret = [op |-> "vector_init", value |-> 0]
  /\ stray = FALSE
  /\ denied = (DOMAIN items = {})

\* The block b and the capacity a vector_resize to c leaves behind, and
\* whether it succeeded.
Untouched(b) == [items |-> b, capacity |-> capacity, ok |-> TRUE]

vector_resize(b, c) ==
  LET n == IF c < 1 THEN 1 ELSE c
      moved == [items |-> [k \in 0 .. n - 1 |->
                             IF k \in DOMAIN b THEN b[k] ELSE Junk],
                capacity |-> n, ok |-> TRUE]
  IN
    IF n = capacity THEN {Untouched(b)}
    ELSE {moved} \cup IF AllocMayFail
                        THEN {[Untouched(b) EXCEPT !.ok = FALSE]} ELSE {}

\* Mutant: grows one item too late.
Grown_late ==
  IF size = capacity + 1 THEN vector_resize(items, capacity * 2)
                         ELSE {Untouched(items)}

\* Room for one more item, as vector_add and vector_insert ask for it.
Grown ==
  IF capacity = size THEN vector_resize(items, capacity * 2)
                     ELSE {Untouched(items)}

\* Mutant: shrinks at half.
ShrinksAt_half(n) == n > 0 /\ n = capacity \div 2

\* Mutant: never shrinks.
ShrinksAt_never(n) == FALSE

ShrinksAt(n) == n > 0 /\ n = capacity \div 4

Shrunk(b, n) ==
  IF ShrinksAt(n) THEN vector_resize(b, capacity \div 2) ELSE {Untouched(b)}
-----------------------------------------------------------------------------
\* The next-state part of a call that makes room in r and stores item there.
Stored(op, r, index, item) ==
  LET opened == [k \in DOMAIN r.items |->
                   IF k = index THEN item
                   ELSE IF index < k /\ k <= size THEN r.items[k - 1]
                   ELSE r.items[k]]
  IN
    /\ items' = opened
    /\ capacity' = r.capacity
    /\ size' = size + 1
    /\ stray' = (size \notin DOMAIN r.items)
    /\ denied' = (denied \/ ~r.ok)
    /\ Return(op, size + 1)
    /\ UNCHANGED initial_capacity

vector_add(item) ==
  /\ size < MaxSize
  /\ \E r \in Grown : Stored("vector_add", r, size, item)

vector_insert(index, item) ==
  \/ ~Valid(index) /\ Refuse("vector_insert", -1)
  \/ /\ Valid(index)
     /\ size < MaxSize
     /\ \E r \in Grown : Stored("vector_insert", r, index, item)

vector_set(index, item) ==
  \/ ~Valid(index) /\ Refuse("vector_set", -1)
  \/ /\ Valid(index)
     /\ items' = [items EXCEPT ![index] = item]
     /\ Return("vector_set", size)
     /\ UNCHANGED <<initial_capacity, capacity, size, stray, denied>>

vector_get(index) ==
  Refuse("vector_get", IF Valid(index) THEN items[index] ELSE NULL)

\* Mutant: the last item is not moved down.
Closed_short(index) ==
  [k \in DOMAIN items |->
     IF index <= k /\ k < size - 2 THEN items[k + 1]
     ELSE IF k = size - 1 THEN NULL
     ELSE items[k]]

\* The block after the shift loop of vector_delete.
Closed(index) ==
  [k \in DOMAIN items |->
     IF index <= k /\ k < size - 1 THEN items[k + 1]
     ELSE IF k = size - 1 THEN NULL
     ELSE items[k]]

vector_delete(index) ==
  \/ ~Valid(index) /\ Refuse("vector_delete", -1)
  \/ /\ Valid(index)
     /\ \E r \in Shrunk(Closed(index), size - 1) :
          items' = r.items /\ capacity' = r.capacity /\ denied' = (denied \/ ~r.ok)
     /\ size' = size - 1
     /\ Return("vector_delete", size - 1)
     /\ UNCHANGED <<initial_capacity, stray>>

\* The loop stops one short: the last item stays in the block, unreachable.
vector_clear ==
  /\ \E r \in vector_resize([k \in DOMAIN items |->
                               IF k < size - 1 THEN NULL ELSE items[k]],
                            initial_capacity) :
       /\ items' = r.items
       /\ capacity' = r.capacity
       /\ denied' = (denied \/ ~r.ok)
       /\ Return("vector_clear", IF r.ok THEN r.capacity ELSE -1)
  /\ size' = 0
  /\ UNCHANGED <<initial_capacity, stray>>

Init == \E c \in Capacities : vector_init(c)

Next ==
  /\ ~stray
  /\ \/ \E item \in Item :
          \/ vector_add(item)
          \/ \E index \in Index : vector_insert(index, item)
                                    \/ vector_set(index, item)
     \/ \E index \in Index : vector_get(index) \/ vector_delete(index)
     \/ vector_clear

Spec == Init /\ [][Next]_vars
-----------------------------------------------------------------------------
(***************************************************************************)
(* Properties                                                              *)
(***************************************************************************)

Calls == {"vector_init", "vector_add", "vector_insert", "vector_set",
          "vector_get", "vector_delete", "vector_clear"}

(* The block is as long as capacity says (or missing, after a failed       *)
(* malloc) and has room for every item, and no store goes past it while    *)
(* memory lasts.                                                           *)
TypeOK ==
  /\ initial_capacity \in Nat \ {0}
  /\ capacity \in Nat \ {0}
  /\ size \in Nat
  /\ \/ items \in [0 .. capacity - 1 -> Item \cup {NULL, Junk}]
     \/ denied /\ DOMAIN items = {}
  /\ ret.op \in Calls
  /\ stray \in BOOLEAN /\ denied \in BOOLEAN
  /\ ~stray => 0 .. size - 1 \subseteq DOMAIN items
  /\ stray => denied
  /\ denied => AllocMayFail

(* The pointers of the list, first to last; none once a stray store broke  *)
(* it.                                                                     *)
Contents == IF stray THEN <<>> ELSE [k \in 1 .. size |-> items[k - 1]]

List == INSTANCE VectorList WITH q <- Contents, broken <- stray

(* Every call behaves as the same call on a list, wherever the block is    *)
(* grown, shrunk or moved.                                                 *)
ImplementsList == List!Spec
=============================================================================
