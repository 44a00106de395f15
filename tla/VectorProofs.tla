---------------------------- MODULE VectorProofs ----------------------------
(***************************************************************************)
(* What holds of Vector for every initial capacity, every number of items  *)
(* and every sequence of calls, whether or not allocations fail.           *)
(***************************************************************************)
EXTENDS VectorCost, TLAPS

Pointer == Item \cup {NULL, Junk}

\* What realloc() makes of the block b.
Resized(b, n) == [k \in 0 .. n - 1 |-> IF k \in DOMAIN b THEN b[k] ELSE Junk]

\* The capacity vector_resize settles on.
Wanted(c) == IF c < 1 THEN 1 ELSE c

\* The block has its capacity, or malloc() has failed and nothing is in it.
Whole(b, c) == b \in [0 .. c - 1 -> Pointer] \/ (denied /\ DOMAIN b = {})

\* TypeOK without the last call.
Sound ==
  /\ initial_capacity \in Nat \ {0}
  /\ capacity \in Nat \ {0}
  /\ size \in Nat
  /\ Whole(items, capacity)
  /\ stray \in BOOLEAN /\ denied \in BOOLEAN
  /\ ~stray => 0 .. size - 1 \subseteq DOMAIN items
  /\ stray => denied
  /\ denied => AllocMayFail

(***************************************************************************)
(* vector_resize.                                                          *)
(***************************************************************************)

(* It leaves the block alone, moves it, or fails.                          *)
LEMMA ResizeCases ==
  ASSUME NEW b, NEW c \in Int, NEW r \in vector_resize(b, c)
  PROVE  \/ /\ Wanted(c) = capacity
            /\ r.items = b /\ r.capacity = capacity /\ r.ok = TRUE
         \/ /\ Wanted(c) # capacity
            /\ r.items = Resized(b, Wanted(c)) /\ r.capacity = Wanted(c)
            /\ r.ok = TRUE
         \/ /\ AllocMayFail
            /\ r.items = b /\ r.capacity = capacity /\ r.ok = FALSE
  <1> DEFINE n == Wanted(c)
             moved1 == [items |-> Resized(b, n), capacity |-> n, ok |-> TRUE]
             failed == [Untouched(b) EXCEPT !.ok = FALSE]
  <1>1. \/ n = capacity /\ r = Untouched(b)
        \/ n # capacity /\ r = moved1
        \/ AllocMayFail /\ r = failed
    BY BoundAssumption DEF vector_resize, Resized, Wanted
  <1>2. /\ failed.items = b /\ failed.capacity = capacity
        /\ failed.ok = FALSE
    BY DEF Untouched
  <1>3. /\ moved1.items = Resized(b, n) /\ moved1.capacity = n
        /\ moved1.ok = TRUE
    OBVIOUS
  <1>4. /\ Untouched(b).items = b /\ Untouched(b).capacity = capacity
        /\ Untouched(b).ok = TRUE
    BY DEF Untouched
  <1> HIDE DEF n, moved1, failed
  <1> QED  BY <1>1, <1>2, <1>3, <1>4, Zenon DEF n

(* A moved block keeps its pointers as far as it reaches.                  *)
LEMMA ResizedBlock ==
  ASSUME NEW m \in Nat, NEW b \in [0 .. m - 1 -> Pointer], NEW n \in Nat \ {0}
  PROVE  /\ Resized(b, n) \in [0 .. n - 1 -> Pointer]
         /\ \A k \in 0 .. n - 1 : k < m => Resized(b, n)[k] = b[k]
  BY DEF Resized, Pointer

LEMMA EmptyBlock ==
  ASSUME NEW b, DOMAIN b = {}, NEW n \in Nat \ {0}
  PROVE  Resized(b, n) \in [0 .. n - 1 -> Pointer]
  BY DEF Resized, Pointer

(***************************************************************************)
(* Making room and closing up.                                             *)
(***************************************************************************)

Opened(b, index, item) ==
  [k \in DOMAIN b |-> IF k = index THEN item
                      ELSE IF index < k /\ k <= size THEN b[k - 1]
                      ELSE b[k]]

(* A block that is not missing holds every item of the list.               *)
LEMMA RoomForItems ==
  ASSUME Sound, ~stray
  PROVE  /\ DOMAIN items # {}
              => items \in [0 .. capacity - 1 -> Pointer] /\ size <= capacity
         /\ DOMAIN items = {} => denied /\ size = 0
  <1>1. /\ 0 .. size - 1 \subseteq DOMAIN items
        /\ size \in Nat /\ capacity \in Nat \ {0}
        /\ Whole(items, capacity)
    BY DEF Sound
  <1>2. CASE DOMAIN items # {}
    <2>1. items \in [0 .. capacity - 1 -> Pointer]
      BY <1>1, <1>2 DEF Whole
    <2>2. 0 .. size - 1 \subseteq 0 .. capacity - 1
      BY <1>1, <2>1
    <2>3. size <= capacity
      <3>1. CASE size = 0
        BY <1>1, <3>1
      <3>2. CASE size # 0
        <4>1. size - 1 \in 0 .. size - 1
          BY <1>1, <3>2
        <4> QED  BY <1>1, <2>2, <4>1
      <3> QED  BY <3>1, <3>2
    <2> QED  BY <1>2, <2>1, <2>3
  <1>3. CASE DOMAIN items = {}
    <2>1. denied
      <3>1. capacity - 1 \in 0 .. capacity - 1 /\ 0 \in 0 .. capacity - 1
        BY <1>1
      <3>2. items \notin [0 .. capacity - 1 -> Pointer]
        BY <1>3, <3>1
      <3> QED  BY <1>1, <3>2 DEF Whole
    <2>2. size = 0
      <3> SUFFICES ASSUME size # 0 PROVE FALSE
        OBVIOUS
      <3>1. 0 \in 0 .. size - 1
        BY <1>1
      <3> QED  BY <1>1, <1>3, <3>1
    <2> QED  BY <1>3, <2>1, <2>2
  <1> QED  BY <1>2, <1>3

(* Only a full block grows, to twice its capacity, and a failure to grow   *)
(* it shows.                                                               *)
LEMMA GrownCases ==
  ASSUME Sound, ~stray, NEW r \in Grown
  PROVE  /\ r.capacity \in Nat \ {0}
         /\ Whole(r.items, r.capacity)
         /\ \A k \in 0 .. size - 1 : k \in DOMAIN r.items /\ r.items[k] = items[k]
         /\ size \notin DOMAIN r.items => denied \/ ~r.ok
         /\ r.ok \in BOOLEAN /\ (~r.ok => AllocMayFail)
         /\ r.ok => \/ capacity # size /\ r.capacity = capacity
                    \/ capacity = size /\ r.capacity = capacity * 2
         /\ ~r.ok => r.capacity = capacity
  <1>1. /\ size \in Nat /\ capacity \in Nat \ {0}
        /\ Whole(items, capacity)
        /\ 0 .. size - 1 \subseteq DOMAIN items
    BY DEF Sound
  <1>2. CASE capacity # size
    <2>1. r = Untouched(items)
      BY <1>2 DEF Grown
    <2>2. r.items = items /\ r.capacity = capacity /\ r.ok = TRUE
      BY <2>1 DEF Untouched
    <2>3. size \notin DOMAIN items => denied
      <3>1. CASE DOMAIN items = {}
        BY <3>1, RoomForItems
      <3>2. CASE DOMAIN items # {}
        <4>1. /\ DOMAIN items = 0 .. capacity - 1 /\ size <= capacity
          BY <3>2, RoomForItems
        <4> QED  BY <1>1, <1>2, <4>1
      <3> QED  BY <3>1, <3>2
    <2> QED  BY <1>1, <1>2, <2>2, <2>3
  <1>3. CASE capacity = size
    <2> DEFINE n == capacity * 2
    <2>1. r \in vector_resize(items, n) /\ n \in Nat \ {0} /\ n > capacity
      BY <1>1, <1>3 DEF Grown
    <2>2. items \in [0 .. capacity - 1 -> Pointer]
      BY <1>1, <1>3, RoomForItems
    <2>3. Wanted(n) = n /\ n # capacity /\ n \in Int
      BY <1>1, <2>1 DEF Wanted
    <2> HIDE DEF n
    <2>4. \/ /\ r.items = Resized(items, n) /\ r.capacity = n /\ r.ok = TRUE
          \/ /\ AllocMayFail
             /\ r.items = items /\ r.capacity = capacity /\ r.ok = FALSE
      <3>1. \/ /\ Wanted(n) = capacity
               /\ r.items = items /\ r.capacity = capacity /\ r.ok = TRUE
            \/ /\ Wanted(n) # capacity
               /\ r.items = Resized(items, Wanted(n)) /\ r.capacity = Wanted(n)
               /\ r.ok = TRUE
            \/ /\ AllocMayFail
               /\ r.items = items /\ r.capacity = capacity /\ r.ok = FALSE
        <4>1. n \in Int /\ r \in vector_resize(items, n)
          BY <2>1, <2>3
        <4> QED  BY <4>1, ResizeCases
      <3> QED  BY <2>3, <3>1, Zenon
    <2>5. CASE r.items = Resized(items, n) /\ r.capacity = n /\ r.ok = TRUE
      <3>1. /\ Resized(items, n) \in [0 .. n - 1 -> Pointer]
            /\ \A k \in 0 .. n - 1 : k < capacity => Resized(items, n)[k] = items[k]
        BY <1>1, <2>1, <2>2, ResizedBlock
      <3>2. size \in 0 .. n - 1 /\ \A k \in 0 .. size - 1 : k \in 0 .. n - 1 /\ k < capacity
        BY <1>1, <1>3, <2>1
      <3>3. DOMAIN r.items = 0 .. n - 1 /\ r.items \in [0 .. n - 1 -> Pointer]
        BY <2>5, <3>1
      <3>4. \A k \in 0 .. size - 1 : k \in DOMAIN r.items /\ r.items[k] = items[k]
        BY <2>5, <3>1, <3>2, <3>3
      <3> QED  BY <1>3, <2>1, <2>5, <3>2, <3>3, <3>4 DEF Whole, n
    <2>6. CASE /\ AllocMayFail
               /\ r.items = items /\ r.capacity = capacity /\ r.ok = FALSE
      BY <1>1, <2>6
    <2> QED  BY <2>4, <2>5, <2>6
  <1> QED  BY <1>2, <1>3

LEMMA OpenedBlock ==
  ASSUME NEW m \in Nat, NEW b \in [0 .. m - 1 -> Pointer],
         NEW index \in Nat, NEW item \in Item, size \in Nat
  PROVE  Opened(b, index, item) \in [0 .. m - 1 -> Pointer]
  BY DEF Opened, Pointer

LEMMA OpenedDomain ==
  ASSUME NEW b, NEW index, NEW item
  PROVE  DOMAIN Opened(b, index, item) = DOMAIN b
  BY DEF Opened

(* Adding or inserting stores outside the block only after a failure.      *)
LEMMA StoredSound ==
  ASSUME Sound, ~stray, NEW op, NEW r \in Grown, NEW index \in Nat,
         NEW item \in Item, Stored(op, r, index, item)
  PROVE  Sound'
  <1>1. /\ r.capacity \in Nat \ {0} /\ Whole(r.items, r.capacity)
        /\ \A k \in 0 .. size - 1 : k \in DOMAIN r.items
        /\ size \notin DOMAIN r.items => denied \/ ~r.ok
        /\ r.ok \in BOOLEAN /\ (~r.ok => AllocMayFail)
    BY GrownCases
  <1>2. /\ items' = Opened(r.items, index, item)
        /\ capacity' = r.capacity /\ size' = size + 1
        /\ stray' = (size \notin DOMAIN r.items)
        /\ denied' = (denied \/ ~r.ok)
        /\ initial_capacity' = initial_capacity
    BY Zenon DEF Stored, Opened
  <1>3. /\ size \in Nat /\ initial_capacity \in Nat \ {0}
        /\ denied \in BOOLEAN /\ (denied => AllocMayFail)
    BY DEF Sound
  <1>4. DOMAIN items' = DOMAIN r.items
    BY <1>2, OpenedDomain
  <1>5. Whole(items, capacity)'
    <2>1. CASE r.items \in [0 .. r.capacity - 1 -> Pointer]
      <3>1. Opened(r.items, index, item) \in [0 .. r.capacity - 1 -> Pointer]
        BY <1>1, <1>3, <2>1, OpenedBlock
      <3> QED  BY <1>2, <3>1 DEF Whole
    <2>2. CASE denied /\ DOMAIN r.items = {}
      BY <1>2, <1>4, <2>2 DEF Whole
    <2> QED  BY <1>1, <2>1, <2>2 DEF Whole
  <1>6. ~stray' => 0 .. size' - 1 \subseteq DOMAIN items'
    <2> SUFFICES ASSUME ~stray', NEW k \in 0 .. size' - 1
                 PROVE  k \in DOMAIN r.items
      BY <1>4
    <2>1. size \in DOMAIN r.items
      BY <1>2, Zenon
    <2>2. k \in 0 .. size - 1 \/ k = size
      BY <1>2, <1>3
    <2> QED  BY <1>1, <2>1, <2>2, Zenon
  <1>7. stray' \in BOOLEAN /\ denied' \in BOOLEAN /\ (stray' => denied')
    BY <1>1, <1>2
  <1>8. denied' => AllocMayFail
    BY <1>1, <1>2, <1>3
  <1>9. capacity' \in Nat \ {0} /\ size' \in Nat
        /\ initial_capacity' \in Nat \ {0}
    BY <1>1, <1>2, <1>3
  <1> QED  BY <1>5, <1>6, <1>7, <1>8, <1>9 DEF Sound

LEMMA ClosedBlock ==
  ASSUME NEW m \in Nat, items \in [0 .. m - 1 -> Pointer], size \in Nat, size <= m,
         NEW index \in 0 .. size - 1
  PROVE  Closed(index) \in [0 .. m - 1 -> Pointer]
  BY DEF Closed, Pointer

(* A block shrinks to half when a quarter of it is left in use.            *)
LEMMA ShrunkCases ==
  ASSUME Sound, ~stray, NEW index \in 0 .. size - 1,
         NEW r \in Shrunk(Closed(index), size - 1)
  PROVE  /\ r.capacity \in Nat \ {0}
         /\ Whole(r.items, r.capacity)
         /\ \A k \in 0 .. size - 2 :
               k \in DOMAIN r.items /\ r.items[k] = Closed(index)[k]
         /\ r.ok \in BOOLEAN /\ (~r.ok => AllocMayFail)
         /\ r.ok => \/ ~ShrinksAt(size - 1) /\ r.capacity = capacity
                    \/ ShrinksAt(size - 1) /\ r.capacity = capacity \div 2
         /\ ~r.ok => r.capacity = capacity
  <1> DEFINE b == Closed(index)
  <1>1. size \in Nat \ {0} /\ capacity \in Nat \ {0}
    BY DEF Sound
  <1>2. items \in [0 .. capacity - 1 -> Pointer] /\ size <= capacity
    BY <1>1, RoomForItems
  <1>3. b \in [0 .. capacity - 1 -> Pointer]
    BY <1>1, <1>2, ClosedBlock
  <1>4. r \in IF ShrinksAt(size - 1) THEN vector_resize(b, capacity \div 2)
                                     ELSE {Untouched(b)}
    BY DEF Shrunk
  <1> HIDE DEF b
  <1>5. CASE ~ShrinksAt(size - 1)
    <2>1. r = Untouched(b)
      BY <1>4, <1>5
    <2>2. r.items = b /\ r.capacity = capacity /\ r.ok = TRUE
      BY <2>1 DEF Untouched
    <2>3. \A k \in 0 .. size - 2 : k \in 0 .. capacity - 1
      BY <1>1, <1>2
    <2> QED  BY <1>1, <1>3, <1>5, <2>2, <2>3 DEF Whole, b
  <1>6. CASE ShrinksAt(size - 1)
    <2> DEFINE n == capacity \div 2
    <2>1. r \in vector_resize(b, n)
      BY <1>4, <1>6
    <2>2. /\ n \in Nat \ {0} /\ n \in Int /\ n # capacity /\ Wanted(n) = n
          /\ n < capacity /\ size - 1 < n
      BY <1>1, <1>6 DEF ShrinksAt, Wanted
    <2>3. \A k \in 0 .. size - 2 : k \in 0 .. n - 1 /\ k \in 0 .. capacity - 1
                                     /\ k < capacity
      BY <1>1, <2>2
    <2>4. n = capacity \div 2
      OBVIOUS
    <2> HIDE DEF n
    <2>5. \/ /\ r.items = Resized(b, n) /\ r.capacity = n /\ r.ok = TRUE
          \/ /\ AllocMayFail
             /\ r.items = b /\ r.capacity = capacity /\ r.ok = FALSE
      <3>1. \/ /\ Wanted(n) = capacity
               /\ r.items = b /\ r.capacity = capacity /\ r.ok = TRUE
            \/ /\ Wanted(n) # capacity
               /\ r.items = Resized(b, Wanted(n)) /\ r.capacity = Wanted(n)
               /\ r.ok = TRUE
            \/ /\ AllocMayFail
               /\ r.items = b /\ r.capacity = capacity /\ r.ok = FALSE
        <4>1. n \in Int
          BY <2>2
        <4> QED  BY <2>1, <4>1, ResizeCases, Zenon
      <3> QED  BY <2>2, <3>1, Zenon
    <2>6. CASE r.items = Resized(b, n) /\ r.capacity = n /\ r.ok = TRUE
      <3>1. /\ Resized(b, n) \in [0 .. n - 1 -> Pointer]
            /\ \A k \in 0 .. n - 1 : k < capacity => Resized(b, n)[k] = b[k]
        BY <1>1, <1>3, <2>2, ResizedBlock
      <3>2. DOMAIN r.items = 0 .. n - 1 /\ r.items \in [0 .. n - 1 -> Pointer]
        BY <2>6, <3>1
      <3>3. \A k \in 0 .. size - 2 : k \in DOMAIN r.items /\ r.items[k] = b[k]
        BY <2>3, <2>6, <3>1, <3>2
      <3> QED  BY <1>6, <2>2, <2>4, <2>6, <3>2, <3>3 DEF Whole, b
    <2>7. CASE /\ AllocMayFail
               /\ r.items = b /\ r.capacity = capacity /\ r.ok = FALSE
      BY <1>1, <1>3, <2>3, <2>7 DEF Whole, b
    <2> QED  BY <2>5, <2>6, <2>7
  <1> QED  BY <1>5, <1>6

LEMMA DeleteSound ==
  ASSUME Sound, ~stray, NEW index \in 0 .. size - 1,
         NEW r \in Shrunk(Closed(index), size - 1),
         items' = r.items, capacity' = r.capacity, denied' = (denied \/ ~r.ok),
         size' = size - 1, UNCHANGED <<initial_capacity, stray>>
  PROVE  Sound'
  <1>1. /\ r.capacity \in Nat \ {0} /\ Whole(r.items, r.capacity)
        /\ \A k \in 0 .. size - 2 : k \in DOMAIN r.items
        /\ r.ok \in BOOLEAN /\ (~r.ok => AllocMayFail)
    BY ShrunkCases
  <1>2. /\ size \in Nat \ {0} /\ initial_capacity \in Nat \ {0}
        /\ denied \in BOOLEAN /\ (denied => AllocMayFail)
    BY DEF Sound
  <1>3. Whole(items, capacity)'
    BY <1>1 DEF Whole
  <1>4. 0 .. size' - 1 \subseteq DOMAIN items'
    <2>1. 0 .. size' - 1 = 0 .. size - 2
      BY <1>2
    <2> QED  BY <1>1, <2>1
  <1>5. size' \in Nat /\ capacity' \in Nat \ {0} /\ initial_capacity' \in Nat \ {0}
    BY <1>1, <1>2
  <1>6. /\ stray' \in BOOLEAN /\ denied' \in BOOLEAN
        /\ ~stray'
        /\ denied' => AllocMayFail
    <2>1. stray' = stray /\ stray \in BOOLEAN
      BY DEF Sound
    <2>2. ~stray'
      BY <2>1
    <2>3. denied' = (denied \/ ~r.ok) /\ denied' \in BOOLEAN
      BY <1>1, <1>2
    <2>4. denied' => AllocMayFail
      BY <1>1, <1>2, <2>3, Zenon
    <2> QED  BY <2>1, <2>2, <2>3, <2>4
  <1> QED  BY <1>3, <1>4, <1>5, <1>6 DEF Sound

Cleared == [k \in DOMAIN items |-> IF k < size - 1 THEN NULL ELSE items[k]]

(* A cleared vector is back at its initial capacity, or as it was.         *)
LEMMA ClearedCases ==
  ASSUME Sound, ~stray, NEW r \in vector_resize(Cleared, initial_capacity)
  PROVE  /\ r.capacity \in Nat \ {0}
         /\ Whole(r.items, r.capacity)
         /\ r.ok \in BOOLEAN /\ (~r.ok => AllocMayFail)
         /\ r.ok => r.capacity = initial_capacity
  <1>1. /\ size \in Nat /\ capacity \in Nat \ {0}
        /\ initial_capacity \in Nat \ {0}
        /\ Whole(items, capacity)
    BY DEF Sound
  <1>2. Whole(Cleared, capacity)
    <2>1. CASE items \in [0 .. capacity - 1 -> Pointer]
      BY <1>1, <2>1 DEF Whole, Cleared, Pointer
    <2>2. CASE denied /\ DOMAIN items = {}
      BY <2>2 DEF Whole, Cleared
    <2> QED  BY <1>1, <2>1, <2>2 DEF Whole
  <1> DEFINE n == initial_capacity
  <1>3. n \in Int /\ Wanted(n) = n /\ n \in Nat \ {0}
    BY <1>1 DEF Wanted
  <1>4. \/ /\ n = capacity
           /\ r.items = Cleared /\ r.capacity = capacity /\ r.ok = TRUE
        \/ r.items = Resized(Cleared, n) /\ r.capacity = n /\ r.ok = TRUE
        \/ /\ AllocMayFail
           /\ r.items = Cleared /\ r.capacity = capacity /\ r.ok = FALSE
    <2>1. \/ /\ Wanted(n) = capacity
             /\ r.items = Cleared /\ r.capacity = capacity /\ r.ok = TRUE
          \/ /\ Wanted(n) # capacity
             /\ r.items = Resized(Cleared, Wanted(n)) /\ r.capacity = Wanted(n)
             /\ r.ok = TRUE
          \/ /\ AllocMayFail
             /\ r.items = Cleared /\ r.capacity = capacity /\ r.ok = FALSE
      <3>1. n \in Int
        BY <1>3
      <3> QED  BY <3>1, ResizeCases, Zenon
    <2> QED  BY <1>3, <2>1, Zenon
  <1>5. Resized(Cleared, n) \in [0 .. n - 1 -> Pointer]
    <2>1. CASE Cleared \in [0 .. capacity - 1 -> Pointer]
      BY <1>1, <1>3, <2>1, ResizedBlock
    <2>2. CASE DOMAIN Cleared = {}
      BY <1>3, <2>2, EmptyBlock
    <2> QED  BY <1>2, <2>1, <2>2 DEF Whole
  <1>6. CASE /\ n = capacity
             /\ r.items = Cleared /\ r.capacity = capacity /\ r.ok = TRUE
    BY <1>1, <1>2, <1>6
  <1>7. CASE r.items = Resized(Cleared, n) /\ r.capacity = n /\ r.ok = TRUE
    BY <1>3, <1>5, <1>7 DEF Whole
  <1>8. CASE /\ AllocMayFail
             /\ r.items = Cleared /\ r.capacity = capacity /\ r.ok = FALSE
    BY <1>1, <1>2, <1>8
  <1> QED  BY <1>4, <1>6, <1>7, <1>8

LEMMA ClearSound ==
  ASSUME Sound, ~stray, NEW r \in vector_resize(Cleared, initial_capacity),
         items' = r.items, capacity' = r.capacity, denied' = (denied \/ ~r.ok),
         size' = 0, UNCHANGED <<initial_capacity, stray>>
  PROVE  Sound'
  <1>1. /\ r.capacity \in Nat \ {0} /\ Whole(r.items, r.capacity)
        /\ r.ok \in BOOLEAN /\ (~r.ok => AllocMayFail)
    BY ClearedCases
  <1>2. /\ initial_capacity \in Nat \ {0}
        /\ denied \in BOOLEAN /\ (denied => AllocMayFail)
    BY DEF Sound
  <1>3. Whole(items, capacity)'
    BY <1>1 DEF Whole
  <1>4. /\ size' \in Nat /\ capacity' \in Nat \ {0}
        /\ initial_capacity' \in Nat \ {0}
        /\ 0 .. size' - 1 \subseteq DOMAIN items'
    BY <1>1, <1>2
  <1>5. /\ stray' \in BOOLEAN /\ denied' \in BOOLEAN
        /\ ~stray'
        /\ denied' => AllocMayFail
    <2>1. stray' = stray /\ stray \in BOOLEAN
      BY DEF Sound
    <2>2. ~stray'
      BY <2>1
    <2>3. denied' = (denied \/ ~r.ok) /\ denied' \in BOOLEAN
      BY <1>1, <1>2
    <2>4. denied' => AllocMayFail
      BY <1>1, <1>2, <2>3, Zenon
    <2> QED  BY <2>1, <2>2, <2>3, <2>4
  <1> QED  BY <1>3, <1>4, <1>5 DEF Sound

(* An item replaced in place.                                              *)
LEMMA SetSound ==
  ASSUME Sound, ~stray, NEW index \in 0 .. size - 1, NEW item \in Item,
         items' = [items EXCEPT ![index] = item],
         UNCHANGED <<initial_capacity, capacity, size, stray, denied>>
  PROVE  Sound'
  <1>1. size \in Nat \ {0} /\ capacity \in Nat \ {0}
    BY DEF Sound
  <1>2. items \in [0 .. capacity - 1 -> Pointer]
    BY <1>1, RoomForItems
  <1>3. items' \in [0 .. capacity - 1 -> Pointer] /\ DOMAIN items' = DOMAIN items
    BY <1>2 DEF Pointer
  <1> QED  BY <1>3 DEF Sound, Whole
-----------------------------------------------------------------------------
(***************************************************************************)
(* The calls, as what they do to the block.                                *)
(***************************************************************************)
Grows(op, r, index, item) ==
  /\ \/ op = "vector_add" /\ index = size
     \/ op = "vector_insert" /\ index \in 0 .. size - 1
  /\ Stored(op, r, index, item)

Deletes(r, index) ==
  /\ items' = r.items /\ capacity' = r.capacity /\ denied' = (denied \/ ~r.ok)
  /\ size' = size - 1
  /\ ret' = [op |-> "vector_delete", value |-> size - 1]
  /\ UNCHANGED <<initial_capacity, stray>>

Clears(r) ==
  /\ items' = r.items /\ capacity' = r.capacity /\ denied' = (denied \/ ~r.ok)
  /\ size' = 0
  /\ ret' = [op |-> "vector_clear", value |-> IF r.ok THEN r.capacity ELSE -1]
  /\ UNCHANGED <<initial_capacity, stray>>

Sets(index, item) ==
  /\ items' = [items EXCEPT ![index] = item]
  /\ ret' = [op |-> "vector_set", value |-> size]
  /\ UNCHANGED <<initial_capacity, capacity, size, stray, denied>>

(* Every step is one of these or leaves the vector alone.                  *)
LEMMA StepCases ==
  ASSUME Next, size \in Nat
  PROVE  /\ ~stray
         /\ \/ \E op \in {"vector_add", "vector_insert"}, r \in Grown,
                  index \in Nat, item \in Item : Grows(op, r, index, item)
            \/ \E index \in 0 .. size - 1 :
                  \E r \in Shrunk(Closed(index), size - 1) : Deletes(r, index)
            \/ \E r \in vector_resize(Cleared, initial_capacity) : Clears(r)
            \/ \E index \in 0 .. size - 1, item \in Item : Sets(index, item)
            \/ \E op \in {"vector_insert", "vector_set", "vector_get",
                          "vector_delete"} : \E value : Refuse(op, value)
  <1>1. ~stray
    BY DEF Next
  <1>2. CASE \E item \in Item : vector_add(item)
    <2>1. PICK item \in Item : vector_add(item)
      BY <1>2
    <2>2. PICK r \in Grown : Stored("vector_add", r, size, item)
      BY <2>1 DEF vector_add
    <2>3. Grows("vector_add", r, size, item)
      BY <2>2, Zenon DEF Grows
    <2> QED  BY <1>1, <2>3
  <1>3. CASE \E item \in Item, index \in Index : vector_insert(index, item)
    <2>1. PICK item \in Item, index \in Index : vector_insert(index, item)
      BY <1>3
    <2>2. CASE Refuse("vector_insert", -1)
      BY <1>1, <2>2
    <2>3. CASE Valid(index) /\ \E r \in Grown :
                                  Stored("vector_insert", r, index, item)
      <3>1. PICK r \in Grown : Stored("vector_insert", r, index, item)
        BY <2>3
      <3>2. index \in 0 .. size - 1 /\ index \in Nat
        BY <2>3 DEF Valid
      <3>3. Grows("vector_insert", r, index, item)
        BY <3>1, <3>2, Zenon DEF Grows
      <3> QED  BY <1>1, <3>2, <3>3
    <2> QED  BY <2>1, <2>2, <2>3 DEF vector_insert
  <1>4. CASE \E item \in Item, index \in Index : vector_set(index, item)
    <2>1. PICK item \in Item, index \in Index : vector_set(index, item)
      BY <1>4
    <2>2. CASE Refuse("vector_set", -1)
      BY <1>1, <2>2
    <2>3. CASE ~Refuse("vector_set", -1)
      <3>1. index \in 0 .. size - 1 /\ Sets(index, item)
        BY <2>1, <2>3 DEF vector_set, Valid, Sets, Return
      <3> QED  BY <1>1, <3>1
    <2> QED  BY <2>2, <2>3
  <1>5. CASE \E index \in Index : vector_get(index)
    <2>1. PICK index \in Index : vector_get(index)
      BY <1>5
    <2>2. \E value : Refuse("vector_get", value)
      BY <2>1, Zenon DEF vector_get
    <2> QED  BY <1>1, <2>2
  <1>6. CASE \E index \in Index : vector_delete(index)
    <2>1. PICK index \in Index : vector_delete(index)
      BY <1>6
    <2>2. CASE Refuse("vector_delete", -1)
      BY <1>1, <2>2
    <2>3. CASE ~Refuse("vector_delete", -1)
      <3>1. /\ index \in 0 .. size - 1
            /\ \E r \in Shrunk(Closed(index), size - 1) :
                  items' = r.items /\ capacity' = r.capacity
                    /\ denied' = (denied \/ ~r.ok)
            /\ size' = size - 1
            /\ ret' = [op |-> "vector_delete", value |-> size - 1]
            /\ UNCHANGED <<initial_capacity, stray>>
        BY <2>1, <2>3 DEF vector_delete, Valid, Return
      <3>2. PICK r \in Shrunk(Closed(index), size - 1) :
                  items' = r.items /\ capacity' = r.capacity
                    /\ denied' = (denied \/ ~r.ok)
        BY <3>1
      <3>3. Deletes(r, index)
        BY <3>1, <3>2, Zenon DEF Deletes
      <3> QED  BY <1>1, <3>1, <3>3
    <2> QED  BY <2>2, <2>3
  <1>7. CASE vector_clear
    <2>1. PICK r \in vector_resize(Cleared, initial_capacity) :
                /\ items' = r.items /\ capacity' = r.capacity
                /\ denied' = (denied \/ ~r.ok)
                /\ ret' = [op |-> "vector_clear",
                           value |-> IF r.ok THEN r.capacity ELSE -1]
      BY <1>7 DEF vector_clear, Cleared, Return
    <2>2. Clears(r)
      BY <1>7, <2>1 DEF Clears, vector_clear
    <2> QED  BY <1>1, <2>2
  <1> QED  BY <1>2, <1>3, <1>4, <1>5, <1>6, <1>7, Zenon DEF Next

LEMMA SoundInit == Init => Sound /\ ret.op \in Calls
  <1> SUFFICES ASSUME NEW c \in Capacities, vector_init(c)
               PROVE  Sound /\ ret.op \in Calls
    BY DEF Init
  <1>1. c \in Int
    BY CapacitiesAssumption
  <1>2. /\ initial_capacity \in Nat \ {0} /\ capacity = initial_capacity
        /\ size = 0 /\ stray = FALSE
        /\ denied = (DOMAIN items = {})
        /\ \/ items = [k \in 0 .. capacity - 1 |-> Junk]
           \/ AllocMayFail /\ items = [k \in {} |-> Junk]
        /\ ret = [op |-> "vector_init", value |-> 0]
    BY <1>1 DEF vector_init, InitialCapacity, VECTOR_INIT_CAPACITY
  <1>3. denied \in BOOLEAN
    BY <1>2
  <1>4. Whole(items, capacity) /\ (denied => AllocMayFail)
    <2>1. CASE items = [k \in 0 .. capacity - 1 |-> Junk]
      <3>1. items \in [0 .. capacity - 1 -> Pointer] /\ 0 \in DOMAIN items
        BY <1>2, <2>1 DEF Pointer
      <3> QED  BY <1>2, <3>1 DEF Whole
    <2>2. CASE AllocMayFail /\ items = [k \in {} |-> Junk]
      <3>1. DOMAIN items = {}
        BY <2>2
      <3> QED  BY <1>2, <2>2, <3>1 DEF Whole
    <2> QED  BY <1>2, <2>1, <2>2
  <1>5. 0 .. size - 1 \subseteq DOMAIN items
    BY <1>2
  <1>6. ret.op \in Calls
    BY <1>2 DEF Calls
  <1> QED  BY <1>2, <1>3, <1>4, <1>5, <1>6 DEF Sound

LEMMA SoundStep == Sound /\ [Next]_vars => Sound'
  <1> SUFFICES ASSUME Sound, [Next]_vars PROVE Sound'
    OBVIOUS
  <1>1. CASE Next
    <2>1. size \in Nat
      BY DEF Sound
    <2>2. ~stray
      BY <1>1, <2>1, StepCases
    <2>3. CASE \E op \in {"vector_add", "vector_insert"}, r \in Grown,
                  index \in Nat, item \in Item : Grows(op, r, index, item)
      BY <2>2, <2>3, StoredSound DEF Grows
    <2>4. CASE \E index \in 0 .. size - 1 :
                  \E r \in Shrunk(Closed(index), size - 1) : Deletes(r, index)
      BY <2>2, <2>4, DeleteSound DEF Deletes
    <2>5. CASE \E r \in vector_resize(Cleared, initial_capacity) : Clears(r)
      BY <2>2, <2>5, ClearSound DEF Clears
    <2>6. CASE \E index \in 0 .. size - 1, item \in Item : Sets(index, item)
      BY <2>2, <2>6, SetSound DEF Sets
    <2>7. CASE \E op \in {"vector_insert", "vector_set", "vector_get",
                          "vector_delete"} : \E value : Refuse(op, value)
      BY <2>7 DEF Refuse, Sound, Whole
    <2> QED  BY <1>1, <2>1, <2>3, <2>4, <2>5, <2>6, <2>7, StepCases
  <1>2. CASE UNCHANGED vars
    BY <1>2 DEF vars, Sound, Whole
  <1> QED  BY <1>1, <1>2

LEMMA ReturnedOp ==
  ASSUME Next, size \in Nat
  PROVE  ret'.op \in Calls
  <1>1. CASE \E op \in {"vector_add", "vector_insert"}, r \in Grown,
                  index \in Nat, item \in Item : Grows(op, r, index, item)
    BY <1>1 DEF Grows, Stored, Return, Calls
  <1>2. CASE \E index \in 0 .. size - 1 :
                  \E r \in Shrunk(Closed(index), size - 1) : Deletes(r, index)
    BY <1>2 DEF Deletes, Calls
  <1>3. CASE \E r \in vector_resize(Cleared, initial_capacity) : Clears(r)
    BY <1>3 DEF Clears, Calls
  <1>4. CASE \E index \in 0 .. size - 1, item \in Item : Sets(index, item)
    BY <1>4 DEF Sets, Calls
  <1>5. CASE \E op \in {"vector_insert", "vector_set", "vector_get",
                        "vector_delete"} : \E value : Refuse(op, value)
    BY <1>5 DEF Refuse, Return, Calls
  <1> QED  BY <1>1, <1>2, <1>3, <1>4, <1>5, StepCases

Typed == Sound /\ ret.op \in Calls

LEMMA TypedStep == Typed /\ [Next]_vars => Typed'
  <1> SUFFICES ASSUME Typed, [Next]_vars PROVE Typed'
    OBVIOUS
  <1>1. Sound' /\ size \in Nat
    BY SoundStep DEF Typed, Sound
  <1>2. ret'.op \in Calls
    BY <1>1, ReturnedOp DEF Typed, vars
  <1> QED  BY <1>1, <1>2 DEF Typed

(* Whatever is called in whatever order, the block is as long as capacity  *)
(* says, the items are in it, and a store past it happens only after an    *)
(* allocation has failed.                                                  *)
THEOREM VectorTypes == Metered => []TypeOK
  <1>1. Init_metered => Typed
    BY SoundInit DEF Init_metered, Typed
  <1>2. Typed /\ [Next_metered]_<<vars, calls, moved>> => Typed'
    BY TypedStep DEF Next_metered
  <1>3. Typed => TypeOK
    BY DEF Typed, Sound, Whole, TypeOK, Pointer
  <1> QED  BY <1>1, <1>2, <1>3, PTL DEF Metered
-----------------------------------------------------------------------------
(***************************************************************************)
(* What resizing costs while no allocation fails.                          *)
(***************************************************************************)

LEMMA SizeFits ==
  ASSUME Sound, ~denied
  PROVE  ~stray /\ size \in Nat /\ capacity \in Nat \ {0} /\ size <= capacity
         /\ initial_capacity \in Nat \ {0}
  <1>1. ~stray /\ size \in Nat /\ capacity \in Nat \ {0}
        /\ initial_capacity \in Nat \ {0}
    BY DEF Sound
  <1> QED  BY <1>1, RoomForItems

\* The calls, as what they do to size and capacity.
Adds     == size' = size + 1 /\ capacity # size /\ capacity' = capacity
Doubles  == size' = size + 1 /\ capacity = size /\ capacity' = capacity * 2
Removes  == /\ size' = size - 1 /\ size > 0 /\ ~ShrinksAt(size - 1)
            /\ capacity' = capacity
Halves   == /\ size' = size - 1 /\ size > 0 /\ ShrinksAt(size - 1)
            /\ capacity' = capacity \div 2
Restarts == size' = 0 /\ capacity' = initial_capacity

(* Each call does one of these as long as memory lasts.                    *)
LEMMA ShapeCases ==
  ASSUME Sound, Next, ~denied'
  PROVE  /\ ~denied
         /\ initial_capacity' = initial_capacity
         /\ \/ (Adds \/ Doubles \/ Removes \/ Halves) /\ ret'.op # "vector_clear"
            \/ Restarts /\ ret'.op = "vector_clear"
            \/ UNCHANGED <<size, capacity>>
  <1>1. size \in Nat /\ denied \in BOOLEAN
    BY DEF Sound
  <1>2. ~stray
    BY <1>1, StepCases
  <1>3. CASE \E op \in {"vector_add", "vector_insert"}, r \in Grown,
                index \in Nat, item \in Item : Grows(op, r, index, item)
    <2>1. PICK op \in {"vector_add", "vector_insert"}, r \in Grown,
               index \in Nat, item \in Item : Grows(op, r, index, item)
      BY <1>3
    <2>2. /\ capacity' = r.capacity /\ size' = size + 1
          /\ denied' = (denied \/ ~r.ok)
          /\ ret'.op = op /\ initial_capacity' = initial_capacity
      BY <2>1 DEF Grows, Stored, Return
    <2>3. ~denied /\ r.ok
      BY <2>2, Zenon
    <2>4. \/ capacity # size /\ r.capacity = capacity
          \/ capacity = size /\ r.capacity = capacity * 2
      BY <1>2, <2>3, GrownCases
    <2>5. op # "vector_clear"
      BY <2>1
    <2> QED  BY <2>2, <2>3, <2>4, <2>5 DEF Adds, Doubles
  <1>4. CASE \E index \in 0 .. size - 1 :
                \E r \in Shrunk(Closed(index), size - 1) : Deletes(r, index)
    <2>1. PICK index \in 0 .. size - 1 :
                \E r \in Shrunk(Closed(index), size - 1) : Deletes(r, index)
      BY <1>4
    <2>2. PICK r \in Shrunk(Closed(index), size - 1) : Deletes(r, index)
      BY <2>1
    <2>3. /\ capacity' = r.capacity /\ size' = size - 1 /\ size > 0
          /\ denied' = (denied \/ ~r.ok)
          /\ ret'.op = "vector_delete" /\ initial_capacity' = initial_capacity
      BY <1>1, <2>2 DEF Deletes
    <2>4. ~denied /\ r.ok
      BY <2>3, Zenon
    <2>5. \/ ~ShrinksAt(size - 1) /\ r.capacity = capacity
          \/ ShrinksAt(size - 1) /\ r.capacity = capacity \div 2
      BY <1>2, <2>4, ShrunkCases
    <2> QED  BY <2>3, <2>4, <2>5 DEF Removes, Halves
  <1>5. CASE \E r \in vector_resize(Cleared, initial_capacity) : Clears(r)
    <2>1. PICK r \in vector_resize(Cleared, initial_capacity) : Clears(r)
      BY <1>5
    <2>2. /\ capacity' = r.capacity /\ size' = 0
          /\ denied' = (denied \/ ~r.ok)
          /\ ret'.op = "vector_clear" /\ initial_capacity' = initial_capacity
      BY <2>1 DEF Clears
    <2>3. ~denied /\ r.ok
      BY <2>2, Zenon
    <2>4. r.capacity = initial_capacity
      BY <1>2, <2>3, ClearedCases
    <2> QED  BY <2>2, <2>3, <2>4 DEF Restarts
  <1>6. CASE \E index \in 0 .. size - 1, item \in Item : Sets(index, item)
    BY <1>1, <1>6 DEF Sets
  <1>7. CASE \E op \in {"vector_insert", "vector_set", "vector_get",
                        "vector_delete"} : \E value : Refuse(op, value)
    BY <1>1, <1>7 DEF Refuse
  <1> QED  BY <1>1, <1>3, <1>4, <1>5, <1>6, <1>7, StepCases

CapacityInv ==
  Typed /\ CapacityTracksSize

LEMMA CapacityStep == CapacityInv /\ [Next]_vars => CapacityInv'
  <1> SUFFICES ASSUME CapacityInv, [Next]_vars PROVE CapacityInv'
    OBVIOUS
  <1>1. Typed' /\ Typed /\ Sound /\ denied \in BOOLEAN
    BY TypedStep DEF CapacityInv, Typed, Sound
  <1>2. CASE Next /\ ~denied'
    <2>1. /\ ~denied
          /\ initial_capacity' = initial_capacity
          /\ Adds \/ Doubles \/ Removes \/ Halves \/ Restarts
               \/ UNCHANGED <<size, capacity>>
      BY <1>1, <1>2, ShapeCases
    <2>2. /\ size \in Nat /\ capacity \in Nat \ {0} /\ size <= capacity
          /\ initial_capacity \in Nat \ {0}
      BY <1>1, <2>1, SizeFits
    <2>3. \/ capacity <= initial_capacity
          \/ capacity <= 3
          \/ capacity \div 4 < size
      BY <2>1 DEF CapacityInv, CapacityTracksSize
    <2>4. ~stray'
      BY <1>1, <1>2 DEF Typed, Sound
    <2>5. \/ capacity' <= initial_capacity
          \/ capacity' <= 3
          \/ capacity' \div 4 < size'
      BY <2>1, <2>2, <2>3 DEF Adds, Doubles, Removes, Halves, Restarts, ShrinksAt
    <2> QED  BY <1>1, <2>1, <2>4, <2>5 DEF CapacityInv, CapacityTracksSize
  <1>3. CASE denied'
    BY <1>1, <1>3, Zenon DEF CapacityInv, CapacityTracksSize
  <1>4. CASE UNCHANGED vars
    BY <1>1, <1>4 DEF CapacityInv, CapacityTracksSize, vars
  <1> QED  BY <1>2, <1>3, <1>4

(* A vector that has shed its items gives its memory back, for every       *)
(* initial capacity and every sequence of calls.                           *)
THEOREM CapacityFollows == Metered => []CapacityTracksSize
  <1>1. Init_metered => CapacityInv
    <2> SUFFICES ASSUME Init_metered PROVE CapacityInv
      OBVIOUS
    <2>1. Typed /\ Sound
      BY SoundInit DEF Init_metered, Typed
    <2>2. stray = FALSE /\ capacity = initial_capacity
      BY DEF Init_metered, Init, vector_init
    <2> QED  BY <2>1, <2>2 DEF CapacityInv, CapacityTracksSize, Sound
  <1>2. CapacityInv /\ [Next_metered]_<<vars, calls, moved>> => CapacityInv'
    BY CapacityStep DEF Next_metered
  <1>3. CapacityInv => CapacityTracksSize
    BY DEF CapacityInv
  <1> QED  BY <1>1, <1>2, <1>3, PTL DEF Metered

(***************************************************************************)
(* The bank: every call pays in two moves and realloc() takes out what it  *)
(* carries over.  A full block has saved enough to double, a block about   *)
(* to be a quarter full enough to halve.                                   *)
(***************************************************************************)
Saved(bank, s, c) ==
  /\ bank >= 0
  /\ bank >= 2 * s - c
  /\ s > c \div 4 => bank >= c \div 2 - 2 * (s - c \div 4)
  /\ s <= c \div 4 => bank >= 2 * s

CostInv ==
  /\ Typed
  /\ calls \in Nat /\ moved \in Nat
  /\ ~denied => Saved(2 * calls - moved, size, capacity)

LEMMA SavedByAdd ==
  ASSUME NEW b \in Int, NEW s \in Nat, NEW c \in Nat \ {0}, s < c, Saved(b, s, c)
  PROVE  Saved(b + 2, s + 1, c)
  BY DEF Saved

LEMMA SavedByDouble ==
  ASSUME NEW b \in Int, NEW c \in Nat \ {0}, Saved(b, c, c)
  PROVE  Saved(b + 2 - c, c + 1, c * 2)
  BY DEF Saved

LEMMA SavedByRemove ==
  ASSUME NEW b \in Int, NEW s \in Nat \ {0}, NEW c \in Nat \ {0}, s <= c,
         Saved(b, s, c), ~(s - 1 > 0 /\ s - 1 = c \div 4)
  PROVE  Saved(b + 2, s - 1, c)
  BY DEF Saved

LEMMA SavedByHalve ==
  ASSUME NEW b \in Int, NEW s \in Nat \ {0}, NEW c \in Nat \ {0}, s <= c,
         Saved(b, s, c), s - 1 > 0, s - 1 = c \div 4
  PROVE  Saved(b + 2 - c \div 2, s - 1, c \div 2)
  BY DEF Saved

LEMMA SavedAtRestart ==
  ASSUME NEW b \in Int, NEW s, NEW c, NEW i \in Nat \ {0}, Saved(b, s, c)
  PROVE  Saved(b, 0, i)
  BY DEF Saved

LEMMA CostStep ==
  CostInv /\ [Next_metered]_<<vars, calls, moved>> => CostInv'
  <1> SUFFICES ASSUME CostInv, [Next_metered]_<<vars, calls, moved>>
               PROVE  CostInv'
    OBVIOUS
  <1> DEFINE bank == 2 * calls - moved
  <1>1. CASE Next_metered
    <2>1. /\ Typed' /\ Typed /\ Sound /\ Next
          /\ calls \in Nat /\ moved \in Nat /\ bank \in Int
          /\ size \in Nat /\ capacity \in Nat \ {0}
          /\ capacity' \in Nat \ {0} /\ initial_capacity \in Nat \ {0}
      <3>1. Next /\ Typed /\ Sound /\ calls \in Nat /\ moved \in Nat
        BY <1>1 DEF Next_metered, CostInv, Typed
      <3>2. Typed'
        BY <3>1, TypedStep
      <3>3. bank \in Int
        BY <3>1
      <3>4. /\ size \in Nat /\ capacity \in Nat \ {0}
            /\ initial_capacity \in Nat \ {0}
        BY <3>1 DEF Sound
      <3>5. capacity' \in Nat \ {0}
        BY <3>2 DEF Typed, Sound
      <3> QED  BY <3>1, <3>2, <3>3, <3>4, <3>5
    <2>2. /\ calls' = calls + (IF size' # size /\ ret'.op # "vector_clear"
                                 THEN 1 ELSE 0)
          /\ moved' = moved + (IF capacity' # capacity /\ ret'.op # "vector_clear"
                                 THEN Least(capacity, capacity') ELSE 0)
      BY <1>1 DEF Next_metered
    <2>3. calls' \in Nat /\ moved' \in Nat
      <3>1. Least(capacity, capacity') \in Nat
        BY <2>1 DEF Least
      <3> QED  BY <2>1, <2>2, <3>1
    <2>4. ASSUME ~denied' PROVE Saved(bank, size, capacity)'
      <3>1. /\ ~denied
            /\ \/ (Adds \/ Doubles \/ Removes \/ Halves) /\ ret'.op # "vector_clear"
               \/ Restarts /\ ret'.op = "vector_clear"
               \/ UNCHANGED <<size, capacity>>
        BY <2>1, <2>4, ShapeCases
      <3>2. Saved(bank, size, capacity) /\ size <= capacity
        BY <2>1, <3>1, SizeFits DEF CostInv
      <3> HIDE DEF bank
      <3>3. CASE Adds /\ ret'.op # "vector_clear"
        <4>1. calls' = calls + 1 /\ moved' = moved /\ size < capacity
          BY <2>1, <2>2, <3>2, <3>3 DEF Adds
        <4>2. bank' = bank + 2
          BY <2>1, <4>1 DEF bank
        <4>3. Saved(bank + 2, size + 1, capacity)
          BY <2>1, <3>2, <4>1, SavedByAdd
        <4> QED  BY <3>3, <4>2, <4>3, Zenon DEF Adds
      <3>4. CASE Doubles /\ ret'.op # "vector_clear"
        <4>1. calls' = calls + 1 /\ moved' = moved + capacity
          BY <2>1, <2>2, <3>4 DEF Doubles, Least
        <4>2. bank' = bank + 2 - capacity
          BY <2>1, <4>1 DEF bank
        <4>3. capacity = size /\ size' = size + 1 /\ capacity' = capacity * 2
          BY <3>4 DEF Doubles
        <4>4. Saved(bank, capacity, capacity)
          BY <3>2, <4>3, Zenon
        <4>5. Saved(bank + 2 - capacity, capacity + 1, capacity * 2)
          BY <2>1, <4>4, SavedByDouble
        <4> QED  BY <4>2, <4>3, <4>5, Zenon
      <3>5. CASE Removes /\ ret'.op # "vector_clear"
        <4>1. calls' = calls + 1 /\ moved' = moved
          BY <2>1, <2>2, <3>5 DEF Removes
        <4>2. bank' = bank + 2
          BY <2>1, <4>1 DEF bank
        <4>3. Saved(bank + 2, size - 1, capacity)
          BY <2>1, <3>2, <3>5, SavedByRemove DEF Removes, ShrinksAt
        <4> QED  BY <3>5, <4>2, <4>3, Zenon DEF Removes
      <3>6. CASE Halves /\ ret'.op # "vector_clear"
        <4>1. /\ size - 1 > 0 /\ size - 1 = capacity \div 4
              /\ size' = size - 1 /\ capacity' = capacity \div 2
              /\ capacity \div 2 < capacity
          BY <2>1, <3>6 DEF Halves, ShrinksAt
        <4>2. calls' = calls + 1 /\ moved' = moved + capacity \div 2
          BY <2>1, <2>2, <3>6, <4>1 DEF Least
        <4>3. bank' = bank + 2 - capacity \div 2
          BY <2>1, <4>2 DEF bank
        <4>4. Saved(bank + 2 - capacity \div 2, size - 1, capacity \div 2)
          BY <2>1, <3>2, <4>1, SavedByHalve
        <4> QED  BY <4>1, <4>3, <4>4, Zenon
      <3>7. CASE Restarts /\ ret'.op = "vector_clear"
        <4>1. calls' = calls /\ moved' = moved
          BY <2>1, <2>2, <3>7
        <4>2. bank' = bank
          BY <4>1 DEF bank
        <4>3. Saved(bank, 0, initial_capacity)
          BY <2>1, <3>2, SavedAtRestart
        <4> QED  BY <3>7, <4>2, <4>3, Zenon DEF Restarts
      <3>8. CASE UNCHANGED <<size, capacity>>
        <4>1. calls' = calls /\ moved' = moved
          BY <2>1, <2>2, <3>8
        <4>2. bank' = bank
          BY <4>1 DEF bank
        <4> QED  BY <3>2, <3>8, <4>2, Zenon
      <3> QED  BY <3>1, <3>3, <3>4, <3>5, <3>6, <3>7, <3>8
    <2> QED  BY <2>1, <2>3, <2>4 DEF CostInv
  <1>2. CASE UNCHANGED <<vars, calls, moved>>
    <2>1. Typed'
      BY <1>2, TypedStep DEF CostInv
    <2> QED  BY <1>2, <2>1 DEF CostInv, vars
  <1> QED  BY <1>1, <1>2

(* On average realloc() carries at most two pointers for every add, insert *)
(* or delete, whatever the sequence of calls and the initial capacity.     *)
THEOREM AmortizedCost == Metered => []AmortizedConstant
  <1>1. Init_metered => CostInv
    <2> SUFFICES ASSUME Init_metered PROVE CostInv
      OBVIOUS
    <2>1. Typed /\ Sound
      BY SoundInit DEF Init_metered, Typed
    <2>2. size = 0 /\ calls = 0 /\ moved = 0
      BY DEF Init_metered, Init, vector_init
    <2>3. Saved(2 * calls - moved, size, capacity)
      BY <2>1, <2>2 DEF Saved, Sound
    <2> QED  BY <2>1, <2>2, <2>3 DEF CostInv
  <1>2. CostInv => AmortizedConstant
    <2> SUFFICES ASSUME CostInv, ~denied PROVE moved <= 2 * calls
      BY DEF AmortizedConstant
    <2> QED  BY DEF CostInv, Saved
  <1> QED  BY <1>1, <1>2, CostStep, PTL DEF Metered
-----------------------------------------------------------------------------
(***************************************************************************)
(* The pointers in the block are the list.                                 *)
(***************************************************************************)

LEMMA SameSeq ==
  ASSUME NEW s \in Seq(Pointer), NEW t \in Seq(Pointer), Len(s) = Len(t),
         \A k \in 1 .. Len(s) : s[k] = t[k]
  PROVE  s = t
  OBVIOUS

LEMMA AppendAt ==
  ASSUME NEW s \in Seq(Pointer), NEW e \in Pointer
  PROVE  /\ Append(s, e) \in Seq(Pointer) /\ Len(Append(s, e)) = Len(s) + 1
         /\ \A k \in 1 .. Len(s) + 1 :
               Append(s, e)[k] = IF k = Len(s) + 1 THEN e ELSE s[k]
  OBVIOUS

LEMMA FrontOf ==
  ASSUME NEW s \in Seq(Pointer), NEW n \in 0 .. Len(s)
  PROVE  /\ SubSeq(s, 1, n) \in Seq(Pointer) /\ Len(SubSeq(s, 1, n)) = n
         /\ \A k \in 1 .. n : SubSeq(s, 1, n)[k] = s[k]
  OBVIOUS

LEMMA BackOf ==
  ASSUME NEW s \in Seq(Pointer), NEW i \in 1 .. Len(s) + 1
  PROVE  /\ SubSeq(s, i, Len(s)) \in Seq(Pointer)
         /\ Len(SubSeq(s, i, Len(s))) = Len(s) + 1 - i
         /\ \A k \in 1 .. Len(s) + 1 - i : SubSeq(s, i, Len(s))[k] = s[k + i - 1]
  OBVIOUS

LEMMA Joined ==
  ASSUME NEW s \in Seq(Pointer), NEW t \in Seq(Pointer)
  PROVE  /\ s \o t \in Seq(Pointer) /\ Len(s \o t) = Len(s) + Len(t)
         /\ \A k \in 1 .. Len(s) + Len(t) :
               (s \o t)[k] = IF k <= Len(s) THEN s[k] ELSE t[k - Len(s)]
  OBVIOUS

(* An item inserted at i moves those from i on up by one.                  *)
LEMMA InsertedAt ==
  ASSUME NEW s \in Seq(Pointer), NEW i \in 1 .. Len(s), NEW e \in Pointer
  PROVE  LET t == List!InsertAt(s, i, e)
         IN  /\ t \in Seq(Pointer) /\ Len(t) = Len(s) + 1
             /\ \A k \in 1 .. Len(s) + 1 :
                   t[k] = IF k < i THEN s[k] ELSE IF k = i THEN e ELSE s[k - 1]
  <1> DEFINE f == SubSeq(s, 1, i - 1)
             g == <<e>>
             b == SubSeq(s, i, Len(s))
             fg == f \o g
  <1>1. i - 1 \in 0 .. Len(s) /\ i \in 1 .. Len(s) + 1 /\ Len(s) \in Nat
    OBVIOUS
  <1>2. /\ f \in Seq(Pointer) /\ Len(f) = i - 1
        /\ \A k \in 1 .. i - 1 : f[k] = s[k]
    BY <1>1, FrontOf
  <1>3. g \in Seq(Pointer) /\ Len(g) = 1 /\ g[1] = e
    OBVIOUS
  <1>4. /\ b \in Seq(Pointer) /\ Len(b) = Len(s) + 1 - i
        /\ \A k \in 1 .. Len(s) + 1 - i : b[k] = s[k + i - 1]
    BY <1>1, BackOf
  <1>5. List!InsertAt(s, i, e) = fg \o b
    BY DEF List!InsertAt
  <1> HIDE DEF f, g, b
  <1>6. /\ fg \in Seq(Pointer) /\ Len(fg) = Len(f) + Len(g)
        /\ \A k \in 1 .. Len(f) + Len(g) :
              fg[k] = IF k <= Len(f) THEN f[k] ELSE g[k - Len(f)]
    BY <1>2, <1>3, Joined
  <1> HIDE DEF fg
  <1>7. /\ fg \o b \in Seq(Pointer) /\ Len(fg \o b) = Len(fg) + Len(b)
        /\ \A k \in 1 .. Len(fg) + Len(b) :
              (fg \o b)[k] = IF k <= Len(fg) THEN fg[k] ELSE b[k - Len(fg)]
    BY <1>4, <1>6, Joined
  <1>8. Len(fg) = i /\ Len(fg) + Len(b) = Len(s) + 1
    BY <1>1, <1>2, <1>3, <1>4, <1>6
  <1>9. ASSUME NEW k \in 1 .. Len(s) + 1
        PROVE  (fg \o b)[k]
                 = IF k < i THEN s[k] ELSE IF k = i THEN e ELSE s[k - 1]
    <2>1. (fg \o b)[k] = IF k <= i THEN fg[k] ELSE b[k - i]
      BY <1>7, <1>8
    <2>2. CASE k < i
      <3>1. k \in 1 .. i - 1 /\ k \in 1 .. Len(f) + Len(g) /\ k <= Len(f) /\ k <= i
        BY <1>1, <1>2, <1>3, <2>2
      <3>2. fg[k] = f[k] /\ f[k] = s[k]
        BY <1>2, <1>6, <3>1
      <3> QED  BY <2>1, <2>2, <3>1, <3>2
    <2>3. CASE k = i
      <3>1. k \in 1 .. Len(f) + Len(g) /\ ~(k <= Len(f)) /\ k - Len(f) = 1
        BY <1>1, <1>2, <1>3, <2>3
      <3>2. fg[k] = g[1]
        BY <1>6, <3>1
      <3> QED  BY <1>3, <2>1, <2>3, <3>2
    <2>4. CASE k > i
      <3>1. k - i \in 1 .. Len(s) + 1 - i /\ (k - i) + i - 1 = k - 1
        BY <1>1, <2>4
      <3>2. b[k - i] = s[k - 1]
        BY <1>4, <3>1
      <3>3. ~(k <= i) /\ ~(k < i) /\ k # i
        BY <1>1, <2>4
      <3> QED  BY <2>1, <3>2, <3>3, Zenon
    <2>5. k < i \/ k = i \/ k > i
      BY <1>1
    <2> QED  BY <2>2, <2>3, <2>4, <2>5, Zenon
  <1> QED  BY <1>5, <1>7, <1>8, <1>9

(* An item removed at i moves those behind it down by one.                 *)
LEMMA RemovedAt ==
  ASSUME NEW s \in Seq(Pointer), NEW i \in 1 .. Len(s)
  PROVE  LET t == List!RemoveAt(s, i)
         IN  /\ t \in Seq(Pointer) /\ Len(t) = Len(s) - 1
             /\ \A k \in 1 .. Len(s) - 1 :
                   t[k] = IF k < i THEN s[k] ELSE s[k + 1]
  <1> DEFINE f == SubSeq(s, 1, i - 1)
             b == SubSeq(s, i + 1, Len(s))
  <1>1. i - 1 \in 0 .. Len(s) /\ i + 1 \in 1 .. Len(s) + 1 /\ Len(s) \in Nat
    OBVIOUS
  <1>2. /\ f \in Seq(Pointer) /\ Len(f) = i - 1
        /\ \A k \in 1 .. i - 1 : f[k] = s[k]
    BY <1>1, FrontOf
  <1>3. /\ b \in Seq(Pointer) /\ Len(b) = Len(s) + 1 - (i + 1)
        /\ \A k \in 1 .. Len(s) + 1 - (i + 1) : b[k] = s[k + (i + 1) - 1]
    BY <1>1, BackOf
  <1>4. List!RemoveAt(s, i) = f \o b
    BY DEF List!RemoveAt
  <1> HIDE DEF f, b
  <1>5. /\ f \o b \in Seq(Pointer) /\ Len(f \o b) = Len(f) + Len(b)
        /\ \A k \in 1 .. Len(f) + Len(b) :
              (f \o b)[k] = IF k <= Len(f) THEN f[k] ELSE b[k - Len(f)]
    BY <1>2, <1>3, Joined
  <1>6. Len(f) + Len(b) = Len(s) - 1
    BY <1>1, <1>2, <1>3
  <1>7. ASSUME NEW k \in 1 .. Len(s) - 1
        PROVE  (f \o b)[k] = IF k < i THEN s[k] ELSE s[k + 1]
    <2>1. (f \o b)[k] = IF k <= i - 1 THEN f[k] ELSE b[k - (i - 1)]
      BY <1>2, <1>5, <1>6
    <2>2. CASE k < i
      <3>1. k \in 1 .. i - 1 /\ k <= i - 1
        BY <1>1, <2>2
      <3> QED  BY <1>2, <2>1, <2>2, <3>1
    <2>3. CASE ~(k < i)
      <3>1. /\ k - (i - 1) \in 1 .. Len(s) + 1 - (i + 1)
            /\ (k - (i - 1)) + (i + 1) - 1 = k + 1
            /\ ~(k <= i - 1)
        BY <1>1, <2>3
      <3>2. b[k - (i - 1)] = s[k + 1]
        BY <1>3, <3>1
      <3> QED  BY <2>1, <2>3, <3>1, <3>2
    <2> QED  BY <2>2, <2>3
  <1> QED  BY <1>4, <1>5, <1>6, <1>7

(* The list as the block holds it.                                         *)
LEMMA ContentsOf ==
  ASSUME Sound, ~stray
  PROVE  /\ Contents \in Seq(Pointer) /\ Len(Contents) = size
         /\ \A k \in 1 .. size : Contents[k] = items[k - 1]
  <1> DEFINE s == [k \in 1 .. size |-> items[k - 1]]
  <1>1. size \in Nat /\ capacity \in Nat \ {0} /\ Contents = s
    BY DEF Sound, Contents
  <1>2. \A k \in 1 .. size : items[k - 1] \in Pointer
    <2>1. CASE DOMAIN items = {}
      BY <2>1, RoomForItems
    <2>2. CASE DOMAIN items # {}
      <3>1. items \in [0 .. capacity - 1 -> Pointer] /\ size <= capacity
        BY <2>2, RoomForItems
      <3> QED  BY <1>1, <3>1
    <2> QED  BY <2>1, <2>2
  <1>3. s \in Seq(Pointer) /\ Len(s) = size
    BY <1>1, <1>2
  <1> QED  BY <1>1, <1>3

ContentsHeld ==
  Sound /\ ~stray
    => /\ Contents \in Seq(Pointer) /\ Len(Contents) = size
       /\ \A k \in 1 .. size : Contents[k] = items[k - 1]

LEMMA ContentsAlways == ContentsHeld
  BY ContentsOf DEF ContentsHeld

LEMMA ContentsNextHeld == ContentsHeld'
  BY ContentsAlways, PTL

LEMMA ContentsNext ==
  ASSUME Sound', ~stray'
  PROVE  /\ Contents' \in Seq(Pointer) /\ Len(Contents') = size'
         /\ \A k \in 1 .. size' : Contents'[k] = items'[k - 1]
  BY ContentsNextHeld DEF ContentsHeld

(* The block after adding or inserting.                                    *)
LEMMA StoredContents ==
  ASSUME Sound, ~stray, NEW op, NEW r \in Grown, NEW index \in 0 .. size,
         NEW item \in Item, Stored(op, r, index, item), ~stray'
  PROVE  /\ Contents' \in Seq(Pointer) /\ Len(Contents') = size + 1
         /\ \A k \in 1 .. size + 1 :
               Contents'[k] = IF k - 1 = index THEN item
                              ELSE IF index < k - 1 THEN Contents[k - 1]
                              ELSE Contents[k]
  <1>1. /\ size \in Nat
        /\ \A k \in 0 .. size - 1 : k \in DOMAIN r.items /\ r.items[k] = items[k]
    BY GrownCases DEF Sound
  <1>2. /\ items' = Opened(r.items, index, item)
        /\ size' = size + 1
        /\ stray' = (size \notin DOMAIN r.items)
    BY Zenon DEF Stored, Opened
  <1>3. size \in DOMAIN r.items
    BY <1>2, Zenon
  <1>4. Sound' /\ index \in Nat
    BY <1>1, StoredSound
  <1>5. /\ Contents' \in Seq(Pointer) /\ Len(Contents') = size'
        /\ \A k \in 1 .. size' : Contents'[k] = items'[k - 1]
    BY <1>4, ContentsNext
  <1>6. \A k \in 1 .. size : Contents[k] = items[k - 1]
    BY ContentsOf
  <1>7. ASSUME NEW k \in 1 .. size + 1
        PROVE  items'[k - 1] = IF k - 1 = index THEN item
                               ELSE IF index < k - 1 THEN Contents[k - 1]
                               ELSE Contents[k]
    <2>1. k - 1 \in DOMAIN r.items
      <3>1. k - 1 \in 0 .. size - 1 \/ k - 1 = size
        BY <1>1
      <3> QED  BY <1>1, <1>3, <3>1, Zenon
    <2>2. items'[k - 1] = IF k - 1 = index THEN item
                          ELSE IF index < k - 1 /\ k - 1 <= size
                                 THEN r.items[k - 1 - 1]
                          ELSE r.items[k - 1]
      BY <1>2, <2>1 DEF Opened
    <2>3. CASE k - 1 = index
      BY <2>2, <2>3
    <2>4. CASE index < k - 1
      <3>1. /\ k - 1 <= size /\ k - 1 # index
            /\ k - 1 - 1 \in 0 .. size - 1 /\ k - 1 \in 1 .. size
        BY <1>1, <2>4
      <3>2. items'[k - 1] = r.items[k - 1 - 1]
        BY <2>2, <2>4, <3>1
      <3>3. r.items[k - 1 - 1] = items[k - 1 - 1]
        BY <1>1, <3>1
      <3>4. Contents[k - 1] = items[k - 1 - 1]
        BY <1>6, <3>1
      <3> QED  BY <2>4, <3>1, <3>2, <3>3, <3>4, Zenon
    <2>5. CASE ~(index < k - 1) /\ k - 1 # index
      <3>1. k - 1 \in 0 .. size - 1 /\ k \in 1 .. size
        BY <1>1, <2>5
      <3>2. items'[k - 1] = r.items[k - 1]
        BY <2>2, <2>5
      <3> QED  BY <1>1, <1>6, <2>5, <3>1, <3>2
    <2> QED  BY <2>3, <2>4, <2>5
  <1>8. \A k \in 1 .. size + 1 : Contents'[k] = items'[k - 1]
    BY <1>1, <1>2, <1>5
  <1>9. Len(Contents') = size + 1
    BY <1>2, <1>5
  <1> QED  BY <1>5, <1>7, <1>8, <1>9

(* The block after a deletion.                                             *)
LEMMA DeletedContents ==
  ASSUME Sound, ~stray, NEW index \in 0 .. size - 1,
         NEW r \in Shrunk(Closed(index), size - 1), Deletes(r, index)
  PROVE  /\ Contents' \in Seq(Pointer) /\ Len(Contents') = size - 1
         /\ \A k \in 1 .. size - 1 :
               Contents'[k] = IF k < index + 1 THEN Contents[k]
                              ELSE Contents[k + 1]
  <1>1. size \in Nat \ {0} /\ stray \in BOOLEAN /\ capacity \in Nat \ {0}
    BY DEF Sound
  <1>2. /\ items' = r.items /\ size' = size - 1 /\ stray' = stray
    BY DEF Deletes
  <1>3. Sound'
    BY DeleteSound DEF Deletes
  <1>4. ~stray'
    BY <1>1, <1>2
  <1>5. /\ Contents' \in Seq(Pointer) /\ Len(Contents') = size'
        /\ \A k \in 1 .. size' : Contents'[k] = items'[k - 1]
    BY <1>3, <1>4, ContentsNext
  <1>6. \A k \in 1 .. size : Contents[k] = items[k - 1]
    BY ContentsOf
  <1>7. \A k \in 0 .. size - 2 : r.items[k] = Closed(index)[k]
    BY ShrunkCases
  <1>8. items \in [0 .. capacity - 1 -> Pointer] /\ size <= capacity
    BY <1>1, RoomForItems
  <1>9. ASSUME NEW k \in 1 .. size - 1
        PROVE  Contents'[k] = IF k < index + 1 THEN Contents[k]
                              ELSE Contents[k + 1]
    <2>1. k - 1 \in 0 .. size - 2 /\ k - 1 \in 0 .. capacity - 1
          /\ k \in 1 .. size' /\ k - 1 < size - 1 /\ k - 1 # size - 1
          /\ k \in 1 .. size /\ k + 1 \in 1 .. size /\ k + 1 - 1 = k - 1 + 1
      BY <1>1, <1>2, <1>8
    <2>2. Contents'[k] = Closed(index)[k - 1]
      BY <1>2, <1>5, <1>7, <2>1
    <2>3. Closed(index)[k - 1] = IF index <= k - 1 THEN items[k - 1 + 1]
                                 ELSE items[k - 1]
      BY <1>8, <2>1 DEF Closed
    <2>4. CASE k < index + 1
      BY <1>1, <1>6, <2>1, <2>2, <2>3, <2>4
    <2>5. CASE ~(k < index + 1)
      <3>1. index <= k - 1
        BY <2>5
      <3>2. Contents[k + 1] = items[k - 1 + 1]
        BY <1>6, <2>1
      <3> QED  BY <2>2, <2>3, <2>5, <3>1, <3>2, Zenon
    <2> QED  BY <2>4, <2>5
  <1> QED  BY <1>2, <1>5, <1>9

LEMMA ListInit == Init => List!Init
  <1> SUFFICES ASSUME Init PROVE List!Init
    OBVIOUS
  <1>1. /\ size = 0 /\ stray = FALSE
        /\ ret = [op |-> "vector_init", value |-> 0]
    BY DEF Init, vector_init
  <1>2. Sound /\ ~stray
    BY <1>1, SoundInit
  <1>3. Contents \in Seq(Pointer) /\ Len(Contents) = 0
    BY <1>1, <1>2, ContentsOf
  <1>4. Contents = <<>>
    BY <1>3
  <1> QED  BY <1>1, <1>4 DEF List!Init

(* Every call does to the list what the abstract call does.                *)
LEMMA ListStep ==
  ASSUME Sound, Next
  PROVE  List!Next
  <1>1. /\ ~stray /\ stray \in BOOLEAN /\ size \in Nat
        /\ Contents \in Seq(Pointer) /\ Len(Contents) = size
        /\ \A k \in 1 .. size : Contents[k] = items[k - 1]
    BY ContentsOf DEF Next, Sound
  <1>2. Sound'
    BY SoundStep
  <1> USE DEF Pointer
  <1>3. ASSUME NEW op, NEW value, Refuse(op, value)
        PROVE  List!Refuse(op, value)
    BY <1>1, <1>3 DEF Refuse, Return, List!Refuse, List!Return, Contents
  <1>4. ASSUME NEW op \in {"vector_add", "vector_insert"}, NEW r \in Grown,
               NEW index \in 0 .. size, NEW item \in Item,
               Stored(op, r, index, item), stray'
        PROVE  List!Next
    <2>1. /\ ret'.op \in {"vector_add", "vector_insert"}
          /\ AllocMayFail
          /\ stray' = TRUE
      BY <1>1, <1>2, <1>4 DEF Stored, Return, Sound
    <2>2. List!Break
      BY <2>1 DEF List!Break
    <2> QED  BY <1>1, <2>2 DEF List!Next
  <1>5. CASE \E item \in Item : vector_add(item)
    <2>1. PICK item \in Item : vector_add(item)
      BY <1>5
    <2>2. PICK r \in Grown : Stored("vector_add", r, size, item)
      BY <2>1 DEF vector_add
    <2>3. size \in 0 .. size /\ item \in Pointer
      BY <1>1
    <2>4. CASE stray'
      BY <1>4, <2>2, <2>3, <2>4
    <2>5. CASE ~stray'
      <3>1. /\ Contents' \in Seq(Pointer) /\ Len(Contents') = size + 1
            /\ \A k \in 1 .. size + 1 :
                  Contents'[k] = IF k - 1 = size THEN item
                                 ELSE IF size < k - 1 THEN Contents[k - 1]
                                 ELSE Contents[k]
        <4> HIDE DEF Pointer
        <4>1. ~stray
          BY <1>1
        <4> QED  BY <4>1, <2>2, <2>3, <2>5, StoredContents, Zenon
      <3> DEFINE t == Append(Contents, item)
      <3>2. /\ t \in Seq(Pointer) /\ Len(t) = size + 1
            /\ \A k \in 1 .. size + 1 :
                  t[k] = IF k = size + 1 THEN item ELSE Contents[k]
        BY <1>1, <2>3, AppendAt
      <3> HIDE DEF t
      <3>3. \A k \in 1 .. size + 1 : Contents'[k] = t[k]
        BY <1>1, <3>1, <3>2
      <3>4. Contents' = t
        BY <1>1, <3>1, <3>2, <3>3, SameSeq
      <3>5. ret' = [op |-> "vector_add", value |-> Len(Contents) + 1]
        BY <1>1, <2>2 DEF Stored, Return
      <3>6. stray' = stray
        BY <1>1, <1>2, <2>5 DEF Sound
      <3>7. List!Add(item)
        BY <3>4, <3>5, <3>6 DEF List!Add, List!Return, t
      <3> QED  BY <1>1, <3>7 DEF List!Next
    <2> QED  BY <2>4, <2>5
  <1>6. CASE \E item \in Item, index \in Index : vector_insert(index, item)
    <2>1. PICK item \in Item, index \in Index : vector_insert(index, item)
      BY <1>6
    <2>2. index \in List!Index /\ (Valid(index) <=> List!Valid(index))
      BY <1>1 DEF List!Index, Index, Valid, List!Valid
    <2>3. CASE ~Valid(index) /\ Refuse("vector_insert", -1)
      <3>1. List!Insert(index, item)
        BY <1>3, <2>2, <2>3 DEF List!Insert
      <3> QED  BY <1>1, <2>2, <3>1 DEF List!Next
    <2>4. CASE Valid(index) /\ \E r \in Grown :
                                  Stored("vector_insert", r, index, item)
      <3>1. PICK r \in Grown : Stored("vector_insert", r, index, item)
        BY <2>4
      <3>2. /\ index \in 0 .. size /\ index + 1 \in 1 .. Len(Contents)
            /\ item \in Pointer /\ index \in Int
        BY <1>1, <2>4 DEF Valid
      <3>3. CASE stray'
        BY <1>4, <3>1, <3>2, <3>3
      <3>4. CASE ~stray'
        <4>1. /\ Contents' \in Seq(Pointer) /\ Len(Contents') = size + 1
              /\ \A k \in 1 .. size + 1 :
                    Contents'[k] = IF k - 1 = index THEN item
                                   ELSE IF index < k - 1 THEN Contents[k - 1]
                                   ELSE Contents[k]
          <5> HIDE DEF Pointer
          <5>1. ~stray
            BY <1>1
          <5> QED  BY <5>1, <3>1, <3>2, <3>4, StoredContents, Zenon
        <4> DEFINE t == List!InsertAt(Contents, index + 1, item)
        <4>2. /\ t \in Seq(Pointer) /\ Len(t) = size + 1
              /\ \A k \in 1 .. size + 1 :
                    t[k] = IF k < index + 1 THEN Contents[k]
                           ELSE IF k = index + 1 THEN item ELSE Contents[k - 1]
          BY <1>1, <3>2, InsertedAt
        <4> HIDE DEF t
        <4>3. \A k \in 1 .. size + 1 : Contents'[k] = t[k]
          BY <1>1, <3>2, <4>1, <4>2
        <4>4. Contents' = t
          BY <1>1, <4>1, <4>2, <4>3, SameSeq
        <4>5. ret' = [op |-> "vector_insert", value |-> Len(Contents) + 1]
          BY <1>1, <3>1 DEF Stored, Return
        <4>6. stray' = stray
          BY <1>1, <1>2, <3>4 DEF Sound
        <4>7. List!Insert(index, item)
          BY <2>2, <2>4, <4>4, <4>5, <4>6 DEF List!Insert, List!Return, t
        <4> QED  BY <1>1, <2>2, <4>7 DEF List!Next
      <3> QED  BY <3>3, <3>4
    <2> QED  BY <2>1, <2>3, <2>4 DEF vector_insert
  <1>7. CASE \E item \in Item, index \in Index : vector_set(index, item)
    <2>1. PICK item \in Item, index \in Index : vector_set(index, item)
      BY <1>7
    <2>2. index \in List!Index /\ (Valid(index) <=> List!Valid(index))
      BY <1>1 DEF List!Index, Index, Valid, List!Valid
    <2>3. CASE ~Valid(index) /\ Refuse("vector_set", -1)
      <3>1. List!Set(index, item)
        BY <1>3, <2>2, <2>3 DEF List!Set
      <3> QED  BY <1>1, <2>2, <3>1 DEF List!Next
    <2>4. CASE /\ Valid(index)
               /\ items' = [items EXCEPT ![index] = item]
               /\ Return("vector_set", size)
               /\ UNCHANGED <<initial_capacity, capacity, size, stray, denied>>
      <3>1. index \in 0 .. size - 1 /\ index + 1 \in 1 .. size /\ item \in Pointer
        BY <1>1, <2>4 DEF Valid
      <3>2. ~stray' /\ stray' = stray
        BY <1>1, <2>4
      <3>3. /\ Contents' \in Seq(Pointer) /\ Len(Contents') = size
            /\ \A k \in 1 .. size : Contents'[k] = items'[k - 1]
        BY <1>2, <2>4, <3>2, ContentsNext
      <3>4. items \in [0 .. capacity - 1 -> Pointer] /\ size <= capacity
            /\ capacity \in Nat
        BY <1>1, <3>1, RoomForItems DEF Sound
      <3>5. \A k \in 1 .. size :
              items'[k - 1] = IF k = index + 1 THEN item ELSE items[k - 1]
        BY <1>1, <2>4, <3>1, <3>4
      <3> DEFINE t == [Contents EXCEPT ![index + 1] = item]
      <3>6. /\ t \in Seq(Pointer) /\ Len(t) = size
            /\ \A k \in 1 .. size :
                  t[k] = IF k = index + 1 THEN item ELSE Contents[k]
        BY <1>1, <3>1
      <3> HIDE DEF t
      <3>7. \A k \in 1 .. size : Contents'[k] = t[k]
        BY <1>1, <3>3, <3>5, <3>6
      <3>8. Contents' = t
        BY <3>3, <3>6, <3>7, SameSeq
      <3>9. ret' = [op |-> "vector_set", value |-> Len(Contents)]
        BY <1>1, <2>4 DEF Return
      <3>10. List!Set(index, item)
        BY <2>2, <2>4, <3>2, <3>8, <3>9 DEF List!Set, List!Return, t
      <3> QED  BY <1>1, <2>2, <3>10 DEF List!Next
    <2> QED  BY <2>1, <2>3, <2>4 DEF vector_set
  <1>8. CASE \E index \in Index : vector_get(index)
    <2>1. PICK index \in Index : vector_get(index)
      BY <1>8
    <2>2. index \in List!Index /\ (Valid(index) <=> List!Valid(index))
      BY <1>1 DEF List!Index, Index, Valid, List!Valid
    <2>3. (IF Valid(index) THEN items[index] ELSE NULL)
            = (IF List!Valid(index) THEN Contents[index + 1] ELSE NULL)
      <3>1. CASE Valid(index)
        <4>1. PICK j \in 1 .. size : j = index + 1 /\ j - 1 = index
          BY <1>1, <3>1 DEF Valid
        <4>2. Contents[j] = items[j - 1]
          BY <1>1
        <4>3. Contents[index + 1] = items[index]
          BY <4>1, <4>2, Zenon
        <4> QED  BY <2>2, <3>1, <4>3
      <3>2. CASE ~Valid(index)
        BY <2>2, <3>2
      <3> QED  BY <3>1, <3>2
    <2>4. List!Get(index)
      <3> DEFINE v == IF Valid(index) THEN items[index] ELSE NULL
      <3>1. List!Refuse("vector_get", v)
        BY <1>3, <2>1 DEF vector_get
      <3> QED  BY <2>3, <3>1 DEF List!Get
    <2> QED  BY <1>1, <2>2, <2>4 DEF List!Next
  <1>9. CASE \E index \in Index : vector_delete(index)
    <2>1. PICK index \in Index : vector_delete(index)
      BY <1>9
    <2>2. index \in List!Index /\ (Valid(index) <=> List!Valid(index))
      BY <1>1 DEF List!Index, Index, Valid, List!Valid
    <2>3. CASE ~Valid(index) /\ Refuse("vector_delete", -1)
      <3>1. List!Delete(index)
        BY <1>3, <2>2, <2>3 DEF List!Delete
      <3> QED  BY <1>1, <2>2, <3>1 DEF List!Next
    <2>4. CASE ~(~Valid(index) /\ Refuse("vector_delete", -1))
      <3>1. /\ Valid(index)
            /\ \E r \in Shrunk(Closed(index), size - 1) :
                  items' = r.items /\ capacity' = r.capacity
                    /\ denied' = (denied \/ ~r.ok)
            /\ size' = size - 1
            /\ ret' = [op |-> "vector_delete", value |-> size - 1]
            /\ UNCHANGED <<initial_capacity, stray>>
        BY <2>1, <2>4 DEF vector_delete, Return
      <3>2. PICK r \in Shrunk(Closed(index), size - 1) :
                  items' = r.items /\ capacity' = r.capacity
                    /\ denied' = (denied \/ ~r.ok)
        BY <3>1
      <3>3. Deletes(r, index)
        BY <3>1, <3>2, Zenon DEF Deletes
      <3>4. index \in 0 .. size - 1 /\ index + 1 \in 1 .. Len(Contents)
        BY <1>1, <3>1 DEF Valid
      <3>5. /\ Contents' \in Seq(Pointer) /\ Len(Contents') = size - 1
            /\ \A k \in 1 .. size - 1 :
                  Contents'[k] = IF k < index + 1 THEN Contents[k]
                                 ELSE Contents[k + 1]
        BY <1>1, <3>3, <3>4, DeletedContents
      <3> DEFINE t == List!RemoveAt(Contents, index + 1)
      <3>6. /\ t \in Seq(Pointer) /\ Len(t) = size - 1
            /\ \A k \in 1 .. size - 1 :
                  t[k] = IF k < index + 1 THEN Contents[k] ELSE Contents[k + 1]
        BY <1>1, <3>4, RemovedAt
      <3> HIDE DEF t
      <3>7. \A k \in 1 .. size - 1 : Contents'[k] = t[k]
        BY <3>5, <3>6
      <3>8. Contents' = t
        BY <3>5, <3>6, <3>7, SameSeq
      <3>9. ret' = [op |-> "vector_delete", value |-> Len(Contents) - 1]
        BY <1>1, <3>1
      <3>10. List!Delete(index)
        BY <2>2, <3>1, <3>8, <3>9 DEF List!Delete, List!Return, t
      <3> QED  BY <1>1, <2>2, <3>10 DEF List!Next
    <2> QED  BY <2>3, <2>4
  <1>10. CASE vector_clear
    <2>1. PICK r \in vector_resize(Cleared, initial_capacity) :
                /\ ret' = [op |-> "vector_clear",
                           value |-> IF r.ok THEN r.capacity ELSE -1]
      BY <1>10 DEF vector_clear, Cleared, Return
    <2>2. size' = 0 /\ stray' = stray /\ ~stray'
      BY <1>1, <1>10 DEF vector_clear
    <2>3. Contents' \in Seq(Pointer) /\ Len(Contents') = 0
      BY <1>2, <2>2, ContentsNext
    <2>4. Contents' = <<>>
      BY <2>3
    <2>5. r.capacity \in Nat
      BY <1>1, ClearedCases
    <2>6. ret'.op = "vector_clear" /\ ret'.value \in Nat \cup {-1}
      BY <2>1, <2>5
    <2>7. List!Clear
      BY <2>2, <2>4, <2>6 DEF List!Clear
    <2> QED  BY <1>1, <2>7 DEF List!Next
  <1> QED  BY <1>5, <1>6, <1>7, <1>8, <1>9, <1>10, Zenon DEF Next

(* The growable array is a list, for every initial capacity: where the     *)
(* block is grown, shrunk or moved shows in no result, until memory runs   *)
(* out.                                                                    *)
THEOREM VectorIsList == Metered => ImplementsList
  <1>1. Init_metered => Typed /\ List!Init
    BY SoundInit, ListInit DEF Init_metered, Typed
  <1>2. Typed /\ [Next_metered]_<<vars, calls, moved>> => Typed'
    BY TypedStep DEF Next_metered
  <1>3. Typed /\ [Next_metered]_<<vars, calls, moved>> => [List!Next]_List!vars
    <2> SUFFICES ASSUME Typed, [Next_metered]_<<vars, calls, moved>>
                 PROVE  [List!Next]_List!vars
      OBVIOUS
    <2>1. CASE Next_metered
      BY <2>1, ListStep DEF Next_metered, Typed
    <2>2. CASE UNCHANGED <<vars, calls, moved>>
      BY <2>2 DEF vars, List!vars, Contents
    <2> QED  BY <2>1, <2>2
  <1> QED  BY <1>1, <1>2, <1>3, PTL DEF Metered, ImplementsList, List!Spec
=============================================================================
