--------------------------- MODULE RbIndexProofs ---------------------------
(***************************************************************************)
(* What holds of the index arithmetic of rb/rb.h for every Size: the       *)
(* lemmas the proofs about RbRing and RbSpsc share.                        *)
(***************************************************************************)
EXTENDS RbIndex, TLAPS

USE SizeAssumption DEF Index, Count

\* An index that may have passed the end of the buffer once.
Wrap(i) == IF i < Size THEN i ELSE i - Size

(* The final %=rb->size of the code brings any index into the buffer.      *)
LEMMA ModInIndex == \A a \in Int : a % Size \in Index
  OBVIOUS

(* Fill level and free space never exceed the capacity.                    *)
LEMMA FillInCount ==
  ASSUME NEW r \in Index, NEW w \in Index, NEW last \in BOOLEAN
  PROVE  /\ rb_can_read(r, w, last) \in Count
         /\ rb_can_write(r, w, last) \in Count
         /\ rb_can_read(r, w, last) + rb_can_write(r, w, last) = Size
  BY DEF rb_can_read, rb_can_write

(* A split run has its two parts inside the buffer and loses no byte.      *)
LEMMA SplitInBuffer ==
  ASSUME NEW i \in Index, NEW n \in Count
  PROVE  /\ copy_count_1(i, n) \in 0 .. Size - i
         /\ copy_count_2(i, n) \in 0 .. i
         /\ copy_count_1(i, n) + copy_count_2(i, n) = n
  BY DEF copy_count_1, copy_count_2

(* Both ways of the code to move an index agree and stay in the buffer.    *)
LEMMA MovedIndex ==
  ASSUME NEW i \in Index, NEW n \in Count
  PROVE  /\ CopiedIndex(i, n) \in Index
         /\ AdvancedIndex(i, n) \in Index
         /\ AdvancedIndex(i, n) = CopiedIndex(i, n)
  <1>1. AdvancedIndex(i, n) = CopiedIndex(i, n)
    <2>1. CASE i + n > Size
      <3>1. copy_count_2(i, n) = i + n - Size /\ copy_count_2(i, n) # 0
        BY <2>1 DEF copy_count_2
      <3> QED  BY <2>1, <3>1 DEF CopiedIndex, AdvancedIndex
    <2>2. CASE ~(i + n > Size)
      <3>1. copy_count_2(i, n) = 0 /\ copy_count_1(i, n) = n
        BY <2>2 DEF copy_count_1, copy_count_2
      <3> QED  BY <2>2, <3>1 DEF CopiedIndex, AdvancedIndex
    <2> QED  BY <2>1, <2>2
  <1>2. (IF i + n > Size THEN i + n - Size ELSE i + n) \in Int
    OBVIOUS
  <1>3. AdvancedIndex(i, n) \in Index
    BY <1>2, ModInIndex DEF AdvancedIndex
  <1> QED  BY <1>1, <1>3

(* Within two turns the %=rb->size is one subtraction at most.             *)
LEMMA ModIsWrap ==
  ASSUME NEW i \in 0 .. 2 * Size - 1
  PROVE  i % Size = Wrap(i)
  BY DEF Wrap

(* A moved index is its old place plus the count, wrapped.                 *)
LEMMA MovedIsWrap ==
  ASSUME NEW i \in Index, NEW n \in Count
  PROVE  /\ CopiedIndex(i, n) = Wrap(i + n)
         /\ AdvancedIndex(i, n) = Wrap(i + n)
         /\ Wrap(i + n) \in Index
  <1>1. CASE i + n > Size
    <2>1. i + n - Size \in 0 .. 2 * Size - 1 /\ i + n - Size < Size
      BY <1>1
    <2>2. (i + n - Size) % Size = i + n - Size
      BY <2>1, ModIsWrap DEF Wrap
    <2>3. AdvancedIndex(i, n) = Wrap(i + n) /\ Wrap(i + n) \in Index
      BY <1>1, <2>1, <2>2 DEF AdvancedIndex, Wrap
    <2> QED  BY <2>3, MovedIndex
  <1>2. CASE ~(i + n > Size)
    <2>1. i + n \in 0 .. 2 * Size - 1
      BY <1>2
    <2>2. AdvancedIndex(i, n) = Wrap(i + n) /\ Wrap(i + n) \in Index
      BY <1>2, <2>1, ModIsWrap DEF AdvancedIndex, Wrap
    <2> QED  BY <2>2, MovedIndex
  <1> QED  BY <1>1, <1>2

(* While the write index is len bytes ahead of the read index and the two  *)
(* differ, fill level and free space are what the flag cannot change.      *)
LEMMA UnequalIndices ==
  ASSUME NEW r \in Index, NEW len \in Count, NEW last \in BOOLEAN,
         Wrap(r + len) # r
  PROVE  /\ rb_can_read(r, Wrap(r + len), last) = len
         /\ rb_can_write(r, Wrap(r + len), last) = Size - len
         /\ len \in 1 .. Size - 1
  BY DEF Wrap, rb_can_read, rb_can_write

(* Equal indices mean an empty buffer or a full one.                       *)
LEMMA EqualIndices ==
  ASSUME NEW r \in Index, NEW len \in Count, Wrap(r + len) = r
  PROVE  len \in {0, Size}
  BY DEF Wrap

(* The write index is as far ahead of the read index as there are unread   *)
(* bytes; taking n bytes and adding n bytes moves the fill level by n.     *)
LEMMA WriteIndexAhead ==
  ASSUME NEW r \in Index, NEW w \in Index, NEW last \in BOOLEAN
  PROVE  w = Wrap(r + rb_can_read(r, w, last))
  BY DEF Wrap, rb_can_read

LEMMA FillTaken ==
  ASSUME NEW r \in Index, NEW w \in Index, NEW last \in BOOLEAN,
         NEW n \in 1 .. rb_can_read(r, w, last)
  PROVE  rb_can_read(Wrap(r + n), w, FALSE) = rb_can_read(r, w, last) - n
  BY DEF Wrap, rb_can_read

LEMMA FillAdded ==
  ASSUME NEW r \in Index, NEW w \in Index, NEW last \in BOOLEAN,
         NEW n \in 1 .. rb_can_write(r, w, last)
  PROVE  rb_can_read(r, Wrap(w + n), TRUE) = rb_can_read(r, w, last) + n
  BY DEF Wrap, rb_can_read, rb_can_write

(* An unread slot, seen from the write index, lies behind all free ones.   *)
LEMMA UnreadBehindFree ==
  ASSUME NEW r \in Index, NEW n \in Count, NEW k \in 1 .. n
  PROVE  /\ Size - n + k \in 1 .. Size
         /\ Wrap(Wrap(r + n) + (Size - n + k) - 1) = Wrap(r + k - 1)
  BY DEF Wrap
=============================================================================
