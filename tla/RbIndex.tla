------------------------------ MODULE RbIndex ------------------------------
(***************************************************************************)
(* The index arithmetic of rb/rb.h: how many bytes lie between the two     *)
(* indices, where a run of bytes is split at the end of the byte buffer,   *)
(* and where an index ends up.  Every module about the ringbuffer uses     *)
(* these operators.                                                        *)
(*                                                                         *)
(* Positions and counts are uint64_t in the code.  A sum of an index and a *)
(* count never exceeds 2 * Size here because every count is limited to     *)
(* Size before it is added, so the 64-bit width is only modelled where a   *)
(* value can really wrap (see rb_peek_at and the statistics in RbRing).    *)
(***************************************************************************)
EXTENDS Integers, Sequences

CONSTANT Size        \* rb->size, the capacity in bytes

ASSUME SizeAssumption == Size \in Nat \ {0}

Index == 0 .. Size - 1
Count == 0 .. Size

rb_MIN(a, b) == IF a < b THEN a ELSE b

(***************************************************************************)
(* Fill level and free space.  r, w and last are what the caller loaded    *)
(* from read_index, write_index and last_was_write (TRUE for nonzero):     *)
(* equal indices mean "empty" or "full", and only the flag tells which.    *)
(***************************************************************************)
\* Mutant: one byte too many once the write index has wrapped.
rb_can_read_over(r, w, last) ==
  CASE r = w -> IF last THEN Size ELSE 0
    [] r < w -> w - r
    [] r > w -> w + Size - r + 1

rb_can_read(r, w, last) ==
  CASE r = w -> IF last THEN Size ELSE 0
    [] r < w -> w - r
    [] r > w -> w + Size - r

\* Mutant: equal indices always mean an empty buffer.
rb_can_write_blind(r, w, last) ==
  CASE r = w -> Size
    [] r < w -> Size - w + r
    [] r > w -> r - w

\* Mutant: one byte too many once the write index has wrapped.
rb_can_write_over(r, w, last) ==
  CASE r = w -> IF last THEN 0 ELSE Size
    [] r < w -> Size - w + r
    [] r > w -> r - w + 1

rb_can_write(r, w, last) ==
  CASE r = w -> IF last THEN 0 ELSE Size
    [] r < w -> Size - w + r
    [] r > w -> r - w

(***************************************************************************)
(* A run of n bytes that starts at slot i takes copy_count_1 bytes up to   *)
(* the end of the byte buffer and copy_count_2 bytes from its start.       *)
(***************************************************************************)
copy_count_1(i, n) == IF i + n > Size THEN Size - i ELSE n
copy_count_2(i, n) == IF i + n > Size THEN i + n - Size ELSE 0

\* Where a copying read or write leaves its index.
CopiedIndex(i, n) ==
  IF copy_count_2(i, n) = 0 THEN (i + copy_count_1(i, n)) % Size
                            ELSE copy_count_2(i, n) % Size

\* Mutant: the final %=rb->size is missing.
AdvancedIndex_unwrapped(i, n) == IF i + n > Size THEN i + n - Size ELSE i + n

\* Mutant: a run across the end restarts at slot 0.
AdvancedIndex_restart(i, n) == IF i + n >= Size THEN 0 ELSE i + n

\* Where rb_advance_*_index leaves its index.
AdvancedIndex(i, n) ==
  (IF i + n > Size THEN i + n - Size ELSE i + n) % Size

(***************************************************************************)
(* The two memory regions of such a run, as the code's pointer and size,   *)
(* and the slots they cover.                                               *)
(***************************************************************************)
Regions(i, n) == << [buffer |-> i, size |-> copy_count_1(i, n)],
                    [buffer |-> 0, size |-> copy_count_2(i, n)] >>

RegionSlots(region) == region.buffer .. region.buffer + region.size - 1

SlotsOf(i, n) == UNION { RegionSlots(Regions(i, n)[k]) : k \in 1 .. 2 }

(***************************************************************************)
(* The two memcpy()s of a run: out of the byte buffer b, and into it.      *)
(***************************************************************************)
Segment(b, i, n) == [k \in 1 .. n |-> b[i + k - 1]]

CopyOut(b, i, n) ==
  Segment(b, i, copy_count_1(i, n)) \o Segment(b, 0, copy_count_2(i, n))

CopyIn(b, i, source, n) ==
  [s \in Index |->
     IF s \in i .. i + copy_count_1(i, n) - 1 THEN source[s - i + 1]
     ELSE IF s < copy_count_2(i, n) THEN source[copy_count_1(i, n) + s + 1]
     ELSE b[s]]
=============================================================================
