------------------------------ MODULE RbQueue ------------------------------
(***************************************************************************)
(* What rb/rb.h promises a caller that makes one call at a time: a bounded *)
(* first-in first-out queue of at most Size bytes.  The module knows of no *)
(* index, no flag and no place where the byte buffer ends.                 *)
(*                                                                         *)
(* q is the queue of unread bytes.  ret is what the last call gave back:   *)
(* the function, its count and offset arguments, the count it returned and *)
(* the bytes it stored through its destination pointer.  For rb_find_byte  *)
(* n is the int it returned and offset the position it stored.             *)
(***************************************************************************)
EXTENDS Integers, Sequences

CONSTANTS Size,       \* capacity in bytes
          Byte,       \* the values of a byte
          MaxCount,   \* bound: largest count argument a caller passes
          Offsets     \* offsets a caller passes to rb_peek_at

VARIABLES q, ret
vars == <<q, ret>>

Least(a, b) == IF a <= b THEN a ELSE b

Return(op, count, offset, n, data) ==
  ret' = [op |-> op, count |-> count, offset |-> offset, n |-> n, data |-> data]

Front(n) == SubSeq(q, 1, n)
Rest(n)  == SubSeq(q, n + 1, Len(q))

Init ==
  /\ q = <<>>
  /\ ret = [op |-> "rb_new", count |-> 0, offset |-> 0, n |-> 0, data |-> <<>>]

\* rb_read: the oldest bytes, as many as there are and at most count.
Read(count) ==
  LET n == Least(count, Len(q)) IN
    /\ Return("rb_read", count, 0, n, Front(n))
    /\ q' = Rest(n)

\* rb_overread: may go past the unread bytes.  Only the unread bytes are
\* specified; past them the caller gets whatever the buffer holds, and the
\* queue is left empty.
OverRead(count) ==
  LET n == Least(count, Size) IN
    /\ \E data \in [1 .. n -> Byte] :
         /\ \A k \in 1 .. Least(n, Len(q)) : data[k] = q[k]
         /\ Return("rb_overread", count, 0, n, data)
    /\ q' = Rest(Least(n, Len(q)))

\* rb_advance_read_index, rb_drop: as a read that copies nothing.
Skip(op, count) ==
  LET n == Least(count, Len(q)) IN
    /\ Return(op, count, 0, n, <<>>)
    /\ q' = Rest(n)

\* rb_overadvance_read_index: as an overread that copies nothing.
OverSkip(count) ==
  LET n == Least(count, Size) IN
    /\ Return("rb_overadvance_read_index", count, 0, n, <<>>)
    /\ q' = Rest(Least(n, Len(q)))

\* rb_write: as many of the source bytes as there is room for, in order.
Write(source) ==
  LET n == Least(Len(source), Size - Len(q)) IN
    /\ Return("rb_write", Len(source), 0, n, <<>>)
    /\ q' = q \o SubSeq(source, 1, n)

\* rb_advance_write_index: the bytes the caller put in the write regions.
AdvanceWrite(count) ==
  LET n == Least(count, Size - Len(q)) IN
    /\ Return("rb_advance_write_index", count, 0, n, <<>>)
    /\ \E filled \in [1 .. n -> Byte] : q' = q \o filled

\* rb_peek_at, rb_peek_byte_at: the bytes from offset on, which stay unread.
Peek(op, count, offset) ==
  LET n == IF offset >= Len(q) THEN 0 ELSE Least(count, Len(q) - offset) IN
    /\ Return(op, count, offset, n, SubSeq(q, offset + 1, offset + n))
    /\ UNCHANGED q

\* rb_find_byte: the offset of the first occurrence among the unread bytes.
FindByte(b) ==
  /\ \/ \E k \in 1 .. Len(q) :
          /\ q[k] = b
          /\ \A j \in 1 .. k - 1 : q[j] # b
          /\ Return("rb_find_byte", 0, k - 1, 1, <<>>)
     \/ /\ \A k \in 1 .. Len(q) : q[k] # b
        /\ Return("rb_find_byte", 0, 0, 0, <<>>)
  /\ UNCHANGED q

\* rb_get_read_regions: the two regions together are the unread bytes.
ReadRegions ==
  /\ Return("rb_get_read_regions", 0, 0, Len(q), q)
  /\ UNCHANGED q

\* rb_get_next_read_region: the oldest unread bytes, some if there are any.
NextReadRegion ==
  /\ \E n \in 0 .. Len(q) :
       /\ Len(q) > 0 => n > 0
       /\ Return("rb_get_next_read_region", 0, 0, n, Front(n))
  /\ UNCHANGED q

\* rb_reset: an empty buffer.
Reset ==
  /\ Return("rb_reset", 0, 0, 0, <<>>)
  /\ q' = <<>>

\* rb_reset_stats: nothing a reader or a writer of bytes can see.
ResetStats ==
  /\ Return("rb_reset_stats", 0, 0, 0, <<>>)
  /\ UNCHANGED q

Next ==
  \/ \E count \in 0 .. MaxCount :
       \/ Read(count)
       \/ OverRead(count)
       \/ Skip("rb_advance_read_index", count)
       \/ OverSkip(count)
       \/ AdvanceWrite(count)
       \/ \E source \in [1 .. count -> Byte] : Write(source)
       \/ \E offset \in Offsets : Peek("rb_peek_at", count, offset)
  \/ \E offset \in 0 .. MaxCount : Peek("rb_peek_byte_at", 1, offset)
  \/ Skip("rb_drop", Len(q))
  \/ \E b \in Byte : FindByte(b)
  \/ ReadRegions
  \/ NextReadRegion
  \/ Reset
  \/ ResetStats

Spec == Init /\ [][Next]_vars
=============================================================================
