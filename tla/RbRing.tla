------------------------------- MODULE RbRing -------------------------------
(***************************************************************************)
(* The data operations of rb/rb.h as one caller at a time performs them:   *)
(* an action is one whole call.  (RbSpsc takes the calls apart for two     *)
(* threads.)  The wrappers rb_peek, rb_peek_byte, rb_read_byte,            *)
(* rb_skip_byte and rb_write_byte are the actions below with a fixed       *)
(* argument.                                                               *)
(***************************************************************************)
EXTENDS RbIndex, FiniteSets

CONSTANTS Byte,       \* the values of a byte
          Untouched,  \* what the caller's destination held before a call
          MaxCount,   \* bound: largest count argument a caller passes
          Offsets,    \* offsets a caller passes to rb_peek_at
          Word        \* Word[c]: number of values of counter c (2^64)

\* The statistics: total_bytes_*, total_underflows and total_overflows.
Counters == {"bytes_read", "bytes_write", "bytes_peek",
             "underflows", "overflows"}

ASSUME WordAssumption == Word \in [Counters -> Nat \ {0}]
ASSUME ByteAssumption == Byte # {} /\ Untouched \notin Byte
ASSUME BoundAssumption == MaxCount \in Nat /\ Offsets \subseteq Nat

VARIABLES
  read_index, write_index, last_was_write,  \* the fields of rb_t
  buf,      \* the Size bytes behind the header
  stats,    \* its counters
  ret,      \* what the last call returned, see RbQueue
  alive     \* FALSE once a memcpy() of rb_peek_at ran out of the mapping

data_vars == <<read_index, write_index, last_was_write, buf>>
vars == <<data_vars, stats, ret, alive>>

CanRead  == rb_can_read(read_index, write_index, last_was_write)
CanWrite == rb_can_write(read_index, write_index, last_was_write)

Return(op, count, offset, n, data) ==
  /\ ret' = [op |-> op, count |-> count, offset |-> offset,
             n |-> n, data |-> data]
  /\ UNCHANGED alive

\* The counters with d added to counter c, and one incident to counter
\* incident if only n of count bytes were served.
Counted(c, d, incident, n, count) ==
  [stats EXCEPT
     ![c] = (@ + d) % Word[c],
     ![incident] = (@ + (IF n < count THEN 1 ELSE 0)) % Word[incident]]

Init ==
  /\ read_index = 0
  /\ write_index = 0
  /\ last_was_write = FALSE
  /\ buf \in [Index -> Byte]              \* malloc() leaves it as it was
  /\ stats = [c \in Counters |-> 0]
  /\ ret = [op |-> "rb_new", count |-> 0, offset |-> 0, n |-> 0,
            data |-> <<>>]
  /\ alive = TRUE
-----------------------------------------------------------------------------
(***************************************************************************)
(* The consuming calls.  Consume is the end they share: move read_index,   *)
(* drag write_index along if it was passed, clear the flag, count.         *)
(***************************************************************************)
\* Mutant: an overread leaves the write index where it was.
Consume_no_drag(index, n, count, over, can) ==
  /\ read_index' = index
  /\ last_was_write' = FALSE
  /\ stats' = Counted("bytes_read", n, "underflows", n, count)
  /\ UNCHANGED <<write_index, buf>>

Consume(index, n, count, over, can) ==
  /\ read_index' = index
  /\ write_index' = IF over /\ can < n THEN index ELSE write_index
  /\ last_was_write' = FALSE
  /\ stats' = Counted("bytes_read", n, "underflows", n, count)
  /\ UNCHANGED buf

\* How much a consuming call takes: with over, up to the whole buffer.
TakeCount(count, over) ==
  IF over THEN rb_MIN(Size, count) ELSE rb_MIN(count, CanRead)

rb_generic_read(op, count, over) ==
  LET n == TakeCount(count, over) IN
    \/ /\ count = 0 \/ (~over /\ CanRead = 0)
       /\ Return(op, count, 0, 0, <<>>)
       /\ UNCHANGED <<data_vars, stats>>
    \/ /\ count > 0 /\ (over \/ CanRead > 0)
       /\ Return(op, count, 0, n, CopyOut(buf, read_index, n))
       /\ Consume(CopiedIndex(read_index, n), n, count, over, CanRead)

rb_read(count)     == rb_generic_read("rb_read", count, FALSE)
rb_overread(count) == rb_generic_read("rb_overread", count, TRUE)

rb_generic_advance_read_index(op, count, over) ==
  LET n == TakeCount(count, over) IN
    \/ /\ count = 0
       /\ Return(op, count, 0, 0, <<>>)
       /\ UNCHANGED <<data_vars, stats>>
    \/ /\ count > 0 /\ ~over /\ CanRead = 0
       /\ Return(op, count, 0, 0, <<>>)
       /\ stats' = Counted("bytes_read", 0, "underflows", 0, count)
       /\ UNCHANGED data_vars
    \/ /\ count > 0 /\ (over \/ CanRead > 0)
       /\ Return(op, count, 0, n, <<>>)
       /\ Consume(AdvancedIndex(read_index, n), n, count, over, CanRead)

rb_advance_read_index(count) ==
  rb_generic_advance_read_index("rb_advance_read_index", count, FALSE)

rb_overadvance_read_index(count) ==
  rb_generic_advance_read_index("rb_overadvance_read_index", count, TRUE)

rb_drop == rb_generic_advance_read_index("rb_drop", CanRead, FALSE)
-----------------------------------------------------------------------------
(***************************************************************************)
(* The producing calls.                                                    *)
(***************************************************************************)
\* Mutant: a write forgets the flag.
Produce_no_flag(index, n, count) ==
  /\ write_index' = index
  /\ stats' = Counted("bytes_write", n, "overflows", n, count)
  /\ UNCHANGED <<read_index, last_was_write>>

\* Mutant: the bytes asked for are counted, not the bytes written.
Produce_asked(index, n, count) ==
  /\ write_index' = index
  /\ last_was_write' = TRUE
  /\ stats' = Counted("bytes_write", count, "overflows", n, count)
  /\ UNCHANGED read_index

Produce(index, n, count) ==
  /\ write_index' = index
  /\ last_was_write' = TRUE
  /\ stats' = Counted("bytes_write", n, "overflows", n, count)
  /\ UNCHANGED read_index

rb_write(source) ==
  LET count == Len(source)
      n == rb_MIN(count, CanWrite) IN
    \/ /\ count = 0 \/ CanWrite = 0
       /\ Return("rb_write", count, 0, 0, <<>>)
       /\ UNCHANGED <<data_vars, stats>>
    \/ /\ count > 0 /\ CanWrite > 0
       /\ Return("rb_write", count, 0, n, <<>>)
       /\ buf' = CopyIn(buf, write_index, source, n)
       /\ Produce(CopiedIndex(write_index, n), n, count)

rb_advance_write_index(count) ==
  LET n == rb_MIN(count, CanWrite) IN
    \/ /\ count = 0
       /\ Return("rb_advance_write_index", count, 0, 0, <<>>)
       /\ UNCHANGED <<data_vars, stats>>
    \/ /\ count > 0 /\ CanWrite = 0
       /\ Return("rb_advance_write_index", count, 0, 0, <<>>)
       /\ stats' = Counted("bytes_write", 0, "overflows", 0, count)
       /\ UNCHANGED data_vars
    \/ /\ count > 0 /\ CanWrite > 0
       /\ Return("rb_advance_write_index", count, 0, n, <<>>)
       /\ Produce(AdvancedIndex(write_index, n), n, count)
       /\ UNCHANGED buf
-----------------------------------------------------------------------------
(***************************************************************************)
(* The regions.  The caller of rb_get_write_regions stores its bytes in    *)
(* the regions itself (StoreInWriteRegion) before it advances.             *)
(***************************************************************************)
read_regions  == Regions(read_index, CanRead)
write_regions == Regions(write_index, CanWrite)

ReadSlots  == SlotsOf(read_index, CanRead)
WriteSlots == SlotsOf(write_index, CanWrite)

RegionBytes(region) == Segment(buf, region.buffer, region.size)

rb_get_read_regions ==
  /\ Return("rb_get_read_regions", 0, 0, CanRead,
            RegionBytes(read_regions[1]) \o RegionBytes(read_regions[2]))
  /\ UNCHANGED <<data_vars, stats>>

rb_get_next_read_region ==
  /\ Return("rb_get_next_read_region", 0, 0, read_regions[1].size,
            RegionBytes(read_regions[1]))
  /\ UNCHANGED <<data_vars, stats>>

StoreInWriteRegion ==
  /\ \E region \in {write_regions[1], write_regions[2]} :
       \E s \in RegionSlots(region), b \in Byte :
         buf' = [buf EXCEPT ![s] = b]
  /\ UNCHANGED <<read_index, write_index, last_was_write, stats, ret, alive>>
-----------------------------------------------------------------------------
(***************************************************************************)
(* The peeking calls.  rb_peek_at subtracts the offset from the size of    *)
(* its second memcpy() although linear_end already excludes it, so for a   *)
(* split run with offset > 0 that size is too small.  It is a uint64_t:    *)
(* below zero it is nearly 2^64 and the copy faults (alive' = FALSE).      *)
(***************************************************************************)
\* Mutant: the first copy stops one byte before the end of the buffer.
peek_count_1_short(t, n) ==
  IF t + n > Size /\ t < Size THEN Size - t - 1 ELSE n

peek_count_1(t, n) == IF t + n > Size /\ t < Size THEN Size - t ELSE n

peek_count_2(t, n, offset) ==
  IF t + n > Size /\ t < Size THEN t + n - Size - offset ELSE 0

\* The destination after both copies; bytes not copied keep what was there.
Peeked(t, n, c1, c2) ==
  Segment(buf, t % Size, c1) \o Segment(buf, 0, c2)
    \o [k \in 1 .. n - c1 - c2 |-> Untouched]

rb_peek_at(count, offset) ==
  LET n == rb_MIN(count, CanRead - offset)
      t == read_index + offset
      c1 == peek_count_1(t, n)
      c2 == peek_count_2(t, n, offset)
  IN
    /\ \/ /\ count = 0
          /\ Return("rb_peek_at", count, offset, 0, <<>>)
          /\ UNCHANGED stats
       \/ /\ count > 0 /\ CanRead <= offset
          /\ Return("rb_peek_at", count, offset, 0, <<>>)
          /\ stats' = Counted("bytes_peek", 0, "underflows", 0, 1)
       \/ /\ count > 0 /\ CanRead > offset /\ c2 >= 0
          /\ Return("rb_peek_at", count, offset, n, Peeked(t, n, c1, c2))
          /\ stats' = Counted("bytes_peek", n, "underflows", n, count)
       \/ /\ count > 0 /\ CanRead > offset /\ c2 < 0
          /\ alive' = FALSE
          /\ UNCHANGED <<stats, ret>>
    /\ UNCHANGED data_vars

\* The byte rb_peek_byte_at copies.
ByteAt(offset) ==
  LET t == read_index + offset IN
    IF Size <= t THEN buf[t - Size] ELSE buf[t]

rb_peek_byte_at(offset) ==
  /\ \/ /\ CanRead <= offset
        /\ Return("rb_peek_byte_at", 1, offset, 0, <<>>)
        /\ stats' = Counted("bytes_peek", 0, "underflows", 0, 1)
     \/ /\ CanRead > offset
        /\ Return("rb_peek_byte_at", 1, offset, 1, <<ByteAt(offset)>>)
        /\ stats' = Counted("bytes_peek", 1, "underflows", 1, 1)
  /\ UNCHANGED data_vars

\* Peeks byte after byte; the peek that finds nothing left is an underflow.
rb_find_byte(b) ==
  /\ \/ \E k \in 0 .. CanRead - 1 :
          /\ ByteAt(k) = b
          /\ \A j \in 0 .. k - 1 : ByteAt(j) # b
          /\ Return("rb_find_byte", 0, k, 1, <<>>)
          /\ stats' = Counted("bytes_peek", k + 1, "underflows", 0, 0)
     \/ /\ \A k \in 0 .. CanRead - 1 : ByteAt(k) # b
        /\ Return("rb_find_byte", 0, 0, 0, <<>>)
        /\ stats' = Counted("bytes_peek", CanRead, "underflows", 0, 1)
  /\ UNCHANGED data_vars
-----------------------------------------------------------------------------
rb_reset_stats ==
  /\ Return("rb_reset_stats", 0, 0, 0, <<>>)
  /\ stats' = [c \in Counters |-> 0]
  /\ UNCHANGED data_vars

rb_reset ==
  /\ Return("rb_reset", 0, 0, 0, <<>>)
  /\ read_index' = 0
  /\ write_index' = 0
  /\ last_was_write' = FALSE
  /\ stats' = [c \in Counters |-> 0]
  /\ UNCHANGED buf

Reading ==
  \/ \E count \in 0 .. MaxCount :
       \/ rb_read(count)
       \/ rb_overread(count)
       \/ rb_advance_read_index(count)
       \/ rb_overadvance_read_index(count)
       \/ \E offset \in Offsets : rb_peek_at(count, offset)
  \/ \E offset \in 0 .. MaxCount : rb_peek_byte_at(offset)
  \/ rb_drop
  \/ \E b \in Byte : rb_find_byte(b)
  \/ rb_get_read_regions
  \/ rb_get_next_read_region

Writing ==
  \/ \E count \in 0 .. MaxCount :
       \/ \E source \in [1 .. count -> Byte] : rb_write(source)
       \/ rb_advance_write_index(count)
  \/ StoreInWriteRegion

Next == alive /\ (Reading \/ Writing \/ rb_reset \/ rb_reset_stats)

Spec == Init /\ [][Next]_vars
-----------------------------------------------------------------------------
(***************************************************************************)
(* Properties                                                              *)
(***************************************************************************)
Calls == {"rb_new", "rb_read", "rb_overread", "rb_advance_read_index",
          "rb_overadvance_read_index", "rb_drop", "rb_write",
          "rb_advance_write_index", "rb_get_read_regions",
          "rb_get_next_read_region", "rb_peek_at", "rb_peek_byte_at",
          "rb_find_byte", "rb_reset", "rb_reset_stats",
          "rb_find_byte_sequence", "rb_deinterleave_items",
          "rb_find_next_midi_message", "rb_read_next_midi_message",
          "rb_read_float", "rb_peek_float_at", "rb_skip_float",
          "rb_write_float"}

Stats == {s \in [Counters -> Nat] : \A c \in Counters : s[c] < Word[c]}

Ret == [op : Calls, count : Nat, offset : Nat, n : Count,
        data : Seq(Byte \cup {Untouched})]

(* Both indices always point into the byte buffer, whatever the call and   *)
(* however its run was split, and no call serves more than Size bytes.     *)
TypeOK ==
  /\ read_index \in Index
  /\ write_index \in Index
  /\ last_was_write \in BOOLEAN
  /\ buf \in [Index -> Byte]
  /\ stats \in Stats
  /\ ret \in Ret
  /\ alive \in BOOLEAN

(* The read regions and the write regions of rb_get_read_regions() and     *)
(* rb_get_write_regions() never share a slot and together are the whole    *)
(* byte buffer, so a zero-copy writer cannot touch an unread byte.         *)
RegionsPartition ==
  /\ ReadSlots \cap WriteSlots = {}
  /\ ReadSlots \cup WriteSlots = Index

(* A reader may hold its read regions while a writer works, and a writer   *)
(* its write regions while a reader works: no call of one side takes a     *)
(* slot away from the other or changes a byte in it.  The over-reading     *)
(* calls and rb_reset are the documented exceptions.                       *)
WriteCalls == {"rb_write", "rb_advance_write_index"}
Unsettling == {"rb_overread", "rb_overadvance_read_index", "rb_reset"}

SidesStep ==
  /\ ret'.op \in WriteCalls \/ StoreInWriteRegion
       => /\ ReadSlots \subseteq ReadSlots'
          /\ \A s \in ReadSlots : buf'[s] = buf[s]
  /\ ret'.op \notin WriteCalls \cup Unsettling
       => WriteSlots \subseteq WriteSlots'
RegionsStayValid == [][SidesStep]_vars

(* The statistics agree with the indices: unless a call over-read or reset *)
(* them, total_bytes_write - total_bytes_read moves with the fill level,   *)
(* modulo the common width of these counters.                              *)
StatsStep ==
  ret'.op \in {"rb_overread", "rb_overadvance_read_index",
               "rb_reset", "rb_reset_stats"}
    \/ ((stats'.bytes_write - stats.bytes_write)
          - (stats'.bytes_read - stats.bytes_read)
          - (CanRead' - CanRead)) % Word["bytes_read"] = 0
StatsMatchFill == [][StatsStep]_vars

(* The bytes of the queue, oldest first.                                   *)
Unread == [k \in 1 .. CanRead |-> buf[(read_index + k - 1) % Size]]

Queue == INSTANCE RbQueue WITH q <- Unread

(* Every call behaves as the same call on a bounded first-in first-out     *)
(* queue, with the bytes and the counts it returns: splitting at the end   *)
(* of the byte buffer, the empty/full flag and the write index that an     *)
(* overread drags along cannot be observed.  It holds where callers peek   *)
(* with offset 0 only (see PeekExact).                                     *)
ImplementsQueue == Queue!Spec

(* rb_peek_at stores the bytes it says it stored, at any offset: the      *)
(* copying data reader of rb.h "returns count of bytes read".              *)
PeekExact ==
  /\ alive
  /\ ret.op = "rb_peek_at" => Untouched \notin {ret.data[k] : k \in 1 .. ret.n}

(* What rb_peek_at does promise at any offset: every byte it stores is the *)
(* right one, and bytes can only be missing where the run is split at the  *)
(* end of the byte buffer and the offset is not 0.                         *)
PeekPrefix ==
  ret.op = "rb_peek_at" =>
    \A k \in 1 .. ret.n :
      \/ ret.data[k] = Unread[ret.offset + k]
      \/ /\ ret.data[k] = Untouched
         /\ ret.offset > 0
         /\ read_index + ret.offset < Size
         /\ read_index + ret.offset + k > Size
=============================================================================
