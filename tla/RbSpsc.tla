------------------------------- MODULE RbSpsc -------------------------------
(***************************************************************************)
(* One reader thread and one writer thread on the same rb_t, without any   *)
(* lock: the use rb/rb.h is made for.  A call is taken apart at its        *)
(* accesses to what both threads touch: the two indices, last_was_write    *)
(* and the bytes of the buffer.  Between two accesses of one thread the    *)
(* other may do anything.                                                  *)
(*                                                                         *)
(* Accesses are sequentially consistent.  The fields are volatile but not  *)
(* atomic, so a real build may reorder more than this; nothing here needs  *)
(* a reordering to go wrong.  memcpy() may take its bytes in any order.    *)
(*                                                                         *)
(* rb_overread, rb_overadvance_read_index, rb_reset and rb_free are left   *)
(* out: rb.h asks the caller to have no other call in progress.            *)
(***************************************************************************)
EXTENDS RbIndex

CONSTANTS Byte,       \* the values of a byte
          MaxCount,   \* bound: largest count argument of a call
          ReaderOps,  \* the calls the reader thread makes
          WriterOps,  \* the calls the writer thread makes
          Word        \* number of values of a statistics counter (2^64)

ASSUME MaxCountAssumption == MaxCount \in Nat \ {0}
ASSUME OpsAssumption ==
  /\ ReaderOps \subseteq {"rb_read", "rb_peek", "rb_get_read_regions",
                          "rb_advance_read_index", "rb_drop"}
  /\ WriterOps \subseteq {"rb_write", "rb_get_write_regions"}
ASSUME WordAssumption == Word \in Nat \ {0}

VARIABLES
  read_index, write_index, last_was_write, buf,
  total_bytes_read, total_bytes_write,
  rd, wr,       \* the reader's and the writer's place in their calls
  stream,       \* ghost: the bytes published and not consumed, oldest first
  intact,       \* ghost: no byte has been lost, repeated, invented or changed
  misled,       \* ghost: last_was_write promised a call more than there was
  overlapped    \* ghost: two calls have been in progress at the same time

shared == <<read_index, write_index, last_was_write, buf>>
totals == <<total_bytes_read, total_bytes_write>>
vars == <<shared, totals, rd, wr, stream, intact, misled, overlapped>>

(***************************************************************************)
(* A thread's place: the step it takes next, the call it is in, the count  *)
(* n it was asked for or has decided on, and the bytes of its memcpy()     *)
(* still to copy.  The writer also holds its source.                       *)
(***************************************************************************)
ReaderAt(pc, op, n, todo) == [pc |-> pc, op |-> op, n |-> n, todo |-> todo]
WriterAt(pc, op, n, todo, source) ==
  [pc |-> pc, op |-> op, n |-> n, todo |-> todo, source |-> source]
IdleReader == ReaderAt("idle", "none", 0, {})
IdleWriter == WriterAt("idle", "none", 0, {}, <<>>)

Init ==
  /\ read_index = 0
  /\ write_index = 0
  /\ last_was_write = FALSE
  /\ buf \in [Index -> Byte]
  /\ total_bytes_read = 0
  /\ total_bytes_write = 0
  /\ rd = IdleReader
  /\ wr = IdleWriter
  /\ stream = <<>>
  /\ intact = TRUE
  /\ misled = FALSE
  /\ overlapped = FALSE

\* The ghost part of a step that keeps the stream if ok, and else gives up
\* following it.
Follow(ok, next_stream) ==
  /\ intact' = (intact /\ ok)
  /\ stream' = IF intact /\ ok THEN next_stream ELSE <<>>
-----------------------------------------------------------------------------
(***************************************************************************)
(* The reader.                                                             *)
(***************************************************************************)
Copies(op) == op \in {"rb_read", "rb_peek", "rb_get_read_regions"}

\* What the call does once rb_can_read() has returned can.
ReaderServes(op, count, can) ==
  LET n == IF op = "rb_drop" THEN can ELSE rb_MIN(count, can) IN
    rd' = IF can = 0 THEN IdleReader
          ELSE IF op = "rb_drop" THEN ReaderAt("advance", op, n, {})
          ELSE IF Copies(op) THEN ReaderAt("copy", op, n, 0 .. n - 1)
          ELSE ReaderAt("store_index", op, n, {})

\* rb_can_read(), first part: the other thread's index.  Only equal
\* indices make it look at the flag.
ReaderLoadsIndex(op, count) ==
  IF read_index = write_index
    THEN rd' = ReaderAt("load_flag", op, count, {})
    ELSE ReaderServes(op, count, rb_can_read(read_index, write_index, FALSE))

reader_call ==
  /\ rd.pc = "idle"
  /\ \E op \in ReaderOps, count \in 1 .. MaxCount : ReaderLoadsIndex(op, count)
  /\ overlapped' = (overlapped \/ wr.pc # "idle")
  /\ UNCHANGED <<shared, totals, wr, stream, intact, misled>>

\* rb_can_read(), second part: the flag.
reader_loads_flag ==
  /\ rd.pc = "load_flag"
  /\ LET can == IF last_was_write THEN Size ELSE 0 IN
       /\ ReaderServes(rd.op, rd.n, can)
       /\ misled' = (misled \/ (intact /\ can > Len(stream)))
  /\ UNCHANGED <<shared, totals, wr, stream, intact, overlapped>>

\* One byte of the memcpy(), or of the caller's use of the read regions.
reader_copies ==
  /\ rd.pc = "copy"
  /\ \E k \in rd.todo :
       LET left == rd.todo \ {k} IN
         /\ rd' = IF left # {} THEN ReaderAt("copy", rd.op, rd.n, left)
                  ELSE CASE rd.op = "rb_read" -> ReaderAt("store_index", rd.op, rd.n, {})
                         [] rd.op = "rb_peek" -> IdleReader
                         [] OTHER -> ReaderAt("advance", rd.op, rd.n, {})
         /\ Follow(/\ k < Len(stream)
                   /\ buf[(read_index + k) % Size] = stream[k + 1], stream)
  /\ UNCHANGED <<shared, totals, wr, misled, overlapped>>

\* After rb_get_read_regions() the caller advances by what it used, after
\* rb_can_read() rb_drop advances by what it returned; rb_advance_read_index
\* begins with a rb_can_read() of its own.
reader_advances ==
  /\ rd.pc = "advance"
  /\ ReaderLoadsIndex("rb_advance_read_index", rd.n)
  /\ UNCHANGED <<shared, totals, wr, stream, intact, misled, overlapped>>

reader_stores_index ==
  /\ rd.pc = "store_index"
  /\ read_index' = IF rd.op = "rb_read" THEN CopiedIndex(read_index, rd.n)
                                        ELSE AdvancedIndex(read_index, rd.n)
  /\ rd' = ReaderAt("clear_flag", rd.op, rd.n, {})
  /\ Follow(rd.n <= Len(stream), SubSeq(stream, rd.n + 1, Len(stream)))
  /\ UNCHANGED <<write_index, last_was_write, buf, totals, wr, misled,
                 overlapped>>

\* The flag, then the reader's own counter.
reader_clears_flag ==
  /\ rd.pc = "clear_flag"
  /\ last_was_write' = FALSE
  /\ total_bytes_read' = (total_bytes_read + rd.n) % Word
  /\ rd' = IdleReader
  /\ UNCHANGED <<read_index, write_index, buf, total_bytes_write, wr, stream,
                 intact, misled, overlapped>>

Reader == \/ reader_call \/ reader_loads_flag \/ reader_copies
          \/ reader_advances \/ reader_stores_index \/ reader_clears_flag
-----------------------------------------------------------------------------
(***************************************************************************)
(* The writer.                                                             *)
(***************************************************************************)
WriterServes(op, source, can) ==
  LET n == rb_MIN(Len(source), can) IN
    wr' = IF can = 0 THEN IdleWriter
          ELSE IF op = "rb_advance_write_index"
            THEN WriterAt("store_index", op, n, {}, SubSeq(source, 1, n))
            ELSE WriterAt("copy", op, n, 0 .. n - 1, SubSeq(source, 1, n))

\* rb_can_write(), first part: the other thread's index.
WriterLoadsIndex(op, source) ==
  IF read_index = write_index
    THEN wr' = WriterAt("load_flag", op, Len(source), {}, source)
    ELSE WriterServes(op, source, rb_can_write(read_index, write_index, FALSE))

writer_call ==
  /\ wr.pc = "idle"
  /\ \E op \in WriterOps, count \in 1 .. MaxCount :
       \E source \in [1 .. count -> Byte] : WriterLoadsIndex(op, source)
  /\ overlapped' = (overlapped \/ rd.pc # "idle")
  /\ UNCHANGED <<shared, totals, rd, stream, intact, misled>>

\* rb_can_write(), second part: the flag.
writer_loads_flag ==
  /\ wr.pc = "load_flag"
  /\ LET can == IF last_was_write THEN 0 ELSE Size IN
       /\ WriterServes(wr.op, wr.source, can)
       /\ misled' = (misled \/ (intact /\ can > Size - Len(stream)))
  /\ UNCHANGED <<shared, totals, rd, stream, intact, overlapped>>

\* One byte of the memcpy(), or of the caller's fill of the write regions.
writer_copies ==
  /\ wr.pc = "copy"
  /\ \E k \in wr.todo :
       LET left == wr.todo \ {k} IN
         /\ buf' = [buf EXCEPT ![(write_index + k) % Size] = wr.source[k + 1]]
         /\ wr' = WriterAt(IF left # {} THEN "copy"
                             ELSE IF wr.op = "rb_write" THEN "store_index"
                             ELSE "advance",
                           wr.op, wr.n, left, wr.source)
  /\ UNCHANGED <<read_index, write_index, last_was_write, totals, rd, stream,
                 intact, misled, overlapped>>

\* After rb_get_write_regions() the caller publishes what it stored.
writer_advances ==
  /\ wr.pc = "advance"
  /\ WriterLoadsIndex("rb_advance_write_index", wr.source)
  /\ UNCHANGED <<shared, totals, rd, stream, intact, misled, overlapped>>

writer_stores_index ==
  /\ wr.pc = "store_index"
  /\ write_index' = IF wr.op = "rb_write" THEN CopiedIndex(write_index, wr.n)
                                          ELSE AdvancedIndex(write_index, wr.n)
  /\ wr' = WriterAt("set_flag", wr.op, wr.n, {}, wr.source)
  /\ Follow(Len(stream) + wr.n <= Size, stream \o wr.source)
  /\ UNCHANGED <<read_index, last_was_write, buf, totals, rd, misled,
                 overlapped>>

\* Mutant: the flag is never set.
writer_forgets_flag ==
  /\ wr.pc = "set_flag"
  /\ total_bytes_write' = (total_bytes_write + wr.n) % Word
  /\ wr' = IdleWriter
  /\ UNCHANGED <<shared, total_bytes_read, rd, stream, intact, misled,
                 overlapped>>

\* The flag, then the writer's own counter.
writer_sets_flag ==
  /\ wr.pc = "set_flag"
  /\ last_was_write' = TRUE
  /\ total_bytes_write' = (total_bytes_write + wr.n) % Word
  /\ wr' = IdleWriter
  /\ UNCHANGED <<read_index, write_index, buf, total_bytes_read, rd, stream,
                 intact, misled, overlapped>>

Writer == \/ writer_call \/ writer_loads_flag \/ writer_copies
          \/ writer_advances \/ writer_stores_index \/ writer_sets_flag

Next == Reader \/ Writer

Spec == Init /\ [][Next]_vars

(* Both threads call again and again and are scheduled, as the threads of  *)
(* rb_test2.c and rb_test_interleave.c are; no lock is involved, so weak   *)
(* fairness of each thread is what the scheduler gives.                    *)
FairSpec == Spec /\ WF_vars(Reader) /\ WF_vars(Writer)
-----------------------------------------------------------------------------
(***************************************************************************)
(* Properties                                                              *)
(***************************************************************************)
Place == [pc : {"idle", "load_flag", "copy", "advance", "store_index",
                "clear_flag", "set_flag"},
          op : ReaderOps \cup WriterOps
                 \cup {"none", "rb_advance_read_index",
                       "rb_advance_write_index"},
          n : Nat, todo : SUBSET Index]

(* No interleaving drives an index, or a byte of a memcpy(), out of the    *)
(* buffer, and no call is served more than Size bytes.                     *)
TypeOK ==
  /\ read_index \in Index
  /\ write_index \in Index
  /\ last_was_write \in BOOLEAN
  /\ buf \in [Index -> Byte]
  /\ total_bytes_read \in 0 .. Word - 1
  /\ total_bytes_write \in 0 .. Word - 1
  /\ rd \in Place
  /\ [pc |-> wr.pc, op |-> wr.op, n |-> wr.n, todo |-> wr.todo] \in Place
  /\ wr.source \in Seq(Byte)
  /\ rd.pc \in {"copy", "store_index", "clear_flag"} => rd.n \in 1 .. Size
  /\ wr.pc \in {"copy", "store_index", "set_flag"} => wr.n \in 1 .. Size
  /\ stream \in Seq(Byte)
  /\ Len(stream) \in Count

(* The stream the reader gets is the stream the writer put in as long as   *)
(* last_was_write, consulted when the indices are equal, has promised no   *)
(* call more than there was: bytes are published only after they are       *)
(* stored, freed only after they are copied, and a decision made on        *)
(* unequal indices stays safe however long the thread then waits.          *)
IntactUnlessMisled == ~misled => intact

(* Calls that do not overlap keep the stream, however they alternate, so   *)
(* one lock around every call of both sides is a sufficient discipline.    *)
SerialCallsIntact == ~overlapped => intact /\ ~misled

(* Whatever a race does, each index remains its side's byte total modulo   *)
(* Size: a reader is displaced by whole buffers only and meets the bytes   *)
(* of the stream in their own positions again.  It holds where the counter *)
(* width is a multiple of Size (a power of two in the code), for another   *)
(* Size until a counter wraps.                                             *)
IndicesFollowTotals ==
  /\ read_index =
       (total_bytes_read + IF rd.pc = "clear_flag" THEN rd.n ELSE 0) % Size
  /\ write_index =
       (total_bytes_write + IF wr.pc = "set_flag" THEN wr.n ELSE 0) % Size

(* Neither side is ever shut out for good: as long as the reader keeps     *)
(* reading and the writer keeps writing, whatever else they call, bytes are *)
(* taken again and again and placed again and again, even if the flag has  *)
(* misled them.                                                            *)
BothSidesProgress ==
  []<>(rd.op = "rb_read") /\ []<>(wr.op = "rb_write") =>
    []<>(rd.pc = "clear_flag") /\ []<>(wr.pc = "set_flag")

(* rb.h: the ringbuffer "can be safely accessed by two threads             *)
(* simultaneously -- one reading from the buffer and the other writing to  *)
(* it"; rb_test2.c: data "should keep the same byte values, sequence of    *)
(* bytes".  No byte is lost, repeated, invented or changed.                *)
StreamIntact == intact
=============================================================================
