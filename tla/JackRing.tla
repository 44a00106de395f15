------------------------------ MODULE JackRing ------------------------------
(***************************************************************************)
(* rb/archive/ringbuffer.c, the JACK ringbuffer rb.h grew out of: one      *)
(* reading and one writing thread, no lock and no flag.  One slot stays    *)
(* free, so equal pointers always mean empty.  A call loads the other      *)
(* thread's pointer once, then moves at most two pieces.                   *)
(*                                                                         *)
(* Each memcpy() and each store of a pointer is one step.  Taking the      *)
(* bytes of a memcpy() one by one would show no more: the two threads      *)
(* never touch the same slot (JackApart in JackRingProofs).  The k-th byte *)
(* written is the number k.  Size is a power of two, for which             *)
(* "& size_mask" is "% Size".                                              *)
(***************************************************************************)
EXTENDS Naturals, Sequences

CONSTANTS Size,      \* rb->size
          MaxSent    \* bound: bytes written

ASSUME JackSizeAssumption == Size \in Nat \ {0}
ASSUME JackBoundAssumption == MaxSent \in Nat

VARIABLES
  jack_buf, read_ptr, write_ptr,
  jack_rd, jack_wr,   \* the calls in progress
  jack_sent,          \* number of bytes written
  jack_out            \* history: the bytes the reading thread has taken

jack_vars == <<jack_buf, read_ptr, write_ptr, jack_rd, jack_wr, jack_sent,
               jack_out>>

Slot == 0 .. Size - 1
size_mask(i) == i % Size

\* The smallest power of two from 2 on that is not less than sz.
jack_ringbuffer_create(sz) ==
  2 ^ (CHOOSE p \in 1 .. sz + 1 :
         2 ^ p >= sz /\ \A q \in 1 .. p - 1 : 2 ^ q < sz)

JackCall(pc, op, at, n1, n2) ==
  [pc |-> pc, op |-> op, at |-> at, n1 |-> n1, n2 |-> n2]
JackIdle == JackCall("idle", "none", 0, 0, 0)
JackNoRead == [call |-> JackIdle, dest |-> <<>>]
JackNoWrite == [call |-> JackIdle, filled |-> 0]

JackInit ==
  /\ jack_buf = [s \in Slot |-> 0]
  /\ read_ptr = 0 /\ write_ptr = 0
  /\ jack_rd = JackNoRead /\ jack_wr = JackNoWrite
  /\ jack_sent = 0 /\ jack_out = <<>>

jack_ringbuffer_read_space ==
  IF write_ptr > read_ptr THEN write_ptr - read_ptr
  ELSE size_mask((write_ptr + Size) - read_ptr)

\* Mutant: no slot stays free.
jack_ringbuffer_write_space_all ==
  IF write_ptr > read_ptr THEN size_mask((read_ptr + Size) - write_ptr)
  ELSE IF write_ptr < read_ptr THEN read_ptr - write_ptr
  ELSE Size

jack_ringbuffer_write_space ==
  IF write_ptr > read_ptr THEN size_mask((read_ptr + Size) - write_ptr) - 1
  ELSE IF write_ptr < read_ptr THEN (read_ptr - write_ptr) - 1
  ELSE Size - 1

\* A call that moves n bytes from slot at on: up to the end of the buffer,
\* then the rest from its start.
jack_call(op, at, n) ==
  LET n1 == IF at + n > Size THEN Size - at ELSE n IN
    JackCall("copy", op, at, n1, n - n1)

\* Mutant: the second piece is taken where the first was.
jack_second_again(call) == JackCall("copy", call.op, call.at, call.n2, 0)

\* On to the second piece, which begins behind the first.
jack_second(call) ==
  JackCall("copy", call.op, size_mask(call.at + call.n1), call.n2, 0)

\* On to the store of the pointer.
jack_store(call) == JackCall("store", call.op, call.at, call.n1, call.n2)
-----------------------------------------------------------------------------
(***************************************************************************)
(* The reading thread: jack_ringbuffer_read, jack_ringbuffer_peek, and     *)
(* "vector", jack_ringbuffer_get_read_vector with a later                  *)
(* jack_ringbuffer_read_advance by what was used.  n is the count asked    *)
(* for, cut to the space.                                                  *)
(***************************************************************************)
jack_reader_calls ==
  /\ jack_rd.call.pc = "idle"
  /\ \E op \in {"read", "peek", "vector"}, n \in 1 .. jack_ringbuffer_read_space :
       jack_rd' = [call |-> jack_call(op, read_ptr, n), dest |-> <<>>]
  /\ UNCHANGED <<jack_buf, read_ptr, write_ptr, jack_wr, jack_sent, jack_out>>

\* memcpy() of one piece.  Only read stores its pointer between the pieces.
jack_reader_copies ==
  /\ jack_rd.call.pc = "copy"
  /\ LET call == jack_rd.call
         piece == [k \in 1 .. call.n1 |-> jack_buf[call.at + k - 1]]
     IN
       jack_rd' = [call |-> IF call.op = "read" \/ (call.op = "vector" /\ call.n2 = 0)
                              THEN jack_store(call)
                            ELSE IF call.n2 > 0 THEN jack_second(call)
                            ELSE JackIdle,
                   dest |-> jack_rd.dest \o piece]
  /\ UNCHANGED <<jack_buf, read_ptr, write_ptr, jack_wr, jack_sent, jack_out>>

jack_reader_stores ==
  /\ jack_rd.call.pc = "store"
  /\ LET call == jack_rd.call IN
       /\ read_ptr' = size_mask(read_ptr + Len(jack_rd.dest))
       /\ jack_out' = jack_out \o jack_rd.dest
       /\ jack_rd' = [call |-> IF call.n2 > 0 THEN jack_second(call) ELSE JackIdle,
                      dest |-> <<>>]
  /\ UNCHANGED <<jack_buf, write_ptr, jack_wr, jack_sent>>
-----------------------------------------------------------------------------
(***************************************************************************)
(* The writing thread: jack_ringbuffer_write, and "vector",                *)
(* jack_ringbuffer_get_write_vector with a later                           *)
(* jack_ringbuffer_write_advance.                                          *)
(***************************************************************************)
jack_writer_calls ==
  /\ jack_wr.call.pc = "idle"
  /\ \E op \in {"write", "vector"}, n \in 1 .. jack_ringbuffer_write_space :
       /\ jack_sent + n <= MaxSent
       /\ jack_wr' = [call |-> jack_call(op, write_ptr, n), filled |-> 0]
  /\ UNCHANGED <<jack_buf, read_ptr, write_ptr, jack_rd, jack_sent, jack_out>>

jack_writer_copies ==
  /\ jack_wr.call.pc = "copy"
  /\ LET call == jack_wr.call IN
       /\ jack_buf' = [s \in Slot |->
            IF s \in call.at .. call.at + call.n1 - 1
              THEN jack_sent + jack_wr.filled + (s - call.at) + 1
              ELSE jack_buf[s]]
       /\ jack_wr' = [call |-> IF call.op = "vector" /\ call.n2 > 0
                                 THEN jack_second(call)
                                 ELSE jack_store(call),
                      filled |-> jack_wr.filled + call.n1]
  /\ UNCHANGED <<read_ptr, write_ptr, jack_rd, jack_sent, jack_out>>

jack_writer_stores ==
  /\ jack_wr.call.pc = "store"
  /\ LET call == jack_wr.call IN
       /\ write_ptr' = size_mask(write_ptr + jack_wr.filled)
       /\ jack_sent' = jack_sent + jack_wr.filled
       /\ jack_wr' = [call |-> IF call.n2 > 0 THEN jack_second(call) ELSE JackIdle,
                      filled |-> 0]
  /\ UNCHANGED <<jack_buf, read_ptr, jack_rd, jack_out>>

\* "This is not thread safe": only while neither thread is in a call.
jack_ringbuffer_reset ==
  /\ jack_rd.call.pc = "idle" /\ jack_wr.call.pc = "idle"
  /\ read_ptr' = 0 /\ write_ptr' = 0
  /\ jack_sent' = Len(jack_out)
  /\ UNCHANGED <<jack_buf, jack_rd, jack_wr, jack_out>>

JackNext == \/ jack_reader_calls \/ jack_reader_copies \/ jack_reader_stores
            \/ jack_writer_calls \/ jack_writer_copies \/ jack_writer_stores
            \/ jack_ringbuffer_reset
JackSpec == JackInit /\ [][JackNext]_jack_vars
-----------------------------------------------------------------------------
\* Every byte a call has copied out of the buffer, a peek's included, is the
\* next one of the stream, while the other thread writes into the same buffer.
JackIntact ==
  \A k \in 1 .. Len(jack_rd.dest) : jack_rd.dest[k] = Len(jack_out) + k

\* The ringbuffer is a pipe with room for Size - 1 bytes: nothing is lost,
\* repeated or reordered and a full buffer is never taken for an empty one.
JackPipe == INSTANCE Pipe WITH Room <- Size - 1, sent <- jack_sent,
                               delivered <- jack_out
JackIsPipe == JackPipe!PipeSpec
=============================================================================
