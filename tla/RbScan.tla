------------------------------- MODULE RbScan -------------------------------
(***************************************************************************)
(* The calls that are made of other calls of rb/rb.h: searching for a byte *)
(* sequence, de-interleaving, and those of rb/rb_midi.h and rb/rb_float.h. *)
(* One caller at a time, an action is one whole call, next to the calls of *)
(* RbRing.                                                                 *)
(***************************************************************************)
EXTENDS RbRing

CONSTANTS MsgLen,     \* MsgLen[b]: length of the MIDI message that a command
                      \* byte b begins; 0 for a data byte
          FloatSize,  \* sizeof(float)
          Patterns,   \* the byte sequences looked for
          Layouts     \* the arguments of rb_deinterleave_items()

\* Blocks of no bytes are left out: with them the loop never advances.
Layout == [item_count : Nat, item_size : Nat \ {0},
           initial_item_offset : Nat, item_block_size : Nat \ {0}]

ASSUME MidiAssumption == MsgLen \in [Byte -> 0 .. 3]
ASSUME FloatAssumption == FloatSize \in Nat \ {0}
ASSUME PatternAssumption == Patterns \subseteq Seq(Byte) \ {<<>>}
ASSUME LayoutAssumption == Layouts \subseteq Layout

\* The counters after d bytes peeked in several calls, k of them cut short.
Peeks(d, k) ==
  [stats EXCEPT !.bytes_peek = (@ + d) % Word["bytes_peek"],
                !.underflows = (@ + k) % Word["underflows"]]

\* A call that was refused for want of bytes or room counts one incident.
Refused(op, incident) ==
  /\ Return(op, 0, 0, 0, <<>>)
  /\ stats' = [stats EXCEPT ![incident] = (@ + 1) % Word[incident]]
  /\ UNCHANGED data_vars

Fault ==
  /\ alive' = FALSE
  /\ UNCHANGED <<data_vars, stats, ret>>

(***************************************************************************)
(* What rb_peek_at(count, offset) does inside another call: whether it     *)
(* faults, and its destination afterwards.                                 *)
(***************************************************************************)
PeekLen(count, offset) ==
  IF CanRead <= offset THEN 0 ELSE rb_MIN(count, CanRead - offset)

PeekFaults(count, offset) ==
  peek_count_2(read_index + offset, PeekLen(count, offset), offset) < 0

PeekOver(destination, offset) ==
  LET count == Len(destination)
      t == read_index + offset
      n == PeekLen(count, offset)
      new == Peeked(t, n, peek_count_1(t, n), peek_count_2(t, n, offset))
  IN [k \in 1 .. count |->
        IF k <= n /\ ~PeekFaults(count, offset) /\ new[k] # Untouched
          THEN new[k] ELSE destination[k]]
-----------------------------------------------------------------------------
(***************************************************************************)
(* rb_find_byte_sequence().                                                *)
(***************************************************************************)
Candidates(pattern) ==
  {off \in 0 .. CanRead - 1 : ByteAt(off) = pattern[1]}

\* The content of the local array before offset off is looked at: at first
\* whatever was on the stack, later what the peeks at earlier offsets left.
compare_buffer(pattern, stack) ==
  LET content[off \in 0 .. CanRead] ==
        IF off = 0 THEN stack
        ELSE IF off - 1 \in Candidates(pattern)
          THEN PeekOver(content[off - 1], off - 1)
          ELSE content[off - 1]
  IN content

\* Mutant: what follows the first byte is not compared.
Same_first(found, pattern) == found[1] = pattern[1]

Same(found, pattern) == found = pattern

Short(pattern, off) == PeekLen(Len(pattern), off) < Len(pattern)

\* The search ends at this offset, if it comes to it.
Stops(pattern, stack, off) ==
  \/ PeekFaults(Len(pattern), off)
  \/ Short(pattern, off)
  \/ Same(compare_buffer(pattern, stack)[off + 1], pattern)

rb_find_byte_sequence(pattern) ==
  \E stack \in [1 .. Len(pattern) -> Byte] :
    LET count == Len(pattern)
        Before(off) == Cardinality({c \in Candidates(pattern) : c < off})
    IN
      \/ /\ \A off \in Candidates(pattern) : ~Stops(pattern, stack, off)
         /\ Return("rb_find_byte_sequence", 0, 0, 0, <<>>)
         /\ stats' = Peeks(CanRead + count * Before(CanRead), 1)
         /\ UNCHANGED data_vars
      \/ \E off \in Candidates(pattern) :
           /\ Stops(pattern, stack, off)
           /\ \A c \in Candidates(pattern) : c < off => ~Stops(pattern, stack, c)
           /\ \/ PeekFaults(count, off) /\ Fault
              \/ /\ ~PeekFaults(count, off)
                 /\ IF Short(pattern, off)
                      THEN Return("rb_find_byte_sequence", 0, 0, 0, <<>>)
                      ELSE Return("rb_find_byte_sequence", 0, off, 1, <<>>)
                 /\ stats' = Peeks(off + 1 + count * Before(off)
                                     + PeekLen(count, off),
                                   IF Short(pattern, off) THEN 1 ELSE 0)
                 /\ UNCHANGED data_vars
-----------------------------------------------------------------------------
(***************************************************************************)
(* rb_deinterleave_items(): every item_block_size-th item, each with a     *)
(* peek of its own.                                                        *)
(***************************************************************************)
\* The bytes that must be readable.
Needed(l) ==
  l.initial_item_offset * l.item_size
    + (l.item_count - 1) * l.item_size * l.item_block_size + l.item_size

\* Below zero, which takes an item_count of 0, it is an unsigned number larger
\* than any ring.
Refuses(l) == Needed(l) < 0 \/ CanRead < Needed(l)

\* Mutant: the end of the loop counts as one more item.
ItemPositions_inclusive(l) ==
  LET stride == l.item_size * l.item_block_size IN
    [k \in 1 .. Needed(l) \div stride + 1 |->
       l.initial_item_offset * l.item_size + (k - 1) * stride]

\* The offsets peeked at: bytepos = 0, stride, ... while bytepos < Needed,
\* which counts the offset although bytepos begins behind it.
ItemPositions(l) ==
  LET stride == l.item_size * l.item_block_size IN
    [k \in 1 .. (Needed(l) - 1) \div stride + 1 |->
       l.initial_item_offset * l.item_size + (k - 1) * stride]

\* Where byte j of the destination lies among the unread bytes.
ItemByte(l, j) ==
  ItemPositions(l)[(j - 1) \div l.item_size + 1] + ((j - 1) % l.item_size)

rb_deinterleave_items(l) ==
  LET positions == ItemPositions(l)
      blank == [k \in 1 .. l.item_size |-> Untouched]
      bytes == [j \in 1 .. Len(positions) * l.item_size |->
                  PeekOver(blank, positions[(j - 1) \div l.item_size + 1])
                    [((j - 1) % l.item_size) + 1]]
      faults == \E k \in DOMAIN positions :
                  PeekFaults(l.item_size, positions[k])
      short == {k \in DOMAIN positions :
                  PeekLen(l.item_size, positions[k]) < l.item_size}
  IN
    \/ /\ Refuses(l)
       /\ Return("rb_deinterleave_items", 0, 0, 0, <<>>)
       /\ UNCHANGED <<data_vars, stats>>
    \/ ~Refuses(l) /\ faults /\ Fault
    \/ /\ ~Refuses(l) /\ ~faults
       /\ Return("rb_deinterleave_items", 0, 0, l.item_count * l.item_size,
                 bytes)
       /\ stats' = Peeks(Cardinality({j \in DOMAIN bytes :
                                         ItemByte(l, j) < CanRead}),
                         Cardinality(short))
       /\ UNCHANGED data_vars
-----------------------------------------------------------------------------
(***************************************************************************)
(* rb_find_next_midi_message() and rb_read_next_midi_message().            *)
(***************************************************************************)
Commands == {k \in 0 .. CanRead - 1 : MsgLen[ByteAt(k)] > 0}

\* Mutant: an incomplete message is taken for a whole one.
NextMessage_cut == {k \in Commands : \A j \in Commands : k <= j}

\* The first command byte, if its whole message is there.
NextMessage ==
  {k \in Commands : /\ \A j \in Commands : k <= j
                    /\ CanRead >= k + MsgLen[ByteAt(k)]}

\* The search peeks at every byte up to the first command byte.
BytesSearched ==
  IF Commands = {} THEN CanRead
  ELSE 1 + Cardinality({k \in 0 .. CanRead - 1 : \A j \in Commands : k < j})

rb_find_next_midi_message ==
  /\ \/ \E k \in NextMessage :
          Return("rb_find_next_midi_message", 0, k, MsgLen[ByteAt(k)], <<>>)
     \/ NextMessage = {} /\ Return("rb_find_next_midi_message", 0, 0, 0, <<>>)
  /\ stats' = Peeks(BytesSearched, 0)
  /\ UNCHANGED data_vars

\* rb_skip() of the bytes before the message, if any, then rb_read() of it.
rb_read_next_midi_message ==
  \/ \E k \in NextMessage :
       LET n == MsgLen[ByteAt(k)]
           start == IF k > 0 THEN AdvancedIndex(read_index, k) ELSE read_index
       IN
         /\ Return("rb_read_next_midi_message", 0, 0, n, CopyOut(buf, start, n))
         /\ read_index' = CopiedIndex(start, n)
         /\ last_was_write' = FALSE
         /\ stats' = [Peeks(BytesSearched, 0) EXCEPT !.bytes_read =
                        (@ + k + n) % Word["bytes_read"]]
         /\ UNCHANGED <<write_index, buf>>
  \/ /\ NextMessage = {}
     /\ Return("rb_read_next_midi_message", 0, 0, 0, <<>>)
     /\ stats' = Peeks(BytesSearched, 1)
     /\ UNCHANGED data_vars
-----------------------------------------------------------------------------
(***************************************************************************)
(* rb_float.h: a float is moved whole or not at all.                       *)
(***************************************************************************)
\* Mutant: a float is written as soon as there is any room.
FloatFits_some(room) == room > 0

FloatFits(room) == room >= FloatSize

rb_read_float ==
  \/ FloatFits(CanRead) /\ rb_read(FloatSize)
  \/ ~FloatFits(CanRead) /\ Refused("rb_read_float", "underflows")

rb_peek_float_at(offset) ==
  \/ FloatFits(CanRead - offset) /\ rb_peek_at(FloatSize, offset)
  \/ ~FloatFits(CanRead - offset) /\ Refused("rb_peek_float_at", "underflows")

rb_skip_float ==
  \/ FloatFits(CanRead) /\ rb_advance_read_index(FloatSize)
  \/ ~FloatFits(CanRead) /\ Refused("rb_skip_float", "underflows")

rb_write_float(source) ==
  \/ FloatFits(CanWrite) /\ rb_write(source)
  \/ ~FloatFits(CanWrite) /\ Refused("rb_write_float", "overflows")

MidiCall == rb_find_next_midi_message \/ rb_read_next_midi_message

FloatCall ==
  \/ rb_read_float
  \/ \E offset \in Offsets : rb_peek_float_at(offset)
  \/ rb_skip_float
  \/ \E source \in [1 .. FloatSize -> Byte] : rb_write_float(source)

Scanning ==
  /\ alive
  /\ \/ \E pattern \in Patterns : rb_find_byte_sequence(pattern)
     \/ \E l \in Layouts : rb_deinterleave_items(l)
     \/ MidiCall
     \/ FloatCall

ScanSpec == Init /\ [][Next \/ Scanning]_vars
-----------------------------------------------------------------------------
(***************************************************************************)
(* Properties                                                              *)
(***************************************************************************)
Occurrences(pattern) ==
  {off \in 0 .. CanRead - Len(pattern) :
     SubSeq(Unread, off + 1, off + Len(pattern)) = pattern}

InOnePiece(off, n) == read_index + off + n <= Size

(* rb_find_byte_sequence() returns the first occurrence of the sequence if *)
(* that lies before the end of the byte buffer (or at offset 0), and finds *)
(* nothing where there is nothing if all unread bytes lie before it.       *)
(* Beyond the end its peeks come short (see PeekPrefix), and what it       *)
(* compares is partly what an earlier peek or the stack left.              *)
FindsStep(pattern) ==
  LET hits == Occurrences(pattern)
      sure == {off \in hits : off = 0 \/ InOnePiece(off, Len(pattern))}
  IN ret'.op = "rb_find_byte_sequence" =>
       \/ /\ \A off \in sure :
               (\A h \in hits : off <= h) => ret'.n = 1 /\ ret'.offset = off
          /\ hits = {} /\ InOnePiece(0, CanRead) => alive' /\ ret'.n = 0
       \/ ~rb_find_byte_sequence(pattern)
FindsFirst == [][\A pattern \in Patterns : FindsStep(pattern)]_vars

(* Items of one channel come out whole and in order, wherever the blocks   *)
(* wrap around, when the items are aligned in the byte buffer.  An offset  *)
(* within the first block stores these and nothing else.  One of k whole   *)
(* blocks makes the loop run k times more than item_count: what is found   *)
(* there is stored behind the item_count * item_size bytes that the call   *)
(* answers, past the end of a destination of that length.                  *)
DeinterleaveStep(l) ==
  LET n == l.item_count * l.item_size
      extra == (l.initial_item_offset \div l.item_block_size) * l.item_size
      at(j) == (l.initial_item_offset
                  + ((j - 1) \div l.item_size) * l.item_block_size) * l.item_size
                 + ((j - 1) % l.item_size)
  IN
  /\ ret'.op = "rb_deinterleave_items" /\ rb_deinterleave_items(l)
  /\ ~Refuses(l)
  /\ Size % l.item_size = 0 /\ read_index % l.item_size = 0
  =>
    /\ alive'
    /\ ret'.n = n /\ Len(ret'.data) = n + extra
    /\ \A j \in 1 .. n : ret'.data[j] = Unread[at(j) + 1]
    /\ \A j \in n + 1 .. n + extra :
         ret'.data[j] = IF at(j) < CanRead THEN Unread[at(j) + 1] ELSE Untouched
DeinterleavesAligned == [][\A l \in Layouts : DeinterleaveStep(l)]_vars

\* The whole messages among the bytes of q from place i on.
MessagesFrom(q) ==
  LET from[i \in 1 .. Len(q) + 1] ==
        IF i > Len(q) THEN <<>>
        ELSE LET n == MsgLen[q[i]] IN
          IF n = 0 THEN from[i + 1]
          ELSE IF i + n > Len(q) + 1 THEN <<>>
          ELSE <<SubSeq(q, i, i + n - 1)>> \o from[i + n]
  IN from

Messages == MessagesFrom(Unread)[1]

(* The messages a reader gets do not depend on how the writer's bytes were *)
(* cut into writes nor on when the reader looks: reading takes the first   *)
(* whole message and leaves the others whole, and writing only appends.    *)
MidiStep ==
  /\ ret'.op = "rb_read_next_midi_message" /\ rb_read_next_midi_message =>
       IF Messages = <<>>
         THEN ret'.n = 0 /\ Unread' = Unread
         ELSE ret'.data = Head(Messages) /\ Messages' = Tail(Messages)
  /\ ret'.op = "rb_write" => SubSeq(Messages', 1, Len(Messages)) = Messages
MidiFraming == [][MidiStep]_vars

(* No float call leaves a part of a float in the buffer, so a stream of    *)
(* floats stays aligned however small and oddly sized the buffer is.       *)
FloatsWhole ==
  [][CanRead' % FloatSize = CanRead % FloatSize \/ ~FloatCall]_vars
=============================================================================
