---------------------------- MODULE RbRingProofs ----------------------------
(***************************************************************************)
(* What holds of RbRing for every Size, every set of bytes, every count    *)
(* and offset a caller passes and every width of the counters.             *)
(***************************************************************************)
EXTENDS RbRing, RbIndexProofs, SequenceTheorems

USE SizeAssumption DEF Index, Count

(* The bytes of a piece of the buffer.                                     *)
LEMMA SegmentType ==
  ASSUME NEW b \in [Index -> Byte], NEW i \in Index, NEW n \in 0 .. Size - i
  PROVE  Segment(b, i, n) \in Seq(Byte) /\ Len(Segment(b, i, n)) = n
  BY DEF Segment

(* memcpy() out of the buffer delivers n bytes, memcpy() into it leaves    *)
(* bytes in every slot.                                                    *)
LEMMA CopyOutType ==
  ASSUME NEW b \in [Index -> Byte], NEW i \in Index, NEW n \in Count
  PROVE  CopyOut(b, i, n) \in Seq(Byte) /\ Len(CopyOut(b, i, n)) = n
  <1> DEFINE c1 == copy_count_1(i, n)
             c2 == copy_count_2(i, n)
  <1> HIDE DEF c1, c2
  <1>1. c1 \in 0 .. Size - i /\ c2 \in 0 .. i /\ c1 + c2 = n
    BY SplitInBuffer DEF c1, c2
  <1>2. Segment(b, i, c1) \in Seq(Byte) /\ Len(Segment(b, i, c1)) = c1
    BY <1>1, SegmentType
  <1>3. Segment(b, 0, c2) \in Seq(Byte) /\ Len(Segment(b, 0, c2)) = c2
    <2>1. 0 \in Index /\ c2 \in 0 .. Size - 0
      BY <1>1
    <2> QED  BY <2>1, SegmentType
  <1> QED
    BY <1>1, <1>2, <1>3 DEF CopyOut, c1, c2

LEMMA CopyInType ==
  ASSUME NEW b \in [Index -> Byte], NEW i \in Index,
         NEW source \in Seq(Byte), NEW n \in Count, n <= Len(source)
  PROVE  CopyIn(b, i, source, n) \in [Index -> Byte]
  <1>1. copy_count_1(i, n) \in 0 .. Size - i /\ copy_count_2(i, n) \in 0 .. i
        /\ copy_count_1(i, n) + copy_count_2(i, n) = n
    BY SplitInBuffer
  <1> QED
    BY <1>1 DEF CopyIn
-----------------------------------------------------------------------------
(***************************************************************************)
(* Type correctness: every index, every copied run and every result stays  *)
(* within the buffer.  TypeOK is inductive as it stands.                   *)
(***************************************************************************)

(* The fill level a call computes.                                         *)
LEMMA FillType ==
  ASSUME TypeOK
  PROVE  CanRead \in Count /\ CanWrite \in Count /\ CanRead + CanWrite = Size
  BY FillInCount DEF TypeOK, CanRead, CanWrite

(* A counter stays within its word whatever is added to it.                *)
LEMMA CountedType ==
  ASSUME stats \in Stats,
         NEW c \in Counters, NEW d \in Int, NEW incident \in Counters,
         NEW n \in Int, NEW count \in Int
  PROVE  Counted(c, d, incident, n, count) \in Stats
  <1>1. \A x \in Counters, a \in Int : a % Word[x] \in Nat /\ a % Word[x] < Word[x]
    BY WordAssumption
  <1>2. (IF n < count THEN 1 ELSE 0) \in Int
    OBVIOUS
  <1> QED
    BY <1>1, <1>2 DEF Counted, Stats

(* The names of the counters.                                              *)
LEMMA CounterNames ==
  /\ "bytes_read" \in Counters /\ "bytes_write" \in Counters
  /\ "bytes_peek" \in Counters
  /\ "underflows" \in Counters /\ "overflows" \in Counters
  BY DEF Counters

LEMMA CountsAreIntegers == Count \subseteq Int /\ Nat \subseteq Int
  OBVIOUS

(* A result record of the right shape.                                     *)
LEMMA ReturnType ==
  ASSUME TypeOK,
         NEW op \in Calls, NEW count \in Nat, NEW offset \in Nat,
         NEW n \in Count, NEW data \in Seq(Byte \cup {Untouched}),
         Return(op, count, offset, n, data)
  PROVE  ret' \in Ret /\ alive' \in BOOLEAN
  BY DEF TypeOK, Return, Ret

LEMMA BytesAreData == Seq(Byte) \subseteq Seq(Byte \cup {Untouched})
  OBVIOUS

LEMMA NoData == <<>> \in Seq(Byte \cup {Untouched})
  OBVIOUS

LEMMA TakeType ==
  ASSUME TypeOK, NEW count \in Nat, NEW over \in BOOLEAN
  PROVE  TakeCount(count, over) \in Count
  BY FillType DEF TakeCount, rb_MIN

LEMMA ConsumeType ==
  ASSUME TypeOK, NEW index \in Index, NEW n \in Count, NEW count \in Nat,
         NEW over \in BOOLEAN, NEW can \in Count,
         Consume(index, n, count, over, can)
  PROVE  /\ read_index' \in Index
         /\ write_index' \in Index
         /\ last_was_write' \in BOOLEAN
         /\ buf' \in [Index -> Byte]
         /\ stats' \in Stats
  <1>1. stats' \in Stats
    <2> HIDE DEF Count
    <2>1. n \in Int /\ count \in Int
      BY CountsAreIntegers
    <2>2. Counted("bytes_read", n, "underflows", n, count)
            \in Stats
      BY <2>1, CountedType, CounterNames DEF TypeOK
    <2> QED  BY <2>2 DEF Consume
  <1> QED
    BY <1>1 DEF TypeOK, Consume

LEMMA ProduceType ==
  ASSUME TypeOK, NEW index \in Index, NEW n \in Count, NEW count \in Nat,
         Produce(index, n, count)
  PROVE  /\ read_index' \in Index
         /\ write_index' \in Index
         /\ last_was_write' \in BOOLEAN
         /\ stats' \in Stats
  <1>1. stats' \in Stats
    <2> HIDE DEF Count
    <2>1. n \in Int /\ count \in Int
      BY CountsAreIntegers
    <2>2. Counted("bytes_write", n, "overflows", n, count)
            \in Stats
      BY <2>1, CountedType, CounterNames DEF TypeOK
    <2> QED  BY <2>2 DEF Produce
  <1> QED
    BY <1>1 DEF TypeOK, Produce

LEMMA ReadType ==
  ASSUME TypeOK, NEW op \in Calls, NEW count \in Nat, NEW over \in BOOLEAN,
         rb_generic_read(op, count, over)
  PROVE  TypeOK'
  <1> DEFINE n == TakeCount(count, over)
  <1>0. /\ 0 \in Int /\ 0 \in Nat /\ 0 \in Count /\ count \in Int
        /\ n \in Count /\ CanRead \in Count
    BY TakeType, FillType
  <1>1. CASE /\ Return(op, count, 0, 0, <<>>)
             /\ UNCHANGED <<data_vars, stats>>
    <2>1. ret' \in Ret /\ alive' \in BOOLEAN
      BY <1>0, <1>1, ReturnType, NoData
    <2> QED  BY <1>1, <2>1 DEF TypeOK, data_vars
  <1>2. CASE /\ Return(op, count, 0, n, CopyOut(buf, read_index, n))
             /\ Consume(CopiedIndex(read_index, n), n, count, over, CanRead)
    <2>1. CopyOut(buf, read_index, n) \in Seq(Byte \cup {Untouched})
      BY <1>0, CopyOutType, BytesAreData DEF TypeOK
    <2>2. ret' \in Ret /\ alive' \in BOOLEAN
      BY <1>0, <1>2, <2>1, ReturnType
    <2>3. CopiedIndex(read_index, n) \in Index
      BY <1>0, MovedIndex DEF TypeOK
    <2>4. /\ read_index' \in Index
          /\ write_index' \in Index
          /\ last_was_write' \in BOOLEAN
          /\ buf' \in [Index -> Byte]
          /\ stats' \in Stats
      BY <1>0, <1>2, <2>3, ConsumeType
    <2> QED  BY <2>2, <2>4 DEF TypeOK
  <1> QED
    BY <1>1, <1>2 DEF rb_generic_read

LEMMA AdvanceReadType ==
  ASSUME TypeOK, NEW op \in Calls, NEW count \in Nat, NEW over \in BOOLEAN,
         rb_generic_advance_read_index(op, count, over)
  PROVE  TypeOK'
  <1> DEFINE n == TakeCount(count, over)
  <1>0. /\ 0 \in Int /\ 0 \in Nat /\ 0 \in Count /\ count \in Int
        /\ n \in Count /\ CanRead \in Count
    BY TakeType, FillType
  <1>1. CASE /\ Return(op, count, 0, 0, <<>>)
             /\ stats' \in {stats, Counted("bytes_read", 0, "underflows", 0, count)}
             /\ UNCHANGED data_vars
    <2>1. ret' \in Ret /\ alive' \in BOOLEAN
      BY <1>0, <1>1, ReturnType, NoData
    <2>2. stats' \in Stats
      BY <1>1, CountedType, CounterNames DEF TypeOK
    <2> QED  BY <1>1, <2>1, <2>2 DEF TypeOK, data_vars
  <1>2. CASE /\ Return(op, count, 0, n, <<>>)
             /\ Consume(AdvancedIndex(read_index, n), n, count, over, CanRead)
    <2>2. ret' \in Ret /\ alive' \in BOOLEAN
      BY <1>0, <1>2, NoData, ReturnType
    <2>3. AdvancedIndex(read_index, n) \in Index
      BY <1>0, MovedIndex DEF TypeOK
    <2>4. /\ read_index' \in Index
          /\ write_index' \in Index
          /\ last_was_write' \in BOOLEAN
          /\ buf' \in [Index -> Byte]
          /\ stats' \in Stats
      BY <1>0, <1>2, <2>3, ConsumeType
    <2> QED  BY <2>2, <2>4 DEF TypeOK
  <1> QED
    BY <1>1, <1>2 DEF rb_generic_advance_read_index

LEMMA WriteType ==
  ASSUME TypeOK, NEW source \in Seq(Byte), rb_write(source)
  PROVE  TypeOK'
  <1> DEFINE count == Len(source)
             n == rb_MIN(count, CanWrite)
  <1>0. /\ 0 \in Int /\ 0 \in Nat /\ 0 \in Count
        /\ count \in Nat /\ n \in Count /\ n <= count
        /\ "rb_write" \in Calls
    BY FillType DEF rb_MIN, Calls
  <1>1. CASE /\ Return("rb_write", count, 0, 0, <<>>)
             /\ UNCHANGED <<data_vars, stats>>
    <2>1. ret' \in Ret /\ alive' \in BOOLEAN
      BY <1>0, <1>1, ReturnType, NoData
    <2> QED  BY <1>1, <2>1 DEF TypeOK, data_vars
  <1>2. CASE /\ Return("rb_write", count, 0, n, <<>>)
             /\ buf' = CopyIn(buf, write_index, source, n)
             /\ Produce(CopiedIndex(write_index, n), n, count)
    <2>1. ret' \in Ret /\ alive' \in BOOLEAN
      BY <1>0, <1>2, ReturnType, NoData
    <2>2. buf' \in [Index -> Byte]
      BY <1>0, <1>2, CopyInType DEF TypeOK
    <2>3. CopiedIndex(write_index, n) \in Index
      BY <1>0, MovedIndex DEF TypeOK
    <2>4. /\ read_index' \in Index
          /\ write_index' \in Index
          /\ last_was_write' \in BOOLEAN
          /\ stats' \in Stats
      BY <1>0, <1>2, <2>3, ProduceType
    <2> QED  BY <2>1, <2>2, <2>4 DEF TypeOK
  <1> QED
    BY <1>1, <1>2 DEF rb_write

LEMMA AdvanceWriteType ==
  ASSUME TypeOK, NEW count \in Nat, rb_advance_write_index(count)
  PROVE  TypeOK'
  <1> DEFINE n == rb_MIN(count, CanWrite)
  <1>0. /\ 0 \in Int /\ 0 \in Nat /\ 0 \in Count /\ n \in Count
        /\ count \in Int
        /\ "rb_advance_write_index" \in Calls
    BY FillType DEF rb_MIN, Calls
  <1>1. CASE /\ Return("rb_advance_write_index", count, 0, 0, <<>>)
             /\ stats' \in {stats, Counted("bytes_write", 0, "overflows", 0, count)}
             /\ UNCHANGED data_vars
    <2>1. ret' \in Ret /\ alive' \in BOOLEAN
      BY <1>0, <1>1, ReturnType, NoData
    <2>2. stats' \in Stats
      BY <1>1, CountedType, CounterNames DEF TypeOK
    <2> QED  BY <1>1, <2>1, <2>2 DEF TypeOK, data_vars
  <1>2. CASE /\ Return("rb_advance_write_index", count, 0, n, <<>>)
             /\ Produce(AdvancedIndex(write_index, n), n, count)
             /\ UNCHANGED buf
    <2>1. ret' \in Ret /\ alive' \in BOOLEAN
      BY <1>0, <1>2, ReturnType, NoData
    <2>2. AdvancedIndex(write_index, n) \in Index
      BY <1>0, MovedIndex DEF TypeOK
    <2>3. /\ read_index' \in Index
          /\ write_index' \in Index
          /\ last_was_write' \in BOOLEAN
          /\ stats' \in Stats
      BY <1>0, <1>2, <2>2, ProduceType
    <2> QED  BY <1>2, <2>1, <2>3 DEF TypeOK
  <1> QED
    BY <1>1, <1>2 DEF rb_advance_write_index

(* A position less than one buffer beyond the end, brought back.           *)
LEMMA ModOnce ==
  ASSUME NEW t \in Nat, t < 2 * Size
  PROVE  t % Size = IF t < Size THEN t ELSE t - Size
  <1>1. CASE t < Size
    BY <1>1
  <1>2. CASE t >= Size
    <2>1. t - Size \in Index
      BY <1>2
    <2>2. \A a \in Index : a % Size = a
      OBVIOUS
    <2>3. \A a \in Index : (a + Size) % Size = a % Size
      OBVIOUS
    <2> QED  BY <1>2, <2>1, <2>2, <2>3
  <1> QED  BY <1>1, <1>2

(* Both copies of rb_peek_at lie in the buffer whenever the second size is *)
(* not negative, and with the untouched bytes they make up the count.      *)
LEMMA PeekedType ==
  ASSUME TypeOK, NEW offset \in Nat, NEW n \in 1 .. Size,
         n + offset <= CanRead,
         peek_count_2(read_index + offset, n, offset) >= 0
  PROVE  LET t == read_index + offset IN
         Peeked(t, n, peek_count_1(t, n), peek_count_2(t, n, offset))
           \in Seq(Byte \cup {Untouched})
  <1> DEFINE t == read_index + offset
             c1 == peek_count_1(t, n)
             c2 == peek_count_2(t, n, offset)
             i == t % Size
             rest == [k \in 1 .. n - c1 - c2 |-> Untouched]
  <1>1. CanRead \in Count /\ read_index \in Index
    BY FillType DEF TypeOK
  <1>2. /\ t \in Nat /\ t < 2 * Size
        /\ i = IF t < Size THEN t ELSE t - Size
        /\ t + n < 2 * Size
    BY <1>1, ModOnce
  <1>3. c1 \in 0 .. Size - i /\ c2 \in 0 .. Size /\ n - c1 - c2 \in Nat
    BY <1>1, <1>2 DEF peek_count_1, peek_count_2
  <1>4. i \in Index /\ 0 \in Index /\ c2 \in 0 .. Size - 0
    BY <1>2, <1>3
  <1> HIDE DEF t, c1, c2, i
  <1>5. Segment(buf, i, c1) \in Seq(Byte \cup {Untouched})
    BY <1>3, <1>4, SegmentType, BytesAreData DEF TypeOK
  <1>6. Segment(buf, 0, c2) \in Seq(Byte \cup {Untouched})
    BY <1>4, SegmentType, BytesAreData DEF TypeOK
  <1>7. rest \in Seq(Byte \cup {Untouched})
    BY <1>3
  <1> HIDE DEF rest
  <1>8. Peeked(t, n, c1, c2) \in Seq(Byte \cup {Untouched})
    BY <1>5, <1>6, <1>7 DEF Peeked, i, rest
  <1> QED  BY <1>8 DEF t, c1, c2

LEMMA PeekAtType ==
  ASSUME TypeOK, NEW count \in Nat, NEW offset \in Nat,
         rb_peek_at(count, offset)
  PROVE  TypeOK'
  <1> DEFINE n == rb_MIN(count, CanRead - offset)
             t == read_index + offset
             c1 == peek_count_1(t, n)
             c2 == peek_count_2(t, n, offset)
  <1>0. /\ 0 \in Int /\ 0 \in Nat /\ 0 \in Count /\ 1 \in Int /\ count \in Int
        /\ CanRead \in Count
        /\ "rb_peek_at" \in Calls
    BY FillType DEF Calls
  <1>1. CASE /\ Return("rb_peek_at", count, offset, 0, <<>>)
             /\ stats' \in {stats, Counted("bytes_peek", 0, "underflows", 0, 1)}
             /\ UNCHANGED data_vars
    <2>1. ret' \in Ret /\ alive' \in BOOLEAN
      BY <1>0, <1>1, ReturnType, NoData
    <2>2. stats' \in Stats
      BY <1>0, <1>1, CountedType, CounterNames DEF TypeOK
    <2> QED  BY <1>1, <2>1, <2>2 DEF TypeOK, data_vars
  <1>2. CASE /\ count > 0 /\ CanRead > offset /\ c2 >= 0
             /\ Return("rb_peek_at", count, offset, n, Peeked(t, n, c1, c2))
             /\ stats' = Counted("bytes_peek", n, "underflows", n, count)
             /\ UNCHANGED data_vars
    <2>1. n \in 1 .. Size /\ n \in Count /\ n \in Int /\ n + offset <= CanRead
      BY <1>0, <1>2 DEF rb_MIN
    <2>2. Peeked(t, n, c1, c2) \in Seq(Byte \cup {Untouched})
      <3> HIDE DEF n
      <3> QED  BY <1>2, <2>1, PeekedType
    <2>3. ret' \in Ret /\ alive' \in BOOLEAN
      BY <1>0, <1>2, <2>1, <2>2, ReturnType
    <2>4. stats' \in Stats
      BY <1>0, <1>2, <2>1, CountedType, CounterNames DEF TypeOK
    <2> QED  BY <1>2, <2>3, <2>4 DEF TypeOK, data_vars
  <1>3. CASE alive' = FALSE /\ UNCHANGED <<stats, ret, data_vars>>
    BY <1>3 DEF TypeOK, data_vars
  <1> QED
    BY <1>1, <1>2, <1>3 DEF rb_peek_at

(* The byte at any readable offset is a byte of the buffer.                *)
LEMMA ByteAtType ==
  ASSUME TypeOK, NEW offset \in Nat, offset < CanRead
  PROVE  ByteAt(offset) \in Byte
  BY FillType DEF TypeOK, ByteAt

LEMMA PeekByteAtType ==
  ASSUME TypeOK, NEW offset \in Nat, rb_peek_byte_at(offset)
  PROVE  TypeOK'
  <1>0. /\ 0 \in Count /\ 1 \in Nat /\ 1 \in Count /\ 0 \in Int /\ 1 \in Int
        /\ CanRead \in Count
        /\ "rb_peek_byte_at" \in Calls
    BY FillType DEF Calls
  <1>1. CASE /\ Return("rb_peek_byte_at", 1, offset, 0, <<>>)
             /\ stats' = Counted("bytes_peek", 0, "underflows", 0, 1)
             /\ UNCHANGED data_vars
    <2>1. ret' \in Ret /\ alive' \in BOOLEAN
      BY <1>0, <1>1, ReturnType, NoData
    <2>2. stats' \in Stats
      BY <1>0, <1>1, CountedType, CounterNames DEF TypeOK
    <2> QED  BY <1>1, <2>1, <2>2 DEF TypeOK, data_vars
  <1>2. CASE /\ CanRead > offset
             /\ Return("rb_peek_byte_at", 1, offset, 1, <<ByteAt(offset)>>)
             /\ stats' = Counted("bytes_peek", 1, "underflows", 1, 1)
             /\ UNCHANGED data_vars
    <2>1. <<ByteAt(offset)>> \in Seq(Byte \cup {Untouched})
      BY <1>0, <1>2, ByteAtType
    <2>2. ret' \in Ret /\ alive' \in BOOLEAN
      BY <1>0, <1>2, <2>1, ReturnType
    <2>3. stats' \in Stats
      BY <1>0, <1>2, CountedType, CounterNames DEF TypeOK
    <2> QED  BY <1>2, <2>2, <2>3 DEF TypeOK, data_vars
  <1> QED
    BY <1>1, <1>2 DEF rb_peek_byte_at

LEMMA FindByteType ==
  ASSUME TypeOK, NEW b \in Byte, rb_find_byte(b)
  PROVE  TypeOK'
  <1>0. /\ 0 \in Nat /\ 0 \in Count /\ 1 \in Count /\ 0 \in Int /\ 1 \in Int
        /\ CanRead \in Count /\ CanRead \in Int
        /\ "rb_find_byte" \in Calls
    BY FillType DEF Calls
  <1>1. ASSUME NEW k \in 0 .. CanRead - 1,
               Return("rb_find_byte", 0, k, 1, <<>>),
               stats' = Counted("bytes_peek", k + 1, "underflows", 0, 0),
               UNCHANGED data_vars
        PROVE  TypeOK'
    <2>1. k \in Nat /\ k + 1 \in Int
      BY <1>0
    <2>2. ret' \in Ret /\ alive' \in BOOLEAN
      BY <1>0, <1>1, <2>1, ReturnType, NoData
    <2>3. stats' \in Stats
      BY <1>0, <1>1, <2>1, CountedType, CounterNames DEF TypeOK
    <2> QED  BY <1>1, <2>2, <2>3 DEF TypeOK, data_vars
  <1>2. CASE /\ Return("rb_find_byte", 0, 0, 0, <<>>)
             /\ stats' = Counted("bytes_peek", CanRead, "underflows", 0, 1)
             /\ UNCHANGED data_vars
    <2>1. ret' \in Ret /\ alive' \in BOOLEAN
      BY <1>0, <1>2, ReturnType, NoData
    <2>2. stats' \in Stats
      BY <1>0, <1>2, CountedType, CounterNames DEF TypeOK
    <2> QED  BY <1>2, <2>1, <2>2 DEF TypeOK, data_vars
  <1> QED
    BY <1>1, <1>2 DEF rb_find_byte

(* The two read regions, and the slots a zero-copy writer may store to,    *)
(* lie in the buffer.                                                      *)
LEMMA RegionBytesType ==
  ASSUME TypeOK
  PROVE  /\ RegionBytes(read_regions[1]) \in Seq(Byte)
         /\ RegionBytes(read_regions[2]) \in Seq(Byte)
         /\ read_regions[1].size \in Count
         /\ \A k \in {1, 2} : RegionSlots(write_regions[k]) \subseteq Index
  <1>1. /\ CanRead \in Count /\ CanWrite \in Count
        /\ read_index \in Index /\ write_index \in Index /\ 0 \in Index
    BY FillType DEF TypeOK
  <1>2. /\ copy_count_1(read_index, CanRead) \in 0 .. Size - read_index
        /\ copy_count_2(read_index, CanRead) \in 0 .. Size - 0
        /\ copy_count_1(write_index, CanWrite) \in 0 .. Size - write_index
        /\ copy_count_2(write_index, CanWrite) \in 0 .. Size - 0
    <2>1. \A i \in Index, n \in Count :
            /\ copy_count_1(i, n) \in 0 .. Size - i
            /\ copy_count_2(i, n) \in 0 .. i
      BY SplitInBuffer
    <2>2. \A i \in Index : 0 .. i \subseteq 0 .. Size - 0
      OBVIOUS
    <2> HIDE DEF Index, Count
    <2> QED  BY <1>1, <2>1, <2>2
  <1>3. /\ Segment(buf, read_index, copy_count_1(read_index, CanRead))
             \in Seq(Byte)
        /\ Segment(buf, 0, copy_count_2(read_index, CanRead)) \in Seq(Byte)
    BY <1>1, <1>2, SegmentType DEF TypeOK
  <1>4. \A k \in {1, 2} : RegionSlots(write_regions[k]) \subseteq Index
    BY <1>1, <1>2 DEF RegionSlots, write_regions, Regions
  <1> QED
    BY <1>1, <1>2, <1>3, <1>4 DEF RegionBytes, read_regions, Regions

LEMMA RegionsType ==
  ASSUME TypeOK, rb_get_read_regions \/ rb_get_next_read_region
                   \/ StoreInWriteRegion
  PROVE  TypeOK'
  <1>0. /\ 0 \in Nat /\ CanRead \in Count
        /\ "rb_get_read_regions" \in Calls
        /\ "rb_get_next_read_region" \in Calls
    BY FillType DEF Calls
  <1>1. CASE rb_get_read_regions
    <2>1. RegionBytes(read_regions[1]) \o RegionBytes(read_regions[2])
            \in Seq(Byte \cup {Untouched})
      BY RegionBytesType, BytesAreData
    <2>2. ret' \in Ret /\ alive' \in BOOLEAN
      BY <1>0, <1>1, <2>1, ReturnType DEF rb_get_read_regions
    <2> QED  BY <1>1, <2>2 DEF TypeOK, data_vars, rb_get_read_regions
  <1>2. CASE rb_get_next_read_region
    <2>1. RegionBytes(read_regions[1]) \in Seq(Byte \cup {Untouched})
      BY RegionBytesType, BytesAreData
    <2>2. ret' \in Ret /\ alive' \in BOOLEAN
      BY <1>0, <1>2, <2>1, RegionBytesType, ReturnType
         DEF rb_get_next_read_region
    <2> QED  BY <1>2, <2>2 DEF TypeOK, data_vars, rb_get_next_read_region
  <1>3. CASE StoreInWriteRegion
    <2>1. buf' \in [Index -> Byte]
      BY <1>3, RegionBytesType DEF StoreInWriteRegion, TypeOK
    <2> QED  BY <1>3, <2>1 DEF TypeOK, StoreInWriteRegion
  <1> QED
    BY <1>1, <1>2, <1>3

LEMMA ResetType ==
  ASSUME TypeOK, rb_reset \/ rb_reset_stats
  PROVE  TypeOK'
  <1>0. /\ 0 \in Nat /\ 0 \in Count /\ 0 \in Index
        /\ "rb_reset" \in Calls /\ "rb_reset_stats" \in Calls
    BY DEF Calls
  <1>1. stats' \in Stats
    BY WordAssumption DEF rb_reset, rb_reset_stats, Stats
  <1>2. CASE rb_reset
    <2>1. ret' \in Ret /\ alive' \in BOOLEAN
      BY <1>0, <1>2, ReturnType, NoData DEF rb_reset
    <2> QED  BY <1>0, <1>1, <1>2, <2>1 DEF TypeOK, rb_reset
  <1>3. CASE rb_reset_stats
    <2>1. ret' \in Ret /\ alive' \in BOOLEAN
      BY <1>0, <1>3, ReturnType, NoData DEF rb_reset_stats
    <2> QED  BY <1>1, <1>3, <2>1 DEF TypeOK, data_vars, rb_reset_stats
  <1> QED
    BY <1>2, <1>3

(* A new ring has the right types, and every call keeps them.              *)
LEMMA InitType ==
  Init => TypeOK
  <1> SUFFICES ASSUME Init PROVE TypeOK
    OBVIOUS
  <1>1. ret \in Ret
    BY NoData DEF Init, Ret, Calls
  <1>2. stats \in Stats
    BY WordAssumption DEF Init, Stats
  <1>3. read_index \in Index /\ write_index \in Index
    BY DEF Init
  <1> QED  BY <1>1, <1>2, <1>3 DEF Init, TypeOK

LEMMA StepType ==
  TypeOK /\ [Next]_vars => TypeOK'
  <1> SUFFICES ASSUME TypeOK, [Next]_vars PROVE TypeOK'
    OBVIOUS
  <1>0. 0 .. MaxCount \subseteq Nat /\ Offsets \subseteq Nat
    BY BoundAssumption
  <1>1. ASSUME NEW count \in 0 .. MaxCount,
               rb_read(count) \/ rb_overread(count)
        PROVE  TypeOK'
    <2>1. "rb_read" \in Calls /\ "rb_overread" \in Calls
      BY DEF Calls
    <2> QED  BY <1>0, <1>1, <2>1, ReadType DEF rb_read, rb_overread
  <1>2. ASSUME NEW count \in 0 .. MaxCount,
               rb_advance_read_index(count) \/ rb_overadvance_read_index(count)
        PROVE  TypeOK'
    <2>1. /\ "rb_advance_read_index" \in Calls
          /\ "rb_overadvance_read_index" \in Calls
      BY DEF Calls
    <2> QED  BY <1>0, <1>2, <2>1, AdvanceReadType
             DEF rb_advance_read_index, rb_overadvance_read_index
  <1>3. CASE rb_drop
    <2>1. "rb_drop" \in Calls /\ CanRead \in Nat
      BY FillType DEF Calls
    <2> QED  BY <1>3, <2>1, AdvanceReadType DEF rb_drop
  <1>4. ASSUME NEW count \in 0 .. MaxCount, NEW offset \in Offsets,
               rb_peek_at(count, offset)
        PROVE  TypeOK'
    BY <1>0, <1>4, PeekAtType
  <1>5. ASSUME NEW offset \in 0 .. MaxCount, rb_peek_byte_at(offset)
        PROVE  TypeOK'
    BY <1>0, <1>5, PeekByteAtType
  <1>6. ASSUME NEW b \in Byte, rb_find_byte(b)
        PROVE  TypeOK'
    BY <1>6, FindByteType
  <1>7. CASE rb_get_read_regions \/ rb_get_next_read_region
    BY <1>7, RegionsType
  <1>8. ASSUME NEW count \in 0 .. MaxCount, NEW source \in [1 .. count -> Byte],
               rb_write(source)
        PROVE  TypeOK'
    <2>1. source \in Seq(Byte)
      BY <1>0
    <2> QED  BY <1>8, <2>1, WriteType
  <1>9. ASSUME NEW count \in 0 .. MaxCount, rb_advance_write_index(count)
        PROVE  TypeOK'
    BY <1>0, <1>9, AdvanceWriteType
  <1>10. CASE StoreInWriteRegion
    BY <1>10, RegionsType
  <1>11. CASE rb_reset \/ rb_reset_stats
    BY <1>11, ResetType
  <1>12. CASE UNCHANGED vars
    BY <1>12 DEF TypeOK, vars, data_vars
  <1> QED
    BY <1>1, <1>2, <1>3, <1>4, <1>5, <1>6, <1>7, <1>8, <1>9, <1>10, <1>11,
       <1>12 DEF Next, Reading, Writing

(* No call, with whatever arguments, drives an index out of the buffer,    *)
(* serves more than Size bytes or lets a counter leave its word.           *)
THEOREM TypeCorrect == Spec => []TypeOK
  BY InitType, StepType, PTL DEF Spec
-----------------------------------------------------------------------------
(***************************************************************************)
(* The regions.  TypeOK alone implies RegionsPartition: for every position *)
(* of the two indices, and either value of the flag where they meet.       *)
(***************************************************************************)

(* The slots a run covers, part by part.                                   *)
LEMMA SlotsOfRun ==
  ASSUME NEW i \in Index, NEW n \in Count
  PROVE  SlotsOf(i, n) = (i .. i + copy_count_1(i, n) - 1)
                           \cup (0 .. copy_count_2(i, n) - 1)
  <1> DEFINE c1 == copy_count_1(i, n)
             c2 == copy_count_2(i, n)
  <1>1. c1 \in Int /\ c2 \in Int /\ 0 + c2 - 1 = c2 - 1
    BY SplitInBuffer
  <1> HIDE DEF c1, c2
  <1>2. /\ RegionSlots(Regions(i, n)[1]) = i .. i + c1 - 1
        /\ RegionSlots(Regions(i, n)[2]) = 0 .. c2 - 1
    BY <1>1 DEF RegionSlots, Regions, c1, c2
  <1>3. 1 .. 2 = {1, 2}
    OBVIOUS
  <1> HIDE DEF Index, Count
  <1> QED  BY <1>2, <1>3 DEF SlotsOf, c1, c2

LEMMA InSlotsOfRun ==
  ASSUME NEW i \in Index, NEW n \in Count, NEW s \in Int
  PROVE  s \in SlotsOf(i, n) <=>
           \/ i <= s /\ s < i + copy_count_1(i, n)
           \/ 0 <= s /\ s < copy_count_2(i, n)
  <1> DEFINE c1 == copy_count_1(i, n)
             c2 == copy_count_2(i, n)
  <1>1. c1 \in Int /\ c2 \in Int /\ i \in Int
    BY SplitInBuffer
  <1>2. SlotsOf(i, n) = (i .. i + c1 - 1) \cup (0 .. c2 - 1)
    BY SlotsOfRun
  <1> HIDE DEF c1, c2
  <1>3. s \in SlotsOf(i, n) <=> (i <= s /\ s < i + c1) \/ (0 <= s /\ s < c2)
    BY <1>1, <1>2
  <1> QED  BY <1>3 DEF c1, c2

LEMMA RunsPartition ==
  ASSUME NEW r \in Index, NEW w \in Index, NEW last \in BOOLEAN, NEW s \in Int
  PROVE  LET reads == SlotsOf(r, rb_can_read(r, w, last))
             writes == SlotsOf(w, rb_can_write(r, w, last))
         IN /\ ~(s \in reads /\ s \in writes)
            /\ (s \in reads \/ s \in writes) <=> s \in Index
  <1> DEFINE cr == rb_can_read(r, w, last)
             cw == rb_can_write(r, w, last)
  <1>1. cr \in Count /\ cw \in Count
    BY FillInCount
  <1>2. /\ s \in SlotsOf(r, cr) <=>
             \/ r <= s /\ s < r + copy_count_1(r, cr)
             \/ 0 <= s /\ s < copy_count_2(r, cr)
        /\ s \in SlotsOf(w, cw) <=>
             \/ w <= s /\ s < w + copy_count_1(w, cw)
             \/ 0 <= s /\ s < copy_count_2(w, cw)
    <2> HIDE DEF cr, cw
    <2> QED  BY <1>1, InSlotsOfRun
  <1>3. CASE r = w
    BY <1>2, <1>3 DEF rb_can_read, rb_can_write, copy_count_1, copy_count_2
  <1>4. CASE r < w
    BY <1>2, <1>4 DEF rb_can_read, rb_can_write, copy_count_1, copy_count_2
  <1>5. CASE r > w
    <2>1. cr = w + Size - r /\ cw = r - w
      BY <1>5 DEF rb_can_read, rb_can_write
    <2>2. copy_count_1(r, cr) = Size - r /\ copy_count_2(r, cr) = w
      BY <1>5, <2>1 DEF copy_count_1, copy_count_2
    <2>3. copy_count_1(w, cw) = r - w /\ copy_count_2(w, cw) = 0
      BY <1>5, <2>1 DEF copy_count_1, copy_count_2
    <2> HIDE DEF cr, cw
    <2>4. /\ ~(s \in SlotsOf(r, cr) /\ s \in SlotsOf(w, cw))
          /\ (s \in SlotsOf(r, cr) \/ s \in SlotsOf(w, cw)) <=> s \in Index
      BY <1>2, <1>5, <2>2, <2>3
    <2> QED  BY <2>4 DEF cr, cw
  <1> QED  BY <1>3, <1>4, <1>5

(* A slot is unread or free, never both and never neither: a zero-copy     *)
(* writer that keeps to its regions cannot touch an unread byte.           *)
THEOREM RegionsCorrect == Spec => []RegionsPartition
  <1>1. TypeOK => RegionsPartition
    <2> SUFFICES ASSUME TypeOK PROVE RegionsPartition
      OBVIOUS
    <2>1. \A s \in Int :
            /\ ~(s \in ReadSlots /\ s \in WriteSlots)
            /\ (s \in ReadSlots \/ s \in WriteSlots) <=> s \in Index
      BY RunsPartition DEF TypeOK, ReadSlots, WriteSlots, CanRead, CanWrite
    <2>2. ReadSlots \subseteq Int /\ WriteSlots \subseteq Int
      <3>1. /\ \A i \in Index, n \in Count : SlotsOf(i, n) \subseteq Int
            /\ CanRead \in Count /\ CanWrite \in Count
        <4>1. ASSUME NEW i \in Index, NEW n \in Count
              PROVE  SlotsOf(i, n) \subseteq Int
          BY SlotsOfRun, SplitInBuffer
        <4> QED  BY <4>1, FillType
      <3> HIDE DEF Index, Count
      <3> QED  BY <3>1 DEF TypeOK, ReadSlots, WriteSlots
    <2>3. Index \subseteq Int
      OBVIOUS
    <2> HIDE DEF Index
    <2>4. ReadSlots \cap WriteSlots = {}
      BY <2>1, <2>2
    <2>5. ReadSlots \cup WriteSlots = Index
      BY <2>1, <2>2, <2>3
    <2> QED  BY <2>4, <2>5 DEF RegionsPartition
  <1> QED
    BY <1>1, TypeCorrect, PTL
-----------------------------------------------------------------------------
(***************************************************************************)
(* The queue.  The unread bytes are the contents of the buffer from the    *)
(* read index on; a call takes bytes off their front or adds some behind   *)
(* them.                                                                   *)
(***************************************************************************)
Contents(b, r, n) == [k \in 1 .. n |-> b[(r + k - 1) % Size]]

(* The k-th of n bytes from slot r on, however the run is split.           *)
LEMMA ContentsBytes ==
  ASSUME NEW b \in [Index -> Byte], NEW r \in Index, NEW n \in Count
  PROVE  /\ Contents(b, r, n) \in Seq(Byte)
         /\ Len(Contents(b, r, n)) = n
         /\ \A k \in 1 .. n : /\ Wrap(r + k - 1) \in Index
                              /\ Contents(b, r, n)[k] = b[Wrap(r + k - 1)]
  <1>1. \A k \in 1 .. n : /\ (r + k - 1) % Size = Wrap(r + k - 1)
                          /\ Wrap(r + k - 1) \in Index
    <2>1. TAKE k \in 1 .. n
    <2>2. r + k - 1 \in 0 .. 2 * Size - 1
      OBVIOUS
    <2>3. (r + k - 1) % Size = Wrap(r + k - 1)
      BY <2>2, ModIsWrap
    <2>4. Wrap(r + k - 1) \in Index
      BY <2>2 DEF Wrap
    <2> QED  BY <2>3, <2>4
  <1>2. \A k \in 1 .. n : b[(r + k - 1) % Size] = b[Wrap(r + k - 1)]
    BY <1>1
  <1>3. \A k \in 1 .. n : b[Wrap(r + k - 1)] \in Byte
    BY <1>1
  <1>4. Contents(b, r, n) = [k \in 1 .. n |-> b[Wrap(r + k - 1)]]
    BY <1>2 DEF Contents
  <1> DEFINE s == [k \in 1 .. n |-> b[Wrap(r + k - 1)]]
  <1>5. n \in Nat
    OBVIOUS
  <1>6. /\ s \in Seq(Byte) /\ Len(s) = n
        /\ \A k \in 1 .. n : s[k] = b[Wrap(r + k - 1)]
    BY <1>3, <1>5
  <1> HIDE DEF s
  <1>7. Contents(b, r, n) = s
    BY <1>4 DEF s
  <1> QED  BY <1>1, <1>6, <1>7

(* Two sequences of bytes with the same bytes are the same.                *)
LEMMA SameBytes ==
  ASSUME NEW s \in Seq(Byte), NEW t \in Seq(Byte), Len(s) = Len(t),
         \A k \in 1 .. Len(s) : s[k] = t[k]
  PROVE  s = t
  BY SeqEqual

(* Both memcpy()s of a read together deliver the first bytes.              *)
LEMMA CopyOutBytes ==
  ASSUME NEW b \in [Index -> Byte], NEW r \in Index, NEW n \in Count
  PROVE  CopyOut(b, r, n) = Contents(b, r, n)
  <1> DEFINE c1 == copy_count_1(r, n)
             c2 == copy_count_2(r, n)
             s == Segment(b, r, c1)
             t == Segment(b, 0, c2)
  <1>1. /\ c1 \in 0 .. Size - r /\ c2 \in 0 .. r /\ c1 + c2 = n
        /\ c2 > 0 => c1 = Size - r
    BY SplitInBuffer DEF copy_count_1, copy_count_2
  <1> HIDE DEF c1, c2
  <1>2. s \in Seq(Byte) /\ Len(s) = c1 /\ \A k \in 1 .. c1 : s[k] = b[r + k - 1]
    BY <1>1, SegmentType DEF Segment
  <1>3. t \in Seq(Byte) /\ Len(t) = c2 /\ \A k \in 1 .. c2 : t[k] = b[k - 1]
    <2>1. 0 \in Index /\ c2 \in 0 .. Size - 0
      BY <1>1
    <2>2. t \in Seq(Byte) /\ Len(t) = c2
      BY <2>1, SegmentType
    <2>3. \A k \in 1 .. c2 : t[k] = b[0 + k - 1] /\ 0 + k - 1 = k - 1
      BY <1>1 DEF Segment
    <2> QED  BY <2>2, <2>3
  <1> HIDE DEF s, t
  <1>4. /\ s \o t \in Seq(Byte) /\ Len(s \o t) = n
        /\ \A k \in 1 .. n : (s \o t)[k] = IF k <= c1 THEN s[k] ELSE t[k - c1]
    <2>1. s \in Seq(Byte) /\ t \in Seq(Byte) /\ Len(s) = c1 /\ Len(s) + Len(t) = n
      BY <1>1, <1>2, <1>3
    <2> QED  BY <2>1, ConcatProperties
  <1>5. ASSUME NEW k \in 1 .. n
        PROVE  (s \o t)[k] = b[Wrap(r + k - 1)]
    <2>1. CASE k <= c1
      <3>1. k \in 1 .. c1 /\ Wrap(r + k - 1) = r + k - 1
        BY <1>1, <2>1 DEF Wrap
      <3> QED  BY <1>2, <1>4, <2>1, <3>1
    <2>2. CASE ~(k <= c1)
      <3>1. k - c1 \in 1 .. c2 /\ Wrap(r + k - 1) = (k - c1) - 1
        BY <1>1, <2>2 DEF Wrap
      <3> QED  BY <1>3, <1>4, <2>2, <3>1
    <2> QED  BY <2>1, <2>2
  <1> DEFINE u == Contents(b, r, n)
  <1>6. u \in Seq(Byte) /\ Len(u) = n
        /\ \A k \in 1 .. n : u[k] = b[Wrap(r + k - 1)]
    BY ContentsBytes
  <1> HIDE DEF u
  <1>7. s \o t = u
    BY <1>4, <1>5, <1>6, SameBytes
  <1> QED  BY <1>7 DEF CopyOut, s, t, u, c1, c2

(* memcpy() into the buffer puts the source from slot w on and leaves the  *)
(* slots behind it alone.                                                  *)
LEMMA CopyInBytes ==
  ASSUME NEW b \in [Index -> Byte], NEW w \in Index,
         NEW source \in Seq(Byte), NEW n \in Count, n <= Len(source)
  PROVE  \A k \in 1 .. Size :
           CopyIn(b, w, source, n)[Wrap(w + k - 1)] =
             IF k <= n THEN source[k] ELSE b[Wrap(w + k - 1)]
  <1> DEFINE c1 == copy_count_1(w, n)
             c2 == copy_count_2(w, n)
  <1>1. /\ c1 \in 0 .. Size - w /\ c2 \in 0 .. w /\ c1 + c2 = n
        /\ c2 > 0 => c1 = Size - w
    BY SplitInBuffer DEF copy_count_1, copy_count_2
  <1>2. SUFFICES ASSUME NEW k \in 1 .. Size
                 PROVE  CopyIn(b, w, source, n)[Wrap(w + k - 1)] =
                          IF k <= n THEN source[k] ELSE b[Wrap(w + k - 1)]
    OBVIOUS
  <1> DEFINE s == Wrap(w + k - 1)
  <1>3. s \in Index /\ s = IF w + k - 1 < Size THEN w + k - 1 ELSE w + k - 1 - Size
    BY DEF Wrap
  <1>4. CopyIn(b, w, source, n)[s] =
          IF s \in w .. w + c1 - 1 THEN source[s - w + 1]
          ELSE IF s < c2 THEN source[c1 + s + 1] ELSE b[s]
    BY <1>3 DEF CopyIn
  <1> HIDE DEF c1, c2, s
  <1>5. CASE k <= c1
    <2>1. s \in w .. w + c1 - 1 /\ s - w + 1 = k /\ k <= n
      BY <1>1, <1>3, <1>5
    <2> QED  BY <1>4, <2>1 DEF s
  <1>6. CASE c1 < k /\ k <= n
    <2>1. s \notin w .. w + c1 - 1 /\ s < c2 /\ c1 + s + 1 = k
      BY <1>1, <1>3, <1>6
    <2> QED  BY <1>4, <1>6, <2>1 DEF s
  <1>7. CASE n < k
    <2>1. s \notin w .. w + c1 - 1 /\ ~(s < c2)
      BY <1>1, <1>3, <1>7
    <2> QED  BY <1>4, <1>7, <2>1 DEF s
  <1> QED  BY <1>1, <1>5, <1>6, <1>7

(* The bytes at the front, and those behind them.                          *)
LEMMA ContentsFront ==
  ASSUME NEW b \in [Index -> Byte], NEW r \in Index, NEW n \in Count,
         NEW m \in 0 .. n
  PROVE  SubSeq(Contents(b, r, n), 1, m) = Contents(b, r, m)
  <1> DEFINE s == Contents(b, r, n)
             t == Contents(b, r, m)
  <1>1. s \in Seq(Byte) /\ Len(s) = n
        /\ \A k \in 1 .. n : s[k] = b[Wrap(r + k - 1)]
    BY ContentsBytes
  <1>2. t \in Seq(Byte) /\ Len(t) = m
        /\ \A k \in 1 .. m : t[k] = b[Wrap(r + k - 1)]
    <2>1. m \in Count
      OBVIOUS
    <2> QED  BY <2>1, ContentsBytes
  <1> HIDE DEF s, t
  <1>3. SubSeq(s, 1, m) \in Seq(Byte) /\ Len(SubSeq(s, 1, m)) = m
        /\ \A k \in 1 .. m : SubSeq(s, 1, m)[k] = s[k]
    BY <1>1
  <1>4. SubSeq(s, 1, m) = t
    BY <1>1, <1>2, <1>3, SameBytes
  <1> QED  BY <1>4 DEF s, t

(* The bytes that are left when m are taken off the front.                 *)
LEMMA ContentsRest ==
  ASSUME NEW b \in [Index -> Byte], NEW r \in Index, NEW n \in Count,
         NEW m \in 0 .. n
  PROVE  SubSeq(Contents(b, r, n), m + 1, n) = Contents(b, Wrap(r + m), n - m)
  <1> DEFINE s == Contents(b, r, n)
             t == Contents(b, Wrap(r + m), n - m)
  <1>1. s \in Seq(Byte) /\ Len(s) = n
        /\ \A k \in 1 .. n : s[k] = b[Wrap(r + k - 1)]
    BY ContentsBytes
  <1>2. Wrap(r + m) \in Index /\ n - m \in Count
    BY DEF Wrap
  <1>3. t \in Seq(Byte) /\ Len(t) = n - m
        /\ \A k \in 1 .. n - m : t[k] = b[Wrap(Wrap(r + m) + k - 1)]
    BY <1>2, ContentsBytes
  <1> HIDE DEF s, t
  <1>4. SubSeq(s, m + 1, n) \in Seq(Byte) /\ Len(SubSeq(s, m + 1, n)) = n - m
        /\ \A k \in 1 .. n - m : SubSeq(s, m + 1, n)[k] = s[m + k]
    BY <1>1
  <1>5. ASSUME NEW k \in 1 .. n - m
        PROVE  s[m + k] = t[k]
    <2>1. m + k \in 1 .. n /\ Wrap(r + (m + k) - 1) = Wrap(Wrap(r + m) + k - 1)
      BY DEF Wrap
    <2> QED  BY <1>1, <1>3, <2>1
  <1>6. SubSeq(s, m + 1, n) = t
    BY <1>3, <1>4, <1>5, SameBytes
  <1> QED  BY <1>6 DEF s, t

(* More bytes behind those that are there.                                 *)
LEMMA ContentsMore ==
  ASSUME NEW b \in [Index -> Byte], NEW c \in [Index -> Byte],
         NEW r \in Index, NEW n \in Count, NEW t \in Seq(Byte),
         n + Len(t) <= Size,
         \A k \in 1 .. n : c[Wrap(r + k - 1)] = b[Wrap(r + k - 1)],
         \A k \in 1 .. Len(t) : c[Wrap(Wrap(r + n) + k - 1)] = t[k]
  PROVE  Contents(c, r, n + Len(t)) = Contents(b, r, n) \o t
  <1> DEFINE m == Len(t)
             s == Contents(b, r, n)
             u == Contents(c, r, n + m)
  <1>0. m \in Nat /\ n + m \in Count
    OBVIOUS
  <1> HIDE DEF m
  <1>1. s \in Seq(Byte) /\ Len(s) = n
        /\ \A k \in 1 .. n : s[k] = b[Wrap(r + k - 1)]
    BY ContentsBytes
  <1>2. u \in Seq(Byte) /\ Len(u) = n + m
        /\ \A k \in 1 .. n + m : u[k] = c[Wrap(r + k - 1)]
    BY <1>0, ContentsBytes
  <1> HIDE DEF s, u
  <1>3. /\ s \o t \in Seq(Byte) /\ Len(s \o t) = n + m
        /\ \A k \in 1 .. n + m : (s \o t)[k] = IF k <= n THEN s[k] ELSE t[k - n]
    BY <1>1, ConcatProperties DEF m
  <1>4. ASSUME NEW k \in 1 .. n + m
        PROVE  u[k] = (s \o t)[k]
    <2>1. CASE k <= n
      <3>1. k \in 1 .. n
        BY <1>0, <2>1
      <3>2. c[Wrap(r + k - 1)] = b[Wrap(r + k - 1)]
        BY <3>1
      <3> QED  BY <1>1, <1>2, <1>3, <2>1, <3>1, <3>2
    <2>2. CASE ~(k <= n)
      <3>1. k - n \in 1 .. m /\ Wrap(Wrap(r + n) + (k - n) - 1) = Wrap(r + k - 1)
        BY <1>0, <2>2 DEF Wrap
      <3>2. c[Wrap(Wrap(r + n) + (k - n) - 1)] = t[k - n]
        BY <3>1 DEF m
      <3> QED  BY <1>2, <1>3, <2>2, <3>1, <3>2
    <2> QED  BY <2>1, <2>2
  <1>5. u = s \o t
    BY <1>2, <1>3, <1>4, SameBytes
  <1> QED  BY <1>5 DEF s, u, m

(* The queue in a state of the right types.                                *)
LEMMA UnreadBytes ==
  ASSUME TypeOK
  PROVE  /\ Unread = Contents(buf, read_index, CanRead)
         /\ Unread \in Seq(Byte) /\ Len(Unread) = CanRead
         /\ CanRead \in Count /\ CanWrite = Size - CanRead
         /\ \A k \in 1 .. CanRead : Unread[k] = buf[Wrap(read_index + k - 1)]
         /\ read_index \in Index /\ buf \in [Index -> Byte]
  <1>1. /\ CanRead \in Count /\ CanWrite \in Count /\ CanRead + CanWrite = Size
        /\ read_index \in Index /\ buf \in [Index -> Byte]
    BY FillType DEF TypeOK
  <1>2. Unread = Contents(buf, read_index, CanRead)
    BY DEF Unread, Contents
  <1>3. /\ Unread \in Seq(Byte) /\ Len(Unread) = CanRead
        /\ \A k \in 1 .. CanRead : Unread[k] = buf[Wrap(read_index + k - 1)]
    <2> DEFINE s == Contents(buf, read_index, CanRead)
    <2> HIDE DEF Index, Count
    <2>1. s \in Seq(Byte) /\ Len(s) = CanRead
      BY <1>1, ContentsBytes
    <2>2. \A k \in 1 .. CanRead : s[k] = buf[Wrap(read_index + k - 1)]
      BY <1>1, ContentsBytes
    <2> HIDE DEF s
    <2>3. Unread = s
      BY <1>2 DEF s
    <2> QED  BY <2>1, <2>2, <2>3
  <1>4. CanWrite = Size - CanRead
    BY <1>1
  <1> QED  BY <1>1, <1>2, <1>3, <1>4

(* A call that leaves indices, flag and bytes alone leaves the queue alone, *)
(* and taking no byte off the front is the same.                           *)
LEMMA QueueKept ==
  ASSUME UNCHANGED data_vars PROVE Unread' = Unread
  BY DEF data_vars, Unread, CanRead

LEMMA NothingTaken ==
  ASSUME TypeOK PROVE SubSeq(Unread, 0 + 1, Len(Unread)) = Unread
  BY UnreadBytes, SubSeqFull

LEMMA EmptyFront ==
  ASSUME NEW s PROVE SubSeq(s, 1, 0) = <<>>
  BY SubSeqEmpty

(* Consume takes n bytes off the front, or with over all there are.        *)
LEMMA ConsumeTakes ==
  ASSUME TypeOK, NEW n \in 1 .. Size, NEW count, NEW over \in BOOLEAN,
         ~over => n <= CanRead,
         Consume(Wrap(read_index + n), n, count, over, CanRead)
  PROVE  Unread' = SubSeq(Unread, Queue!Least(n, Len(Unread)) + 1, Len(Unread))
  <1>1. /\ CanRead \in Count /\ Len(Unread) = CanRead
        /\ read_index \in Index /\ buf \in [Index -> Byte]
        /\ Unread = Contents(buf, read_index, CanRead)
    BY UnreadBytes
  <1>2. write_index \in Index /\ last_was_write \in BOOLEAN
    BY DEF TypeOK
  <1>3. /\ read_index' = Wrap(read_index + n) /\ last_was_write' = FALSE
        /\ write_index' = IF over /\ CanRead < n THEN Wrap(read_index + n)
                          ELSE write_index
        /\ buf' = buf
    BY DEF Consume
  <1>4. Unread' = Contents(buf, Wrap(read_index + n), CanRead')
    BY <1>3 DEF Unread, Contents
  <1>5. CASE n <= CanRead
    <2>1. CanRead' = CanRead - n
      <3>1. n \in 1 .. rb_can_read(read_index, write_index, last_was_write)
        BY <1>1, <1>5 DEF CanRead
      <3>2. CanRead' = rb_can_read(Wrap(read_index + n), write_index, FALSE)
        <4>1. write_index' = write_index
          BY <1>1, <1>3, <1>5
        <4> QED  BY <1>3, <4>1 DEF CanRead
      <3> QED  BY <1>1, <1>2, <3>1, <3>2, FillTaken DEF CanRead
    <2>2. Queue!Least(n, Len(Unread)) = n
      BY <1>1, <1>5 DEF Queue!Least
    <2>3. n \in 0 .. CanRead
      BY <1>1, <1>5
    <2>4. SubSeq(Contents(buf, read_index, CanRead), n + 1, CanRead)
            = Contents(buf, Wrap(read_index + n), CanRead - n)
      BY <1>1, <2>3, ContentsRest
    <2> QED  BY <1>1, <1>4, <2>1, <2>2, <2>4
  <1>6. CASE ~(n <= CanRead)
    <2>1. CanRead' = 0
      <3>1. write_index' = read_index'
        BY <1>1, <1>3, <1>6
      <3>2. CanRead' = rb_can_read(read_index', read_index', FALSE)
        BY <1>3, <3>1 DEF CanRead
      <3>3. read_index' \in Int
        BY <1>1, <1>3 DEF Wrap
      <3> QED  BY <3>2, <3>3 DEF rb_can_read
    <2>2. Unread' = <<>>
      BY <1>4, <2>1 DEF Contents
    <2>3. Queue!Least(n, Len(Unread)) = Len(Unread) /\ Len(Unread) \in Int
      BY <1>1, <1>6 DEF Queue!Least
    <2>4. SubSeq(Unread, Len(Unread) + 1, Len(Unread)) = <<>>
      BY <2>3, SubSeqEmpty
    <2> QED  BY <2>2, <2>3, <2>4
  <1> QED  BY <1>5, <1>6

(* The bytes copied out are the front of the queue; of an overread, those  *)
(* that were unread are.                                                   *)
LEMMA FrontCopied ==
  ASSUME TypeOK, NEW n \in Count
  PROVE  /\ CopyOut(buf, read_index, n) \in [1 .. n -> Byte]
         /\ \A k \in 1 .. n : k <= CanRead =>
              CopyOut(buf, read_index, n)[k] = Unread[k]
         /\ n <= CanRead =>
              CopyOut(buf, read_index, n) = SubSeq(Unread, 1, n)
  <1>1. /\ CanRead \in Count /\ Len(Unread) = CanRead
        /\ read_index \in Index /\ buf \in [Index -> Byte]
        /\ Unread = Contents(buf, read_index, CanRead)
        /\ \A k \in 1 .. CanRead : Unread[k] = buf[Wrap(read_index + k - 1)]
    BY UnreadBytes
  <1> DEFINE s == Contents(buf, read_index, n)
  <1>2. s \in Seq(Byte) /\ Len(s) = n
        /\ \A k \in 1 .. n : s[k] = buf[Wrap(read_index + k - 1)]
    BY <1>1, ContentsBytes
  <1>3. CopyOut(buf, read_index, n) = s
    BY <1>1, CopyOutBytes
  <1>4. n <= CanRead => s = SubSeq(Unread, 1, n)
    <2> SUFFICES ASSUME n <= CanRead PROVE s = SubSeq(Unread, 1, n)
      OBVIOUS
    <2>1. n \in 0 .. CanRead
      BY <1>1
    <2>2. SubSeq(Contents(buf, read_index, CanRead), 1, n) = s
      BY <1>1, <2>1, ContentsFront
    <2> QED  BY <1>1, <2>2
  <1> HIDE DEF s
  <1>5. s \in [1 .. n -> Byte]
    BY <1>2, LenProperties
  <1>6. \A k \in 1 .. n : k <= CanRead => s[k] = Unread[k]
    BY <1>1, <1>2
  <1> QED  BY <1>3, <1>4, <1>5, <1>6

(* Bytes stored behind the unread ones join the queue when the write index *)
(* passes them.                                                            *)
LEMMA ProduceAdds ==
  ASSUME TypeOK, NEW t \in Seq(Byte), Len(t) \in 1 .. CanWrite,
         read_index' = read_index,
         write_index' = Wrap(write_index + Len(t)),
         last_was_write' = TRUE,
         buf' \in [Index -> Byte],
         \A k \in 1 .. CanRead :
           buf'[Wrap(read_index + k - 1)] = buf[Wrap(read_index + k - 1)],
         \A k \in 1 .. Len(t) : buf'[Wrap(write_index + k - 1)] = t[k]
  PROVE  Unread' = Unread \o t
  <1>1. /\ CanRead \in Count /\ CanWrite = Size - CanRead
        /\ read_index \in Index /\ buf \in [Index -> Byte]
        /\ Unread = Contents(buf, read_index, CanRead)
    BY UnreadBytes
  <1>2. write_index \in Index /\ last_was_write \in BOOLEAN
    BY DEF TypeOK
  <1>3. write_index = Wrap(read_index + CanRead)
    BY <1>1, <1>2, WriteIndexAhead DEF CanRead
  <1>4. CanRead' = CanRead + Len(t)
    <2>1. CanRead' = rb_can_read(read_index, Wrap(write_index + Len(t)), TRUE)
      BY DEF CanRead
    <2>2. Len(t) \in 1 .. rb_can_write(read_index, write_index, last_was_write)
      BY DEF CanWrite
    <2> HIDE DEF Index, Count
    <2> QED  BY <1>1, <1>2, <2>1, <2>2, FillAdded DEF CanRead
  <1>5. Unread' = Contents(buf', read_index, CanRead + Len(t))
    BY <1>4 DEF Unread, Contents
  <1>6. CanRead + Len(t) <= Size
    BY <1>1
  <1>7. \A k \in 1 .. Len(t) :
          buf'[Wrap(Wrap(read_index + CanRead) + k - 1)] = t[k]
    BY <1>3
  <1>8. Contents(buf', read_index, CanRead + Len(t))
          = Contents(buf, read_index, CanRead) \o t
    <2> HIDE DEF Index, Count
    <2> QED  BY <1>1, <1>6, <1>7, ContentsMore
  <1> QED  BY <1>1, <1>5, <1>8

(* A store to a slot of the write regions changes no unread byte.          *)
LEMMA UnreadInReadSlots ==
  ASSUME TypeOK, NEW k \in 1 .. CanRead
  PROVE  Wrap(read_index + k - 1) \in ReadSlots
  <1>1. CanRead \in Count /\ read_index \in Index
    BY FillType DEF TypeOK
  <1> DEFINE s == Wrap(read_index + k - 1)
  <1>2. s \in Int
    BY <1>1 DEF Wrap
  <1>3. \/ read_index <= s /\ s < read_index + copy_count_1(read_index, CanRead)
        \/ 0 <= s /\ s < copy_count_2(read_index, CanRead)
    BY <1>1 DEF Wrap, copy_count_1, copy_count_2
  <1> HIDE DEF s, Index, Count
  <1>4. s \in SlotsOf(read_index, CanRead)
    BY <1>1, <1>2, <1>3, InSlotsOfRun
  <1> QED  BY <1>4 DEF s, ReadSlots

LEMMA StoreKeepsQueue ==
  ASSUME TypeOK, StoreInWriteRegion
  PROVE  Unread' = Unread
  <1>1. /\ CanRead \in Count /\ CanWrite \in Count
        /\ read_index \in Index /\ write_index \in Index
        /\ last_was_write \in BOOLEAN /\ buf \in [Index -> Byte]
    BY FillType DEF TypeOK
  <1>2. PICK region \in {write_regions[1], write_regions[2]} :
          \E s \in RegionSlots(region), b \in Byte : buf' = [buf EXCEPT ![s] = b]
    BY DEF StoreInWriteRegion
  <1>3. PICK s \in RegionSlots(region), b \in Byte :
          buf' = [buf EXCEPT ![s] = b]
    BY <1>2
  <1>4. s \in WriteSlots
    <2>1. 1 \in 1 .. 2 /\ 2 \in 1 .. 2
      OBVIOUS
    <2>2. s \in UNION {RegionSlots(write_regions[k]) : k \in 1 .. 2}
      BY <1>2, <1>3, <2>1
    <2> QED  BY <2>2 DEF WriteSlots, SlotsOf, write_regions
  <1>5. ASSUME NEW j \in 1 .. CanRead
        PROVE  buf'[(read_index + j - 1) % Size] = buf[(read_index + j - 1) % Size]
    <2>1. /\ (read_index + j - 1) % Size = Wrap(read_index + j - 1)
          /\ Wrap(read_index + j - 1) \in Index
      <3>1. read_index + j - 1 \in 0 .. 2 * Size - 1
        BY <1>1
      <3> QED  BY <3>1, ModIsWrap DEF Wrap
    <2>2. Wrap(read_index + j - 1) \in ReadSlots
      BY UnreadInReadSlots
    <2>3. Wrap(read_index + j - 1) \notin WriteSlots
      <3>1. Wrap(read_index + j - 1) \in Int
        BY <2>1
      <3> HIDE DEF Index, Count
      <3> QED  BY <1>1, <2>2, <3>1, RunsPartition
               DEF ReadSlots, WriteSlots, CanRead, CanWrite
    <2> QED  BY <1>1, <1>3, <1>4, <2>1, <2>3
  <1>6. CanRead' = CanRead /\ read_index' = read_index
    BY DEF StoreInWriteRegion, CanRead
  <1> QED  BY <1>5, <1>6 DEF Unread
-----------------------------------------------------------------------------
(***************************************************************************)
(* The calls: each is the step of that name of the queue.                  *)
(***************************************************************************)

(* A call that takes no byte.                                              *)
LEMMA TakesNothing ==
  ASSUME TypeOK, UNCHANGED data_vars
  PROVE  Unread' = SubSeq(Unread, 0 + 1, Len(Unread)) /\ SubSeq(Unread, 1, 0) = <<>>
  BY QueueKept, NothingTaken, EmptyFront

LEMMA ReadIsQueueRead ==
  ASSUME TypeOK, NEW count \in Nat, rb_read(count)
  PROVE  Queue!Read(count)
  <1> DEFINE n == TakeCount(count, FALSE)
  <1>1. CanRead \in Count /\ Len(Unread) = CanRead /\ read_index \in Index
    BY UnreadBytes
  <1>2. n = Queue!Least(count, Len(Unread)) /\ n \in 0 .. CanRead /\ n <= count
    BY <1>1 DEF Queue!Least, TakeCount, rb_MIN
  <1>3. CASE /\ count = 0 \/ CanRead = 0
             /\ Return("rb_read", count, 0, 0, <<>>)
             /\ UNCHANGED data_vars
    <2> HIDE DEF n
    <2>1. n = 0
      BY <1>1, <1>2, <1>3
    <2>2. Unread' = SubSeq(Unread, n + 1, Len(Unread)) /\ SubSeq(Unread, 1, n) = <<>>
      BY <1>3, <2>1, TakesNothing
    <2> QED
      BY <1>2, <1>3, <2>1, <2>2
         DEF Return, Queue!Read, Queue!Return, Queue!Front, Queue!Rest
  <1>4. CASE /\ count > 0 /\ CanRead > 0
             /\ Return("rb_read", count, 0, n, CopyOut(buf, read_index, n))
             /\ Consume(CopiedIndex(read_index, n), n, count, FALSE, CanRead)
    <2>1. n \in 1 .. CanRead /\ n \in 1 .. Size /\ n \in Count
      BY <1>1, <1>2, <1>4 DEF TakeCount, rb_MIN
    <2>2. CopiedIndex(read_index, n) = Wrap(read_index + n)
      BY <1>1, <2>1, MovedIsWrap
    <2> HIDE DEF n
    <2>3. Consume(Wrap(read_index + n), n, count, FALSE, CanRead)
      BY <1>4, <2>2
    <2>4. Unread' = SubSeq(Unread, Queue!Least(n, Len(Unread)) + 1, Len(Unread))
      <3>1. n <= CanRead
        BY <1>1, <2>1
      <3> QED  BY <2>1, <2>3, <3>1, ConsumeTakes
    <2>5. Queue!Least(n, Len(Unread)) = n
      BY <1>1, <2>1 DEF Queue!Least
    <2>6. CopyOut(buf, read_index, n) = SubSeq(Unread, 1, n)
      <3>1. n <= CanRead
        BY <1>1, <2>1
      <3> QED  BY <2>1, <3>1, FrontCopied
    <2> QED
      BY <1>2, <1>4, <2>4, <2>5, <2>6
         DEF Return, Queue!Read, Queue!Return, Queue!Front, Queue!Rest
  <1> QED
    BY <1>3, <1>4 DEF rb_read, rb_generic_read

LEMMA OverreadIsQueueOverRead ==
  ASSUME TypeOK, NEW count \in Nat, rb_overread(count)
  PROVE  Queue!OverRead(count)
  <1> DEFINE n == TakeCount(count, TRUE)
             data == CopyOut(buf, read_index, n)
  <1>1. CanRead \in Count /\ Len(Unread) = CanRead /\ read_index \in Index
    BY UnreadBytes
  <1>2. n = Queue!Least(count, Size) /\ n \in Count /\ n <= count
    BY DEF Queue!Least, TakeCount, rb_MIN
  <1>3. CASE /\ count = 0
             /\ Return("rb_overread", count, 0, 0, <<>>)
             /\ UNCHANGED data_vars
    <2> HIDE DEF n
    <2>1. n = 0 /\ Queue!Least(n, Len(Unread)) = 0
      BY <1>1, <1>2, <1>3 DEF Queue!Least
    <2>2. Unread' = SubSeq(Unread, Queue!Least(n, Len(Unread)) + 1, Len(Unread))
      BY <1>3, <2>1, TakesNothing
    <2>3. <<>> \in [1 .. n -> Byte]
      BY <2>1
    <2>4. \A k \in 1 .. Queue!Least(n, Len(Unread)) : <<>>[k] = Unread[k]
      BY <2>1
    <2>5. Queue!Return("rb_overread", count, 0, n, <<>>)
      BY <1>3, <2>1 DEF Return, Queue!Return
    <2> QED
      BY <1>2, <2>2, <2>3, <2>4, <2>5 DEF Queue!OverRead, Queue!Rest
  <1>4. CASE /\ count > 0
             /\ Return("rb_overread", count, 0, n, data)
             /\ Consume(CopiedIndex(read_index, n), n, count, TRUE, CanRead)
    <2>1. n \in 1 .. Size
      BY <1>2, <1>4 DEF TakeCount, rb_MIN
    <2>2. CopiedIndex(read_index, n) = Wrap(read_index + n)
      BY <1>1, <1>2, MovedIsWrap
    <2> HIDE DEF n, data
    <2>3. Consume(Wrap(read_index + n), n, count, TRUE, CanRead)
      BY <1>4, <2>2
    <2>4. Unread' = SubSeq(Unread, Queue!Least(n, Len(Unread)) + 1, Len(Unread))
      BY <2>1, <2>3, ConsumeTakes
    <2>5. /\ data \in [1 .. n -> Byte]
          /\ \A k \in 1 .. n : k <= CanRead => data[k] = Unread[k]
      BY <1>2, FrontCopied DEF data
    <2>6. \A k \in 1 .. Queue!Least(n, Len(Unread)) :
            k \in 1 .. n /\ k <= CanRead
      BY <1>1, <1>2 DEF Queue!Least
    <2>7. \A k \in 1 .. Queue!Least(n, Len(Unread)) : data[k] = Unread[k]
      BY <2>5, <2>6
    <2>8. Queue!Return("rb_overread", count, 0, n, data)
      BY <1>4 DEF Return, Queue!Return
    <2> QED
      BY <1>2, <2>4, <2>5, <2>7, <2>8 DEF Queue!OverRead, Queue!Rest
  <1> QED
    BY <1>3, <1>4 DEF rb_overread, rb_generic_read

LEMMA AdvanceIsQueueSkip ==
  ASSUME TypeOK, NEW op, NEW count \in Nat,
         rb_generic_advance_read_index(op, count, FALSE)
  PROVE  Queue!Skip(op, count)
  <1> DEFINE n == TakeCount(count, FALSE)
  <1>1. CanRead \in Count /\ Len(Unread) = CanRead /\ read_index \in Index
    BY UnreadBytes
  <1>2. n = Queue!Least(count, Len(Unread)) /\ n \in 0 .. CanRead /\ n <= count
    BY <1>1 DEF Queue!Least, TakeCount, rb_MIN
  <1>3. CASE /\ count = 0 \/ CanRead = 0
             /\ Return(op, count, 0, 0, <<>>)
             /\ UNCHANGED data_vars
    <2> HIDE DEF n
    <2>1. n = 0
      BY <1>1, <1>2, <1>3
    <2>2. Unread' = SubSeq(Unread, n + 1, Len(Unread))
      BY <1>3, <2>1, TakesNothing
    <2> QED
      BY <1>2, <1>3, <2>1, <2>2 DEF Return, Queue!Skip, Queue!Return, Queue!Rest
  <1>4. CASE /\ count > 0 /\ CanRead > 0
             /\ Return(op, count, 0, n, <<>>)
             /\ Consume(AdvancedIndex(read_index, n), n, count, FALSE, CanRead)
    <2>1. n \in 1 .. CanRead /\ n \in 1 .. Size /\ n \in Count
      BY <1>1, <1>2, <1>4 DEF TakeCount, rb_MIN
    <2>2. AdvancedIndex(read_index, n) = Wrap(read_index + n)
      BY <1>1, <2>1, MovedIsWrap
    <2> HIDE DEF n
    <2>3. Consume(Wrap(read_index + n), n, count, FALSE, CanRead)
      BY <1>4, <2>2
    <2>4. Unread' = SubSeq(Unread, Queue!Least(n, Len(Unread)) + 1, Len(Unread))
      <3>1. n <= CanRead
        BY <1>1, <2>1
      <3> QED  BY <2>1, <2>3, <3>1, ConsumeTakes
    <2>5. Queue!Least(n, Len(Unread)) = n
      BY <1>1, <2>1 DEF Queue!Least
    <2> QED
      BY <1>2, <1>4, <2>4, <2>5 DEF Return, Queue!Skip, Queue!Return, Queue!Rest
  <1> QED
    BY <1>3, <1>4 DEF rb_generic_advance_read_index

LEMMA OveradvanceIsQueueOverSkip ==
  ASSUME TypeOK, NEW count \in Nat, rb_overadvance_read_index(count)
  PROVE  Queue!OverSkip(count)
  <1> DEFINE n == TakeCount(count, TRUE)
             op == "rb_overadvance_read_index"
  <1>1. CanRead \in Count /\ Len(Unread) = CanRead /\ read_index \in Index
    BY UnreadBytes
  <1>2. n = Queue!Least(count, Size) /\ n \in Count /\ n <= count
    BY DEF Queue!Least, TakeCount, rb_MIN
  <1>3. CASE /\ count = 0
             /\ Return(op, count, 0, 0, <<>>)
             /\ UNCHANGED data_vars
    <2> HIDE DEF n
    <2>1. n = 0 /\ Queue!Least(n, Len(Unread)) = 0
      BY <1>1, <1>2, <1>3 DEF Queue!Least
    <2>2. Unread' = SubSeq(Unread, Queue!Least(n, Len(Unread)) + 1, Len(Unread))
      BY <1>3, <2>1, TakesNothing
    <2> QED
      BY <1>2, <1>3, <2>1, <2>2 DEF Return, Queue!OverSkip, Queue!Return, Queue!Rest
  <1>4. CASE /\ count > 0
             /\ Return(op, count, 0, n, <<>>)
             /\ Consume(AdvancedIndex(read_index, n), n, count, TRUE, CanRead)
    <2>1. n \in 1 .. Size
      BY <1>2, <1>4 DEF TakeCount, rb_MIN
    <2>2. AdvancedIndex(read_index, n) = Wrap(read_index + n)
      BY <1>1, <1>2, MovedIsWrap
    <2> HIDE DEF n
    <2>3. Consume(Wrap(read_index + n), n, count, TRUE, CanRead)
      BY <1>4, <2>2
    <2>4. Unread' = SubSeq(Unread, Queue!Least(n, Len(Unread)) + 1, Len(Unread))
      BY <2>1, <2>3, ConsumeTakes
    <2> QED
      BY <1>2, <1>4, <2>4 DEF Return, Queue!OverSkip, Queue!Return, Queue!Rest
  <1> QED
    BY <1>3, <1>4 DEF rb_overadvance_read_index, rb_generic_advance_read_index

LEMMA WriteIsQueueWrite ==
  ASSUME TypeOK, NEW source \in Seq(Byte), rb_write(source)
  PROVE  Queue!Write(source)
  <1> DEFINE count == Len(source)
             n == rb_MIN(count, CanWrite)
             t == SubSeq(source, 1, n)
  <1>1. /\ CanRead \in Count /\ CanWrite = Size - CanRead
        /\ Len(Unread) = CanRead /\ Unread \in Seq(Byte)
        /\ read_index \in Index /\ buf \in [Index -> Byte]
    BY UnreadBytes
  <1>2. write_index \in Index /\ last_was_write \in BOOLEAN
    BY DEF TypeOK
  <1>3. n = Queue!Least(count, Size - Len(Unread)) /\ n \in Count
        /\ n \in 0 .. CanWrite /\ n <= count /\ count \in Nat
    BY <1>1 DEF Queue!Least, rb_MIN
  <1>4. CASE /\ count = 0 \/ CanWrite = 0
             /\ Return("rb_write", count, 0, 0, <<>>)
             /\ UNCHANGED data_vars
    <2> HIDE DEF n, count
    <2>1. n = 0
      BY <1>1, <1>3, <1>4
    <2>2. t = <<>>
      BY <2>1, EmptyFront
    <2>3. Unread' = Unread \o t
      BY <1>1, <1>4, <2>2, QueueKept, ConcatEmptySeq
    <2>4. Queue!Return("rb_write", count, 0, n, <<>>)
      BY <1>4, <2>1 DEF Return, Queue!Return
    <2> QED  BY <1>3, <2>3, <2>4 DEF Queue!Write, count
  <1>5. CASE /\ count > 0 /\ CanWrite > 0
             /\ Return("rb_write", count, 0, n, <<>>)
             /\ buf' = CopyIn(buf, write_index, source, n)
             /\ Produce(CopiedIndex(write_index, n), n, count)
    <2>1. n \in 1 .. CanWrite
      BY <1>1, <1>3, <1>5 DEF rb_MIN
    <2>2. CopiedIndex(write_index, n) = Wrap(write_index + n)
      BY <1>2, <1>3, MovedIsWrap
    <2> HIDE DEF n
    <2>3. t \in Seq(Byte) /\ Len(t) = n /\ \A k \in 1 .. n : t[k] = source[k]
      BY <1>3
    <2> HIDE DEF t
    <2>4. \A k \in 1 .. Size :
            buf'[Wrap(write_index + k - 1)] =
              IF k <= n THEN source[k] ELSE buf[Wrap(write_index + k - 1)]
      <3>1. \A k \in 1 .. Size :
              CopyIn(buf, write_index, source, n)[Wrap(write_index + k - 1)] =
                IF k <= n THEN source[k] ELSE buf[Wrap(write_index + k - 1)]
        <4> HIDE DEF Index, Count
        <4> QED  BY <1>1, <1>2, <1>3, CopyInBytes
      <3> QED  BY <1>5, <3>1
    <2>5. buf' \in [Index -> Byte]
      BY <1>1, <1>2, <1>3, <1>5, CopyInType
    <2>6. \A k \in 1 .. Len(t) : buf'[Wrap(write_index + k - 1)] = t[k]
      <3>1. \A k \in 1 .. n : k \in 1 .. Size /\ k <= n
        BY <1>3
      <3> QED  BY <2>3, <2>4, <3>1
    <2>7. ASSUME NEW k \in 1 .. CanRead
          PROVE  buf'[Wrap(read_index + k - 1)] = buf[Wrap(read_index + k - 1)]
      <3>1. write_index = Wrap(read_index + CanRead)
        BY <1>1, <1>2, WriteIndexAhead DEF CanRead
      <3> DEFINE j == Size - CanRead + k
      <3>2. j \in 1 .. Size /\ Wrap(write_index + j - 1) = Wrap(read_index + k - 1)
        BY <1>1, <3>1, UnreadBehindFree
      <3>3. ~(j <= n)
        BY <1>1, <1>3
      <3> HIDE DEF j
      <3>4. buf'[Wrap(write_index + j - 1)] = buf[Wrap(write_index + j - 1)]
        BY <2>4, <3>2, <3>3
      <3> QED  BY <3>2, <3>4
    <2>8. /\ read_index' = read_index /\ last_was_write' = TRUE
          /\ write_index' = Wrap(write_index + Len(t))
      BY <1>5, <2>2, <2>3 DEF Produce
    <2>9. Unread' = Unread \o t
      BY <2>1, <2>3, <2>5, <2>6, <2>7, <2>8, ProduceAdds
    <2>10. Queue!Return("rb_write", count, 0, n, <<>>)
      BY <1>5 DEF Return, Queue!Return
    <2> QED  BY <1>3, <2>9, <2>10 DEF Queue!Write, t
  <1> QED
    BY <1>4, <1>5 DEF rb_write

LEMMA AdvanceIsQueueAdvanceWrite ==
  ASSUME TypeOK, NEW count \in Nat, rb_advance_write_index(count)
  PROVE  Queue!AdvanceWrite(count)
  <1> DEFINE n == rb_MIN(count, CanWrite)
             op == "rb_advance_write_index"
  <1>1. /\ CanRead \in Count /\ CanWrite = Size - CanRead
        /\ Len(Unread) = CanRead /\ Unread \in Seq(Byte)
        /\ read_index \in Index /\ buf \in [Index -> Byte]
    BY UnreadBytes
  <1>2. write_index \in Index
    BY DEF TypeOK
  <1>3. n = Queue!Least(count, Size - Len(Unread)) /\ n \in Count
        /\ n \in 0 .. CanWrite /\ n <= count
    BY <1>1 DEF Queue!Least, rb_MIN
  <1>4. CASE /\ count = 0 \/ CanWrite = 0
             /\ Return(op, count, 0, 0, <<>>)
             /\ UNCHANGED data_vars
    <2> HIDE DEF n
    <2>1. n = 0
      BY <1>1, <1>3, <1>4
    <2>2. <<>> \in [1 .. n -> Byte]
      BY <2>1
    <2>3. Unread' = Unread \o <<>>
      BY <1>1, <1>4, QueueKept, ConcatEmptySeq
    <2>4. Queue!Return(op, count, 0, n, <<>>)
      BY <1>4, <2>1 DEF Return, Queue!Return
    <2> QED  BY <1>3, <2>2, <2>3, <2>4 DEF Queue!AdvanceWrite
  <1>5. CASE /\ count > 0 /\ CanWrite > 0
             /\ Return(op, count, 0, n, <<>>)
             /\ Produce(AdvancedIndex(write_index, n), n, count)
             /\ UNCHANGED buf
    <2>1. n \in 1 .. CanWrite
      BY <1>1, <1>3, <1>5 DEF rb_MIN
    <2>2. AdvancedIndex(write_index, n) = Wrap(write_index + n)
      BY <1>2, <1>3, MovedIsWrap
    <2> HIDE DEF n
    <2> DEFINE t == Contents(buf, write_index, n)
    <2>3. t \in Seq(Byte) /\ Len(t) = n
          /\ \A k \in 1 .. n : t[k] = buf[Wrap(write_index + k - 1)]
      <3> HIDE DEF Index, Count
      <3> QED  BY <1>1, <1>2, <1>3, ContentsBytes
    <2> HIDE DEF t
    <2>4. t \in [1 .. n -> Byte]
      BY <2>3, LenProperties
    <2>5. /\ read_index' = read_index /\ last_was_write' = TRUE
          /\ write_index' = Wrap(write_index + Len(t)) /\ buf' = buf
      BY <1>5, <2>2, <2>3 DEF Produce
    <2>6. Unread' = Unread \o t
      BY <1>1, <2>1, <2>3, <2>5, ProduceAdds
    <2>7. Queue!Return(op, count, 0, n, <<>>)
      BY <1>5 DEF Return, Queue!Return
    <2> QED  BY <1>3, <2>4, <2>6, <2>7 DEF Queue!AdvanceWrite
  <1> QED
    BY <1>4, <1>5 DEF rb_advance_write_index

(* With offset 0 the sizes of both copies of rb_peek_at are those of a     *)
(* read.                                                                   *)
LEMMA PeekIsQueuePeek ==
  ASSUME TypeOK, NEW count \in Nat, rb_peek_at(count, 0)
  PROVE  Queue!Peek("rb_peek_at", count, 0)
  <1> DEFINE n == rb_MIN(count, CanRead - 0)
             t == read_index + 0
             c1 == peek_count_1(t, n)
             c2 == peek_count_2(t, n, 0)
             m == IF 0 >= Len(Unread) THEN 0 ELSE Queue!Least(count, Len(Unread) - 0)
  <1>1. CanRead \in Count /\ Len(Unread) = CanRead /\ read_index \in Index
        /\ buf \in [Index -> Byte]
    BY UnreadBytes
  <1>2. Unread' = Unread
    BY QueueKept DEF rb_peek_at
  <1>3. CASE /\ count = 0 \/ CanRead <= 0
             /\ Return("rb_peek_at", count, 0, 0, <<>>)
    <2>1. m = 0
      BY <1>1, <1>3 DEF Queue!Least
    <2> HIDE DEF m
    <2>2. SubSeq(Unread, 0 + 1, 0 + m) = <<>>
      BY <2>1, EmptyFront
    <2>3. Queue!Return("rb_peek_at", count, 0, m, SubSeq(Unread, 0 + 1, 0 + m))
      BY <1>3, <2>1, <2>2 DEF Return, Queue!Return
    <2> QED  BY <1>2, <2>3 DEF Queue!Peek, m
  <1>4. /\ count > 0 /\ CanRead > 0 =>
             n \in 1 .. CanRead /\ n \in Count /\ n = m /\ t = read_index
    BY <1>1 DEF rb_MIN, Queue!Least
  <1>5. /\ count > 0 /\ CanRead > 0 =>
             c1 = copy_count_1(read_index, n) /\ c2 = copy_count_2(read_index, n)
    <2> HIDE DEF n
    <2> QED  BY <1>1, <1>4 DEF peek_count_1, peek_count_2, copy_count_1, copy_count_2
  <1>6. CASE /\ count > 0 /\ CanRead > 0
             /\ Return("rb_peek_at", count, 0, n, Peeked(t, n, c1, c2))
    <2>1. t % Size = read_index /\ n - c1 - c2 = 0
      <3>1. t = read_index /\ read_index % Size = read_index
        BY <1>1, <1>4, <1>6
      <3>2. copy_count_1(read_index, n) + copy_count_2(read_index, n) = n
            /\ copy_count_1(read_index, n) \in Int
            /\ copy_count_2(read_index, n) \in Int
        BY <1>1, <1>4, <1>6, SplitInBuffer
      <3> HIDE DEF n, t, c1, c2
      <3> QED  BY <1>5, <1>6, <3>1, <3>2
    <2> HIDE DEF n, m, t, c1, c2
    <2>2. [k \in 1 .. n - c1 - c2 |-> Untouched] = <<>>
      BY <2>1
    <2>3. CopyOut(buf, read_index, n) \in Seq(Byte)
      BY <1>1, <1>4, <1>6, CopyOutType
    <2>4. Peeked(t, n, c1, c2) = CopyOut(buf, read_index, n) \o <<>>
      BY <1>5, <1>6, <2>1, <2>2 DEF Peeked, CopyOut
    <2>5. Peeked(t, n, c1, c2) = CopyOut(buf, read_index, n)
      BY <2>3, <2>4, ConcatEmptySeq
    <2>6. CopyOut(buf, read_index, n) = SubSeq(Unread, 1, n)
      <3>1. n \in Count /\ n <= CanRead
        BY <1>1, <1>4, <1>6
      <3> QED  BY <3>1, FrontCopied
    <2>7. SubSeq(Unread, 0 + 1, 0 + m) = SubSeq(Unread, 1, n) /\ n = m
      BY <1>1, <1>4, <1>6
    <2>8. Queue!Return("rb_peek_at", count, 0, m, SubSeq(Unread, 0 + 1, 0 + m))
      BY <1>6, <2>5, <2>6, <2>7 DEF Return, Queue!Return
    <2> QED  BY <1>2, <2>8 DEF Queue!Peek, m
  <1>7. count > 0 /\ CanRead > 0 => c2 \in Nat
    BY <1>1, <1>4, <1>5, SplitInBuffer
  <1> QED
    <2> HIDE DEF n, t, c1, c2
    <2>1. \/ /\ count = 0
             /\ Return("rb_peek_at", count, 0, 0, <<>>)
          \/ /\ count > 0 /\ CanRead <= 0
             /\ Return("rb_peek_at", count, 0, 0, <<>>)
          \/ /\ count > 0 /\ CanRead > 0
             /\ Return("rb_peek_at", count, 0, n, Peeked(t, n, c1, c2))
          \/ count > 0 /\ CanRead > 0 /\ c2 < 0
      BY DEF rb_peek_at, n, t, c1, c2
    <2>2. ~(count > 0 /\ CanRead > 0 /\ c2 < 0)
      BY <1>7
    <2> QED  BY <1>3, <1>6, <2>1, <2>2

(* rb_peek_byte_at finds the byte of the queue at that offset.             *)
LEMMA ByteAtIsUnread ==
  ASSUME TypeOK, NEW offset \in Nat, offset < CanRead
  PROVE  ByteAt(offset) = Unread[offset + 1] /\ Unread[offset + 1] \in Byte
  <1>1. /\ CanRead \in Count /\ read_index \in Index
        /\ Unread \in Seq(Byte) /\ Len(Unread) = CanRead
        /\ \A k \in 1 .. CanRead : Unread[k] = buf[Wrap(read_index + k - 1)]
    BY UnreadBytes
  <1>2. /\ offset + 1 \in 1 .. CanRead
        /\ read_index + (offset + 1) - 1 = read_index + offset
    BY <1>1
  <1>3. Unread[offset + 1] = buf[Wrap(read_index + offset)]
    BY <1>1, <1>2
  <1>4. ByteAt(offset) = buf[Wrap(read_index + offset)]
    BY <1>1 DEF ByteAt, Wrap
  <1>5. Unread[offset + 1] \in Byte
    BY <1>1, <1>2, ElementOfSeq
  <1> QED  BY <1>3, <1>4, <1>5

LEMMA PeekByteIsQueuePeek ==
  ASSUME TypeOK, NEW offset \in Nat, rb_peek_byte_at(offset)
  PROVE  Queue!Peek("rb_peek_byte_at", 1, offset)
  <1> DEFINE m == IF offset >= Len(Unread) THEN 0
                  ELSE Queue!Least(1, Len(Unread) - offset)
             op == "rb_peek_byte_at"
             data == SubSeq(Unread, offset + 1, offset + m)
  <1>1. CanRead \in Count /\ Len(Unread) = CanRead /\ Unread \in Seq(Byte)
    BY UnreadBytes
  <1>2. Unread' = Unread
    BY QueueKept DEF rb_peek_byte_at
  <1>3. CASE CanRead <= offset /\ Return(op, 1, offset, 0, <<>>)
    <2>1. m = 0
      BY <1>1, <1>3
    <2> HIDE DEF m
    <2>2. data = <<>>
      BY <2>1, SubSeqEmpty
    <2> HIDE DEF data
    <2>3. Queue!Return(op, 1, offset, m, data)
      BY <1>3, <2>1, <2>2 DEF Return, Queue!Return
    <2> QED  BY <1>2, <2>3 DEF Queue!Peek, m, data
  <1>4. CASE CanRead > offset /\ Return(op, 1, offset, 1, <<ByteAt(offset)>>)
    <2>1. m = 1
      BY <1>1, <1>4 DEF Queue!Least
    <2> HIDE DEF m
    <2>2. data = <<Unread[offset + 1]>>
      <3>1. /\ data \in Seq(Byte) /\ Len(data) = 1
            /\ data[1] = Unread[offset + 1]
        BY <1>1, <1>4, <2>1
      <3>2. Unread[offset + 1] \in Byte
        BY <1>1, <1>4, ByteAtIsUnread
      <3> HIDE DEF data
      <3> DEFINE s == <<Unread[offset + 1]>>
      <3>3. s \in Seq(Byte) /\ Len(s) = 1 /\ s[1] = Unread[offset + 1]
        BY <3>2
      <3> HIDE DEF s
      <3>4. data = s
        BY <3>1, <3>3, SameBytes
      <3> QED  BY <3>4 DEF s
    <2>3. ByteAt(offset) = Unread[offset + 1]
      BY <1>1, <1>4, ByteAtIsUnread
    <2> HIDE DEF data
    <2>4. Queue!Return(op, 1, offset, m, data)
      BY <1>4, <2>1, <2>2, <2>3 DEF Return, Queue!Return
    <2> QED  BY <1>2, <2>4 DEF Queue!Peek, m, data
  <1> QED
    BY <1>3, <1>4 DEF rb_peek_byte_at

LEMMA FindIsQueueFind ==
  ASSUME TypeOK, NEW b \in Byte, rb_find_byte(b)
  PROVE  Queue!FindByte(b)
  <1>1. CanRead \in Count /\ Len(Unread) = CanRead
    BY UnreadBytes
  <1>2. Unread' = Unread
    BY QueueKept DEF rb_find_byte
  <1>3. \A j \in 0 .. CanRead - 1 : ByteAt(j) = Unread[j + 1]
    BY <1>1, ByteAtIsUnread
  <1>4. ASSUME NEW k \in 0 .. CanRead - 1, ByteAt(k) = b,
               \A j \in 0 .. k - 1 : ByteAt(j) # b,
               Return("rb_find_byte", 0, k, 1, <<>>)
        PROVE  Queue!FindByte(b)
    <2> DEFINE i == k + 1
    <2>1. i \in 1 .. Len(Unread) /\ i - 1 = k
      BY <1>1
    <2>2. Unread[i] = b
      BY <1>3, <1>4
    <2>3. \A j \in 1 .. i - 1 : Unread[j] # b
      <3>1. TAKE j \in 1 .. i - 1
      <3>2. j - 1 \in 0 .. k - 1 /\ j - 1 \in 0 .. CanRead - 1 /\ (j - 1) + 1 = j
        BY <1>1
      <3> QED  BY <1>3, <1>4, <3>2
    <2> HIDE DEF i
    <2>4. Queue!Return("rb_find_byte", 0, i - 1, 1, <<>>)
      BY <1>4, <2>1 DEF Return, Queue!Return
    <2> QED  BY <1>2, <2>1, <2>2, <2>3, <2>4 DEF Queue!FindByte
  <1>5. CASE /\ \A k \in 0 .. CanRead - 1 : ByteAt(k) # b
             /\ Return("rb_find_byte", 0, 0, 0, <<>>)
    <2>1. \A k \in 1 .. Len(Unread) : Unread[k] # b
      <3>1. TAKE k \in 1 .. Len(Unread)
      <3>2. k - 1 \in 0 .. CanRead - 1 /\ (k - 1) + 1 = k
        BY <1>1
      <3> QED  BY <1>3, <1>5, <3>2
    <2>2. Queue!Return("rb_find_byte", 0, 0, 0, <<>>)
      BY <1>5 DEF Return, Queue!Return
    <2> QED  BY <1>2, <2>1, <2>2 DEF Queue!FindByte
  <1> QED
    BY <1>4, <1>5 DEF rb_find_byte

(* The two read regions together are the queue, the first one its front.   *)
LEMMA RegionsAreQueueRegions ==
  ASSUME TypeOK
  PROVE  /\ rb_get_read_regions => Queue!ReadRegions
         /\ rb_get_next_read_region => Queue!NextReadRegion
  <1> DEFINE c1 == copy_count_1(read_index, CanRead)
             c2 == copy_count_2(read_index, CanRead)
  <1>1. /\ CanRead \in Count /\ Len(Unread) = CanRead /\ read_index \in Index
        /\ Unread \in Seq(Byte) /\ buf \in [Index -> Byte]
        /\ Unread = Contents(buf, read_index, CanRead)
    BY UnreadBytes
  <1>2. /\ RegionBytes(read_regions[1]) = Segment(buf, read_index, c1)
        /\ RegionBytes(read_regions[2]) = Segment(buf, 0, c2)
        /\ read_regions[1].size = c1
    BY DEF RegionBytes, read_regions, Regions
  <1>3. ASSUME rb_get_read_regions PROVE Queue!ReadRegions
    <2>1. RegionBytes(read_regions[1]) \o RegionBytes(read_regions[2]) = Unread
      BY <1>1, <1>2, CopyOutBytes DEF CopyOut
    <2>2. Queue!Return("rb_get_read_regions", 0, 0, Len(Unread), Unread)
      BY <1>1, <1>3, <2>1 DEF rb_get_read_regions, Return, Queue!Return
    <2>3. Unread' = Unread
      BY <1>3, QueueKept DEF rb_get_read_regions
    <2> QED  BY <1>3, <2>2, <2>3 DEF Queue!ReadRegions
  <1>4. ASSUME rb_get_next_read_region PROVE Queue!NextReadRegion
    <2>1. /\ c1 \in 0 .. CanRead /\ CanRead > 0 => c1 > 0
          /\ c1 \in 0 .. Size - read_index /\ read_index + c1 <= Size
          /\ c1 \in Count
      BY <1>1 DEF copy_count_1
    <2> HIDE DEF c1
    <2>2. copy_count_1(read_index, c1) = c1 /\ copy_count_2(read_index, c1) = 0
      BY <1>1, <2>1 DEF copy_count_1, copy_count_2
    <2>3. Segment(buf, read_index, c1) \in Seq(Byte)
      BY <1>1, <2>1, SegmentType
    <2>4. Segment(buf, 0, 0) = <<>>
      BY DEF Segment
    <2>5. CopyOut(buf, read_index, c1) = Segment(buf, read_index, c1)
      BY <2>2, <2>3, <2>4, ConcatEmptySeq DEF CopyOut
    <2>6. CopyOut(buf, read_index, c1) = SubSeq(Unread, 1, c1)
      <3>1. c1 \in Count /\ c1 <= CanRead
        BY <1>1, <2>1
      <3> QED  BY <3>1, FrontCopied
    <2>7. Queue!Return("rb_get_next_read_region", 0, 0, c1, SubSeq(Unread, 1, c1))
      BY <1>2, <1>4, <2>5, <2>6 DEF rb_get_next_read_region, Return, Queue!Return
    <2>8. Unread' = Unread
      BY <1>4, QueueKept DEF rb_get_next_read_region
    <2>9. c1 \in 0 .. Len(Unread) /\ (Len(Unread) > 0 => c1 > 0)
      BY <1>1, <2>1
    <2> QED  BY <2>7, <2>8, <2>9 DEF Queue!NextReadRegion, Queue!Front
  <1> QED  BY <1>3, <1>4

LEMMA ResetIsQueueReset ==
  ASSUME TypeOK
  PROVE  /\ rb_reset => Queue!Reset
         /\ rb_reset_stats => Queue!ResetStats
  <1>1. ASSUME rb_reset PROVE Queue!Reset
    <2>1. CanRead' = 0
      BY <1>1 DEF rb_reset, CanRead, rb_can_read
    <2>2. Unread' = <<>>
      BY <2>1 DEF Unread
    <2> QED  BY <1>1, <2>2 DEF rb_reset, Return, Queue!Reset, Queue!Return
  <1>2. ASSUME rb_reset_stats PROVE Queue!ResetStats
    <2>1. Unread' = Unread
      BY <1>2, QueueKept DEF rb_reset_stats
    <2> QED  BY <1>2, <2>1
             DEF rb_reset_stats, Return, Queue!ResetStats, Queue!Return
  <1> QED  BY <1>1, <1>2

(* Whatever the capacity and however the runs are split, a caller that     *)
(* peeks with offset 0 only cannot tell rb_t from a first-in first-out     *)
(* queue of Size bytes.                                                    *)
THEOREM RingIsQueue ==
  ASSUME Offsets \subseteq {0}
  PROVE  Spec => ImplementsQueue
  <1>1. Init => Queue!Init
    <2> SUFFICES ASSUME Init PROVE Queue!Init
      OBVIOUS
    <2>1. CanRead = 0
      BY DEF Init, CanRead, rb_can_read
    <2>2. Unread = <<>>
      BY <2>1 DEF Unread
    <2> QED  BY <2>2 DEF Init, Queue!Init
  <1>2. TypeOK /\ [Next]_vars => [Queue!Next]_(Queue!vars)
    <2> SUFFICES ASSUME TypeOK, [Next]_vars
                 PROVE  Queue!Next \/ UNCHANGED <<Unread, ret>>
      BY DEF Queue!vars
    <2>0. 0 .. MaxCount \subseteq Nat
      BY BoundAssumption
    <2>1. ASSUME NEW count \in 0 .. MaxCount,
                 \/ rb_read(count)
                 \/ rb_overread(count)
                 \/ rb_advance_read_index(count)
                 \/ rb_overadvance_read_index(count)
          PROVE  Queue!Next
      <3>1. CASE rb_read(count)
        BY <2>0, <3>1, ReadIsQueueRead DEF Queue!Next
      <3>2. CASE rb_overread(count)
        BY <2>0, <3>2, OverreadIsQueueOverRead DEF Queue!Next
      <3>3. CASE rb_advance_read_index(count)
        BY <2>0, <3>3, AdvanceIsQueueSkip DEF rb_advance_read_index, Queue!Next
      <3>4. CASE rb_overadvance_read_index(count)
        BY <2>0, <3>4, OveradvanceIsQueueOverSkip DEF Queue!Next
      <3> QED  BY <2>1, <3>1, <3>2, <3>3, <3>4
    <2>2. ASSUME NEW count \in 0 .. MaxCount, NEW offset \in Offsets,
                 rb_peek_at(count, offset)
          PROVE  Queue!Next
      <3>1. offset = 0
        OBVIOUS
      <3>2. Queue!Peek("rb_peek_at", count, 0)
        BY <2>0, <2>2, <3>1, PeekIsQueuePeek
      <3>3. Queue!Peek("rb_peek_at", count, offset)
        BY <3>1, <3>2
      <3> QED  BY <3>3 DEF Queue!Next
    <2>3. ASSUME NEW offset \in 0 .. MaxCount, rb_peek_byte_at(offset)
          PROVE  Queue!Next
      BY <2>0, <2>3, PeekByteIsQueuePeek DEF Queue!Next
    <2>4. CASE rb_drop
      <3>1. CanRead \in Nat /\ CanRead = Len(Unread)
        BY UnreadBytes
      <3>2. Queue!Skip("rb_drop", CanRead)
        BY <2>4, <3>1, AdvanceIsQueueSkip DEF rb_drop
      <3>3. Queue!Skip("rb_drop", Len(Unread))
        BY <3>1, <3>2
      <3> QED  BY <3>3 DEF Queue!Next
    <2>5. ASSUME NEW b \in Byte, rb_find_byte(b)
          PROVE  Queue!Next
      BY <2>5, FindIsQueueFind DEF Queue!Next
    <2>6. CASE rb_get_read_regions \/ rb_get_next_read_region
      BY <2>6, RegionsAreQueueRegions DEF Queue!Next
    <2>7. ASSUME NEW count \in 0 .. MaxCount, NEW source \in [1 .. count -> Byte],
                 rb_write(source)
          PROVE  Queue!Next
      <3>1. source \in Seq(Byte)
        BY <2>0
      <3> QED  BY <2>7, <3>1, WriteIsQueueWrite DEF Queue!Next
    <2>8. ASSUME NEW count \in 0 .. MaxCount, rb_advance_write_index(count)
          PROVE  Queue!Next
      BY <2>0, <2>8, AdvanceIsQueueAdvanceWrite DEF Queue!Next
    <2>9. CASE StoreInWriteRegion
      <3>1. Unread' = Unread /\ ret' = ret
        BY <2>9, StoreKeepsQueue DEF StoreInWriteRegion
      <3> QED  BY <3>1
    <2>10. CASE rb_reset \/ rb_reset_stats
      BY <2>10, ResetIsQueueReset DEF Queue!Next
    <2>11. CASE UNCHANGED vars
      <3>1. Unread' = Unread
        BY <2>11, QueueKept DEF vars
      <3> QED  BY <2>11, <3>1 DEF vars
    <2> QED
      BY <2>1, <2>2, <2>3, <2>4, <2>5, <2>6, <2>7, <2>8, <2>9, <2>10, <2>11
         DEF Next, Reading, Writing
  <1> QED
    BY <1>1, <1>2, TypeCorrect, PTL DEF Spec, ImplementsQueue, Queue!Spec
-----------------------------------------------------------------------------
(***************************************************************************)
(* Zero-copy callers.  A call of one side only lengthens the run of the    *)
(* other side, which starts where it started.                              *)
(***************************************************************************)
ReadSideKept ==
  ReadSlots \subseteq ReadSlots' /\ \A s \in ReadSlots : buf'[s] = buf[s]
WriteSideKept == WriteSlots \subseteq WriteSlots'

LEMMA LongerRun ==
  ASSUME NEW i \in Index, NEW n \in Count, NEW m \in 0 .. n
  PROVE  SlotsOf(i, m) \subseteq SlotsOf(i, n)
  <1>1. m \in Count
    OBVIOUS
  <1>2. SUFFICES ASSUME NEW s \in SlotsOf(i, m)
                 PROVE  s \in SlotsOf(i, n)
    OBVIOUS
  <1>3. s \in Int
    <2> HIDE DEF Index, Count
    <2>1. /\ copy_count_1(i, m) \in Int /\ copy_count_2(i, m) \in Int
      BY <1>1, SplitInBuffer
    <2>2. s \in (i .. i + copy_count_1(i, m) - 1) \cup (0 .. copy_count_2(i, m) - 1)
      BY <1>1, SlotsOfRun
    <2> QED  BY <2>1, <2>2
  <1>4. \/ i <= s /\ s < i + copy_count_1(i, m)
        \/ 0 <= s /\ s < copy_count_2(i, m)
    <2> HIDE DEF Index, Count
    <2> QED  BY <1>1, <1>3, InSlotsOfRun
  <1>5. \/ i <= s /\ s < i + copy_count_1(i, n)
        \/ 0 <= s /\ s < copy_count_2(i, n)
    BY <1>1, <1>3, <1>4 DEF copy_count_1, copy_count_2
  <1> HIDE DEF Index, Count
  <1> QED  BY <1>3, <1>5, InSlotsOfRun

LEMMA SidesUntouched ==
  ASSUME UNCHANGED data_vars PROVE ReadSideKept /\ WriteSideKept
  BY DEF data_vars, ReadSideKept, WriteSideKept, ReadSlots, WriteSlots,
         CanRead, CanWrite

(* The slots of one side are none of the other.                            *)
LEMMA SidesDisjoint ==
  ASSUME TypeOK, NEW s \in ReadSlots
  PROVE  s \in Index /\ s \notin WriteSlots
  <1>1. /\ CanRead \in Count /\ read_index \in Index /\ write_index \in Index
        /\ last_was_write \in BOOLEAN
    BY FillType DEF TypeOK
  <1> HIDE DEF Index, Count
  <1>2. s \in Int
    <2>1. /\ copy_count_1(read_index, CanRead) \in Int
          /\ copy_count_2(read_index, CanRead) \in Int
          /\ read_index \in Int
      BY <1>1, SplitInBuffer DEF Index
    <2>2. s \in (read_index .. read_index + copy_count_1(read_index, CanRead) - 1)
                  \cup (0 .. copy_count_2(read_index, CanRead) - 1)
      BY <1>1, SlotsOfRun DEF ReadSlots
    <2> QED  BY <2>1, <2>2
  <1> QED  BY <1>1, <1>2, RunsPartition DEF ReadSlots, WriteSlots, CanRead, CanWrite

LEMMA StoreKeepsSides ==
  ASSUME TypeOK, StoreInWriteRegion
  PROVE  ReadSideKept /\ WriteSideKept
  <1>1. PICK region \in {write_regions[1], write_regions[2]} :
          \E s \in RegionSlots(region), b \in Byte : buf' = [buf EXCEPT ![s] = b]
    BY DEF StoreInWriteRegion
  <1>2. PICK s \in RegionSlots(region), b \in Byte :
          buf' = [buf EXCEPT ![s] = b]
    BY <1>1
  <1>3. s \in WriteSlots
    <2>1. 1 \in 1 .. 2 /\ 2 \in 1 .. 2
      OBVIOUS
    <2>2. s \in UNION {RegionSlots(write_regions[k]) : k \in 1 .. 2}
      BY <1>1, <1>2, <2>1
    <2> QED  BY <2>2 DEF WriteSlots, SlotsOf, write_regions
  <1>4. \A i \in ReadSlots : buf'[i] = buf[i]
    <2>1. TAKE i \in ReadSlots
    <2>2. i \in Index /\ i # s
      BY <1>3, SidesDisjoint
    <2> QED  BY <1>2, <2>2 DEF TypeOK
  <1>5. ReadSlots' = ReadSlots /\ WriteSlots' = WriteSlots
    BY DEF StoreInWriteRegion, ReadSlots, WriteSlots, CanRead, CanWrite
  <1> QED  BY <1>4, <1>5 DEF ReadSideKept, WriteSideKept

(* Taking bytes leaves a longer run to write to.                           *)
LEMMA ConsumeKeepsWriteSide ==
  ASSUME TypeOK, NEW n \in 1 .. CanRead, NEW count,
         Consume(Wrap(read_index + n), n, count, FALSE, CanRead)
  PROVE  WriteSideKept
  <1>1. /\ CanRead \in Count /\ CanWrite \in Count /\ CanWrite = Size - CanRead
        /\ read_index \in Index /\ write_index \in Index
        /\ last_was_write \in BOOLEAN
    BY FillType DEF TypeOK
  <1>2. /\ read_index' = Wrap(read_index + n) /\ write_index' = write_index
        /\ last_was_write' = FALSE
    BY DEF Consume
  <1>3. Wrap(read_index + n) \in Index
    BY <1>1 DEF Wrap
  <1>4. CanWrite' = CanWrite + n
    <2>1. n \in 1 .. rb_can_read(read_index, write_index, last_was_write)
      BY DEF CanRead
    <2> DEFINE cr == rb_can_read(Wrap(read_index + n), write_index, FALSE)
               cw == rb_can_write(Wrap(read_index + n), write_index, FALSE)
    <2> HIDE DEF Index, Count
    <2>2. cr = CanRead - n
      BY <1>1, <2>1, FillTaken DEF CanRead
    <2>3. cw \in Count /\ cr + cw = Size
      BY <1>1, <1>3, FillInCount
    <2>4. CanWrite' = cw
      BY <1>2 DEF CanWrite
    <2> HIDE DEF cr, cw
    <2>5. cw = CanWrite + n
      BY <1>1, <2>2, <2>3 DEF Count
    <2> QED  BY <2>4, <2>5
  <1>5. CanWrite + n \in Count /\ CanWrite \in 0 .. CanWrite + n
    BY <1>1
  <1>6. SlotsOf(write_index, CanWrite) \subseteq SlotsOf(write_index, CanWrite + n)
    <2> HIDE DEF Index, Count
    <2> QED  BY <1>1, <1>5, LongerRun
  <1> QED  BY <1>2, <1>4, <1>6 DEF WriteSideKept, WriteSlots

(* Adding bytes leaves a longer run to read, with the bytes that were      *)
(* there.                                                                  *)
LEMMA ProduceKeepsReadSide ==
  ASSUME TypeOK, NEW n \in 1 .. CanWrite, NEW count,
         Produce(Wrap(write_index + n), n, count),
         \A s \in ReadSlots : buf'[s] = buf[s]
  PROVE  ReadSideKept
  <1>1. /\ CanRead \in Count /\ CanWrite \in Count /\ CanWrite = Size - CanRead
        /\ read_index \in Index /\ write_index \in Index
        /\ last_was_write \in BOOLEAN
    BY FillType DEF TypeOK
  <1>2. /\ read_index' = read_index /\ write_index' = Wrap(write_index + n)
        /\ last_was_write' = TRUE
    BY DEF Produce
  <1>3. CanRead' = CanRead + n
    <2>1. n \in 1 .. rb_can_write(read_index, write_index, last_was_write)
      BY DEF CanWrite
    <2>2. CanRead' = rb_can_read(read_index, Wrap(write_index + n), TRUE)
      BY <1>2 DEF CanRead
    <2> HIDE DEF Index, Count
    <2> QED  BY <1>1, <2>1, <2>2, FillAdded DEF CanRead
  <1>4. CanRead + n \in Count /\ CanRead \in 0 .. CanRead + n
    BY <1>1
  <1>5. SlotsOf(read_index, CanRead) \subseteq SlotsOf(read_index, CanRead + n)
    <2> HIDE DEF Index, Count
    <2> QED  BY <1>1, <1>4, LongerRun
  <1> QED  BY <1>2, <1>3, <1>5 DEF ReadSideKept, ReadSlots

(* memcpy() into the buffer stays within the write regions.                *)
LEMMA CopyInKeepsUnread ==
  ASSUME TypeOK, NEW source \in Seq(Byte), NEW n \in 1 .. CanWrite,
         NEW s \in ReadSlots
  PROVE  CopyIn(buf, write_index, source, n)[s] = buf[s]
  <1>1. CanWrite \in Count /\ write_index \in Index /\ s \in Index
        /\ s \notin WriteSlots
    BY FillType, SidesDisjoint DEF TypeOK
  <1>2. n \in Count /\ n \in 0 .. CanWrite
    BY <1>1
  <1>3. s \notin SlotsOf(write_index, n)
    <2>1. SlotsOf(write_index, n) \subseteq SlotsOf(write_index, CanWrite)
      <3> HIDE DEF Index, Count
      <3> QED  BY <1>1, <1>2, LongerRun
    <2> QED  BY <1>1, <2>1 DEF WriteSlots
  <1>4. /\ ~(write_index <= s /\ s < write_index + copy_count_1(write_index, n))
        /\ ~(0 <= s /\ s < copy_count_2(write_index, n))
    <2>1. s \in Int
      BY <1>1
    <2> HIDE DEF Index, Count
    <2> QED  BY <1>1, <1>2, <1>3, <2>1, InSlotsOfRun
  <1>5. s \notin write_index .. write_index + copy_count_1(write_index, n) - 1
        /\ ~(s < copy_count_2(write_index, n))
    <2>1. copy_count_1(write_index, n) \in Int
      BY <1>1, <1>2, SplitInBuffer
    <2> QED  BY <1>1, <1>4, <2>1
  <1> QED  BY <1>1, <1>5 DEF CopyIn
-----------------------------------------------------------------------------
(* A call returns under its own name.                                      *)
LEMMA ReturnsOp ==
  ASSUME NEW op, NEW count, NEW offset, NEW n, NEW data,
         Return(op, count, offset, n, data)
  PROVE  ret'.op = op
  BY DEF Return

LEMMA GenericReturnsOp ==
  ASSUME NEW op, NEW count, NEW over \in BOOLEAN,
         \/ rb_generic_read(op, count, over)
         \/ rb_generic_advance_read_index(op, count, over)
  PROVE  ret'.op = op
  <1> DEFINE n == TakeCount(count, over)
  <1> HIDE DEF n
  <1>1. \/ Return(op, count, 0, 0, <<>>)
        \/ Return(op, count, 0, n, CopyOut(buf, read_index, n))
        \/ Return(op, count, 0, n, <<>>)
    BY DEF rb_generic_read, rb_generic_advance_read_index, n
  <1> QED  BY <1>1, ReturnsOp

(* The reading calls that do not overread.                                 *)
LEMMA ReadsKeepWriteSide ==
  ASSUME TypeOK, NEW op, NEW count \in Nat,
         \/ rb_generic_read(op, count, FALSE)
         \/ rb_generic_advance_read_index(op, count, FALSE)
  PROVE  WriteSideKept /\ ret'.op = op
  <1> DEFINE n == TakeCount(count, FALSE)
  <1>1. CanRead \in Count /\ read_index \in Index
    BY UnreadBytes
  <1>2. count > 0 /\ CanRead > 0 => n \in 1 .. CanRead /\ n \in Count
    BY <1>1 DEF TakeCount, rb_MIN
  <1>3. CASE UNCHANGED data_vars
    BY <1>3, SidesUntouched, GenericReturnsOp
  <1>4. CASE /\ count > 0 /\ CanRead > 0
             /\ \/ Consume(CopiedIndex(read_index, n), n, count, FALSE, CanRead)
                \/ Consume(AdvancedIndex(read_index, n), n, count, FALSE, CanRead)
    <2> HIDE DEF n
    <2>1. /\ CopiedIndex(read_index, n) = Wrap(read_index + n)
          /\ AdvancedIndex(read_index, n) = Wrap(read_index + n)
      BY <1>1, <1>2, <1>4, MovedIsWrap
    <2>2. Consume(Wrap(read_index + n), n, count, FALSE, CanRead)
      BY <1>4, <2>1
    <2>3. WriteSideKept
      BY <1>2, <1>4, <2>2, ConsumeKeepsWriteSide
    <2>4. ret'.op = op
      BY GenericReturnsOp
    <2> QED  BY <2>3, <2>4
  <1> QED
    BY <1>3, <1>4 DEF rb_generic_read, rb_generic_advance_read_index

(* The writing calls.                                                      *)
LEMMA WritesKeepReadSide ==
  ASSUME TypeOK, NEW source \in Seq(Byte), NEW count \in Nat,
         rb_write(source) \/ rb_advance_write_index(count)
  PROVE  ReadSideKept /\ ret'.op \in WriteCalls
  <1>1. CanWrite \in Count /\ write_index \in Index
    BY FillType DEF TypeOK
  <1>2. ret'.op \in WriteCalls
    BY DEF rb_write, rb_advance_write_index, Return, WriteCalls
  <1>3. CASE UNCHANGED data_vars
    BY <1>2, <1>3, SidesUntouched
  <1>4. ASSUME NEW n \in 1 .. CanWrite, NEW c,
               \/ Produce(CopiedIndex(write_index, n), n, c)
               \/ Produce(AdvancedIndex(write_index, n), n, c),
               \/ buf' = CopyIn(buf, write_index, source, n)
               \/ UNCHANGED buf
        PROVE  ReadSideKept
    <2>1. /\ CopiedIndex(write_index, n) = Wrap(write_index + n)
          /\ AdvancedIndex(write_index, n) = Wrap(write_index + n)
      <3>1. n \in Count
        BY <1>1
      <3> QED  BY <1>1, <3>1, MovedIsWrap
    <2>2. Produce(Wrap(write_index + n), n, c)
      BY <1>4, <2>1
    <2>3. \A s \in ReadSlots : buf'[s] = buf[s]
      BY <1>4, CopyInKeepsUnread
    <2> QED  BY <2>2, <2>3, ProduceKeepsReadSide
  <1>5. CASE rb_write(source)
    <2> DEFINE n == rb_MIN(Len(source), CanWrite)
    <2>1. \/ UNCHANGED data_vars
          \/ /\ Len(source) > 0 /\ CanWrite > 0
             /\ buf' = CopyIn(buf, write_index, source, n)
             /\ Produce(CopiedIndex(write_index, n), n, Len(source))
      BY <1>5 DEF rb_write
    <2>2. Len(source) > 0 /\ CanWrite > 0 => n \in 1 .. CanWrite
      BY <1>1 DEF rb_MIN
    <2> HIDE DEF n
    <2> QED  BY <1>2, <1>3, <1>4, <2>1, <2>2
  <1>6. CASE rb_advance_write_index(count)
    <2> DEFINE n == rb_MIN(count, CanWrite)
    <2>1. \/ UNCHANGED data_vars
          \/ /\ count > 0 /\ CanWrite > 0
             /\ UNCHANGED buf
             /\ Produce(AdvancedIndex(write_index, n), n, count)
      BY <1>6 DEF rb_advance_write_index
    <2>2. count > 0 /\ CanWrite > 0 => n \in 1 .. CanWrite
      BY <1>1 DEF rb_MIN
    <2> HIDE DEF n
    <2> QED  BY <1>2, <1>3, <1>4, <2>1, <2>2
  <1> QED  BY <1>5, <1>6

(* A zero-copy reader and a zero-copy writer keep their regions while the  *)
(* other side works.                                                       *)
THEOREM RegionsHeld == Spec => RegionsStayValid
  <1>1. TypeOK /\ [Next]_vars => [SidesStep]_vars
    <2> SUFFICES ASSUME TypeOK, Next
                 PROVE  SidesStep
      OBVIOUS
    <2>0. 0 .. MaxCount \subseteq Nat /\ <<>> \in Seq(Byte) /\ 0 \in Nat
      BY BoundAssumption
    <2>1. CASE StoreInWriteRegion
      BY <2>1, StoreKeepsSides DEF SidesStep, ReadSideKept, WriteSideKept
    <2>2. CASE UNCHANGED data_vars
      BY <2>2, SidesUntouched DEF SidesStep, ReadSideKept, WriteSideKept
    <2>3. ASSUME NEW count \in 0 .. MaxCount,
                 rb_read(count) \/ rb_advance_read_index(count)
          PROVE  SidesStep \/ StoreInWriteRegion
      <3>1. WriteSideKept /\ ret'.op \in {"rb_read", "rb_advance_read_index"}
        BY <2>0, <2>3, ReadsKeepWriteSide DEF rb_read, rb_advance_read_index
      <3> QED  BY <3>1 DEF SidesStep, WriteSideKept, WriteCalls, Unsettling
    <2>4. CASE rb_drop
      <3>1. CanRead \in Nat
        BY FillType
      <3>2. WriteSideKept /\ ret'.op = "rb_drop"
        BY <2>4, <3>1, ReadsKeepWriteSide DEF rb_drop
      <3> QED  BY <2>1, <3>2 DEF SidesStep, WriteSideKept, WriteCalls, Unsettling
    <2>5. ASSUME NEW count \in 0 .. MaxCount,
                 rb_overread(count) \/ rb_overadvance_read_index(count)
          PROVE  SidesStep \/ StoreInWriteRegion
      <3>1. ret'.op \in Unsettling
        BY <2>5, GenericReturnsOp
           DEF rb_overread, rb_overadvance_read_index, Unsettling
      <3> QED  BY <3>1 DEF SidesStep, WriteCalls, Unsettling
    <2>6. ASSUME NEW count \in 0 .. MaxCount,
                 \/ \E source \in [1 .. count -> Byte] : rb_write(source)
                 \/ rb_advance_write_index(count)
          PROVE  SidesStep
      <3>1. \A source \in [1 .. count -> Byte] : source \in Seq(Byte)
        BY <2>0
      <3>2. ReadSideKept /\ ret'.op \in WriteCalls
        BY <2>0, <2>6, <3>1, WritesKeepReadSide
      <3> QED  BY <3>2 DEF SidesStep, ReadSideKept
    <2>7. CASE rb_reset
      <3>1. ret'.op \in Unsettling
        BY <2>7 DEF rb_reset, Return, Unsettling
      <3> QED  BY <2>1, <3>1 DEF SidesStep, WriteCalls, Unsettling
    <2>8. \/ StoreInWriteRegion \/ UNCHANGED data_vars \/ rb_drop \/ rb_reset
          \/ \E count \in 0 .. MaxCount :
               \/ rb_read(count) \/ rb_advance_read_index(count)
               \/ rb_overread(count) \/ rb_overadvance_read_index(count)
               \/ \E source \in [1 .. count -> Byte] : rb_write(source)
               \/ rb_advance_write_index(count)
      BY DEF Next, Reading, Writing, rb_peek_at, rb_peek_byte_at, rb_find_byte,
             rb_get_read_regions, rb_get_next_read_region, rb_reset_stats
    <2> QED  BY <2>1, <2>2, <2>3, <2>4, <2>5, <2>6, <2>7, <2>8
  <1> QED  BY <1>1, TypeCorrect, PTL DEF Spec, RegionsStayValid
-----------------------------------------------------------------------------
(***************************************************************************)
(* rb_peek_at at any offset.                                               *)
(***************************************************************************)

(* The k-th byte of three pieces.                                          *)
LEMMA ThreePieces ==
  ASSUME NEW S, NEW s \in Seq(S), NEW t \in Seq(S), NEW u \in Seq(S),
         NEW k \in 1 .. Len(s) + Len(t) + Len(u)
  PROVE  (s \o t \o u)[k] =
           IF k <= Len(s) THEN s[k]
           ELSE IF k <= Len(s) + Len(t) THEN t[k - Len(s)]
           ELSE u[k - Len(s) - Len(t)]
  <1>1. /\ s \o t \in Seq(S) /\ Len(s \o t) = Len(s) + Len(t)
        /\ Len(s) \in Nat /\ Len(t) \in Nat /\ Len(u) \in Nat
    BY ConcatProperties, LenProperties
  <1>2. /\ \A j \in 1 .. Len(s) + Len(t) :
             (s \o t)[j] = IF j <= Len(s) THEN s[j] ELSE t[j - Len(s)]
        /\ \A j \in 1 .. Len(s \o t) + Len(u) :
             (s \o t \o u)[j] =
               IF j <= Len(s \o t) THEN (s \o t)[j] ELSE u[j - Len(s \o t)]
    BY <1>1, ConcatProperties
  <1>3. k - (Len(s) + Len(t)) = k - Len(s) - Len(t)
    BY <1>1
  <1> QED  BY <1>1, <1>2, <1>3

(* Every byte rb_peek_at stores is the right one; those it leaves out lie  *)
(* behind the end of the byte buffer.                                      *)
LEMMA PeekedBytes ==
  ASSUME TypeOK, NEW offset \in Nat, NEW n \in 1 .. Size,
         n + offset <= CanRead,
         peek_count_2(read_index + offset, n, offset) >= 0,
         NEW k \in 1 .. n
  PROVE  LET t == read_index + offset
             d == Peeked(t, n, peek_count_1(t, n), peek_count_2(t, n, offset))
         IN \/ d[k] = Unread[offset + k]
            \/ /\ d[k] = Untouched
               /\ offset > 0
               /\ t < Size
               /\ t + k > Size
  <1> DEFINE t == read_index + offset
             c1 == peek_count_1(t, n)
             c2 == peek_count_2(t, n, offset)
             i == t % Size
             s1 == Segment(buf, i, c1)
             s2 == Segment(buf, 0, c2)
             rest == [j \in 1 .. n - c1 - c2 |-> Untouched]
             S == Byte \cup {Untouched}
  <1>1. /\ CanRead \in Count /\ read_index \in Index /\ buf \in [Index -> Byte]
        /\ \A j \in 1 .. CanRead : Unread[j] = buf[Wrap(read_index + j - 1)]
    BY UnreadBytes
  <1>2. /\ t \in Nat /\ t < 2 * Size
        /\ i = IF t < Size THEN t ELSE t - Size
        /\ t + n < 2 * Size
    BY <1>1, ModOnce
  <1>3. /\ c1 \in 0 .. Size - i /\ c2 \in 0 .. Size /\ n - c1 - c2 \in Nat
        /\ c2 > 0 => t < Size /\ c1 = Size - t
        /\ n - c1 - c2 > 0 => offset > 0 /\ t < Size /\ c1 = Size - t
    <2>1. t = read_index + offset /\ c2 >= 0 /\ n + offset <= CanRead
      OBVIOUS
    <2>2. CASE t + n > Size /\ t < Size
      <3>1. c1 = Size - t /\ c2 = t + n - Size - offset
        BY <2>2 DEF peek_count_1, peek_count_2
      <3> HIDE DEF c1, c2, t, i
      <3> QED  BY <1>1, <1>2, <2>1, <2>2, <3>1
    <2>3. CASE ~(t + n > Size /\ t < Size)
      <3>1. c1 = n /\ c2 = 0
        BY <2>3 DEF peek_count_1, peek_count_2
      <3> HIDE DEF c1, c2, t, i
      <3> QED  BY <1>1, <1>2, <2>1, <2>3, <3>1
    <2> QED  BY <2>2, <2>3
  <1>4. i \in Index /\ 0 \in Index /\ c2 \in 0 .. Size - 0
    BY <1>2, <1>3
  <1>5. /\ offset + k \in 1 .. CanRead
        /\ read_index + (offset + k) - 1 = t + k - 1
    BY <1>1
  <1>6. Unread[offset + k] = buf[Wrap(t + k - 1)]
    BY <1>1, <1>5
  <1> HIDE DEF t, c1, c2, i
  <1>7. s1 \in Seq(S) /\ Len(s1) = c1
        /\ \A j \in 1 .. c1 : s1[j] = buf[i + j - 1]
    <2>1. s1 \in Seq(Byte) /\ Len(s1) = c1
      BY <1>1, <1>3, <1>4, SegmentType
    <2>2. \A j \in 1 .. c1 : s1[j] = buf[i + j - 1]
      BY DEF Segment
    <2> HIDE DEF s1
    <2> QED  BY <2>1, <2>2, BytesAreData
  <1>8. s2 \in Seq(S) /\ Len(s2) = c2
        /\ \A j \in 1 .. c2 : s2[j] = buf[j - 1]
    <2>1. s2 \in Seq(Byte) /\ Len(s2) = c2
      BY <1>1, <1>4, SegmentType
    <2>2. \A j \in 1 .. c2 : s2[j] = buf[0 + j - 1] /\ 0 + j - 1 = j - 1
      BY <1>3 DEF Segment
    <2> HIDE DEF s2
    <2> QED  BY <2>1, <2>2, BytesAreData
  <1>9. rest \in Seq(S) /\ Len(rest) = n - c1 - c2
        /\ \A j \in 1 .. n - c1 - c2 : rest[j] = Untouched
    BY <1>3
  <1> HIDE DEF s1, s2, rest, S
  <1>10. (s1 \o s2 \o rest)[k] =
           IF k <= c1 THEN s1[k]
           ELSE IF k <= c1 + c2 THEN s2[k - c1]
           ELSE rest[k - c1 - c2]
    <2>1. k \in 1 .. Len(s1) + Len(s2) + Len(rest)
      BY <1>3, <1>7, <1>8, <1>9
    <2>2. s1 \in Seq(S) /\ s2 \in Seq(S) /\ rest \in Seq(S)
      BY <1>7, <1>8, <1>9
    <2>3. (s1 \o s2 \o rest)[k] =
            IF k <= Len(s1) THEN s1[k]
            ELSE IF k <= Len(s1) + Len(s2) THEN s2[k - Len(s1)]
            ELSE rest[k - Len(s1) - Len(s2)]
      <3> HIDE DEF Index, Count
      <3> QED  BY <2>1, <2>2, ThreePieces
    <2>4. Len(s1) = c1 /\ Len(s2) = c2
      BY <1>7, <1>8
    <2> QED  BY <2>3, <2>4
  <1> DEFINE d == s1 \o s2 \o rest
  <1>11. CASE k <= c1
    <2>1. k \in 1 .. c1 /\ Wrap(t + k - 1) = i + k - 1
      BY <1>2, <1>3, <1>11 DEF Wrap
    <2> QED  BY <1>6, <1>7, <1>10, <1>11, <2>1 DEF Peeked, t, c1, c2, s1, s2, rest, i
  <1>12. CASE ~(k <= c1) /\ k <= c1 + c2
    <2>1. k - c1 \in 1 .. c2 /\ Wrap(t + k - 1) = (k - c1) - 1
      BY <1>2, <1>3, <1>12 DEF Wrap
    <2> QED  BY <1>6, <1>8, <1>10, <1>12, <2>1 DEF Peeked, t, c1, c2, s1, s2, rest, i
  <1>13. CASE ~(k <= c1) /\ ~(k <= c1 + c2)
    <2>1. k - c1 - c2 \in 1 .. n - c1 - c2 /\ offset > 0 /\ t < Size /\ t + k > Size
      BY <1>2, <1>3, <1>13
    <2>2. d[k] = Untouched
      BY <1>9, <1>10, <1>13, <2>1
    <2> QED  BY <2>1, <2>2 DEF Peeked, t, c1, c2, s1, s2, rest, i
  <1> QED  BY <1>11, <1>12, <1>13

LEMMA PeekStoresPrefix ==
  ASSUME TypeOK, PeekPrefix, NEW count \in Nat, NEW offset \in Nat,
         rb_peek_at(count, offset)
  PROVE  PeekPrefix'
  <1> DEFINE n == rb_MIN(count, CanRead - offset)
             t == read_index + offset
             c1 == peek_count_1(t, n)
             c2 == peek_count_2(t, n, offset)
  <1>1. CanRead \in Count /\ read_index \in Index
    BY FillType DEF TypeOK
  <1>2. Unread' = Unread /\ read_index' = read_index
    BY QueueKept DEF rb_peek_at, data_vars
  <1>3. CASE Return("rb_peek_at", count, offset, 0, <<>>)
    <2>1. ret'.n = 0
      BY <1>3 DEF Return
    <2> QED  BY <2>1 DEF PeekPrefix
  <1>4. CASE /\ count > 0 /\ CanRead > offset /\ c2 >= 0
             /\ Return("rb_peek_at", count, offset, n, Peeked(t, n, c1, c2))
    <2>1. n \in 1 .. Size /\ n + offset <= CanRead
      BY <1>1, <1>4 DEF rb_MIN
    <2> HIDE DEF n
    <2>2. ASSUME NEW k \in 1 .. n
          PROVE  \/ Peeked(t, n, c1, c2)[k] = Unread[offset + k]
                 \/ /\ Peeked(t, n, c1, c2)[k] = Untouched
                    /\ offset > 0
                    /\ t < Size
                    /\ t + k > Size
      BY <1>4, <2>1, PeekedBytes
    <2>3. /\ ret'.n = n /\ ret'.offset = offset
          /\ ret'.data = Peeked(t, n, c1, c2)
      BY <1>4 DEF Return
    <2> HIDE DEF c1, c2
    <2> QED  BY <1>2, <2>2, <2>3 DEF PeekPrefix
  <1>5. CASE ret' = ret
    BY <1>2, <1>5 DEF PeekPrefix
  <1> QED
    <2> HIDE DEF n, t, c1, c2
    <2> QED  BY <1>3, <1>4, <1>5 DEF rb_peek_at, n, t, c1, c2

(* Every other call returns under another name.                            *)
LEMMA OthersReturnOtherwise ==
  ASSUME Next, ~StoreInWriteRegion,
         \A count \in 0 .. MaxCount, offset \in Offsets :
           ~rb_peek_at(count, offset)
  PROVE  ret'.op # "rb_peek_at"
  <1>1. ASSUME NEW count \in 0 .. MaxCount,
               rb_read(count) \/ rb_overread(count)
                 \/ rb_advance_read_index(count)
                 \/ rb_overadvance_read_index(count)
        PROVE  ret'.op # "rb_peek_at"
    <2>1. ret'.op \in {"rb_read", "rb_overread", "rb_advance_read_index",
                       "rb_overadvance_read_index"}
      BY <1>1, GenericReturnsOp
         DEF rb_read, rb_overread, rb_advance_read_index,
             rb_overadvance_read_index
    <2> QED  BY <2>1
  <1>2. ASSUME rb_drop PROVE ret'.op # "rb_peek_at"
    <2>1. ret'.op = "rb_drop"
      BY <1>2, GenericReturnsOp DEF rb_drop
    <2> QED  BY <2>1
  <1>3. ASSUME NEW count \in 0 .. MaxCount,
               \/ \E source \in [1 .. count -> Byte] : rb_write(source)
               \/ rb_advance_write_index(count)
        PROVE  ret'.op # "rb_peek_at"
    <2>1. ret'.op \in {"rb_write", "rb_advance_write_index"}
      BY <1>3, ReturnsOp DEF rb_write, rb_advance_write_index
    <2> QED  BY <2>1
  <1>4. ASSUME NEW offset, rb_peek_byte_at(offset)
        PROVE  ret'.op # "rb_peek_at"
    <2>1. ret'.op = "rb_peek_byte_at"
      BY <1>4, ReturnsOp DEF rb_peek_byte_at
    <2> QED  BY <2>1
  <1>5. ASSUME NEW b, rb_find_byte(b) PROVE ret'.op # "rb_peek_at"
    <2>1. ret'.op = "rb_find_byte"
      BY <1>5, ReturnsOp DEF rb_find_byte
    <2> QED  BY <2>1
  <1>6. ASSUME rb_get_read_regions \/ rb_get_next_read_region
                 \/ rb_reset \/ rb_reset_stats
        PROVE  ret'.op # "rb_peek_at"
    <2>1. ret'.op \in {"rb_get_read_regions", "rb_get_next_read_region",
                       "rb_reset", "rb_reset_stats"}
      BY <1>6, ReturnsOp
         DEF rb_get_read_regions, rb_get_next_read_region, rb_reset,
             rb_reset_stats
    <2> QED  BY <2>1
  <1> QED
    BY <1>1, <1>2, <1>3, <1>4, <1>5, <1>6 DEF Next, Reading, Writing

(* No call replaces a peeked byte by a wrong one.                          *)
LEMMA StepPeek ==
  TypeOK /\ PeekPrefix /\ [Next]_vars => PeekPrefix'
  <1> SUFFICES ASSUME TypeOK, PeekPrefix, [Next]_vars
               PROVE  PeekPrefix'
    OBVIOUS
  <1>1. CASE StoreInWriteRegion \/ UNCHANGED vars
    <2>1. Unread' = Unread /\ read_index' = read_index /\ ret' = ret
      BY <1>1, StoreKeepsQueue, QueueKept
         DEF StoreInWriteRegion, vars, data_vars
    <2> QED  BY <2>1 DEF PeekPrefix
  <1>2. ASSUME NEW count \in 0 .. MaxCount, NEW offset \in Offsets,
               rb_peek_at(count, offset)
        PROVE  PeekPrefix'
    <2>1. count \in Nat /\ offset \in Nat
      BY BoundAssumption
    <2> QED  BY <1>2, <2>1, PeekStoresPrefix
  <1>3. CASE ret'.op # "rb_peek_at"
    BY <1>3 DEF PeekPrefix
  <1> QED  BY <1>1, <1>2, <1>3, OthersReturnOtherwise

(* rb_peek_at never stores a wrong byte, whatever the capacity, the offset *)
(* and the place of the split; it can only leave bytes out, at an offset   *)
(* above 0 and behind the end of the byte buffer.                          *)
THEOREM PeekTruthful == Spec => []PeekPrefix
  <1>1. Init => PeekPrefix
    BY DEF Init, PeekPrefix
  <1> QED  BY <1>1, StepPeek, TypeCorrect, PTL DEF Spec
=============================================================================
