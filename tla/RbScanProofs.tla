---------------------------- MODULE RbScanProofs ----------------------------
(***************************************************************************)
(* Proofs about the calls that are made of other calls (RbScan) and about  *)
(* what holds of one caller's ring buffer beyond its queue: the totals of  *)
(* the counters and the answers of the Java port.                          *)
(*                                                                         *)
(* Two of the operators are recursive functions.  That such a function     *)
(* exists, and has the values its definition gives, is proved by induction *)
(* over a set of numbers (EveryNumber): a set, unlike an operator, can be  *)
(* handed to a lemma.                                                      *)
(***************************************************************************)
EXTENDS RbScan, RbJava, RbRingProofs, FiniteSetTheorems, WellFoundedInduction

USE SizeAssumption DEF Index, Count
-----------------------------------------------------------------------------
(* The Java port.                                                           *)

(* Both implementations count the same bytes to read and to write.         *)
LEMMA JavaLevels ==
  ASSUME TypeOK
  PROVE  /\ java_can_read = CanRead /\ java_can_write = CanWrite
         /\ CanRead \in Count /\ CanWrite \in Count
         /\ read_index \in Index /\ write_index \in Index
<1>1. read_index \in Index /\ write_index \in Index /\ last_was_write \in BOOLEAN
  BY DEF TypeOK
<1>2. CanRead \in Count /\ CanWrite \in Count
  BY <1>1, FillInCount DEF CanRead, CanWrite
<1>3. CASE read_index = write_index
  <2>1. /\ CanRead = IF last_was_write THEN Size ELSE 0
        /\ CanWrite = IF last_was_write THEN 0 ELSE Size
    BY <1>1, <1>3 DEF CanRead, CanWrite, rb_can_read, rb_can_write
  <2> QED BY <1>1, <1>2, <1>3, <2>1 DEF java_can_read, java_can_write
<1>4. CASE read_index # write_index
  BY <1>1, <1>2, <1>4
  DEF java_can_read, java_can_write, CanRead, CanWrite, rb_can_read, rb_can_write
<1> QED BY <1>3, <1>4

(* The mapped bytes behind the header are those of the byte buffer.        *)
LEMMA JavaBytes ==
  ASSUME NEW i \in Nat, NEW n \in Int, i + n <= Size
  PROVE  mbb_get(header_length + i, n) = Segment(buf, i, n)
<1> DEFINE h == header_length
<1>1. h \in Nat BY DEF header_length
<1> HIDE DEF h
<1>2. \A k \in 1 .. n : mbb[h + i + k - 1] = buf[i + k - 1]
  <2> SUFFICES ASSUME NEW k \in 1 .. n PROVE mbb[h + i + k - 1] = buf[i + k - 1]
    OBVIOUS
  <2>1. h + i + k - 1 \in h .. h + Size - 1 /\ (h + i + k - 1) - h = i + k - 1
    BY <1>1
  <2> QED BY <2>1 DEF mbb, h
<1> QED BY <1>2 DEF mbb_get, Segment, h

(* They take as much, and copy it in the same two parts.                   *)
LEMMA JavaLimit ==
  ASSUME TypeOK, NEW count \in Nat, NEW over \in BOOLEAN
  PROVE  /\ java_limit(count, over) = TakeCount(count, over)
         /\ TakeCount(count, over) \in Count
<1>1. java_can_read = CanRead /\ CanRead \in Count BY JavaLevels
<1>2. CASE over BY <1>1, <1>2 DEF java_limit, TakeCount, rb_MIN
<1>3. CASE ~over BY <1>1, <1>3 DEF java_limit, TakeCount, rb_MIN
<1> QED BY <1>2, <1>3

(* What a consuming call leaves behind, once the index is the same.        *)
LEMMA JavaConsumes ==
  ASSUME TypeOK, NEW n \in Count, NEW data, NEW index, NEW count \in Nat,
         NEW over \in BOOLEAN, Consume(index, n, count, over, CanRead)
  PROVE  java_consumes(n, data, index, count, over) =
           JavaCall(n, data, read_index', write_index', last_was_write', stats')
<1>1. java_counts("bytes_read", n, n < count) = stats'
  BY DEF Consume, Counted, java_counts
<1> QED BY <1>1, JavaLevels DEF Consume, java_consumes

(* What a call returns and leaves when it changes nothing in the file but  *)
(* the statistics.                                                         *)
LEMMA JavaRefuses ==
  ASSUME NEW op, NEW count, NEW offset, Return(op, count, offset, 0, <<>>),
         UNCHANGED data_vars
  PROVE  java_refuses(stats') =
           JavaCall(ret'.n, ret'.data, read_index', write_index', last_was_write', stats')
BY DEF Return, java_refuses, JavaCall, data_vars

(* The fields of what a call returns.                                       *)
LEMMA ReturnFields ==
  ASSUME NEW op, NEW count, NEW offset, NEW n, NEW data,
         Return(op, count, offset, n, data)
  PROVE  /\ ret'.op = op /\ ret'.count = count /\ ret'.offset = offset
         /\ ret'.n = n /\ ret'.data = data
BY DEF Return

(* generic_read() and generic_advance_read_index().                        *)
LEMMA JavaReads ==
  ASSUME TypeOK, NEW op, NEW count \in Nat, NEW over \in BOOLEAN,
         rb_generic_read(op, count, over)
  PROVE  /\ ret'.op = op /\ ret'.count = count
         /\ java_generic_read(count, over) =
              JavaCall(ret'.n, ret'.data, read_index', write_index', last_was_write', stats')
<1> DEFINE n == TakeCount(count, over)
           c1 == copy_count_1(read_index, n)
           c2 == copy_count_2(read_index, n)
           split == read_index + java_limit(count, over) > Size
           copy_1 == IF split THEN Size - read_index ELSE java_limit(count, over)
           copy_2 == IF split THEN read_index + java_limit(count, over) - Size ELSE 0
           data == mbb_get(header_length + read_index, copy_1) \o mbb_get(header_length, copy_2)
           index == (IF copy_2 < 1 THEN read_index + copy_1 ELSE copy_2) % Size
<1>0. /\ n \in Count /\ java_limit(count, over) = n /\ read_index \in Index
      /\ java_can_read = CanRead /\ CanRead \in Count
  BY JavaLimit, JavaLevels
<1>s. java_generic_read(count, over) =
        IF count = 0 \/ (~over /\ java_can_read < 1) THEN java_refuses(stats)
        ELSE java_consumes(java_limit(count, over), data, index, count, over)
  BY DEF java_generic_read
<1>1. /\ copy_1 = c1 /\ copy_2 = c2 /\ c1 \in 0 .. Size - read_index /\ c2 \in 0 .. read_index
  BY <1>0, SplitInBuffer DEF copy_count_1, copy_count_2
<1>2. CASE count = 0 \/ (~over /\ CanRead = 0)
  <2>1. Return(op, count, 0, 0, <<>>) /\ UNCHANGED data_vars /\ stats' = stats
    BY <1>2, <1>0 DEF rb_generic_read
  <2>2. java_generic_read(count, over) = java_refuses(stats) BY <1>0, <1>2, <1>s
  <2> QED BY <2>1, <2>2, JavaRefuses, ReturnFields
<1>3. CASE count > 0 /\ (over \/ CanRead > 0)
  <2>1. /\ Return(op, count, 0, n, CopyOut(buf, read_index, n))
        /\ Consume(CopiedIndex(read_index, n), n, count, over, CanRead)
    BY <1>3, <1>0 DEF rb_generic_read
  <2>2. java_generic_read(count, over) = java_consumes(n, data, index, count, over)
    BY <1>0, <1>3, <1>s
  <2>3. index = CopiedIndex(read_index, n)
    BY <1>0, <1>1 DEF CopiedIndex
  <2>4. data = CopyOut(buf, read_index, n)
    <3> HIDE DEF copy_1, copy_2, c1, c2
    <3>1. mbb_get(header_length + read_index, copy_1) = Segment(buf, read_index, c1)
      BY <1>0, <1>1, JavaBytes
    <3>2. mbb_get(header_length + 0, copy_2) = Segment(buf, 0, c2)
      <4>1. 0 \in Nat /\ c2 \in Int /\ 0 + c2 <= Size BY <1>0, <1>1
      <4> QED BY <4>1, <1>1, JavaBytes
    <3>3. header_length + 0 = header_length BY DEF header_length
    <3> QED BY <3>1, <3>2, <3>3 DEF CopyOut, c1, c2
  <2> HIDE DEF data, index, n
  <2> QED BY <1>0, <2>1, <2>2, <2>3, <2>4, JavaConsumes, ReturnFields
<1> QED BY <1>0, <1>2, <1>3

(* generic_advance_read_index(): as JavaReads, without the copy.            *)
LEMMA JavaAdvances ==
  ASSUME TypeOK, NEW op, NEW count \in Nat, NEW over \in BOOLEAN,
         rb_generic_advance_read_index(op, count, over)
  PROVE  /\ ret'.op = op /\ ret'.count = count
         /\ java_generic_advance_read_index(count, over) =
              JavaCall(ret'.n, ret'.data, read_index', write_index', last_was_write', stats')
<1> DEFINE n == TakeCount(count, over)
           end == read_index + java_limit(count, over)
           index == (IF end > Size THEN end - Size ELSE end) % Size
<1>0. /\ n \in Count /\ java_limit(count, over) = n /\ read_index \in Index
      /\ java_can_read = CanRead /\ CanRead \in Count
  BY JavaLimit, JavaLevels
<1>s. java_generic_advance_read_index(count, over) =
        CASE count = 0 -> java_refuses(stats)
          [] count > 0 /\ ~over /\ java_can_read < 1 ->
               java_refuses(java_counts("bytes_read", 0, TRUE))
          [] OTHER -> java_consumes(java_limit(count, over), <<>>, index, count, over)
  BY DEF java_generic_advance_read_index
<1>1. CASE count = 0
  <2>1. Return(op, count, 0, 0, <<>>) /\ UNCHANGED data_vars /\ stats' = stats
    BY <1>1, <1>0 DEF rb_generic_advance_read_index
  <2>2. java_generic_advance_read_index(count, over) = java_refuses(stats) BY <1>0, <1>1, <1>s
  <2> QED BY <2>1, <2>2, JavaRefuses, ReturnFields
<1>2. CASE count > 0 /\ ~over /\ CanRead = 0
  <2>1. /\ Return(op, count, 0, 0, <<>>) /\ UNCHANGED data_vars
        /\ stats' = Counted("bytes_read", 0, "underflows", 0, count)
    BY <1>2, <1>0 DEF rb_generic_advance_read_index
  <2>2. java_generic_advance_read_index(count, over) = java_refuses(java_counts("bytes_read", 0, TRUE))
    <3>1. count # 0 /\ count > 0 /\ ~over /\ java_can_read < 1 BY <1>0, <1>2
    <3> QED BY <3>1, <1>s, Zenon
  <2>3. stats' = java_counts("bytes_read", 0, TRUE)
    BY <2>1, <1>2 DEF Counted, java_counts
  <2> QED BY <2>1, <2>2, <2>3, JavaRefuses, ReturnFields
<1>3. CASE count > 0 /\ (over \/ CanRead > 0)
  <2>1. /\ Return(op, count, 0, n, <<>>)
        /\ Consume(AdvancedIndex(read_index, n), n, count, over, CanRead)
    BY <1>3, <1>0 DEF rb_generic_advance_read_index
  <2>2. java_generic_advance_read_index(count, over) = java_consumes(n, <<>>, index, count, over)
    <3>1. count # 0 /\ (over \/ ~(java_can_read < 1)) BY <1>0, <1>3
    <3> HIDE DEF n, index
    <3> QED BY <1>0, <3>1, <1>s, Zenon
  <2>3. index = AdvancedIndex(read_index, n) BY <1>0 DEF AdvancedIndex
  <2> HIDE DEF index, n
  <2> QED BY <1>0, <2>1, <2>2, <2>3, JavaConsumes, ReturnFields
<1> QED BY <1>0, <1>1, <1>2, <1>3

(* peek_at(), as long as the copy of rb_peek_at() does not fault.          *)
LEMMA JavaPeeks ==
  ASSUME TypeOK, NEW count \in Nat, NEW offset \in Nat, rb_peek_at(count, offset), alive'
  PROVE  /\ ret'.op = "rb_peek_at" /\ ret'.count = count /\ ret'.offset = offset
         /\ java_peek_at(count, offset) =
              JavaCall(ret'.n, ret'.data, read_index', write_index', last_was_write', stats')
<1> DEFINE n == rb_MIN(count, CanRead - offset)
           t == read_index + offset
           c1 == peek_count_1(t, n)
           c2 == peek_count_2(t, n, offset)
           left == java_can_read - offset
           m == IF count > left THEN left ELSE count
           split == t + m > Size /\ t < Size
           copy_1 == IF split THEN Size - t ELSE m
           copy_2 == IF split THEN t + m - Size - offset ELSE 0
           got == mbb_get(header_length + (t % Size), copy_1)
                    \o mbb_get(header_length, IF copy_2 > 0 THEN copy_2 ELSE 0)
           data == got \o [k \in 1 .. m - Len(got) |-> Untouched]
<1>0. /\ java_can_read = CanRead /\ CanRead \in Count /\ read_index \in Index
      /\ t \in Nat /\ t % Size \in Index /\ m = n /\ n \in Int
      /\ UNCHANGED data_vars
  BY JavaLevels DEF rb_MIN, rb_peek_at
<1>s. java_peek_at(count, offset) =
        CASE count = 0 -> java_refuses(stats)
          [] count > 0 /\ left <= 0 -> java_refuses(java_counts("bytes_peek", 0, TRUE))
          [] OTHER -> JavaCall(m, data, read_index, write_index, last_was_write,
                               java_counts("bytes_peek", m, m < count))
  BY DEF java_peek_at
<1>1. CASE count = 0
  <2>1. Return("rb_peek_at", count, offset, 0, <<>>) /\ stats' = stats
    BY <1>1, <1>0 DEF rb_peek_at
  <2>2. java_peek_at(count, offset) = java_refuses(stats) BY <1>0, <1>1, <1>s
  <2> QED BY <1>0, <2>1, <2>2, JavaRefuses, ReturnFields
<1>2. CASE count > 0 /\ CanRead <= offset
  <2>1. /\ Return("rb_peek_at", count, offset, 0, <<>>)
        /\ stats' = Counted("bytes_peek", 0, "underflows", 0, 1)
    BY <1>2, <1>0 DEF rb_peek_at
  <2>2. java_peek_at(count, offset) = java_refuses(java_counts("bytes_peek", 0, TRUE))
    <3>1. count # 0 /\ count > 0 /\ left <= 0 BY <1>0, <1>2
    <3> QED BY <3>1, <1>s, Zenon
  <2>3. stats' = java_counts("bytes_peek", 0, TRUE)
    BY <2>1 DEF Counted, java_counts
  <2> QED BY <1>0, <2>1, <2>2, <2>3, JavaRefuses, ReturnFields
<1>3. CASE count > 0 /\ CanRead > offset
  <2>1. /\ c2 >= 0
        /\ Return("rb_peek_at", count, offset, n, Peeked(t, n, c1, c2))
        /\ stats' = Counted("bytes_peek", n, "underflows", n, count)
    <3> HIDE DEF n, t, c1, c2
    <3> QED BY <1>3, <1>0 DEF rb_peek_at, n, t, c1, c2
  <2>2. java_peek_at(count, offset) =
          JavaCall(m, data, read_index, write_index, last_was_write,
                   java_counts("bytes_peek", m, m < count))
    <3>1. count # 0 /\ ~(left <= 0) BY <1>0, <1>3
    <3> HIDE DEF data, m, left
    <3> QED BY <3>1, <1>s, Zenon
  <2>3. stats' = java_counts("bytes_peek", m, m < count)
    <3> HIDE DEF m, n
    <3> QED BY <2>1, <1>0 DEF Counted, java_counts
  <2>4. /\ copy_1 = c1 /\ copy_2 = c2 /\ n \in 1 .. Size
        /\ c1 \in 0 .. Size /\ c2 \in 0 .. Size /\ c1 + c2 <= n
    BY <1>0, <1>3, <2>1 DEF peek_count_1, peek_count_2, rb_MIN
  <2>5. (t % Size) + c1 <= Size
    <3>1. CASE t < Size
      <4>1. t % Size = t BY <1>0, <3>1, ModIsWrap DEF Wrap
      <4> QED BY <4>1, <3>1, <1>0, <2>4 DEF peek_count_1
    <3>2. CASE t >= Size
      <4>1. t \in 0 .. 2 * Size - 1 /\ c1 = n /\ n <= CanRead - offset
        BY <1>0, <1>3, <3>2 DEF peek_count_1, rb_MIN
      <4>2. t % Size = t - Size BY <4>1, <3>2, ModIsWrap DEF Wrap
      <4> QED BY <4>1, <4>2, <1>0
    <3> QED BY <1>0, <3>1, <3>2
  <2>6. got = Segment(buf, t % Size, c1) \o Segment(buf, 0, c2)
    <3> HIDE DEF c1, c2, copy_1, copy_2
    <3>1. mbb_get(header_length + (t % Size), copy_1) = Segment(buf, t % Size, c1)
      <4>1. (t % Size) \in Nat /\ c1 \in Int BY <1>0, <2>4
      <4> QED BY <4>1, <2>4, <2>5, JavaBytes
    <3>2. mbb_get(header_length + 0, c2) = Segment(buf, 0, c2)
      <4>1. 0 \in Nat /\ c2 \in Int /\ 0 + c2 <= Size BY <2>4
      <4> QED BY <4>1, JavaBytes
    <3>3. header_length + 0 = header_length BY DEF header_length
    <3>4. (IF copy_2 > 0 THEN copy_2 ELSE 0) = c2 BY <2>4
    <3> QED BY <3>1, <3>2, <3>3, <3>4
  <2>7. Len(got) = c1 + c2
    <3> HIDE DEF c1, c2, got
    <3>1. /\ Len(Segment(buf, t % Size, c1)) = c1 /\ Len(Segment(buf, 0, c2)) = c2
          /\ Segment(buf, t % Size, c1) \in Seq(Byte) /\ Segment(buf, 0, c2) \in Seq(Byte)
      <4>1. 0 \in Index /\ c2 \in 0 .. Size - 0 /\ c1 \in 0 .. Size - (t % Size)
        BY <1>0, <2>4, <2>5
      <4>2. buf \in [Index -> Byte] BY DEF TypeOK
      <4> DEFINE i == t % Size
      <4>3. i \in Index /\ c1 \in 0 .. Size - i BY <4>1, <1>0
      <4> HIDE DEF Index, i
      <4>4. Segment(buf, i, c1) \in Seq(Byte) /\ Len(Segment(buf, i, c1)) = c1
        BY <4>2, <4>3, SegmentType
      <4>5. Segment(buf, 0, c2) \in Seq(Byte) /\ Len(Segment(buf, 0, c2)) = c2
        BY <4>1, <4>2, SegmentType
      <4> QED BY <4>4, <4>5 DEF i
    <3> DEFINE s1 == Segment(buf, t % Size, c1)
               s2 == Segment(buf, 0, c2)
    <3>2. /\ s1 \in Seq(Byte) /\ s2 \in Seq(Byte) /\ Len(s1) = c1 /\ Len(s2) = c2
          /\ got = s1 \o s2
      BY <2>6, <3>1
    <3> HIDE DEF s1, s2
    <3>3. Len(s1 \o s2) = Len(s1) + Len(s2) BY <3>2, ConcatProperties
    <3> QED BY <3>2, <3>3
  <2>8. data = Peeked(t, n, c1, c2)
    <3> HIDE DEF got, c1, c2, m, n, t
    <3>1. m - Len(got) = n - c1 - c2 BY <1>0, <2>4, <2>7
    <3> QED BY <3>1, <2>6 DEF Peeked
  <2> HIDE DEF data, m, n, t, c1, c2
  <2>9. ret'.n = n /\ ret'.data = data /\ ret'.op = "rb_peek_at" /\ ret'.count = count
        /\ ret'.offset = offset
    BY <2>1, <2>8, ReturnFields
  <2> QED BY <1>0, <2>2, <2>3, <2>9 DEF data_vars
<1> QED BY <1>0, <1>1, <1>2, <1>3

(* The calls that RB.java does not answer, by the name they return under.  *)
LEMMA OthersUnanswered ==
  ASSUME Next, ~StoreInWriteRegion, ret'.op \in Answered
  PROVE  \E count \in 0 .. MaxCount :
           \/ rb_read(count) \/ rb_overread(count)
           \/ rb_advance_read_index(count) \/ rb_overadvance_read_index(count)
           \/ \E offset \in Offsets : rb_peek_at(count, offset)
<1>1. ASSUME rb_drop PROVE FALSE
  <2>1. ret'.op = "rb_drop" BY <1>1, GenericReturnsOp DEF rb_drop
  <2> QED BY <2>1 DEF Answered
<1>2. ASSUME NEW count \in 0 .. MaxCount,
             \/ \E source \in [1 .. count -> Byte] : rb_write(source)
             \/ rb_advance_write_index(count)
      PROVE  FALSE
  <2>1. ret'.op \in {"rb_write", "rb_advance_write_index"}
    BY <1>2, ReturnsOp DEF rb_write, rb_advance_write_index
  <2> QED BY <2>1 DEF Answered
<1>3. ASSUME NEW offset, rb_peek_byte_at(offset) PROVE FALSE
  <2>1. ret'.op = "rb_peek_byte_at" BY <1>3, ReturnsOp DEF rb_peek_byte_at
  <2> QED BY <2>1 DEF Answered
<1>4. ASSUME NEW b, rb_find_byte(b) PROVE FALSE
  <2>1. ret'.op = "rb_find_byte" BY <1>4, ReturnsOp DEF rb_find_byte
  <2> QED BY <2>1 DEF Answered
<1>5. ASSUME rb_get_read_regions \/ rb_get_next_read_region \/ rb_reset \/ rb_reset_stats
      PROVE  FALSE
  <2>1. ret'.op \in {"rb_get_read_regions", "rb_get_next_read_region",
                     "rb_reset", "rb_reset_stats"}
    BY <1>5, ReturnsOp DEF rb_get_read_regions, rb_get_next_read_region, rb_reset, rb_reset_stats
  <2> QED BY <2>1 DEF Answered
<1> QED BY <1>1, <1>2, <1>3, <1>4, <1>5 DEF Next, Reading, Writing

(* A Java reader of any ring, at any offset, returns and leaves behind what *)
(* a C reader would.                                                        *)
THEOREM JavaReadsAlike == Spec => JavaAgrees
<1>1. TypeOK /\ [Next]_vars => [JavaStep]_vars
  <2> SUFFICES ASSUME TypeOK, Next, vars' # vars PROVE JavaStep OBVIOUS
  <2>0. 0 .. MaxCount \subseteq Nat /\ Offsets \subseteq Nat BY BoundAssumption
  <2> SUFFICES ASSUME ret'.op \in Answered, UNCHANGED buf, alive'
               PROVE  JavaAnswer(ret'.op, ret'.count, ret'.offset) =
                        JavaCall(ret'.n, ret'.data, read_index', write_index',
                                 last_was_write', stats')
    BY JavaLevels DEF JavaStep
  <2>1. ~StoreInWriteRegion BY DEF StoreInWriteRegion, vars, data_vars
  <2>2. ASSUME NEW count \in 0 .. MaxCount, rb_read(count)
        PROVE  JavaAnswer(ret'.op, ret'.count, ret'.offset) =
                 JavaCall(ret'.n, ret'.data, read_index', write_index', last_was_write', stats')
    <3>1. rb_generic_read("rb_read", count, FALSE) /\ FALSE \in BOOLEAN /\ count \in Nat
      BY <2>0, <2>2 DEF rb_read
    <3>2. /\ ret'.op = "rb_read" /\ ret'.count = count
          /\ java_generic_read(count, FALSE) =
               JavaCall(ret'.n, ret'.data, read_index', write_index', last_was_write', stats')
      BY <3>1, JavaReads
    <3> QED BY <3>2 DEF JavaAnswer
  <2>3. ASSUME NEW count \in 0 .. MaxCount, rb_overread(count)
        PROVE  JavaAnswer(ret'.op, ret'.count, ret'.offset) =
                 JavaCall(ret'.n, ret'.data, read_index', write_index', last_was_write', stats')
    <3>1. rb_generic_read("rb_overread", count, TRUE) /\ TRUE \in BOOLEAN /\ count \in Nat
      BY <2>0, <2>3 DEF rb_overread
    <3>2. /\ ret'.op = "rb_overread" /\ ret'.count = count
          /\ java_generic_read(count, TRUE) =
               JavaCall(ret'.n, ret'.data, read_index', write_index', last_was_write', stats')
      BY <3>1, JavaReads
    <3> QED BY <3>2 DEF JavaAnswer
  <2>4. ASSUME NEW count \in 0 .. MaxCount, rb_advance_read_index(count)
        PROVE  JavaAnswer(ret'.op, ret'.count, ret'.offset) =
                 JavaCall(ret'.n, ret'.data, read_index', write_index', last_was_write', stats')
    <3>1. rb_generic_advance_read_index("rb_advance_read_index", count, FALSE) /\ FALSE \in BOOLEAN /\ count \in Nat
      BY <2>0, <2>4 DEF rb_advance_read_index
    <3>2. /\ ret'.op = "rb_advance_read_index" /\ ret'.count = count
          /\ java_generic_advance_read_index(count, FALSE) =
               JavaCall(ret'.n, ret'.data, read_index', write_index', last_was_write', stats')
      BY <3>1, JavaAdvances
    <3> QED BY <3>2 DEF JavaAnswer
  <2>5. ASSUME NEW count \in 0 .. MaxCount, rb_overadvance_read_index(count)
        PROVE  JavaAnswer(ret'.op, ret'.count, ret'.offset) =
                 JavaCall(ret'.n, ret'.data, read_index', write_index', last_was_write', stats')
    <3>1. rb_generic_advance_read_index("rb_overadvance_read_index", count, TRUE) /\ TRUE \in BOOLEAN /\ count \in Nat
      BY <2>0, <2>5 DEF rb_overadvance_read_index
    <3>2. /\ ret'.op = "rb_overadvance_read_index" /\ ret'.count = count
          /\ java_generic_advance_read_index(count, TRUE) =
               JavaCall(ret'.n, ret'.data, read_index', write_index', last_was_write', stats')
      BY <3>1, JavaAdvances
    <3> QED BY <3>2 DEF JavaAnswer
  <2>6. ASSUME NEW count \in 0 .. MaxCount, NEW offset \in Offsets, rb_peek_at(count, offset)
        PROVE  JavaAnswer(ret'.op, ret'.count, ret'.offset) =
                 JavaCall(ret'.n, ret'.data, read_index', write_index', last_was_write', stats')
    BY <2>0, <2>6, JavaPeeks DEF JavaAnswer
  <2> QED BY <2>1, <2>2, <2>3, <2>4, <2>5, <2>6, OthersUnanswered
<1> QED BY <1>1, TypeCorrect, PTL DEF Spec, JavaAgrees
-----------------------------------------------------------------------------
(* Remainders.                                                              *)

(* Only the multiple 0 of a width lies below it.                           *)
LEMMA MultipleInWord ==
  ASSUME NEW W \in Nat \ {0}, NEW k \in Int, W * k \in 0 .. W - 1
  PROVE  k = 0
<1>1. CASE k >= 1 BY <1>1, SMTT(30)
<1>2. CASE k <= -1 BY <1>2, SMTT(30)
<1> QED BY <1>1, <1>2

(* The remainder is the only number in range at the right distance.         *)
LEMMA Remainder ==
  ASSUME NEW W \in Nat \ {0}, NEW a \in Int
  PROVE  /\ a \div W \in Int /\ a % W \in 0 .. W - 1
         /\ a = W * (a \div W) + (a % W)
BY SMTT(30)

(* Numbers a multiple of the width apart have the same remainder.          *)
LEMMA SameRemainder ==
  ASSUME NEW W \in Nat \ {0}, NEW a \in Int, NEW k \in Int
  PROVE  (a + W * k) % W = a % W
<1> DEFINE b == a + W * k
           qa == a \div W  ra == a % W
           qb == b \div W  rb == b % W
<1>1. W * k \in Int /\ b \in Int BY SMTT(30)
<1>2. /\ qa \in Int /\ ra \in 0 .. W - 1 /\ a = W * qa + ra
      /\ qb \in Int /\ rb \in 0 .. W - 1 /\ b = W * qb + rb
  BY <1>1, Remainder
<1> HIDE DEF qa, ra, qb, rb
<1>3. rb - ra = W * (qa + k - qb) BY <1>1, <1>2, SMTT(30)
<1>4. ra - rb = W * (qb - qa - k) BY <1>1, <1>2, SMTT(30)
<1>5. CASE rb >= ra
  <2>0. rb - ra \in 0 .. W - 1 BY <1>2, <1>5
  <2>1. W * (qa + k - qb) \in 0 .. W - 1 BY <2>0, <1>3, Zenon
  <2>2. qa + k - qb \in Int BY <1>2
  <2>3. qa + k - qb = 0 BY <2>1, <2>2, MultipleInWord
  <2>4. rb - ra = W * 0 BY <1>3, <2>3, Zenon
  <2>5. rb = ra BY <1>2, <2>4
  <2> QED BY <2>5 DEF ra, rb, b
<1>6. CASE ra >= rb
  <2>0. ra - rb \in 0 .. W - 1 BY <1>2, <1>6
  <2>1. W * (qb - qa - k) \in 0 .. W - 1 BY <2>0, <1>4, Zenon
  <2>2. qb - qa - k \in Int BY <1>2
  <2>3. qb - qa - k = 0 BY <2>1, <2>2, MultipleInWord
  <2>4. ra - rb = W * 0 BY <1>4, <2>3, Zenon
  <2>5. rb = ra BY <1>2, <2>4
  <2> QED BY <2>5 DEF ra, rb, b
<1> QED BY <1>2, <1>5, <1>6

(* A counter moves by what is added to it, up to a multiple of its width.  *)
LEMMA CounterMoves ==
  ASSUME NEW W \in Nat \ {0}, NEW x \in Int, NEW d \in Int
  PROVE  \E k \in Int : ((x + d) % W) - x = d + W * k
<1> DEFINE q == (x + d) \div W
           m == (x + d) % W
           p == W * q
<1>0. x + d \in Int OBVIOUS
<1>1. q \in Int /\ m \in Int /\ x + d = p + m BY <1>0, Remainder
<1> HIDE DEF q, m
<1>3. p \in Int BY <1>1, SMTT(30)
<1>4. W * (0 - q) = 0 - p BY <1>1, SMTT(30)
<1> HIDE DEF p
<1>5. m - x = d + (0 - p) BY <1>1, <1>3
<1>6. m - x = d + W * (0 - q) BY <1>4, <1>5, Zenon
<1>7. 0 - q \in Int BY <1>1
<1> QED BY <1>6, <1>7 DEF m

-----------------------------------------------------------------------------
(* The statistics.                                                          *)

(* What a step does to the two totals and to the fill level.               *)
Moves(write, read) ==
  /\ stats'.bytes_write = (stats.bytes_write + write) % Word["bytes_write"]
  /\ stats'.bytes_read = (stats.bytes_read + read) % Word["bytes_read"]
  /\ CanRead' - CanRead = write - read

(* Totals and fill level that move together agree, however often the       *)
(* totals have wrapped around.                                             *)
LEMMA MovesAgree ==
  ASSUME TypeOK, Word["bytes_write"] = Word["bytes_read"],
         NEW write \in Int, NEW read \in Int, Moves(write, read)
  PROVE  StatsStep
<1> DEFINE W == Word["bytes_read"]
           w == stats.bytes_write
           r == stats.bytes_read
<1>1. W \in Nat \ {0} BY WordAssumption DEF Counters
<1>2. w \in Int /\ r \in Int BY DEF TypeOK, Stats, Counters
<1> HIDE DEF W, w, r
<1>3. PICK j \in Int : ((w + write) % W) - w = write + W * j
  BY <1>1, <1>2, CounterMoves
<1>4. PICK k \in Int : ((r + read) % W) - r = read + W * k
  BY <1>1, <1>2, CounterMoves
<1>5. W * j \in Int /\ W * k \in Int /\ W * (j - k) = W * j - W * k
  BY <1>1, <1>3, <1>4, SMTT(30)
<1> DEFINE gap == (stats'.bytes_write - w) - (stats'.bytes_read - r) - (CanRead' - CanRead)
<1>6. gap = (write + W * j) - (read + W * k) - (write - read)
  BY <1>3, <1>4 DEF Moves, W, w, r
<1>7. gap = 0 + W * (j - k) BY <1>5, <1>6
<1> HIDE DEF gap
<1>8. gap % W = 0 % W BY <1>1, <1>3, <1>4, <1>7, SameRemainder
<1>9. 0 % W = 0 BY <1>1, SMTT(30)
<1> QED BY <1>8, <1>9 DEF StatsStep, gap, W, w, r

(* Every counter holds a number of its width.                               *)
LEMMA StatsInWords ==
  ASSUME TypeOK
  PROVE  /\ stats.bytes_write = (stats.bytes_write + 0) % Word["bytes_write"]
         /\ stats.bytes_read = (stats.bytes_read + 0) % Word["bytes_read"]
<1>1. \A c \in Counters : Word[c] \in Nat \ {0} /\ stats[c] \in 0 .. Word[c] - 1
  BY WordAssumption DEF TypeOK, Stats
<1>2. \A W \in Nat \ {0} : \A x \in 0 .. W - 1 : (x + 0) % W = x BY SMTT(30)
<1> QED BY <1>1, <1>2 DEF Counters

(* A call that neither takes nor adds.                                     *)
LEMMA MovesNothing ==
  ASSUME TypeOK, UNCHANGED <<read_index, write_index, last_was_write>>,
         stats'.bytes_write = stats.bytes_write, stats'.bytes_read = stats.bytes_read
  PROVE  Moves(0, 0)
<1>1. CanRead' = CanRead BY DEF CanRead
<1>2. CanRead \in Int BY JavaLevels
<1> QED BY <1>1, <1>2, StatsInWords DEF Moves

(* Counting other things leaves the two totals alone.                       *)
LEMMA CountedElsewhere ==
  ASSUME TypeOK, NEW c \in {"bytes_peek"}, NEW d, NEW incident \in {"underflows", "overflows"},
         NEW n, NEW count, stats' = Counted(c, d, incident, n, count)
  PROVE  stats'.bytes_write = stats.bytes_write /\ stats'.bytes_read = stats.bytes_read
BY DEF TypeOK, Stats, Counters, Counted

(* A call that reads or writes n bytes counts n bytes.                      *)
LEMMA CountedReadAndWrite ==
  ASSUME TypeOK, NEW d \in Nat, NEW n, NEW count
  PROVE  /\ stats' = Counted("bytes_read", d, "underflows", n, count) =>
              /\ stats'.bytes_read = (stats.bytes_read + d) % Word["bytes_read"]
              /\ stats'.bytes_write = stats.bytes_write
         /\ stats' = Counted("bytes_write", d, "overflows", n, count) =>
              /\ stats'.bytes_write = (stats.bytes_write + d) % Word["bytes_write"]
              /\ stats'.bytes_read = stats.bytes_read
BY DEF TypeOK, Stats, Counters, Counted

(* The end of a consuming call that does not overread.                     *)
LEMMA ConsumeMoves ==
  ASSUME TypeOK, NEW index, NEW n \in 1 .. CanRead, NEW count \in Nat,
         index \in {CopiedIndex(read_index, n), AdvancedIndex(read_index, n)},
         Consume(index, n, count, FALSE, CanRead)
  PROVE  Moves(0, n) /\ CanRead' = CanRead - n
<1>1. /\ read_index \in Index /\ write_index \in Index /\ last_was_write \in BOOLEAN
      /\ CanRead \in Count /\ n \in Count /\ n \in Nat
  BY JavaLevels DEF TypeOK
<1>2. /\ read_index' = Wrap(read_index + n) /\ write_index' = write_index
      /\ last_was_write' = FALSE
      /\ stats' = Counted("bytes_read", n, "underflows", n, count)
  BY <1>1, MovedIsWrap DEF Consume
<1>3. CanRead' = CanRead - n
  <2>1. CanRead' = rb_can_read(Wrap(read_index + n), write_index, FALSE)
    BY <1>2 DEF CanRead
  <2>2. n \in 1 .. rb_can_read(read_index, write_index, last_was_write) BY DEF CanRead
  <2> HIDE DEF Index, Count
  <2> QED BY <1>1, <2>1, <2>2, FillTaken DEF CanRead
<1>4. CanRead' - CanRead = 0 - n BY <1>1, <1>3
<1> QED BY <1>1, <1>2, <1>3, <1>4, StatsInWords, CountedReadAndWrite DEF Moves

(* The end of a producing call.                                            *)
LEMMA ProduceMoves ==
  ASSUME TypeOK, NEW index, NEW n \in 1 .. CanWrite, NEW count \in Nat,
         index \in {CopiedIndex(write_index, n), AdvancedIndex(write_index, n)},
         Produce(index, n, count)
  PROVE  Moves(n, 0) /\ CanRead' = CanRead + n
<1>1. /\ read_index \in Index /\ write_index \in Index /\ last_was_write \in BOOLEAN
      /\ CanWrite \in Count /\ n \in Count /\ n \in Nat /\ CanRead \in Count
  BY JavaLevels DEF TypeOK
<1>2. /\ write_index' = Wrap(write_index + n) /\ read_index' = read_index
      /\ last_was_write' = TRUE
      /\ stats' = Counted("bytes_write", n, "overflows", n, count)
  BY <1>1, MovedIsWrap DEF Produce
<1>3. CanRead' = CanRead + n
  <2>1. CanRead' = rb_can_read(read_index, Wrap(write_index + n), TRUE)
    BY <1>2 DEF CanRead
  <2>2. n \in 1 .. rb_can_write(read_index, write_index, last_was_write) BY DEF CanWrite
  <2> HIDE DEF Index, Count
  <2> QED BY <1>1, <2>1, <2>2, FillAdded DEF CanRead
<1>4. CanRead' - CanRead = n - 0 BY <1>1, <1>3
<1> QED BY <1>1, <1>2, <1>3, <1>4, StatsInWords, CountedReadAndWrite DEF Moves

(* The calls that take without overreading, and those that add, with what  *)
(* they report.                                                            *)
LEMMA TakingMoves ==
  ASSUME TypeOK, NEW op, NEW count \in Nat,
         \/ rb_generic_read(op, count, FALSE)
         \/ rb_generic_advance_read_index(op, count, FALSE)
  PROVE  \/ Moves(0, 0) /\ CanRead' = CanRead
         \/ Moves(0, rb_MIN(count, CanRead)) /\ CanRead' = CanRead - rb_MIN(count, CanRead)
<1> DEFINE n == rb_MIN(count, CanRead)
<1>1. TakeCount(count, FALSE) = n BY DEF TakeCount
<1>2. CanRead \in Count BY JavaLevels
<1>3. CASE /\ count > 0 /\ CanRead > 0
           /\ \/ Consume(CopiedIndex(read_index, n), n, count, FALSE, CanRead)
              \/ Consume(AdvancedIndex(read_index, n), n, count, FALSE, CanRead)
  <2>1. n \in 1 .. CanRead BY <1>2, <1>3 DEF rb_MIN
  <2> HIDE DEF n
  <2> QED BY <1>3, <2>1, ConsumeMoves DEF n
<1>4. CASE UNCHANGED data_vars /\ stats' = stats
  <2>1. CanRead' = CanRead BY <1>4 DEF CanRead, data_vars
  <2> QED BY <1>4, <2>1, MovesNothing DEF data_vars
<1>5. CASE UNCHANGED data_vars /\ stats' = Counted("bytes_read", 0, "underflows", 0, count)
  <2>1. CanRead' = CanRead BY <1>5 DEF CanRead, data_vars
  <2>2. CanRead' - CanRead = 0 - 0 BY <1>2, <2>1
  <2> QED BY <1>5, <2>1, <2>2, StatsInWords, CountedReadAndWrite DEF Moves
<1> QED
  <2> HIDE DEF n
  <2>1. CASE rb_generic_read(op, count, FALSE)
    BY <2>1, <1>1, <1>3, <1>4 DEF rb_generic_read
  <2>2. CASE rb_generic_advance_read_index(op, count, FALSE)
    BY <2>2, <1>1, <1>3, <1>4, <1>5 DEF rb_generic_advance_read_index
  <2> QED BY <2>1, <2>2

(* What one side adds to its total is what the fill level moves by.         *)
LEMMA AddingMoves ==
  ASSUME TypeOK, NEW count \in Nat,
         \/ \E source \in [1 .. count -> Byte] : rb_write(source)
         \/ rb_advance_write_index(count)
  PROVE  \/ Moves(0, 0) /\ CanRead' = CanRead
         \/ Moves(rb_MIN(count, CanWrite), 0) /\ CanRead' = CanRead + rb_MIN(count, CanWrite)
<1> DEFINE n == rb_MIN(count, CanWrite)
<1>2. CanRead \in Count /\ CanWrite \in Count BY JavaLevels
<1>3. CASE /\ count > 0 /\ CanWrite > 0
           /\ \/ Produce(CopiedIndex(write_index, n), n, count)
              \/ Produce(AdvancedIndex(write_index, n), n, count)
  <2>1. n \in 1 .. CanWrite BY <1>2, <1>3 DEF rb_MIN
  <2> HIDE DEF n
  <2> QED BY <1>3, <2>1, ProduceMoves DEF n
<1>4. CASE UNCHANGED data_vars /\ stats' = stats
  <2>1. CanRead' = CanRead BY <1>4 DEF CanRead, data_vars
  <2> QED BY <1>4, <2>1, MovesNothing DEF data_vars
<1>5. CASE UNCHANGED data_vars /\ stats' = Counted("bytes_write", 0, "overflows", 0, count)
  <2>1. CanRead' = CanRead BY <1>5 DEF CanRead, data_vars
  <2>2. CanRead' - CanRead = 0 - 0 BY <1>2, <2>1
  <2> QED BY <1>5, <2>1, <2>2, StatsInWords, CountedReadAndWrite DEF Moves
<1> QED
  <2> HIDE DEF n
  <2>1. ASSUME NEW source \in [1 .. count -> Byte], rb_write(source)
        PROVE  \/ Moves(0, 0) /\ CanRead' = CanRead
               \/ Moves(n, 0) /\ CanRead' = CanRead + n
    <3>1. Len(source) = count OBVIOUS
    <3>2. n = rb_MIN(Len(source), CanWrite) BY <3>1 DEF n
    <3> QED BY <2>1, <3>1, <3>2, <1>3, <1>4 DEF rb_write
  <2>2. CASE rb_advance_write_index(count)
    BY <2>2, <1>3, <1>4, <1>5 DEF rb_advance_write_index, n
  <2> QED BY <2>1, <2>2 DEF n

(* The calls that leave the totals and the indices alone.                  *)
LEMMA LookingMoves ==
  ASSUME TypeOK,
         \/ \E count, offset : rb_peek_at(count, offset)
         \/ \E offset : rb_peek_byte_at(offset)
         \/ \E b : rb_find_byte(b)
         \/ rb_get_read_regions \/ rb_get_next_read_region
         \/ StoreInWriteRegion \/ UNCHANGED vars
  PROVE  Moves(0, 0)
<1>1. UNCHANGED <<read_index, write_index, last_was_write>>
  BY DEF rb_peek_at, rb_peek_byte_at, rb_find_byte, rb_get_read_regions,
         rb_get_next_read_region, StoreInWriteRegion, data_vars, vars
<1>2. \/ stats' = stats
      \/ \E d, n, c : stats' = Counted("bytes_peek", d, "underflows", n, c)
  <2>1. ASSUME NEW count, NEW offset, rb_peek_at(count, offset)
        PROVE  \/ stats' = stats
               \/ \E d, n, c : stats' = Counted("bytes_peek", d, "underflows", n, c)
    BY <2>1, Zenon DEF rb_peek_at
  <2>2. ASSUME NEW offset, rb_peek_byte_at(offset)
        PROVE  \E d, n, c : stats' = Counted("bytes_peek", d, "underflows", n, c)
    BY <2>2, Zenon DEF rb_peek_byte_at
  <2>3. ASSUME NEW b, rb_find_byte(b)
        PROVE  \E d, n, c : stats' = Counted("bytes_peek", d, "underflows", n, c)
    BY <2>3, Zenon DEF rb_find_byte
  <2>4. CASE rb_get_read_regions \/ rb_get_next_read_region \/ StoreInWriteRegion \/ UNCHANGED vars
    BY <2>4 DEF rb_get_read_regions, rb_get_next_read_region, StoreInWriteRegion, vars
  <2> QED BY <2>1, <2>2, <2>3, <2>4, Zenon
<1>3. stats'.bytes_write = stats.bytes_write /\ stats'.bytes_read = stats.bytes_read
  <2>1. ASSUME NEW d, NEW n, NEW c, stats' = Counted("bytes_peek", d, "underflows", n, c)
        PROVE  stats'.bytes_write = stats.bytes_write /\ stats'.bytes_read = stats.bytes_read
    BY <2>1, CountedElsewhere
  <2> QED BY <1>2, <2>1
<1> QED BY <1>1, <1>3, MovesNothing

(* The totals of bytes written and read differ by the fill level for ever, *)
(* for every width of the counters, as long as nobody overreads or resets. *)
THEOREM TotalsMatchFill ==
  ASSUME Word["bytes_write"] = Word["bytes_read"]
  PROVE  Spec => StatsMatchFill
<1>1. TypeOK /\ [Next]_vars => [StatsStep]_vars
  <2> SUFFICES ASSUME TypeOK, Next PROVE StatsStep OBVIOUS
  <2>0. /\ 0 .. MaxCount \subseteq Nat /\ CanRead \in Count /\ CanWrite \in Count
    BY BoundAssumption, JavaLevels
  <2>1. ASSUME NEW count \in 0 .. MaxCount, rb_read(count) \/ rb_advance_read_index(count)
        PROVE  StatsStep
    <3>1. \/ rb_generic_read("rb_read", count, FALSE)
          \/ rb_generic_advance_read_index("rb_advance_read_index", count, FALSE)
      BY <2>1 DEF rb_read, rb_advance_read_index
    <3>2. rb_MIN(count, CanRead) \in Int /\ count \in Nat BY <2>0 DEF rb_MIN
    <3>3. Moves(0, 0) \/ Moves(0, rb_MIN(count, CanRead))
      <4>1. CASE rb_generic_read("rb_read", count, FALSE)
        BY <3>2, <4>1, TakingMoves
      <4>2. CASE rb_generic_advance_read_index("rb_advance_read_index", count, FALSE)
        BY <3>2, <4>2, TakingMoves
      <4> QED BY <3>1, <4>1, <4>2
    <3>4. 0 \in Int OBVIOUS
    <3> QED BY <3>2, <3>3, <3>4, MovesAgree
  <2>2. CASE rb_drop
    <3>1. rb_generic_advance_read_index("rb_drop", CanRead, FALSE) BY <2>2 DEF rb_drop
    <3>2. rb_MIN(CanRead, CanRead) \in Int /\ CanRead \in Nat BY <2>0 DEF rb_MIN
    <3>3. Moves(0, 0) \/ Moves(0, rb_MIN(CanRead, CanRead))
      BY <3>1, <3>2, TakingMoves
    <3>4. 0 \in Int OBVIOUS
    <3> QED BY <3>2, <3>3, <3>4, MovesAgree
  <2>3. ASSUME NEW count \in 0 .. MaxCount,
               \/ \E source \in [1 .. count -> Byte] : rb_write(source)
               \/ rb_advance_write_index(count)
        PROVE  StatsStep
    <3>1. rb_MIN(count, CanWrite) \in Int /\ count \in Nat BY <2>0 DEF rb_MIN
    <3> QED BY <2>3, <3>1, AddingMoves, MovesAgree
  <2>4. ASSUME NEW count \in 0 .. MaxCount, rb_overread(count) \/ rb_overadvance_read_index(count)
        PROVE  StatsStep
    <3>1. ret'.op \in {"rb_overread", "rb_overadvance_read_index"}
      BY <2>4, GenericReturnsOp DEF rb_overread, rb_overadvance_read_index
    <3> QED BY <3>1 DEF StatsStep
  <2>5. CASE rb_reset \/ rb_reset_stats
    <3>1. ret'.op \in {"rb_reset", "rb_reset_stats"}
      BY <2>5, ReturnsOp DEF rb_reset, rb_reset_stats
    <3> QED BY <3>1 DEF StatsStep
  <2>6. CASE \/ \E count, offset : rb_peek_at(count, offset)
             \/ \E offset : rb_peek_byte_at(offset)
             \/ \E b : rb_find_byte(b)
             \/ rb_get_read_regions \/ rb_get_next_read_region
             \/ StoreInWriteRegion
    BY <2>6, LookingMoves, MovesAgree
  <2> QED BY <2>1, <2>2, <2>3, <2>4, <2>5, <2>6 DEF Next, Reading, Writing
<1> QED BY <1>1, TypeCorrect, PTL DEF Spec, StatsMatchFill
-----------------------------------------------------------------------------
(* The types, for the calls made of other calls.                            *)

(* Counting what is peeked at keeps the types.                             *)
LEMMA PeeksType ==
  ASSUME TypeOK, NEW d \in Int, NEW k \in Int
  PROVE  Peeks(d, k) \in Stats
<1>1. \A x \in Counters, a \in Int : a % Word[x] \in Nat /\ a % Word[x] < Word[x]
  BY WordAssumption
<1>2. stats \in [Counters -> Nat] /\ \A x \in Counters : stats[x] < Word[x]
  BY DEF TypeOK, Stats
<1>3. /\ (stats.bytes_peek + d) % Word["bytes_peek"] \in Nat
      /\ (stats.bytes_peek + d) % Word["bytes_peek"] < Word["bytes_peek"]
      /\ (stats.underflows + k) % Word["underflows"] \in Nat
      /\ (stats.underflows + k) % Word["underflows"] < Word["underflows"]
  <2>1. stats.bytes_peek + d \in Int /\ stats.underflows + k \in Int
    BY <1>2, CounterNames
  <2> QED BY <1>1, <2>1, CounterNames
<1> QED BY <1>2, <1>3, CounterNames DEF Peeks, Stats

(* A call that is refused keeps the types.                                  *)
LEMMA RefusedType ==
  ASSUME TypeOK, NEW op \in Calls, NEW incident \in Counters, Refused(op, incident)
  PROVE  TypeOK'
<1>1. 0 \in Nat /\ 0 \in Count OBVIOUS
<1>2. ret' \in Ret /\ alive' \in BOOLEAN BY <1>1, ReturnType, NoData DEF Refused
<1>3. \A x \in Counters, a \in Int : a % Word[x] \in Nat /\ a % Word[x] < Word[x]
  BY WordAssumption
<1>4. stats' \in Stats
  <2>1. stats \in [Counters -> Nat] /\ \A x \in Counters : stats[x] < Word[x]
    BY DEF TypeOK, Stats
  <2>2. stats[incident] + 1 \in Int BY <2>1
  <2> QED BY <1>3, <2>1, <2>2 DEF Refused, Stats
<1> QED BY <1>2, <1>4 DEF TypeOK, Refused, data_vars

(* So does one that ends the program.                                       *)
LEMMA FaultType == ASSUME TypeOK, Fault PROVE TypeOK'
BY DEF TypeOK, Fault, data_vars

(* A call that returns and counts peeks, and leaves the buffer alone.      *)
LEMMA LooksType ==
  ASSUME TypeOK, NEW op \in Calls, NEW offset \in Nat, NEW n \in Count,
         NEW data \in Seq(Byte \cup {Untouched}), NEW d \in Int, NEW k \in Int,
         Return(op, 0, offset, n, data), stats' = Peeks(d, k), UNCHANGED data_vars
  PROVE  TypeOK'
<1>1. 0 \in Nat OBVIOUS
<1>2. ret' \in Ret /\ alive' \in BOOLEAN BY <1>1, ReturnType
<1>3. stats' \in Stats BY PeeksType
<1> QED BY <1>2, <1>3 DEF TypeOK, data_vars

(* A part of an interval can be counted.                                    *)
LEMMA PartsCounted ==
  ASSUME NEW n \in Nat, NEW S \in SUBSET (0 .. n - 1)
  PROVE  IsFiniteSet(S) /\ Cardinality(S) \in Nat
<1>1. IsFiniteSet(0 .. n - 1) BY FS_Interval
<1> QED BY <1>1, FS_Subset, FS_CardinalityType

(* Products of natural numbers are natural numbers.                         *)
LEMMA ProductType ==
  /\ \A m, n \in Nat : m * n \in Nat
  /\ \A m, n \in Int : m * n \in Int
BY SMTT(30)

(* The names and counters that the calls of this module use.                *)
LEMMA ScanCallNames ==
  {"rb_find_byte_sequence", "rb_deinterleave_items", "rb_find_next_midi_message",
   "rb_read_next_midi_message", "rb_read_float", "rb_peek_float_at",
   "rb_skip_float", "rb_write_float", "rb_read", "rb_advance_read_index"} \subseteq Calls
BY DEF Calls

(* A peek serves no more than it is asked for.                              *)
LEMMA PeekLenType ==
  ASSUME TypeOK, NEW count \in Nat, NEW offset \in Nat
  PROVE  PeekLen(count, offset) \in 0 .. count /\ PeekLen(count, offset) + offset <= CanRead + offset
BY JavaLevels DEF PeekLen, rb_MIN

(* A search keeps the types, wherever it ends.                              *)
LEMMA FindSequenceType ==
  ASSUME TypeOK, NEW pattern \in Seq(Byte), rb_find_byte_sequence(pattern)
  PROVE  TypeOK'
<1> DEFINE count == Len(pattern)
           Before(off) == Cardinality({c \in Candidates(pattern) : c < off})
           op == "rb_find_byte_sequence"
<1>1. /\ 0 \in Nat /\ 0 \in Count /\ 1 \in Count /\ 0 \in Int /\ 1 \in Int
      /\ CanRead \in Nat /\ count \in Nat /\ op \in Calls
  BY JavaLevels, ScanCallNames
<1>2. Candidates(pattern) \subseteq 0 .. CanRead - 1 BY DEF Candidates
<1>3. \A off : Before(off) \in Nat
  BY <1>1, <1>2, PartsCounted
<1>4. PICK stack \in [1 .. count -> Byte] :
      \/ /\ Return(op, 0, 0, 0, <<>>)
         /\ stats' = Peeks(CanRead + count * Before(CanRead), 1)
         /\ UNCHANGED data_vars
      \/ \E off \in Candidates(pattern) :
            \/ Fault
            \/ /\ IF Short(pattern, off)
                    THEN Return(op, 0, 0, 0, <<>>)
                    ELSE Return(op, 0, off, 1, <<>>)
               /\ stats' = Peeks(off + 1 + count * Before(off) + PeekLen(count, off),
                                 IF Short(pattern, off) THEN 1 ELSE 0)
               /\ UNCHANGED data_vars
  BY Zenon DEF rb_find_byte_sequence
<1> HIDE DEF Before
<1>5. CASE /\ Return(op, 0, 0, 0, <<>>)
           /\ stats' = Peeks(CanRead + count * Before(CanRead), 1)
           /\ UNCHANGED data_vars
  <2>1. CanRead + count * Before(CanRead) \in Int BY <1>1, <1>3, ProductType
  <2> HIDE DEF count, op
  <2> QED BY <1>1, <1>5, <2>1, LooksType, NoData
<1>6. ASSUME NEW off \in Candidates(pattern),
             \/ Fault
             \/ /\ IF Short(pattern, off)
                    THEN Return(op, 0, 0, 0, <<>>)
                    ELSE Return(op, 0, off, 1, <<>>)
                /\ stats' = Peeks(off + 1 + count * Before(off) + PeekLen(count, off),
                                  IF Short(pattern, off) THEN 1 ELSE 0)
                /\ UNCHANGED data_vars
      PROVE  TypeOK'
  <2>1. off \in Nat BY <1>1, <1>2
  <2>2. off + 1 + count * Before(off) + PeekLen(count, off) \in Int
    <3>1. count * Before(off) \in Nat BY <1>1, <1>3, ProductType
    <3>2. PeekLen(count, off) \in Nat BY <1>1, <2>1, PeekLenType
    <3> QED BY <2>1, <3>1, <3>2
  <2>3. (IF Short(pattern, off) THEN 1 ELSE 0) \in Int OBVIOUS
  <2>4. CASE Fault BY <2>4, FaultType
  <2>5. ASSUME NEW offset \in Nat, NEW n \in Count, Return(op, 0, offset, n, <<>>),
               NEW d \in Int, NEW k \in Int, stats' = Peeks(d, k), UNCHANGED data_vars
        PROVE  TypeOK'
    BY <1>1, <2>5, LooksType, NoData
  <2> HIDE DEF count, op
  <2> QED BY <1>1, <1>6, <2>1, <2>2, <2>3, <2>4, <2>5
<1> QED BY <1>4, <1>5, <1>6

(* What a peek inside another call leaves in its destination: nothing but  *)
(* bytes of the queue in their places, and all of them where the bytes are *)
(* not split at the end of the byte buffer.                                *)
LEMMA PeekOverBytes ==
  ASSUME TypeOK, NEW offset \in Nat, NEW S, Byte \subseteq S,
         NEW destination \in Seq(S),
         NEW n, n = PeekLen(Len(destination), offset)
  PROVE  /\ PeekOver(destination, offset) \in Seq(S)
         /\ Len(PeekOver(destination, offset)) = Len(destination)
         /\ \A k \in 1 .. n :
              \/ offset = 0 \/ read_index + offset >= Size \/ read_index + offset + n <= Size
              => PeekOver(destination, offset)[k] = Unread[offset + k]
<1> DEFINE count == Len(destination)
           t == read_index + offset
           new == Peeked(t, n, peek_count_1(t, n), peek_count_2(t, n, offset))
<1>0. CanRead \in Count /\ read_index \in Index BY JavaLevels DEF TypeOK
<1>1. /\ count \in Nat /\ n \in 0 .. count
      /\ n > 0 => n \in 1 .. Size /\ n + offset <= CanRead
      /\ \A k \in 1 .. count : destination[k] \in S
  BY <1>0 DEF PeekLen, rb_MIN
<1>2. ASSUME NEW k \in 1 .. n, ~PeekFaults(count, offset)
      PROVE  \/ new[k] = Unread[offset + k]
             \/ /\ new[k] = Untouched
                /\ offset > 0 /\ t < Size /\ t + k > Size
  <2>1. n \in 1 .. Size /\ n + offset <= CanRead BY <1>1
  <2>2. peek_count_2(t, n, offset) >= 0
    <3>1. peek_count_2(t, n, offset) \in Int BY <1>0, <2>1 DEF peek_count_2
    <3>2. ~(peek_count_2(t, n, offset) < 0) BY <1>2 DEF PeekFaults
    <3> QED BY <3>1, <3>2
  <2> QED BY <2>1, <2>2, PeekedBytes
<1>3. \A k \in 1 .. n : Unread[offset + k] \in Byte
  BY <1>1, UnreadBytes
<1>4. \/ offset = 0 \/ t >= Size \/ t + n <= Size
      => ~PeekFaults(count, offset)
  BY <1>0, <1>1 DEF PeekFaults, peek_count_2
<1>5. PeekOver(destination, offset) =
        [k \in 1 .. count |->
           IF k <= n /\ ~PeekFaults(count, offset) /\ new[k] # Untouched
             THEN new[k] ELSE destination[k]]
  BY DEF PeekOver
<1> HIDE DEF new
<1>6. \A k \in 1 .. count :
        (IF k <= n /\ ~PeekFaults(count, offset) /\ new[k] # Untouched
             THEN new[k] ELSE destination[k]) \in S
  <2> SUFFICES ASSUME NEW k \in 1 .. count, k <= n, ~PeekFaults(count, offset), new[k] # Untouched
               PROVE  new[k] \in S
    BY <1>1
  <2> QED BY <1>1, <1>2, <1>3
<1>7. \A k \in 1 .. n :
        \/ offset = 0 \/ t >= Size \/ t + n <= Size
        => PeekOver(destination, offset)[k] = Unread[offset + k]
  <2> SUFFICES ASSUME NEW k \in 1 .. n, offset = 0 \/ t >= Size \/ t + n <= Size
               PROVE  PeekOver(destination, offset)[k] = Unread[offset + k]
    OBVIOUS
  <2>1. ~(offset > 0 /\ t < Size /\ t + k > Size) BY <1>0, <1>1
  <2>2. new[k] = Unread[offset + k] /\ ~PeekFaults(count, offset) BY <1>2, <1>4, <2>1
  <2>3. new[k] # Untouched /\ k <= n /\ k \in 1 .. count
    BY <1>1, <1>3, <2>2, ByteAssumption
  <2> QED BY <1>5, <2>2, <2>3
<1>8. PeekOver(destination, offset) \in [1 .. count -> S] BY <1>5, <1>6
<1> HIDE DEF count, t
<1> QED BY <1>1, <1>7, <1>8 DEF count, t
-----------------------------------------------------------------------------
(* De-interleaving.                                                         *)

(* A number below the width is its own remainder.                          *)
LEMMA SmallRemainder ==
  \A W \in Nat \ {0} : \A x \in 0 .. W - 1 : x % W = x
BY SMTT(30)

(* One more item is one more stride.                                        *)
LEMMA OnceMore ==
  \A m, n \in Int : (m + 1) * n = m * n + n
BY SMTT(30)

(* More items are more bytes.                                               *)
LEMMA TimesMono ==
  ASSUME NEW m \in Int, NEW n \in Int, NEW w \in Nat, m <= n
  PROVE  m * w \in Int /\ n * w \in Int /\ m * w <= n * w
<1>1. m * w \in Int /\ n * w \in Int BY SMTT(30)
<1>2. m * w <= n * w BY SMTT(30)
<1> QED BY <1>1, <1>2

(* A quotient is the one number that leaves a remainder below the divisor. *)
LEMMA QuotientIs ==
  ASSUME NEW W \in Nat \ {0}, NEW q \in Int, NEW r \in 0 .. W - 1
  PROVE  (W * q + r) \div W = q /\ (W * q + r) % W = r
<1> DEFINE a == W * q + r
           q2 == a \div W
           r2 == a % W
<1>1. W * q \in Int /\ a \in Int BY SMTT(30)
<1>2. q2 \in Int /\ r2 \in 0 .. W - 1 /\ a = W * q2 + r2 BY <1>1, Remainder
<1>3. r2 = r
  <2>1. r2 = (W * q + r) % W /\ r % W = r BY SmallRemainder
  <2>2. (r + W * q) % W = r % W
    <3>1. r \in Int OBVIOUS
    <3> QED BY <3>1, SameRemainder
  <2>3. r + W * q = W * q + r BY <1>1
  <2> QED BY <2>1, <2>2, <2>3
<1> HIDE DEF q2, r2
<1>4. W * q = W * q2 BY <1>1, <1>2, <1>3, SMTT(30)
<1>5. W * (q - q2) = 0 BY <1>2, <1>4, SMTT(30)
<1>6. q - q2 = 0
  <2>1. q - q2 \in Int /\ W * (q - q2) \in 0 .. W - 1 BY <1>2, <1>5
  <2> QED BY <2>1, MultipleInWord
<1>7. q2 = q BY <1>2, <1>6
<1> QED BY <1>3, <1>7 DEF q2, r2

(* The items lie Stride bytes apart and within the bytes that are needed.  *)
Stride(l) == l.item_size * l.item_block_size
FirstItem(l) == l.initial_item_offset * l.item_size
ItemStart(l, k) == FirstItem(l) + (k - 1) * Stride(l)

(* How often the loop of rb_deinterleave_items() runs: once for an item and *)
(* once more for every whole block in the offset.                           *)
Rounds(l) == l.item_count + l.initial_item_offset \div l.item_block_size

(* The loop peeks at as many positions, a stride apart; the first           *)
(* item_count of them lie within the bytes that must be readable.           *)
LEMMA ItemPlaces ==
  ASSUME NEW l \in Layouts
  PROVE  /\ l.item_size \in Nat \ {0} /\ l.item_count \in Nat
         /\ Rounds(l) \in Nat /\ l.item_count <= Rounds(l)
         /\ ItemPositions(l) = [k \in 1 .. Rounds(l) |-> ItemStart(l, k)]
         /\ Len(ItemPositions(l)) = Rounds(l)
         /\ \A k \in 1 .. Rounds(l) : ItemStart(l, k) \in Nat
         /\ \A k \in 1 .. l.item_count : ItemStart(l, k) + l.item_size <= Needed(l)
         /\ l.item_count * l.item_size \in Nat
         /\ l.item_count > 0 => l.item_count * l.item_size <= Needed(l)
         /\ Needed(l) \in Int
<1> DEFINE c == l.item_count
           b == l.item_block_size
           o == l.initial_item_offset
           s == l.item_size
           stride == Stride(l)
           first == FirstItem(l)
           q == o \div b
           r == o % b
<1>1. c \in Nat /\ s \in Nat \ {0} /\ b \in Nat \ {0} /\ o \in Nat
  BY LayoutAssumption DEF Layout
<1>2. stride = s * b /\ first = o * s BY DEF Stride, FirstItem
<1>3. Needed(l) = o * s + (c - 1) * s * b + s BY DEF Needed
<1>4. ItemPositions(l) = [k \in 1 .. (Needed(l) - 1) \div (s * b) + 1 |-> o * s + (k - 1) * (s * b)]
  BY DEF ItemPositions
<1>0. \A k : ItemStart(l, k) = first + (k - 1) * stride BY DEF ItemStart
<1>r. Rounds(l) = c + q BY DEF Rounds
<1>q. q \in Int /\ r \in 0 .. b - 1 /\ o = b * q + r
  <2>1. o \in Int BY <1>1
  <2> QED BY <1>1, <2>1, Remainder
<1> HIDE DEF c, b, o, s, stride, first, q, r
<1>5. first \in Nat /\ stride \in Nat BY <1>1, <1>2, ProductType
<1>6. (r + 1) * s \in 1 .. stride
  <2>1. (r + 1) * s <= b * s /\ (r + 1) * s \in Int /\ b * s \in Int
    <3>1. r + 1 \in Int /\ b \in Int /\ s \in Nat /\ r + 1 <= b BY <1>1, <1>q
    <3> QED BY <3>1, TimesMono
  <2>2. 1 * s <= (r + 1) * s
    <3>1. 1 \in Int /\ r + 1 \in Int /\ s \in Nat /\ 1 <= r + 1 BY <1>1, <1>q
    <3> QED BY <3>1, TimesMono
  <2>3. b * s = s * b /\ 1 * s = s BY <1>1, SMTT(30)
  <2> QED BY <1>1, <1>2, <2>1, <2>2, <2>3
<1>7. stride > 0 BY <1>1, <1>5, <1>6
<1>8. (c - 1) * s * b = (c - 1) * stride BY <1>1, <1>2, SMTT(30)
<1>9. (c - 1) * stride \in Int /\ (c >= 1 => (c - 1) * stride \in Nat)
  BY <1>1, <1>5, ProductType
<1>10. Needed(l) = first + (c - 1) * stride + s BY <1>2, <1>3, <1>8, Zenon
<1>n. q \in Nat
  <2>1. CASE q <= -1
    <3>1. q * b <= (-1) * b BY <1>1, <1>q, <2>1, TimesMono
    <3>2. q * b = b * q /\ (-1) * b = 0 - b /\ b * q \in Int BY <1>1, <1>q, SMTT(30)
    <3> QED BY <1>1, <1>q, <3>1, <3>2
  <2> QED BY <1>q, <2>1
<1>11. (Needed(l) - 1) \div stride = c + q - 1
  <2>1. (r + 1) * s - 1 \in 0 .. stride - 1 BY <1>1, <1>5, <1>6
  <2>2. stride * (c + q - 1) = (c - 1) * stride + stride * q
    <3>1. c - 1 \in Int /\ q \in Int /\ stride \in Int BY <1>1, <1>5, <1>n
    <3>2. stride * ((c - 1) + q) = (c - 1) * stride + stride * q BY <3>1, SMTT(30)
    <3>3. c + q - 1 = (c - 1) + q BY <1>1, <1>n
    <3> QED BY <3>2, <3>3
  <2>3. first + s = stride * q + (r + 1) * s
    <3>1. first = (b * q) * s + r * s
      <4>1. first = (b * q + r) * s BY <1>2, <1>q, Zenon
      <4>2. b * q \in Int /\ r \in Int BY <1>1, <1>q, <1>n, ProductType
      <4> QED BY <1>1, <4>1, <4>2, SMTT(30)
    <3>2. (b * q) * s = stride * q BY <1>1, <1>2, <1>n, SMTT(30)
    <3>3. (r + 1) * s = r * s + s
      <4>1. r \in Int /\ s \in Int BY <1>1, <1>q
      <4> QED BY <4>1, OnceMore
    <3>4. r * s \in Int /\ stride * q \in Int
      <4>1. r \in Int /\ s \in Int /\ stride \in Int /\ q \in Int
        BY <1>1, <1>5, <1>q, <1>n
      <4> QED BY <4>1, ProductType
    <3> QED BY <1>1, <3>1, <3>2, <3>3, <3>4
  <2>4. stride * q \in Int BY <1>5, <1>n, ProductType
  <2> DEFINE whole == stride * (c + q - 1)  part == (r + 1) * s
             blocks == (c - 1) * stride  more == stride * q
  <2>5. Needed(l) - 1 = whole + (part - 1)
    <3>1. /\ whole = blocks + more /\ first + s = more + part
          /\ Needed(l) = first + blocks + s
      BY <1>10, <2>2, <2>3, Zenon
    <3>2. more \in Int /\ blocks \in Int /\ part \in Int /\ first \in Int /\ s \in Int
      BY <1>1, <1>5, <1>6, <1>9, <2>4
    <3> HIDE DEF whole, part, blocks, more
    <3> QED BY <3>1, <3>2
  <2>6. c + q - 1 \in Int /\ stride \in Nat \ {0} BY <1>1, <1>5, <1>7, <1>n
  <2>7. (whole + (part - 1)) \div stride = c + q - 1
    BY <2>1, <2>6, QuotientIs
  <2> QED BY <2>5, <2>7, Zenon
<1>12. ItemPositions(l) = [k \in 1 .. c + q |-> ItemStart(l, k)]
  <2>1. (Needed(l) - 1) \div (s * b) + 1 = c + q BY <1>1, <1>2, <1>11, <1>n
  <2> QED BY <1>0, <1>2, <1>4, <2>1
<1>13. ASSUME NEW k \in 1 .. c + q PROVE ItemStart(l, k) \in Nat
  <2>1. (k - 1) * stride \in Nat BY <1>1, <1>5, ProductType
  <2>2. ItemStart(l, k) = first + (k - 1) * stride BY <1>0
  <2> QED BY <1>5, <2>1, <2>2
<1>14. ASSUME NEW k \in 1 .. c PROVE ItemStart(l, k) + s <= Needed(l)
  <2>1. (k - 1) * stride \in Nat BY <1>1, <1>5, ProductType
  <2>2. (k - 1) * stride <= (c - 1) * stride BY <1>1, <1>5, TimesMono
  <2>3. ItemStart(l, k) = first + (k - 1) * stride BY <1>0
  <2> QED BY <1>1, <1>5, <1>9, <1>10, <2>1, <2>2, <2>3
<1>15. ASSUME c > 0 PROVE c * s <= Needed(l)
  <2>1. c * s = (c - 1) * s + s /\ c * s \in Nat BY <1>1, SMTT(30)
  <2>2. s <= stride
    <3>1. 1 * s <= b * s
      <4>1. 1 \in Int /\ b \in Int /\ s \in Nat /\ 1 <= b BY <1>1
      <4> QED BY <4>1, TimesMono
    <3>2. b * s = s * b /\ 1 * s = s BY <1>1, SMTT(30)
    <3> QED BY <1>2, <3>1, <3>2
  <2>3. s * (c - 1) <= stride * (c - 1)
    <3>1. c - 1 \in Nat BY <1>1, <1>15
    <3> QED BY <1>1, <1>5, <2>2, <3>1, TimesMono
  <2>4. s * (c - 1) = (c - 1) * s /\ stride * (c - 1) = (c - 1) * stride
    BY <1>1, <1>5, SMTT(30)
  <2>5. (c - 1) * s \in Int
    <3>1. c - 1 \in Int /\ s \in Int BY <1>1
    <3> QED BY <3>1, ProductType
  <2> QED BY <1>1, <1>5, <1>9, <1>10, <2>1, <2>3, <2>4, <2>5
<1>16. Needed(l) \in Int BY <1>1, <1>5, <1>9, <1>10
<1>17. Len(ItemPositions(l)) = c + q BY <1>1, <1>n, <1>12
<1>18. c * s \in Nat BY <1>1, ProductType
<1>19. c + q \in Nat /\ c <= c + q BY <1>1, <1>n
<1> QED BY <1>1, <1>r, <1>12, <1>13, <1>14, <1>15, <1>16, <1>17, <1>18, <1>19 DEF c, s

(* Byte j of c items of s bytes belongs to one of the items.               *)
LEMMA ItemOf ==
  ASSUME NEW s \in Nat \ {0}, NEW c \in Nat, NEW j \in 1 .. c * s
  PROVE  /\ (j - 1) \div s \in 0 .. c - 1
         /\ (j - 1) % s \in 0 .. s - 1
<1> DEFINE q == (j - 1) \div s  r == (j - 1) % s
<1>1. c * s \in Nat BY ProductType
<1>2. j \in Int /\ 1 <= j /\ j <= c * s BY <1>1
<1>3. q \in Int /\ r \in 0 .. s - 1 /\ j - 1 = s * q + r BY <1>2, Remainder
<1> HIDE DEF q, r
<1>4. s * q \in Int /\ s * q = q * s BY <1>3, SMTT(30)
<1>5. CASE q >= c
  <2>1. c * s <= q * s BY <1>3, <1>5, TimesMono
  <2> QED BY <1>1, <1>2, <1>3, <1>4, <2>1
<1>6. CASE q <= -1
  <2>1. q * s <= (-1) * s BY <1>3, <1>6, TimesMono
  <2>2. (-1) * s = 0 - s BY SMTT(30)
  <2> QED BY <1>2, <1>3, <1>4, <2>1, <2>2
<1> QED BY <1>3, <1>5, <1>6 DEF q, r

(* The bytes of an item are not split where items are aligned.             *)
LEMMA AlignedItem ==
  ASSUME NEW s \in Nat \ {0}, Size % s = 0,
         NEW r \in Nat, r % s = 0, NEW e \in Int, NEW p \in Nat, p = s * e
  PROVE  r + p >= Size \/ r + p + s <= Size
<1> DEFINE a == Size \div s  d == r \div s
<1>1. /\ a \in Int /\ Size = s * a + 0
      /\ d \in Int /\ r = s * d + 0
  BY Remainder
<1> HIDE DEF a, d
<1>2. s * a \in Int /\ s * d \in Int /\ s * e \in Int BY <1>1, SMTT(30)
<1>3. s * (d + e) = s * d + s * e BY <1>1, SMTT(30)
<1>4. r + p = s * (d + e) /\ Size = s * a BY <1>1, <1>2, <1>3
<1>5. CASE d + e >= a
  <2>1. a * s <= (d + e) * s BY <1>1, <1>5, TimesMono
  <2>2. a * s = s * a /\ (d + e) * s = s * (d + e) BY <1>1, SMTT(30)
  <2> QED BY <1>4, <2>1, <2>2
<1>6. CASE d + e + 1 <= a
  <2>1. (d + e + 1) * s <= a * s BY <1>1, <1>6, TimesMono
  <2>2. a * s = s * a /\ (d + e) * s = s * (d + e) BY <1>1, SMTT(30)
  <2>3. (d + e + 1) * s = (d + e) * s + s
    <3>1. d + e \in Int /\ s \in Int BY <1>1
    <3> QED BY <3>1, OnceMore, Zenon
  <2>4. (d + e) * s \in Int BY <1>1, ProductType
  <2> QED BY <1>4, <2>1, <2>2, <2>3, <2>4
<1> QED BY <1>1, <1>5, <1>6

(* A peek that is not split at the end of the byte buffer does not fault.  *)
LEMMA NoFault ==
  ASSUME TypeOK, NEW offset \in Nat, NEW count \in Nat,
         \/ offset = 0 \/ read_index + offset >= Size
         \/ read_index + offset + PeekLen(count, offset) <= Size
  PROVE  ~PeekFaults(count, offset)
<1>1. PeekLen(count, offset) \in Nat BY PeekLenType
<1> QED BY <1>1, JavaLevels DEF PeekFaults, peek_count_2, TypeOK

(* Aligned items in an aligned buffer do not wrap around, and those that    *)
(* were asked for are there.                                                *)
LEMMA ItemInPiece ==
  ASSUME TypeOK, NEW l \in Layouts, NEW k \in 1 .. Rounds(l)
  PROVE  LET from == ItemPositions(l)[k]
             s == l.item_size
         IN /\ from \in Nat /\ PeekLen(s, from) \in 0 .. s
            /\ ~Refuses(l) /\ k <= l.item_count => from + s <= CanRead
            /\ from = (l.initial_item_offset + (k - 1) * l.item_block_size) * s
            /\ Size % s = 0 /\ read_index % s = 0 =>
                 read_index + from >= Size \/ read_index + from + s <= Size
<1> DEFINE s == l.item_size
           from == ItemPositions(l)[k]
           b == l.item_block_size
           o == l.initial_item_offset
           e == o + (k - 1) * b
<1>1. s \in Nat \ {0} /\ b \in Nat /\ o \in Nat BY LayoutAssumption DEF Layout
<1>2. ItemStart(l, k) = o * s + (k - 1) * (s * b) BY DEF ItemStart, Stride, FirstItem
<1>3. from = ItemStart(l, k) /\ from \in Nat /\ k - 1 \in Int
  BY ItemPlaces
<1>4. ASSUME ~Refuses(l), k <= l.item_count PROVE from + s <= CanRead
  <2>1. k \in 1 .. l.item_count BY <1>4, ItemPlaces
  <2>2. ItemStart(l, k) + s <= Needed(l) /\ Needed(l) \in Int BY <2>1, ItemPlaces
  <2>3. Needed(l) <= CanRead BY <1>4, <2>2, JavaLevels DEF Refuses
  <2> QED BY <1>1, <1>3, <2>2, <2>3, JavaLevels
<1> HIDE DEF from, s, b, o
<1>5. (k - 1) * b \in Int BY <1>1, <1>3, ProductType
<1>6. e * s = o * s + ((k - 1) * b) * s BY <1>1, <1>3, <1>5, SMTT(30)
<1>7. ((k - 1) * b) * s = (k - 1) * (s * b) BY <1>1, <1>3, SMTT(30)
<1>8. from = e * s BY <1>2, <1>3, <1>6, <1>7
<1>9. e \in Int BY <1>1, <1>5
<1>10. e * s = s * e BY <1>1, <1>9, SMTT(30)
<1> HIDE DEF e
<1>11. read_index \in Nat /\ from = s * e BY <1>8, <1>10 DEF TypeOK
<1>12. ASSUME Size % s = 0, read_index % s = 0
       PROVE  read_index + from >= Size \/ read_index + from + s <= Size
  BY <1>12, <1>1, <1>3, <1>9, <1>11, AlignedItem
<1>13. PeekLen(s, from) \in 0 .. s BY <1>1, <1>3, PeekLenType
<1> QED BY <1>3, <1>4, <1>8, <1>12, <1>13 DEF from, s, e, b, o

(* Every byte that comes out is one of the destination or of the item, and *)
(* the one of the item if items are aligned and it is there.               *)
LEMMA ItemBytes ==
  ASSUME TypeOK, NEW l \in Layouts,
         NEW s, s = l.item_size, NEW j \in 1 .. Rounds(l) * s
  PROVE  LET blank == [k \in 1 .. s |-> Untouched]
             from == ItemPositions(l)[(j - 1) \div s + 1]
             byte == PeekOver(blank, from)[((j - 1) % s) + 1]
             item == l.initial_item_offset + ((j - 1) \div s) * l.item_block_size
             at == item * s + ((j - 1) % s)
         IN /\ byte \in Byte \cup {Untouched} /\ at \in Nat
            /\ Size % s = 0 /\ read_index % s = 0 =>
                 byte = IF at < CanRead THEN Unread[at + 1] ELSE Untouched
            /\ ~Refuses(l) /\ j <= l.item_count * s => at < CanRead
<1> DEFINE blank == [k \in 1 .. s |-> Untouched]
           q == (j - 1) \div s
           m == ((j - 1) % s) + 1
           from == ItemPositions(l)[q + 1]
           item == l.initial_item_offset + q * l.item_block_size
<1>1. /\ s \in Nat \ {0} /\ l.item_count \in Nat /\ Rounds(l) \in Nat
      /\ l.item_count * s \in Nat
  BY ItemPlaces
<1>2. q \in 0 .. Rounds(l) - 1 /\ m - 1 \in 0 .. s - 1 /\ m \in 1 .. s
  <2>1. (j - 1) % s \in 0 .. s - 1 /\ q \in 0 .. Rounds(l) - 1
    BY <1>1, ItemOf, Zenon
  <2> QED BY <1>1, <2>1
<1>a. ASSUME j <= l.item_count * s PROVE q + 1 <= l.item_count
  <2>1. Rounds(l) * s \in Nat BY <1>1, ProductType
  <2>2. j \in 1 .. l.item_count * s BY <1>a, <1>1, <2>1
  <2>3. q \in 0 .. l.item_count - 1 BY <1>1, <2>2, ItemOf, Zenon
  <2> QED BY <1>1, <2>3
<1>c. (j - 1) % s = m - 1
  <2>1. j - 1 \in Int
    <3>1. Rounds(l) * s \in Nat BY <1>1, ProductType
    <3> QED BY <3>1
  <2>2. (j - 1) % s \in Int BY <1>1, <2>1
  <2> QED BY <2>2
<1> HIDE DEF q, m
<1>3. q + 1 \in 1 .. Rounds(l) /\ (q + 1) - 1 = q BY <1>1, <1>2
<1>4. /\ from \in Nat /\ PeekLen(s, from) \in 0 .. s
      /\ from = item * s
      /\ ~Refuses(l) /\ q + 1 <= l.item_count => from + s <= CanRead
      /\ Size % s = 0 /\ read_index % s = 0 =>
           read_index + from >= Size \/ read_index + from + s <= Size
  <2>1. /\ from \in Nat /\ PeekLen(s, from) \in 0 .. s
        /\ ~Refuses(l) /\ q + 1 <= l.item_count => from + s <= CanRead
        /\ from = (l.initial_item_offset + ((q + 1) - 1) * l.item_block_size) * s
        /\ Size % s = 0 /\ read_index % s = 0 =>
             read_index + from >= Size \/ read_index + from + s <= Size
    BY <1>3, ItemInPiece
  <2>2. (q + 1) - 1 = q BY <1>3
  <2> QED BY <2>1, <2>2, Zenon
<1>5. Len(blank) = s /\ blank \in Seq(Byte \cup {Untouched})
      /\ \A k \in 1 .. s : blank[k] = Untouched
  BY <1>1
<1> HIDE DEF from, blank, item
<1> DEFINE n == PeekLen(s, from)
<1>6. /\ PeekOver(blank, from) \in Seq(Byte \cup {Untouched})
      /\ Len(PeekOver(blank, from)) = s
      /\ \A k \in 1 .. n :
           \/ from = 0 \/ read_index + from >= Size \/ read_index + from + n <= Size
           => PeekOver(blank, from)[k] = Unread[from + k]
  <2>1. Byte \subseteq Byte \cup {Untouched} OBVIOUS
  <2>2. PICK p \in 0 .. s : p = PeekLen(s, from) BY <1>4
  <2>3. blank \in Seq(Byte \cup {Untouched}) /\ Len(blank) = s /\ from \in Nat BY <1>4, <1>5
  <2>4. /\ PeekOver(blank, from) \in Seq(Byte \cup {Untouched})
        /\ Len(PeekOver(blank, from)) = Len(blank)
        /\ \A k \in 1 .. p :
             \/ from = 0 \/ read_index + from >= Size \/ read_index + from + p <= Size
             => PeekOver(blank, from)[k] = Unread[from + k]
    <3>1. p = PeekLen(Len(blank), from) BY <2>2, <2>3
    <3> QED BY <2>1, <2>3, <3>1, PeekOverBytes
  <2>5. n = p BY <2>2
  <2> HIDE DEF n
  <2> QED BY <2>3, <2>4, <2>5, Zenon
<1>7. PeekOver(blank, from)[m] \in Byte \cup {Untouched} BY <1>2, <1>6
<1>8. ASSUME Size % s = 0, read_index % s = 0
      PROVE  PeekOver(blank, from)[m]
               = IF from + m <= CanRead THEN Unread[from + m] ELSE Untouched
  <2>1. CASE from + m <= CanRead
    <3>1. m \in 1 .. n
      BY <1>1, <1>2, <1>4, <2>1, JavaLevels DEF PeekLen, rb_MIN
    <3>2. read_index + from >= Size \/ read_index + from + n <= Size
      BY <1>1, <1>4, <1>8, JavaLevels
    <3> QED BY <1>6, <2>1, <3>1, <3>2
  <2>2. CASE ~(from + m <= CanRead)
    <3>1. ~(m <= n)
      BY <1>1, <1>2, <1>4, <2>2, JavaLevels DEF PeekLen, rb_MIN
    <3>2. PeekOver(blank, from)[m] = blank[m]
      BY <1>2, <1>5, <3>1 DEF PeekOver
    <3> QED BY <1>2, <1>5, <2>2, <3>2
  <2> QED BY <2>1, <2>2
<1> HIDE DEF n
<1>9. /\ item * s + (m - 1) \in Nat /\ item * s + (m - 1) + 1 = from + m
      /\ item * s + (m - 1) < CanRead <=> from + m <= CanRead
  BY <1>2, <1>4, JavaLevels
<1>10. ASSUME ~Refuses(l), j <= l.item_count * s PROVE from + m <= CanRead
  BY <1>a, <1>10, <1>1, <1>2, <1>4, JavaLevels
<1>11. /\ item * s + (m - 1) \in Nat
       /\ Size % s = 0 /\ read_index % s = 0 =>
            PeekOver(blank, from)[m] =
              IF item * s + (m - 1) < CanRead THEN Unread[item * s + (m - 1) + 1]
              ELSE Untouched
       /\ ~Refuses(l) /\ j <= l.item_count * s => item * s + (m - 1) < CanRead
  BY <1>8, <1>9, <1>10, Zenon
<1>12. m = ((j - 1) % s) + 1 BY DEF m
<1> QED BY <1>7, <1>11, <1>12, <1>c, Zenon DEF q, from, blank, item
(* What a successful rb_deinterleave_items() returns.                      *)
Deinterleaved(l) ==
  LET blank == [k \in 1 .. l.item_size |-> Untouched] IN
    [j \in 1 .. Len(ItemPositions(l)) * l.item_size |->
       PeekOver(blank, ItemPositions(l)[(j - 1) \div l.item_size + 1])
         [((j - 1) % l.item_size) + 1]]

(* Bytes are stored for every round, and as many are answered as were asked *)
(* for.                                                                     *)
LEMMA DeinterleavedType ==
  ASSUME TypeOK, NEW l \in Layouts, ~Refuses(l)
  PROVE  /\ Deinterleaved(l) \in Seq(Byte \cup {Untouched})
         /\ Len(Deinterleaved(l)) = Rounds(l) * l.item_size
         /\ l.item_count * l.item_size \in Count
<1>1. /\ l.item_size \in Nat \ {0} /\ l.item_count \in Nat /\ Rounds(l) \in Nat
      /\ l.item_count * l.item_size \in Nat
      /\ l.item_count > 0 => l.item_count * l.item_size <= Needed(l)
      /\ Needed(l) \in Int
      /\ Len(ItemPositions(l)) = Rounds(l)
  BY ItemPlaces
<1> DEFINE n == Rounds(l) * l.item_size
           byte(j) == PeekOver([k \in 1 .. l.item_size |-> Untouched],
                               ItemPositions(l)[(j - 1) \div l.item_size + 1])
                        [((j - 1) % l.item_size) + 1]
<1>2. \A j \in 1 .. n : byte(j) \in Byte \cup {Untouched}
  BY ItemBytes
<1>3. Deinterleaved(l) = [j \in 1 .. n |-> byte(j)]
  BY <1>1, Zenon DEF Deinterleaved
<1>4. n \in Nat BY <1>1, ProductType
<1>5. l.item_count * l.item_size \in Count
  <2>1. CASE l.item_count = 0
    <3>1. 0 * l.item_size = 0 BY <1>1, SMTT(30)
    <3> QED BY <2>1, <3>1, JavaLevels
  <2>2. CASE l.item_count > 0
    BY <1>1, <2>2, JavaLevels DEF Refuses
  <2> QED BY <1>1, <2>1, <2>2
<1> HIDE DEF byte, n
<1>6. Deinterleaved(l) \in Seq(Byte \cup {Untouched}) BY <1>2, <1>3, <1>4
<1>7. Len(Deinterleaved(l)) = n BY <1>3, <1>4
<1> QED BY <1>5, <1>6, <1>7 DEF n

(* De-interleaving keeps the types.                                         *)
LEMMA DeinterleaveType ==
  ASSUME TypeOK, NEW l \in Layouts, rb_deinterleave_items(l)
  PROVE  TypeOK'
<1> DEFINE op == "rb_deinterleave_items"
           n == l.item_count * l.item_size
           found == {j \in DOMAIN Deinterleaved(l) : ItemByte(l, j) < CanRead}
           short == {k \in DOMAIN ItemPositions(l) :
                       PeekLen(l.item_size, ItemPositions(l)[k]) < l.item_size}
<1>1. 0 \in Nat /\ 0 \in Count /\ 0 \in Int /\ op \in Calls BY ScanCallNames
<1>2. \/ Return(op, 0, 0, 0, <<>>) /\ UNCHANGED <<data_vars, stats>>
      \/ Fault
      \/ /\ ~Refuses(l)
         /\ Return(op, 0, 0, n, Deinterleaved(l))
         /\ stats' = Peeks(Cardinality(found), Cardinality(short))
         /\ UNCHANGED data_vars
  BY Zenon DEF rb_deinterleave_items, Deinterleaved
<1>3. CASE Return(op, 0, 0, 0, <<>>) /\ UNCHANGED <<data_vars, stats>>
  <2>1. ret' \in Ret /\ alive' \in BOOLEAN BY <1>1, <1>3, ReturnType, NoData
  <2> QED BY <1>3, <2>1 DEF TypeOK, data_vars
<1>4. CASE Fault BY <1>4, FaultType
<1>5. CASE /\ ~Refuses(l)
           /\ Return(op, 0, 0, n, Deinterleaved(l))
           /\ stats' = Peeks(Cardinality(found), Cardinality(short))
           /\ UNCHANGED data_vars
  <2>1. Deinterleaved(l) \in Seq(Byte \cup {Untouched}) /\ n \in Count
    BY <1>5, DeinterleavedType
  <2>2. Cardinality(found) \in Int /\ Cardinality(short) \in Int
    <3>1. Rounds(l) \in Nat /\ l.item_size \in Nat BY ItemPlaces
    <3>2. Rounds(l) * l.item_size \in Nat BY <3>1, ProductType
    <3>3. found \in SUBSET (1 .. Rounds(l) * l.item_size) /\ short \in SUBSET (1 .. Rounds(l))
      BY <1>5, <2>1, <3>1, <3>2, DeinterleavedType, ItemPlaces
    <3> HIDE DEF found, short
    <3>4. IsFiniteSet(1 .. Rounds(l) * l.item_size) /\ IsFiniteSet(1 .. Rounds(l))
      <4>1. 1 \in Int /\ Rounds(l) * l.item_size \in Int /\ Rounds(l) \in Int
        BY <3>1, <3>2
      <4> QED BY <4>1, FS_Interval
    <3>5. IsFiniteSet(found) /\ IsFiniteSet(short) BY <3>3, <3>4, FS_Subset
    <3>6. Cardinality(found) \in Nat /\ Cardinality(short) \in Nat
      BY <3>5, FS_CardinalityType
    <3> QED BY <3>6
  <2> HIDE DEF n, op, found, short
  <2> QED BY <1>1, <1>5, <2>1, <2>2, LooksType
<1> HIDE DEF op, n, found, short
<1> QED BY <1>2, <1>3, <1>4, <1>5

(* Items of one channel come out whole and in order, for every layout and  *)
(* every capacity that is a multiple of the item size, and only an offset  *)
(* of a block or more has anything stored behind them.                     *)
LEMMA DeinterleaveAligned ==
  ASSUME TypeOK, alive, NEW l \in Layouts
  PROVE  DeinterleaveStep(l)
<1> DEFINE s == l.item_size
           n == l.item_count * s
           extra == (l.initial_item_offset \div l.item_block_size) * s
           byte(j) == PeekOver([k \in 1 .. s |-> Untouched],
                               ItemPositions(l)[(j - 1) \div s + 1])
                        [((j - 1) % s) + 1]
           at(j) == (l.initial_item_offset + ((j - 1) \div s) * l.item_block_size) * s
                      + ((j - 1) % s)
<1> SUFFICES ASSUME rb_deinterleave_items(l), ~Refuses(l),
                    Size % s = 0, read_index % s = 0
             PROVE  /\ alive'
                    /\ ret'.n = n /\ Len(ret'.data) = n + extra
                    /\ \A j \in 1 .. n : ret'.data[j] = Unread[at(j) + 1]
                    /\ \A j \in n + 1 .. n + extra :
                         ret'.data[j] = IF at(j) < CanRead THEN Unread[at(j) + 1]
                                        ELSE Untouched
  BY Zenon DEF DeinterleaveStep
<1>1. /\ Len(ItemPositions(l)) = Rounds(l) /\ s \in Nat /\ l.item_count \in Nat
      /\ DOMAIN ItemPositions(l) = 1 .. Rounds(l) /\ Rounds(l) \in Nat
      /\ l.item_count <= Rounds(l) /\ n \in Nat
  BY ItemPlaces
<1>2. \A k \in DOMAIN ItemPositions(l) : ~PeekFaults(s, ItemPositions(l)[k])
  <2> SUFFICES ASSUME NEW k \in 1 .. Rounds(l)
               PROVE  ~PeekFaults(s, ItemPositions(l)[k])
    BY <1>1
  <2> DEFINE from == ItemPositions(l)[k]
  <2>1. /\ from \in Nat /\ PeekLen(s, from) \in 0 .. s
        /\ read_index + from >= Size \/ read_index + from + s <= Size
    BY ItemInPiece
  <2> HIDE DEF from
  <2>2. read_index + from >= Size \/ read_index + from + PeekLen(s, from) <= Size
    BY <1>1, <2>1, JavaLevels
  <2>3. ~PeekFaults(s, from) BY <1>1, <2>1, <2>2, NoFault
  <2> QED BY <2>3 DEF from
<1>3. Return("rb_deinterleave_items", 0, 0, n, Deinterleaved(l))
  BY <1>2, Zenon DEF rb_deinterleave_items, Deinterleaved
<1>4. alive' /\ ret'.data = Deinterleaved(l) /\ ret'.n = n BY <1>3 DEF Return
<1>5. n + extra = Rounds(l) * s
  <2> DEFINE c == l.item_count  q == l.initial_item_offset \div l.item_block_size
  <2>1. c \in Int /\ q \in Int /\ s \in Int /\ Rounds(l) = c + q
    BY LayoutAssumption DEF Layout, Rounds
  <2> HIDE DEF c, q
  <2>2. (c + q) * s = c * s + q * s BY <2>1, SMTT(30)
  <2> QED BY <2>1, <2>2 DEF c, q
<1>6. Deinterleaved(l) = [j \in 1 .. n + extra |-> byte(j)]
  BY <1>1, <1>5, Zenon DEF Deinterleaved
<1>7. /\ \A j \in 1 .. n + extra :
           byte(j) = IF at(j) < CanRead THEN Unread[at(j) + 1] ELSE Untouched
      /\ \A j \in 1 .. n + extra : j <= n => at(j) < CanRead
  BY <1>5, ItemBytes, Zenon
<1>8. n + extra \in Nat /\ n <= n + extra
  <2>1. Rounds(l) * s \in Nat BY <1>1, ProductType
  <2>2. l.item_count * s <= Rounds(l) * s
    <3>1. l.item_count \in Int /\ Rounds(l) \in Int BY <1>1
    <3> QED BY <1>1, <3>1, TimesMono
  <2> QED BY <1>5, <2>1, <2>2
<1>9. Len(Deinterleaved(l)) = n + extra
  BY <1>5, DeinterleavedType
<1> HIDE DEF byte, at, n, extra
<1>10. \A j \in 1 .. n : ret'.data[j] = Unread[at(j) + 1]
  <2> SUFFICES ASSUME NEW j \in 1 .. n PROVE ret'.data[j] = Unread[at(j) + 1]
    OBVIOUS
  <2>1. j \in 1 .. n + extra /\ j <= n BY <1>1, <1>8
  <2> QED BY <1>4, <1>6, <1>7, <2>1
<1>11. \A j \in n + 1 .. n + extra :
         ret'.data[j] = IF at(j) < CanRead THEN Unread[at(j) + 1] ELSE Untouched
  <2> SUFFICES ASSUME NEW j \in n + 1 .. n + extra
               PROVE  ret'.data[j] = IF at(j) < CanRead THEN Unread[at(j) + 1] ELSE Untouched
    OBVIOUS
  <2>1. j \in 1 .. n + extra
    <3>1. extra \in Int BY LayoutAssumption, ItemPlaces, ProductType DEF Layout, extra
    <3> QED BY <1>1, <3>1
  <2> QED BY <1>4, <1>6, <1>7, <2>1
<1> QED BY <1>4, <1>9, <1>10, <1>11
-----------------------------------------------------------------------------
(* MIDI messages and floats.                                                *)

(* A message lies whole among the unread bytes.                            *)
LEMMA MessageInUnread ==
  ASSUME TypeOK, NEW k \in NextMessage
  PROVE  /\ k \in 0 .. CanRead - 1 /\ k \in Nat
         /\ MsgLen[ByteAt(k)] \in 1 .. 3 /\ MsgLen[ByteAt(k)] \in 1 .. CanRead
         /\ MsgLen[ByteAt(k)] \in Count
         /\ k + MsgLen[ByteAt(k)] <= CanRead
<1>1. CanRead \in Count BY JavaLevels
<1>2. k \in 0 .. CanRead - 1 /\ MsgLen[ByteAt(k)] > 0 /\ CanRead >= k + MsgLen[ByteAt(k)]
  BY DEF NextMessage, Commands
<1>3. k \in Nat /\ k < CanRead BY <1>1, <1>2
<1>4. ByteAt(k) \in Byte BY <1>3, ByteAtType
<1>5. MsgLen[ByteAt(k)] \in 0 .. 3 BY <1>4, MidiAssumption
<1> QED BY <1>1, <1>2, <1>3, <1>5

(* The bytes a search for a message looks at can be counted.                *)
LEMMA SearchedType ==
  ASSUME TypeOK PROVE BytesSearched \in Int
<1>1. CanRead \in Nat BY JavaLevels
<1> DEFINE S == {k \in 0 .. CanRead - 1 : \A j \in Commands : k < j}
<1>2. S \in SUBSET (0 .. CanRead - 1) OBVIOUS
<1> HIDE DEF S
<1>3. Cardinality(S) \in Nat BY <1>1, <1>2, PartsCounted
<1> QED BY <1>1, <1>3 DEF BytesSearched, S

(* Searching for a message keeps the types.                                 *)
LEMMA FindMidiType ==
  ASSUME TypeOK, rb_find_next_midi_message PROVE TypeOK'
<1> DEFINE op == "rb_find_next_midi_message"
<1>1. 0 \in Nat /\ 0 \in Count /\ 0 \in Int /\ op \in Calls /\ BytesSearched \in Int
  BY ScanCallNames, SearchedType
<1>2. stats' = Peeks(BytesSearched, 0) /\ UNCHANGED data_vars
  BY DEF rb_find_next_midi_message
<1>3. CASE Return(op, 0, 0, 0, <<>>)
  <2> HIDE DEF op
  <2> QED BY <1>1, <1>2, <1>3, LooksType, NoData
<1>4. ASSUME NEW k \in NextMessage, Return(op, 0, k, MsgLen[ByteAt(k)], <<>>)
      PROVE  TypeOK'
  <2>1. k \in Nat /\ MsgLen[ByteAt(k)] \in Count BY MessageInUnread
  <2> HIDE DEF op
  <2> QED BY <1>1, <1>2, <1>4, <2>1, LooksType, NoData
<1> QED BY <1>3, <1>4 DEF rb_find_next_midi_message

(* Where rb_read_next_midi_message reads, and where that leaves the index. *)
MessageStart(k) == IF k > 0 THEN AdvancedIndex(read_index, k) ELSE read_index

(* rb_read_next_midi_message leaves the read index behind the message.      *)
LEMMA MessagePlace ==
  ASSUME TypeOK, NEW k \in NextMessage, NEW n, n = MsgLen[ByteAt(k)]
  PROVE  /\ MessageStart(k) = Wrap(read_index + k) /\ MessageStart(k) \in Index
         /\ CopiedIndex(MessageStart(k), n) = Wrap(read_index + (k + n))
         /\ CopiedIndex(MessageStart(k), n) \in Index
         /\ k + n \in 1 .. CanRead
<1>1. /\ read_index \in Index /\ k \in Count /\ n \in Count /\ n > 0 /\ k + n <= CanRead
      /\ CanRead \in Count /\ k + n \in Count
  BY MessageInUnread, JavaLevels DEF TypeOK
<1>2. MessageStart(k) = Wrap(read_index + k) /\ MessageStart(k) \in Index
  <2>1. CASE k > 0
    <3>1. AdvancedIndex(read_index, k) = Wrap(read_index + k) /\ Wrap(read_index + k) \in Index
      BY <1>1, MovedIsWrap
    <3> QED BY <2>1, <3>1 DEF MessageStart
  <2>2. CASE ~(k > 0)
    <3>1. k = 0 BY <1>1, <2>2
    <3> QED BY <1>1, <3>1 DEF MessageStart, Wrap
  <2> QED BY <2>1, <2>2
<1>3. CopiedIndex(MessageStart(k), n) = Wrap(MessageStart(k) + n)
      /\ Wrap(MessageStart(k) + n) \in Index
  BY <1>1, <1>2, MovedIsWrap
<1>4. Wrap(Wrap(read_index + k) + n) = Wrap(read_index + (k + n))
  BY <1>1 DEF Wrap
<1> QED BY <1>1, <1>2, <1>3, <1>4

(* Reading a message keeps the types.                                       *)
LEMMA ReadMidiType ==
  ASSUME TypeOK, rb_read_next_midi_message PROVE TypeOK'
<1> DEFINE op == "rb_read_next_midi_message"
<1>1. 0 \in Nat /\ 0 \in Count /\ 1 \in Int /\ 0 \in Int /\ op \in Calls /\ BytesSearched \in Int
  BY ScanCallNames, SearchedType
<1>2. CASE /\ Return(op, 0, 0, 0, <<>>)
           /\ stats' = Peeks(BytesSearched, 1)
           /\ UNCHANGED data_vars
  <2> HIDE DEF op
  <2> QED BY <1>1, <1>2, LooksType, NoData
<1>3. ASSUME NEW k \in NextMessage, NEW n, n = MsgLen[ByteAt(k)],
             Return(op, 0, 0, n, CopyOut(buf, MessageStart(k), n)),
             read_index' = CopiedIndex(MessageStart(k), n),
             last_was_write' = FALSE,
             stats' = [Peeks(BytesSearched, 0) EXCEPT !.bytes_read =
                         (@ + k + n) % Word["bytes_read"]],
             UNCHANGED <<write_index, buf>>
      PROVE  TypeOK'
  <2>1. k \in Int /\ n \in Count /\ n \in Int BY <1>3, MessageInUnread, CountsAreIntegers
  <2>2. MessageStart(k) \in Index /\ CopiedIndex(MessageStart(k), n) \in Index
    BY <1>3, MessagePlace
  <2>3. CopyOut(buf, MessageStart(k), n) \in Seq(Byte \cup {Untouched})
    BY <2>1, <2>2, CopyOutType, BytesAreData DEF TypeOK
  <2>4. ret' \in Ret /\ alive' \in BOOLEAN
    <3> HIDE DEF op
    <3> QED BY <1>1, <1>3, <2>1, <2>3, ReturnType
  <2>5. stats' \in Stats
    <3>1. Peeks(BytesSearched, 0) \in Stats BY <1>1, PeeksType
    <3>2. \A a \in Int : /\ a % Word["bytes_read"] \in Nat
                         /\ a % Word["bytes_read"] < Word["bytes_read"]
      BY WordAssumption, CounterNames
    <3>3. Peeks(BytesSearched, 0).bytes_read + k + n \in Int
      BY <2>1, <3>1, CounterNames DEF Stats
    <3> QED BY <1>3, <3>1, <3>2, <3>3, CounterNames DEF Stats
  <2> QED BY <1>3, <2>2, <2>4, <2>5 DEF TypeOK
<1> QED BY <1>2, <1>3 DEF rb_read_next_midi_message, MessageStart

(* So does every call on floats.                                            *)
LEMMA FloatType ==
  ASSUME TypeOK, FloatCall PROVE TypeOK'
<1>1. /\ FloatSize \in Nat /\ FALSE \in BOOLEAN /\ Offsets \subseteq Nat
      /\ "underflows" \in Counters /\ "overflows" \in Counters
      /\ {"rb_read_float", "rb_peek_float_at", "rb_skip_float", "rb_write_float",
          "rb_read", "rb_advance_read_index"} \subseteq Calls
  BY FloatAssumption, BoundAssumption, CounterNames, ScanCallNames
<1>2. CASE rb_read_float
  <2>1. CASE rb_read(FloatSize) BY <1>1, <2>1, ReadType DEF rb_read
  <2>2. CASE Refused("rb_read_float", "underflows") BY <1>1, <2>2, RefusedType
  <2> QED BY <1>2, <2>1, <2>2 DEF rb_read_float
<1>3. ASSUME NEW offset \in Offsets, rb_peek_float_at(offset) PROVE TypeOK'
  <2>1. CASE rb_peek_at(FloatSize, offset) BY <1>1, <2>1, PeekAtType
  <2>2. CASE Refused("rb_peek_float_at", "underflows") BY <1>1, <2>2, RefusedType
  <2> QED BY <1>3, <2>1, <2>2 DEF rb_peek_float_at
<1>4. CASE rb_skip_float
  <2>1. CASE rb_advance_read_index(FloatSize)
    BY <1>1, <2>1, AdvanceReadType DEF rb_advance_read_index
  <2>2. CASE Refused("rb_skip_float", "underflows") BY <1>1, <2>2, RefusedType
  <2> QED BY <1>4, <2>1, <2>2 DEF rb_skip_float
<1>5. ASSUME NEW source \in [1 .. FloatSize -> Byte], rb_write_float(source) PROVE TypeOK'
  <2>1. source \in Seq(Byte) BY <1>1
  <2>2. CASE rb_write(source) BY <2>1, <2>2, WriteType
  <2>3. CASE Refused("rb_write_float", "overflows") BY <1>1, <2>3, RefusedType
  <2> QED BY <1>5, <2>2, <2>3 DEF rb_write_float
<1> QED BY <1>2, <1>3, <1>4, <1>5 DEF FloatCall

(* The type invariant is inductive under the calls of both modules.         *)
LEMMA ScanType ==
  TypeOK /\ [Next \/ Scanning]_vars => TypeOK'
<1> SUFFICES ASSUME TypeOK, Scanning PROVE TypeOK' BY StepType
<1>1. ASSUME NEW pattern \in Patterns, rb_find_byte_sequence(pattern) PROVE TypeOK'
  BY <1>1, FindSequenceType, PatternAssumption
<1>2. ASSUME NEW l \in Layouts, rb_deinterleave_items(l) PROVE TypeOK'
  BY <1>2, DeinterleaveType
<1>3. CASE MidiCall BY <1>3, FindMidiType, ReadMidiType DEF MidiCall
<1>4. CASE FloatCall BY <1>4, FloatType
<1> QED BY <1>1, <1>2, <1>3, <1>4 DEF Scanning

(* No search, no de-interleaving, no MIDI and no float call drives an      *)
(* index out of the buffer either, for every pattern, every layout and     *)
(* every table of message lengths up to 3.                                 *)
THEOREM ScanTypeCorrect == ScanSpec => []TypeOK
BY InitType, ScanType, PTL DEF ScanSpec
-----------------------------------------------------------------------------
(* What these calls deliver.                                                *)

(* A float moved whole leaves the bytes beside it as they were aligned.    *)
LEMMA FloatsLeft ==
  ASSUME TypeOK, FloatCall
  PROVE  CanRead' % FloatSize = CanRead % FloatSize
<1>1. FloatSize \in Nat \ {0} /\ FloatSize \in Nat BY FloatAssumption
<1>2. CanRead \in Nat /\ CanWrite \in Nat BY JavaLevels
<1>3. CASE CanRead' = CanRead BY <1>3
<1>4. CASE CanRead' = CanRead + FloatSize
  <2>1. CanRead' = CanRead + FloatSize * 1 BY <1>1, <1>2, <1>4
  <2>2. CanRead \in Int /\ 1 \in Int BY <1>2
  <2>3. (CanRead + FloatSize * 1) % FloatSize = CanRead % FloatSize
    BY <1>1, <2>2, SameRemainder
  <2> QED BY <2>1, <2>3, Zenon
<1>5. CASE CanRead' = CanRead - FloatSize
  <2>1. CanRead' = CanRead + FloatSize * (-1) BY <1>1, <1>2, <1>5
  <2>2. CanRead \in Int /\ (-1) \in Int BY <1>2
  <2>3. (CanRead + FloatSize * (-1)) % FloatSize = CanRead % FloatSize
    BY <1>1, <2>2, SameRemainder
  <2> QED BY <2>1, <2>3, Zenon
<1>6. ASSUME NEW op, FloatFits(CanRead),
             \/ rb_generic_read(op, FloatSize, FALSE)
             \/ rb_generic_advance_read_index(op, FloatSize, FALSE)
      PROVE  CanRead' \in {CanRead, CanRead - FloatSize}
  <2>1. rb_MIN(FloatSize, CanRead) = FloatSize
    BY <1>1, <1>2, <1>6 DEF rb_MIN, FloatFits
  <2> QED BY <1>1, <1>6, <2>1, TakingMoves
<1>7. ASSUME NEW source \in [1 .. FloatSize -> Byte], FloatFits(CanWrite), rb_write(source)
      PROVE  CanRead' \in {CanRead, CanRead + FloatSize}
  <2>1. rb_MIN(FloatSize, CanWrite) = FloatSize
    BY <1>1, <1>2, <1>7 DEF rb_MIN, FloatFits
  <2> QED BY <1>1, <1>7, <2>1, AddingMoves
<1>8. ASSUME UNCHANGED data_vars PROVE CanRead' = CanRead
  BY <1>8 DEF data_vars, CanRead
<1>9. CASE rb_read_float
  BY <1>9, <1>3, <1>5, <1>6, <1>8 DEF rb_read_float, rb_read, Refused
<1>10. ASSUME NEW offset, rb_peek_float_at(offset) PROVE CanRead' = CanRead
  BY <1>10, <1>8 DEF rb_peek_float_at, rb_peek_at, Refused
<1>11. CASE rb_skip_float
  BY <1>11, <1>3, <1>5, <1>6, <1>8 DEF rb_skip_float, rb_advance_read_index, Refused
<1>12. ASSUME NEW source \in [1 .. FloatSize -> Byte], rb_write_float(source)
       PROVE  CanRead' \in {CanRead, CanRead + FloatSize}
  BY <1>12, <1>7, <1>8 DEF rb_write_float, Refused
<1> QED BY <1>3, <1>4, <1>9, <1>10, <1>11, <1>12 DEF FloatCall

(* A stream of floats stays aligned for every size of a float and of the   *)
(* buffer, and whatever other calls are made in between.                   *)
THEOREM FloatsStayWhole == ScanSpec => FloatsWhole
<1>1. TypeOK /\ [Next \/ Scanning]_vars
        => [CanRead' % FloatSize = CanRead % FloatSize \/ ~FloatCall]_vars
  BY FloatsLeft
<1> QED BY <1>1, ScanTypeCorrect, PTL DEF ScanSpec, FloatsWhole

(* Items that are aligned come out whole and in order, for every layout    *)
(* and every capacity; as many items are stored behind them as the offset  *)
(* has whole blocks, and none if it has none.                              *)
THEOREM ItemsComeOutWhole == ScanSpec => DeinterleavesAligned
<1>1. TypeOK /\ [Next \/ Scanning]_vars => [\A l \in Layouts : DeinterleaveStep(l)]_vars
  BY DeinterleaveAligned DEF Next, Scanning
<1> QED BY <1>1, ScanTypeCorrect, PTL DEF ScanSpec, DeinterleavesAligned

(* What PeekPrefix says depends on the answer and the ring alone.           *)
LEMMA SameAnswer ==
  ASSUME PeekPrefix, UNCHANGED data_vars, ret' = ret
  PROVE  PeekPrefix'
<1>1. Unread' = Unread /\ read_index' = read_index BY QueueKept DEF data_vars
<1> QED BY <1>1 DEF PeekPrefix

(* No call of this module breaks what PeekPrefix says.                      *)
LEMMA ScanPeek ==
  ASSUME TypeOK, PeekPrefix, Scanning
  PROVE  PeekPrefix'
<1>1. ASSUME ret'.op # "rb_peek_at" PROVE PeekPrefix' BY <1>1 DEF PeekPrefix
<1>2. ASSUME Fault PROVE PeekPrefix' BY <1>2, SameAnswer DEF Fault
<1>3. ASSUME NEW op, op # "rb_peek_at", NEW incident, Refused(op, incident) PROVE PeekPrefix'
  BY <1>1, <1>3, ReturnsOp DEF Refused
<1>4. ASSUME NEW pattern \in Patterns, rb_find_byte_sequence(pattern) PROVE PeekPrefix'
  <2>1. Fault \/ \E offset, n : Return("rb_find_byte_sequence", 0, offset, n, <<>>)
    BY <1>4 DEF rb_find_byte_sequence
  <2> QED BY <1>1, <1>2, <2>1, ReturnsOp
<1>5. ASSUME NEW l \in Layouts, rb_deinterleave_items(l) PROVE PeekPrefix'
  <2>1. Fault \/ \E n, data : Return("rb_deinterleave_items", 0, 0, n, data)
    BY <1>5, Zenon DEF rb_deinterleave_items
  <2> QED BY <1>1, <1>2, <2>1, ReturnsOp
<1>6. CASE MidiCall
  <2>1. \E op \in {"rb_find_next_midi_message", "rb_read_next_midi_message"} :
          \E offset, n, data : Return(op, 0, offset, n, data)
    BY <1>6 DEF MidiCall, rb_find_next_midi_message, rb_read_next_midi_message
  <2> QED BY <1>1, <2>1, ReturnsOp
<1>7. CASE FloatCall
  <2>1. FALSE \in BOOLEAN OBVIOUS
  <2>2. CASE rb_read_float
    <3>1. CASE rb_read(FloatSize)
      <4>1. ret'.op = "rb_read" BY <2>1, <3>1, GenericReturnsOp DEF rb_read
      <4> QED BY <1>1, <4>1
    <3> QED BY <1>3, <2>2, <3>1 DEF rb_read_float
  <2>3. ASSUME NEW offset \in Offsets, rb_peek_float_at(offset) PROVE PeekPrefix'
    <3>1. FloatSize \in Nat /\ offset \in Nat BY FloatAssumption, BoundAssumption
    <3>2. CASE rb_peek_at(FloatSize, offset) BY <3>1, <3>2, PeekStoresPrefix
    <3> QED BY <1>3, <2>3, <3>2 DEF rb_peek_float_at
  <2>4. CASE rb_skip_float
    <3>1. CASE rb_advance_read_index(FloatSize)
      <4>1. ret'.op = "rb_advance_read_index"
        BY <2>1, <3>1, GenericReturnsOp DEF rb_advance_read_index
      <4> QED BY <1>1, <4>1
    <3> QED BY <1>3, <2>4, <3>1 DEF rb_skip_float
  <2>5. ASSUME NEW source, rb_write_float(source) PROVE PeekPrefix'
    <3>1. CASE rb_write(source)
      <4>1. ret'.op = "rb_write" BY <3>1, ReturnsOp DEF rb_write
      <4> QED BY <1>1, <4>1
    <3> QED BY <1>3, <2>5, <3>1 DEF rb_write_float
  <2> QED BY <1>7, <2>2, <2>3, <2>4, <2>5 DEF FloatCall
<1> QED BY <1>4, <1>5, <1>6, <1>7 DEF Scanning

(* The calls made of peeks do not change what a peek promises.             *)
THEOREM ScanPeekTruthful == ScanSpec => []PeekPrefix
<1>1. Init => PeekPrefix BY DEF Init, PeekPrefix
<1>2. TypeOK /\ PeekPrefix /\ [Next \/ Scanning]_vars => PeekPrefix'
  BY StepPeek, ScanPeek
<1> QED BY <1>1, <1>2, ScanTypeCorrect, PTL DEF ScanSpec
-----------------------------------------------------------------------------
(* Recursive functions, one value after the other.                          *)

Below == {pair \in Nat \X Nat : pair[1] < pair[2]}

(* Every non-empty set of natural numbers has a smallest member.            *)
LEMMA BelowWellFounded == IsWellFoundedOn(Below, Nat)
BY NatLessThanWellFounded DEF OpToRel, Below

(* A set that no successor leaves holds every number: the smallest one     *)
(* outside it could be neither 0 nor a successor.                          *)
LEMMA EveryNumber ==
  ASSUME NEW T, 0 \in T, \A n \in Nat : n \in T => n + 1 \in T
  PROVE  Nat \subseteq T
<1> DEFINE U == Nat \ T
<1> SUFFICES ASSUME U # {} PROVE FALSE OBVIOUS
<1>1. \E x \in U : \A y \in U : <<y, x>> \notin Below
  BY BelowWellFounded, WFMin, Zenon
<1>2. PICK x \in U : \A y \in U : <<y, x>> \notin Below BY <1>1
<1>3. x \in Nat /\ x # 0 OBVIOUS
<1>4. x - 1 \in Nat /\ x - 1 \notin T
  <2>1. x - 1 \in Nat /\ (x - 1) + 1 = x BY <1>3
  <2> QED BY <2>1
<1>5. x - 1 \in U /\ <<x - 1, x>> \in Below BY <1>3, <1>4 DEF Below
<1> QED BY <1>2, <1>5

Follows(f, start, step, n) ==
  f[0] = start /\ \A i \in 0 .. n - 1 : f[i + 1] = step[<<i, f[i]>>]

(* There is a function with a given first value, in which each value follows*)
(* from the one before it.                                                  *)
LEMMA ValueAfterValue ==
  ASSUME NEW A, NEW start \in A, NEW step \in [Nat \X A -> A], NEW n \in Nat
  PROVE  \E f \in [0 .. n -> A] : Follows(f, start, step, n)
<1> DEFINE Fits(f, m) == Follows(f, start, step, m)
           T == {m \in Nat : \E f \in [0 .. m -> A] : Fits(f, m)}
<1>1. 0 \in T
  <2>1. [i \in 0 .. 0 |-> start] \in [0 .. 0 -> A] /\ Fits([i \in 0 .. 0 |-> start], 0)
    BY DEF Follows
  <2> QED BY <2>1
<1>2. ASSUME NEW m \in Nat, m \in T PROVE m + 1 \in T
  <2>1. PICK f \in [0 .. m -> A] : Fits(f, m) BY <1>2
  <2> DEFINE g == [i \in 0 .. m + 1 |-> IF i <= m THEN f[i] ELSE step[<<m, f[m]>>]]
  <2>2. f[m] \in A /\ step[<<m, f[m]>>] \in A OBVIOUS
  <2>3. g \in [0 .. m + 1 -> A] BY <2>2
  <2>4. \A i \in 0 .. m : g[i] = f[i] OBVIOUS
  <2>5. g[m + 1] = step[<<m, f[m]>>] OBVIOUS
  <2> HIDE DEF g
  <2>6. ASSUME NEW i \in 0 .. (m + 1) - 1 PROVE g[i + 1] = step[<<i, g[i]>>]
    <3>1. CASE i = m
      <4>1. g[i] = f[m] /\ g[i + 1] = step[<<m, f[m]>>] BY <2>4, <2>5, <3>1
      <4> QED BY <3>1, <4>1
    <3>2. CASE i < m
      <4>1. i \in 0 .. m - 1 /\ i + 1 \in 0 .. m /\ i \in 0 .. m BY <3>2
      <4>2. f[i + 1] = step[<<i, f[i]>>] BY <2>1, <4>1 DEF Follows
      <4>3. g[i] = f[i] /\ g[i + 1] = f[i + 1] BY <2>4, <4>1
      <4> QED BY <4>2, <4>3
    <3> QED BY <3>1, <3>2
  <2>7. g[0] = start BY <2>1, <2>4 DEF Follows
  <2>8. Fits(g, m + 1) BY <2>6, <2>7 DEF Follows
  <2> HIDE DEF Fits
  <2> QED BY <2>3, <2>8
<1> HIDE DEF T
<1>3. n \in T BY <1>1, <1>2, EveryNumber
<1> QED BY <1>3 DEF T
-----------------------------------------------------------------------------
(* Searching for a byte sequence.                                           *)

(* What one look at offset off does to the local array.                    *)
Looked(pattern, array, off) ==
  IF off \in Candidates(pattern) THEN PeekOver(array, off) ELSE array

(* A look leaves an array of bytes of the same length.                      *)
LEMMA LookedType ==
  ASSUME TypeOK, NEW pattern \in Seq(Byte), NEW off \in Nat,
         NEW array \in Seq(Byte), Len(array) = Len(pattern)
  PROVE  Looked(pattern, array, off) \in Seq(Byte) /\ Len(Looked(pattern, array, off)) = Len(pattern)
<1>1. Byte \subseteq Byte OBVIOUS
<1> QED BY <1>1, PeekOverBytes DEF Looked

(* The local array has a content at every offset, that of the offset       *)
(* before it after one more look.                                          *)
LEMMA BufferContent ==
  ASSUME TypeOK, NEW pattern \in Seq(Byte), NEW stack \in [1 .. Len(pattern) -> Byte]
  PROVE  \A off \in 0 .. CanRead - 1 :
           /\ compare_buffer(pattern, stack)[off] \in Seq(Byte)
           /\ Len(compare_buffer(pattern, stack)[off]) = Len(pattern)
           /\ compare_buffer(pattern, stack)[off + 1] =
                Looked(pattern, compare_buffer(pattern, stack)[off], off)
<1> DEFINE A == {a \in Seq(Byte) : Len(a) = Len(pattern)}
           step == [at \in Nat \X A |-> Looked(pattern, at[2], at[1])]
           c == compare_buffer(pattern, stack)
           Rule(f) == [off \in 0 .. CanRead |->
                         IF off = 0 THEN stack
                         ELSE IF off - 1 \in Candidates(pattern)
                           THEN PeekOver(f[off - 1], off - 1)
                           ELSE f[off - 1]]
<1>1. CanRead \in Nat BY JavaLevels
<1>2. stack \in A OBVIOUS
<1>3. \A i \in Nat, a \in A : step[<<i, a>>] = Looked(pattern, a, i) /\ Looked(pattern, a, i) \in A
  BY LookedType
<1>4. step \in [Nat \X A -> A] BY <1>3
<1> HIDE DEF A, step
<1>5. PICK f \in [0 .. CanRead -> A] : Follows(f, stack, step, CanRead)
  BY <1>1, <1>2, <1>4, ValueAfterValue
<1>6. f = Rule(f)
  <2>1. ASSUME NEW off \in 0 .. CanRead, off # 0
        PROVE  f[off] = IF off - 1 \in Candidates(pattern)
                          THEN PeekOver(f[off - 1], off - 1) ELSE f[off - 1]
    <3>1. off - 1 \in 0 .. CanRead - 1 /\ off - 1 \in Nat /\ (off - 1) + 1 = off
          /\ off - 1 \in 0 .. CanRead
      BY <1>1, <2>1
    <3>2. f[off - 1] \in A BY <3>1
    <3>3. f[off] = step[<<off - 1, f[off - 1]>>] BY <1>5, <3>1 DEF Follows
    <3>4. f[off] = Looked(pattern, f[off - 1], off - 1) BY <1>3, <3>1, <3>2, <3>3
    <3> QED BY <3>4 DEF Looked
  <2> QED BY <1>5, <2>1 DEF Follows
<1>7. c = Rule(c)
  <2>1. c = CHOOSE content : content = Rule(content) BY DEF compare_buffer
  <2> HIDE DEF Rule, c
  <2> QED BY <1>6, <2>1
<1> HIDE DEF c
<1>8. \A off \in 0 .. CanRead - 1 : c[off + 1] = Looked(pattern, c[off], off)
  <2> SUFFICES ASSUME NEW off \in 0 .. CanRead - 1 PROVE c[off + 1] = Looked(pattern, c[off], off)
    OBVIOUS
  <2>1. off + 1 \in 0 .. CanRead /\ off + 1 # 0 /\ (off + 1) - 1 = off BY <1>1
  <2>2. c[off + 1] = Rule(c)[off + 1] BY <1>7
  <2>3. c[off + 1] = IF (off + 1) - 1 \in Candidates(pattern)
                       THEN PeekOver(c[(off + 1) - 1], (off + 1) - 1)
                       ELSE c[(off + 1) - 1]
    BY <2>1, <2>2
  <2> QED BY <2>1, <2>3 DEF Looked
<1>9. c[0] = stack
  <2>1. 0 \in 0 .. CanRead BY <1>1
  <2>2. c[0] = Rule(c)[0] BY <1>7
  <2> QED BY <2>1, <2>2
<1> HIDE DEF Rule
<1> DEFINE T == {n \in Nat : n < CanRead => c[n] \in A}
<1>10. 0 \in T BY <1>2, <1>9
<1>11. ASSUME NEW n \in Nat, n \in T PROVE n + 1 \in T
  <2> SUFFICES ASSUME n + 1 < CanRead PROVE c[n + 1] \in A OBVIOUS
  <2>1. n \in 0 .. CanRead - 1 /\ c[n] \in A BY <1>1, <1>11
  <2> QED BY <1>3, <1>8, <2>1
<1> HIDE DEF T
<1>12. Nat \subseteq T BY <1>10, <1>11, EveryNumber
<1>13. \A off \in 0 .. CanRead - 1 : c[off] \in A BY <1>1, <1>12 DEF T
<1> QED BY <1>8, <1>13 DEF c, A
(* Where the bytes under comparison are in one piece, the search compares  *)
(* the bytes of the queue, whatever the local array held before.           *)
LEMMA ComparesUnread ==
  ASSUME TypeOK, NEW pattern \in Seq(Byte), NEW stack \in [1 .. Len(pattern) -> Byte],
         NEW off \in Candidates(pattern), ~Short(pattern, off),
         off = 0 \/ InOnePiece(off, Len(pattern))
  PROVE  Same(compare_buffer(pattern, stack)[off + 1], pattern) <=> off \in Occurrences(pattern)
<1> DEFINE count == Len(pattern)
           array == compare_buffer(pattern, stack)[off]
           found == compare_buffer(pattern, stack)[off + 1]
           here == SubSeq(Unread, off + 1, off + count)
<1>1. count \in Nat /\ CanRead \in Nat /\ off \in 0 .. CanRead - 1 /\ off \in Nat
  BY JavaLevels DEF Candidates
<1>2. PeekLen(count, off) = count /\ off + count <= CanRead
  <2>1. ~(PeekLen(count, off) < count) BY DEF Short
  <2>2. PeekLen(count, off) = rb_MIN(count, CanRead - off) BY <1>1 DEF PeekLen
  <2> QED BY <1>1, <2>1, <2>2 DEF rb_MIN
<1>3. array \in Seq(Byte) /\ Len(array) = count /\ found = PeekOver(array, off)
  <2>1. found = Looked(pattern, array, off) /\ array \in Seq(Byte) /\ Len(array) = count
    BY <1>1, BufferContent
  <2> QED BY <2>1 DEF Looked
<1> HIDE DEF array, found, count
<1>4. /\ found \in Seq(Byte) /\ Len(found) = count
      /\ \A k \in 1 .. count : found[k] = Unread[off + k]
  <2>1. Byte \subseteq Byte /\ count = PeekLen(Len(array), off) BY <1>2, <1>3
  <2>2. off = 0 \/ read_index + off >= Size \/ read_index + off + count <= Size
    BY DEF InOnePiece, count
  <2>3. off \in Nat /\ array \in Seq(Byte) BY <1>1, <1>3
  <2>4. /\ PeekOver(array, off) \in Seq(Byte)
        /\ Len(PeekOver(array, off)) = Len(array)
        /\ \A k \in 1 .. count :
             \/ off = 0 \/ read_index + off >= Size \/ read_index + off + count <= Size
             => PeekOver(array, off)[k] = Unread[off + k]
    BY ONLY TypeOK, <2>1, <2>3, PeekOverBytes
  <2> QED BY <1>3, <2>2, <2>4, Zenon
<1>5. Unread \in Seq(Byte) /\ Len(Unread) = CanRead BY UnreadBytes
<1>6. /\ here \in Seq(Byte) /\ Len(here) = count
      /\ \A k \in 1 .. count : here[k] = Unread[off + k]
  BY <1>1, <1>2, <1>5
<1> HIDE DEF here
<1>7. found = here BY <1>4, <1>6, SameBytes
<1>8. off \in 0 .. CanRead - count BY <1>1, <1>2
<1>9. off \in Occurrences(pattern) <=> here = pattern
  BY <1>8 DEF Occurrences, here, count
<1> QED BY <1>7, <1>9 DEF Same, found

(* An occurrence is a candidate, and not a short one.                      *)
LEMMA OccurrenceIsCandidate ==
  ASSUME TypeOK, NEW pattern \in Seq(Byte), pattern # <<>>, NEW off \in Occurrences(pattern)
  PROVE  /\ off \in Candidates(pattern) /\ off \in Nat
         /\ off + Len(pattern) <= CanRead /\ Len(pattern) \in Nat \ {0}
<1> DEFINE count == Len(pattern)
<1>1. count \in Nat \ {0} /\ CanRead \in Nat BY JavaLevels, EmptySeq
<1>2. off \in 0 .. CanRead - count /\ SubSeq(Unread, off + 1, off + count) = pattern
  BY DEF Occurrences
<1> HIDE DEF count
<1>3. off \in Nat /\ off < CanRead /\ off + count <= CanRead BY <1>1, <1>2
<1>4. Unread \in Seq(Byte) /\ Len(Unread) = CanRead BY UnreadBytes
<1>5. SubSeq(Unread, off + 1, off + count)[1] = Unread[off + 1] BY <1>1, <1>3, <1>4
<1>6. ByteAt(off) = pattern[1] BY <1>2, <1>3, <1>5, ByteAtIsUnread
<1> QED BY <1>1, <1>3, <1>6 DEF Candidates, count

(* What is peeked at in full replaces the whole local array.                *)
LEMMA LongEnough ==
  ASSUME TypeOK, NEW pattern \in Seq(Byte), NEW off \in Nat,
         Len(pattern) \in Nat \ {0}, off + Len(pattern) <= CanRead
  PROVE  ~Short(pattern, off) /\ PeekLen(Len(pattern), off) = Len(pattern)
BY JavaLevels DEF Short, PeekLen, rb_MIN

(* The search ends at the first occurrence if that is in one piece, and    *)
(* nowhere before it.                                                      *)
LEMMA EndsAtFirst ==
  ASSUME TypeOK, NEW pattern \in Seq(Byte), pattern # <<>>,
         NEW stack \in [1 .. Len(pattern) -> Byte],
         NEW off \in Occurrences(pattern), off = 0 \/ InOnePiece(off, Len(pattern)),
         \A h \in Occurrences(pattern) : off <= h
  PROVE  /\ off \in Candidates(pattern) /\ Stops(pattern, stack, off)
         /\ ~Short(pattern, off) /\ ~PeekFaults(Len(pattern), off)
         /\ \A c \in Candidates(pattern) : c < off => ~Stops(pattern, stack, c)
<1> DEFINE count == Len(pattern)
<1>1. /\ off \in Candidates(pattern) /\ off \in Nat
      /\ off + count <= CanRead /\ count \in Nat \ {0}
      /\ CanRead \in Nat /\ read_index \in Nat
  BY OccurrenceIsCandidate, JavaLevels DEF TypeOK
<1>2. ~Short(pattern, off) /\ PeekLen(count, off) = count BY <1>1, LongEnough
<1>3. Stops(pattern, stack, off) BY <1>1, <1>2, ComparesUnread DEF Stops
<1>4. ~PeekFaults(count, off)
  <2>1. off = 0 \/ read_index + off + PeekLen(count, off) <= Size
    BY <1>2 DEF InOnePiece
  <2> HIDE DEF count
  <2> QED BY <1>1, <2>1, NoFault
<1>5. ASSUME NEW c \in Candidates(pattern), c < off PROVE ~Stops(pattern, stack, c)
  <2>1. c \in Nat /\ off # 0 /\ c + count <= CanRead
    BY <1>1, <1>5 DEF Candidates
  <2>2. ~Short(pattern, c) /\ PeekLen(count, c) = count BY <1>1, <2>1, LongEnough
  <2>3. InOnePiece(c, count) /\ read_index + c + count <= Size
    BY <1>1, <1>5, <2>1 DEF InOnePiece
  <2>4. ~PeekFaults(count, c)
    <3> HIDE DEF count
    <3> QED BY <1>1, <2>1, <2>2, <2>3, NoFault
  <2>5. c \notin Occurrences(pattern) BY <1>1, <1>5, <2>1
  <2>6. ~Same(compare_buffer(pattern, stack)[c + 1], pattern)
    BY <2>2, <2>3, <2>5, ComparesUnread
  <2> QED BY <2>2, <2>4, <2>6 DEF Stops
<1> QED BY <1>1, <1>2, <1>3, <1>4, <1>5

(* A search that is sure of its bytes finds the first occurrence.           *)
LEMMA FindsFirstStep ==
  ASSUME TypeOK, alive, NEW pattern \in Patterns
  PROVE  FindsStep(pattern)
<1> DEFINE hits == Occurrences(pattern)
           count == Len(pattern)
           op == "rb_find_byte_sequence"
<1>0. pattern \in Seq(Byte) /\ pattern # <<>> BY PatternAssumption
<1> SUFFICES ASSUME rb_find_byte_sequence(pattern)
             PROVE  /\ \A off \in hits :
                         /\ off = 0 \/ InOnePiece(off, count)
                         /\ \A h \in hits : off <= h
                         => ret'.n = 1 /\ ret'.offset = off
                    /\ hits = {} /\ InOnePiece(0, CanRead) => alive' /\ ret'.n = 0
  BY DEF FindsStep
<1>1. PICK stack \in [1 .. count -> Byte] :
        \/ /\ \A off \in Candidates(pattern) : ~Stops(pattern, stack, off)
           /\ Return(op, 0, 0, 0, <<>>)
        \/ \E off \in Candidates(pattern) :
             /\ Stops(pattern, stack, off)
             /\ \A c \in Candidates(pattern) : c < off => ~Stops(pattern, stack, c)
             /\ \/ PeekFaults(count, off)
                \/ IF Short(pattern, off) THEN Return(op, 0, 0, 0, <<>>)
                                          ELSE Return(op, 0, off, 1, <<>>)
  BY Zenon DEF rb_find_byte_sequence
<1>2. Candidates(pattern) \subseteq Nat /\ CanRead \in Nat /\ count \in Nat
      /\ \A off \in Candidates(pattern) : off < CanRead
  BY <1>0, JavaLevels DEF Candidates
<1>3. ASSUME NEW off \in hits, off = 0 \/ InOnePiece(off, count),
             \A h \in hits : off <= h
      PROVE  ret'.n = 1 /\ ret'.offset = off
  <2>1. /\ off \in Candidates(pattern) /\ Stops(pattern, stack, off)
        /\ ~Short(pattern, off) /\ ~PeekFaults(count, off)
        /\ \A c \in Candidates(pattern) : c < off => ~Stops(pattern, stack, c)
    BY <1>0, <1>3, EndsAtFirst
  <2>2. \A c \in Candidates(pattern) : c = off \/ c < off \/ off < c
    BY <1>2, <2>1
  <2>3. Return(op, 0, off, 1, <<>>) BY <1>1, <2>1, <2>2
  <2> QED BY <2>3 DEF Return
<1>4. ASSUME hits = {}, InOnePiece(0, CanRead)
      PROVE  alive' /\ ret'.n = 0
  <2>1. ASSUME NEW off \in Candidates(pattern)
        PROVE  ~PeekFaults(count, off)
    <3>1. PeekLen(count, off) <= CanRead - off /\ PeekLen(count, off) \in Nat
      BY <1>2 DEF PeekLen, rb_MIN
    <3>2. read_index + off + PeekLen(count, off) <= Size
      BY <1>2, <1>4, <3>1 DEF InOnePiece, TypeOK
    <3> HIDE DEF count
    <3> QED BY <1>2, <3>2, NoFault
  <2>2. ASSUME NEW off \in Candidates(pattern), Stops(pattern, stack, off)
        PROVE  Short(pattern, off)
    <3> SUFFICES ASSUME ~Short(pattern, off) PROVE FALSE OBVIOUS
    <3>1. PeekLen(count, off) = count /\ off + count <= CanRead
      BY <1>2 DEF Short, PeekLen, rb_MIN
    <3>2. InOnePiece(off, count) BY <1>2, <1>4, <3>1 DEF InOnePiece, TypeOK
    <3>3. Same(compare_buffer(pattern, stack)[off + 1], pattern)
      BY <2>1, <2>2 DEF Stops
    <3> QED BY <1>0, <1>4, <3>2, <3>3, ComparesUnread
  <2>3. Return(op, 0, 0, 0, <<>>) BY <1>1, <2>1, <2>2
  <2> QED BY <2>3 DEF Return
<1> QED BY <1>3, <1>4

(* The search for a byte sequence finds the first occurrence that lies in  *)
(* front of the end of the byte buffer, and nothing where there is none,   *)
(* for every pattern, and whatever was on the stack.                       *)
THEOREM SearchFindsFirst == ScanSpec => FindsFirst
<1>1. TypeOK /\ [Next \/ Scanning]_vars => [\A pattern \in Patterns : FindsStep(pattern)]_vars
  BY FindsFirstStep DEF Next, Scanning
<1> QED BY <1>1, ScanTypeCorrect, PTL DEF ScanSpec, FindsFirst
-----------------------------------------------------------------------------
(* The whole messages among bytes, from the last byte back to the first.    *)

(* The smallest of a set of numbers.                                       *)
LEMMA Smallest ==
  ASSUME NEW U \in SUBSET Nat, U # {}
  PROVE  \E x \in U : \A y \in U : x <= y
<1>1. \E x \in U : \A y \in U : <<y, x>> \notin Below
  BY BelowWellFounded, WFMin, Zenon
<1>2. PICK x \in U : \A y \in U : <<y, x>> \notin Below BY <1>1
<1>3. ASSUME NEW y \in U PROVE x <= y
  <2>1. x \in Nat /\ y \in Nat OBVIOUS
  <2>2. <<y, x>> \notin Below BY <1>2
  <2> QED BY <2>1, <2>2 DEF Below
<1> QED BY <1>3

(* What MessagesFrom says of place i, given what it says of later places.  *)
MessageRule(q, from, i) ==
  IF i > Len(q) THEN <<>>
  ELSE LET n == MsgLen[q[i]] IN
    IF n = 0 THEN from[i + 1]
    ELSE IF i + n > Len(q) + 1 THEN <<>>
    ELSE <<SubSeq(q, i, i + n - 1)>> \o from[i + n]

(* A message has one to three bytes, and it is a sequence of them.         *)
LEMMA MessageBytes ==
  ASSUME NEW q \in Seq(Byte), NEW i \in 1 .. Len(q)
  PROVE  /\ q[i] \in Byte /\ MsgLen[q[i]] \in 0 .. 3
         /\ MsgLen[q[i]] # 0 /\ ~(i + MsgLen[q[i]] > Len(q) + 1) =>
              /\ i + MsgLen[q[i]] \in i + 1 .. Len(q) + 1
              /\ SubSeq(q, i, i + MsgLen[q[i]] - 1) \in Seq(Byte)
              /\ Len(SubSeq(q, i, i + MsgLen[q[i]] - 1)) = MsgLen[q[i]]
              /\ \A j \in 1 .. MsgLen[q[i]] :
                   SubSeq(q, i, i + MsgLen[q[i]] - 1)[j] = q[i + j - 1]
<1> DEFINE n == MsgLen[q[i]]
<1>1. q[i] \in Byte /\ Len(q) \in Nat OBVIOUS
<1>2. n \in 0 .. 3 BY <1>1, MidiAssumption
<1> HIDE DEF n
<1>3. ASSUME n # 0, ~(i + n > Len(q) + 1)
      PROVE  /\ i + n \in i + 1 .. Len(q) + 1
             /\ SubSeq(q, i, i + n - 1) \in Seq(Byte)
             /\ Len(SubSeq(q, i, i + n - 1)) = n
             /\ \A j \in 1 .. n : SubSeq(q, i, i + n - 1)[j] = q[i + j - 1]
  BY <1>1, <1>2, <1>3
<1> QED BY <1>1, <1>2, <1>3 DEF n

(* The rule looks at later places only, and yields messages.               *)
LEMMA RuleLooksAhead ==
  ASSUME NEW q \in Seq(Byte), NEW i \in 1 .. Len(q) + 1, NEW f, NEW g,
         \A j \in i + 1 .. Len(q) + 1 : f[j] = g[j]
  PROVE  MessageRule(q, f, i) = MessageRule(q, g, i)
<1> DEFINE n == MsgLen[q[i]]
<1>1. CASE i > Len(q) BY <1>1 DEF MessageRule
<1>2. CASE ~(i > Len(q))
  <2>1. i \in 1 .. Len(q) /\ i + 1 \in i + 1 .. Len(q) + 1 BY <1>2
  <2>2. n # 0 /\ ~(i + n > Len(q) + 1) => i + n \in i + 1 .. Len(q) + 1
    BY <2>1, MessageBytes
  <2>3. CASE n = 0 BY <1>2, <2>1, <2>3 DEF MessageRule
  <2>4. CASE n # 0 /\ i + n > Len(q) + 1 BY <1>2, <2>4 DEF MessageRule
  <2>5. CASE n # 0 /\ ~(i + n > Len(q) + 1)
    <3>1. f[i + n] = g[i + n] BY <2>2, <2>5
    <3> QED BY <1>2, <2>5, <3>1 DEF MessageRule
  <2> QED BY <2>3, <2>4, <2>5
<1> QED BY <1>1, <1>2

(* What the rule yields is a sequence of messages.                         *)
LEMMA RuleType ==
  ASSUME NEW q \in Seq(Byte), NEW i \in 1 .. Len(q) + 1, NEW f,
         \A j \in i + 1 .. Len(q) + 1 : f[j] \in Seq(Seq(Byte))
  PROVE  MessageRule(q, f, i) \in Seq(Seq(Byte))
<1> DEFINE n == MsgLen[q[i]]
           D == Seq(Seq(Byte))
<1>0. <<>> \in D OBVIOUS
<1>1. CASE i > Len(q) BY <1>0, <1>1 DEF MessageRule
<1>2. CASE ~(i > Len(q))
  <2>1. i \in 1 .. Len(q) /\ i + 1 \in i + 1 .. Len(q) + 1 BY <1>2
  <2>2. n # 0 /\ ~(i + n > Len(q) + 1) =>
          i + n \in i + 1 .. Len(q) + 1 /\ SubSeq(q, i, i + n - 1) \in Seq(Byte)
    BY <2>1, MessageBytes
  <2>3. CASE n = 0
    <3>1. MessageRule(q, f, i) = f[i + 1] BY <1>2, <2>3 DEF MessageRule
    <3> QED BY <2>1, <3>1
  <2>4. CASE n # 0 /\ i + n > Len(q) + 1 BY <1>0, <1>2, <2>4 DEF MessageRule
  <2>5. CASE n # 0 /\ ~(i + n > Len(q) + 1)
    <3> DEFINE m == SubSeq(q, i, i + n - 1)
    <3>1. f[i + n] \in D /\ m \in Seq(Byte) BY <2>2, <2>5
    <3>2. MessageRule(q, f, i) = <<m>> \o f[i + n] BY <1>2, <2>5 DEF MessageRule
    <3> HIDE DEF m
    <3>3. <<m>> \in D BY <3>1
    <3> QED BY <3>1, <3>2, <3>3, ConcatProperties
  <2> QED BY <2>3, <2>4, <2>5
<1> QED BY <1>1, <1>2

(* MessagesFrom has a value at every place, the one its definition gives.  *)
LEMMA MessagesUnfold ==
  ASSUME NEW q \in Seq(Byte)
  PROVE  \A i \in 1 .. Len(q) + 1 :
           /\ MessagesFrom(q)[i] \in Seq(Seq(Byte))
           /\ MessagesFrom(q)[i] = MessageRule(q, MessagesFrom(q), i)
<1> DEFINE N == Len(q)
           D == Seq(Seq(Byte))
           Obeys(f, m) == \A i \in N + 1 - m .. N + 1 : f[i] = MessageRule(q, f, i)
           T == {m \in Nat : m <= N =>
                   \E f \in [N + 1 - m .. N + 1 -> D] : Obeys(f, m)}
           c == MessagesFrom(q)
           Rule(f) == [i \in 1 .. N + 1 |-> MessageRule(q, f, i)]
<1>0. N \in Nat OBVIOUS
<1> HIDE DEF N, D
<1>1. 0 \in T
  <2> DEFINE f == [i \in N + 1 - 0 .. N + 1 |-> <<>>]
  <2>1. f \in [N + 1 - 0 .. N + 1 -> D] BY DEF D
  <2>2. \A i \in N + 1 - 0 .. N + 1 : f[i] = <<>> /\ i > N BY <1>0
  <2> HIDE DEF f
  <2>3. Obeys(f, 0) BY <2>2 DEF MessageRule, N
  <2> QED BY <2>1, <2>3
<1>2. ASSUME NEW m \in Nat, m \in T PROVE m + 1 \in T
  <2> SUFFICES ASSUME m + 1 <= N
               PROVE  \E f \in [N + 1 - (m + 1) .. N + 1 -> D] : Obeys(f, m + 1)
    OBVIOUS
  <2> DEFINE p == N + 1 - (m + 1)
  <2>1. PICK f \in [N + 1 - m .. N + 1 -> D] : Obeys(f, m)
    <3>1. m <= N BY <1>0
    <3> QED BY <1>2, <3>1
  <2>2. p \in 1 .. N /\ p + 1 = N + 1 - m BY <1>0
  <2> DEFINE g == [i \in p .. N + 1 |-> IF i = p THEN MessageRule(q, f, p) ELSE f[i]]
  <2>3. \A j \in p + 1 .. N + 1 : f[j] \in D BY <2>2
  <2>4. MessageRule(q, f, p) \in D
    <3>1. p \in 1 .. Len(q) + 1 BY <1>0, <2>2 DEF N
    <3> HIDE DEF p
    <3> QED BY <2>3, <3>1, RuleType DEF N, D
  <2>5. /\ g[p] = MessageRule(q, f, p)
        /\ \A j \in p + 1 .. N + 1 : g[j] = f[j]
        /\ \A j \in p .. N + 1 : j = p \/ j \in p + 1 .. N + 1
    BY <1>0, <2>2
  <2>6. g \in [p .. N + 1 -> D]
    <3>1. \A j \in p .. N + 1 :
            (IF j = p THEN MessageRule(q, f, p) ELSE f[j]) \in D
      BY <2>3, <2>4, <2>5
    <3> QED BY <3>1
  <2> HIDE DEF g
  <2>7. ASSUME NEW i \in p .. N + 1 PROVE g[i] = MessageRule(q, g, i)
    <3>1. i \in 1 .. Len(q) + 1 /\ \A j \in i + 1 .. Len(q) + 1 : j \in p + 1 .. N + 1
      BY <1>0, <2>2 DEF N
    <3>2. \A j \in i + 1 .. Len(q) + 1 : g[j] = f[j] BY <2>5, <3>1
    <3>3. MessageRule(q, g, i) = MessageRule(q, f, i)
      BY <3>1, <3>2, RuleLooksAhead
    <3>4. g[i] = MessageRule(q, f, i)
      <4>1. CASE i = p BY <2>5, <4>1
      <4>2. CASE i \in p + 1 .. N + 1 BY <2>1, <2>2, <2>5, <4>2
      <4> QED BY <2>5, <4>1, <4>2
    <3> QED BY <3>3, <3>4
  <2>8. Obeys(g, m + 1) BY <2>7
  <2> HIDE DEF Obeys
  <2> QED BY <2>6, <2>8
<1>3. Nat \subseteq T
  <2> HIDE DEF T
  <2> QED BY <1>1, <1>2, EveryNumber
<1>4. PICK f \in [N + 1 - N .. N + 1 -> D] : Obeys(f, N)
  <2>1. N \in T /\ N <= N BY <1>0, <1>3
  <2> HIDE DEF Obeys
  <2> QED BY <2>1
<1>5. N + 1 - N = 1 BY <1>0
<1>6. f = Rule(f) BY <1>4, <1>5
<1>7. c = Rule(c)
  <2>1. c = CHOOSE from : from = Rule(from) BY DEF MessagesFrom, MessageRule, N
  <2> HIDE DEF Rule, c
  <2> QED BY <1>6, <2>1
<1> HIDE DEF c
<1>8. \A i \in 1 .. N + 1 : c[i] = MessageRule(q, c, i)
  <2> SUFFICES ASSUME NEW i \in 1 .. N + 1 PROVE c[i] = MessageRule(q, c, i)
    OBVIOUS
  <2>1. c[i] = Rule(c)[i] BY <1>7
  <2> QED BY <2>1
<1> DEFINE V == {m \in Nat : \A i \in 1 .. N + 1 : i >= N + 1 - m => c[i] \in D}
<1>9. 0 \in V
  <2> SUFFICES ASSUME NEW i \in 1 .. N + 1, i >= N + 1 - 0 PROVE c[i] \in D
    OBVIOUS
  <2>1. i > N BY <1>0
  <2>2. c[i] = <<>> BY <1>8, <2>1 DEF MessageRule, N
  <2> QED BY <2>2 DEF D
<1>10. ASSUME NEW m \in Nat, m \in V PROVE m + 1 \in V
  <2> SUFFICES ASSUME NEW i \in 1 .. N + 1, i >= N + 1 - (m + 1) PROVE c[i] \in D
    OBVIOUS
  <2>1. \A j \in i + 1 .. N + 1 : j \in 1 .. N + 1 /\ j >= N + 1 - m BY <1>0
  <2>2. \A j \in i + 1 .. N + 1 : c[j] \in D BY <1>10, <2>1
  <2>3. MessageRule(q, c, i) \in D BY <2>2, RuleType DEF N, D
  <2> QED BY <1>8, <2>3
<1>11. Nat \subseteq V
  <2> HIDE DEF V
  <2> QED BY <1>9, <1>10, EveryNumber
<1>12. ASSUME NEW i \in 1 .. N + 1 PROVE c[i] \in D
  <2>1. N \in V /\ i >= N + 1 - N BY <1>0, <1>11
  <2> QED BY <2>1
<1> QED BY <1>8, <1>12 DEF c, N, D

(* What is left of q without its first m bytes.                            *)
Rest(q, r, m) ==
  Len(q) = m + Len(r) /\ \A i \in 1 .. Len(r) : r[i] = q[i + m]

(* Values at the places behind i of r, and m places on.                    *)
SameBehind(r, f, g, i, m) == \A j \in i + 1 .. Len(r) + 1 : f[j] = g[j + m]

(* What the rule says is decided by the bytes behind the place alone.      *)
LEMMA RuleOfRest ==
  ASSUME NEW q \in Seq(Byte), NEW r \in Seq(Byte), NEW m \in Nat, Rest(q, r, m),
         NEW f, NEW g, NEW i \in 1 .. Len(r) + 1, SameBehind(r, f, g, i, m)
  PROVE  MessageRule(r, f, i) = MessageRule(q, g, i + m)
<1>a. /\ Len(q) = m + Len(r) /\ \A k \in 1 .. Len(r) : r[k] = q[k + m]
      /\ \A j \in i + 1 .. Len(r) + 1 : f[j] = g[j + m]
  BY DEF Rest, SameBehind
<1> DEFINE n == MsgLen[r[i]]
<1>0. Len(q) \in Nat /\ Len(r) \in Nat OBVIOUS
<1> PICK p \in Nat : p = i + m BY <1>0
<1>1. CASE i > Len(r) BY <1>0, <1>a, <1>1 DEF MessageRule
<1>2. CASE ~(i > Len(r))
  <2>1. /\ i \in 1 .. Len(r) /\ i + 1 \in i + 1 .. Len(r) + 1
        /\ p \in 1 .. Len(q) /\ ~(p > Len(q))
    BY <1>0, <1>a, <1>2
  <2>2. n = MsgLen[q[p]] /\ n \in 0 .. 3
    <3>1. r[i] = q[p] BY <1>a, <2>1
    <3>2. n \in 0 .. 3 BY <2>1, MessageBytes
    <3> QED BY <3>1, <3>2
  <2>3. (i + n > Len(r) + 1) <=> (p + n > Len(q) + 1) BY <1>0, <1>a, <2>1, <2>2
  <2>4. CASE n = 0
    <3>1. f[i + 1] = g[(i + 1) + m] BY <1>a, <2>1, Zenon
    <3>2. (i + 1) + m = p + 1 OBVIOUS
    <3>3. MessageRule(r, f, i) = f[i + 1] BY <1>2, <2>4 DEF MessageRule
    <3>4. MessageRule(q, g, p) = g[p + 1] BY <2>1, <2>2, <2>4 DEF MessageRule
    <3> QED BY <3>1, <3>2, <3>3, <3>4
  <2>5. CASE n # 0 /\ i + n > Len(r) + 1
    BY <1>2, <2>1, <2>2, <2>3, <2>5 DEF MessageRule
  <2>6. CASE n # 0 /\ ~(i + n > Len(r) + 1)
    <3> DEFINE s == SubSeq(r, i, i + n - 1)
               t == SubSeq(q, p, p + n - 1)
    <3>1. /\ i + n \in i + 1 .. Len(r) + 1
          /\ s \in Seq(Byte) /\ Len(s) = n /\ \A j \in 1 .. n : s[j] = r[i + j - 1]
      BY <2>1, <2>6, MessageBytes
    <3>2. /\ t \in Seq(Byte) /\ Len(t) = n
          /\ \A j \in 1 .. n : t[j] = q[p + j - 1]
      <4>1. p + n \in Int /\ p + n - 1 <= Len(q) /\ 1 <= p BY <1>0, <2>1, <2>2, <2>3, <2>6
      <4> HIDE DEF n
      <4>2. n \in Nat BY <2>2
      <4> QED BY <1>0, <4>1, <4>2
    <3> HIDE DEF s, t
    <3>3. ASSUME NEW j \in 1 .. n PROVE s[j] = t[j]
      <4>1. n \in Int /\ i + n <= Len(r) + 1 BY <2>2, <3>1
      <4> HIDE DEF n
      <4>2. i + j - 1 \in 1 .. Len(r) /\ (i + j - 1) + m = p + j - 1
        BY <1>0, <4>1
      <4>3. r[i + j - 1] = q[(i + j - 1) + m] BY <1>a, <4>2, Zenon
      <4>4. s[j] = r[i + j - 1] /\ t[j] = q[p + j - 1] BY <3>1, <3>2
      <4> QED BY <4>2, <4>3, <4>4
    <3>4. s = t
      <4>1. Len(s) = Len(t) /\ \A j \in 1 .. Len(s) : s[j] = t[j]
        BY <3>1, <3>2, <3>3
      <4> QED BY <3>1, <3>2, <4>1, SameBytes, Zenon
    <3>5. f[i + n] = g[(i + n) + m] /\ (i + n) + m = p + n
      <4>1. n \in Int BY <2>2
      <4>2. f[i + n] = g[(i + n) + m] BY <1>a, <3>1, Zenon
      <4> HIDE DEF n
      <4> QED BY <4>1, <4>2
    <3>6. MessageRule(r, f, i) = <<s>> \o f[i + n]
      BY <1>2, <2>6 DEF MessageRule, s
    <3>7. MessageRule(q, g, p) = <<t>> \o g[p + n]
      BY <2>1, <2>2, <2>3, <2>6 DEF MessageRule, t
    <3> QED BY <3>4, <3>5, <3>6, <3>7
  <2> QED BY <2>4, <2>5, <2>6
<1> QED BY <1>1, <1>2

(* The messages of a rest are those from its first byte on.                *)
LEMMA MessagesOfRest ==
  ASSUME NEW q \in Seq(Byte), NEW r \in Seq(Byte), NEW m \in Nat,
         Rest(q, r, m)
  PROVE  MessagesFrom(r)[1] = MessagesFrom(q)[1 + m]
<1> DEFINE N == Len(r)
           f == MessagesFrom(r)
           g == MessagesFrom(q)
           T == {d \in Nat : \A i \in 1 .. N + 1 : i >= N + 1 - d => f[i] = g[i + m]}
<1>0. N \in Nat OBVIOUS
<1>1. \A i \in 1 .. N + 1 : f[i] = MessageRule(r, f, i) BY MessagesUnfold
<1>2. \A i \in 1 .. N + 1 : g[i + m] = MessageRule(q, g, i + m)
  <2>1. \A i \in 1 .. Len(q) + 1 : g[i] = MessageRule(q, g, i) BY MessagesUnfold
  <2>2. \A i \in 1 .. N + 1 : i + m \in 1 .. Len(q) + 1 BY <1>0 DEF Rest
  <2> HIDE DEF g
  <2> QED BY <2>1, <2>2
<1> HIDE DEF f, g, N
<1>3. \A i \in 1 .. N + 1 :
        (\A j \in i + 1 .. N + 1 : f[j] = g[j + m]) => f[i] = g[i + m]
  <2> SUFFICES ASSUME NEW i \in 1 .. N + 1, \A j \in i + 1 .. N + 1 : f[j] = g[j + m]
               PROVE  f[i] = g[i + m]
    OBVIOUS
  <2>1. MessageRule(r, f, i) = MessageRule(q, g, i + m)
    <3>1. i \in 1 .. Len(r) + 1 /\ SameBehind(r, f, g, i, m) BY DEF N, SameBehind
    <3> QED BY <3>1, RuleOfRest
  <2> QED BY <1>1, <1>2, <2>1
<1>4. 0 \in T
  <2> SUFFICES ASSUME NEW i \in 1 .. N + 1, i >= N + 1 - 0 PROVE f[i] = g[i + m]
    OBVIOUS
  <2>1. \A j \in i + 1 .. N + 1 : FALSE BY <1>0
  <2> QED BY <1>3, <2>1
<1>5. ASSUME NEW d \in Nat, d \in T PROVE d + 1 \in T
  <2> SUFFICES ASSUME NEW i \in 1 .. N + 1, i >= N + 1 - (d + 1) PROVE f[i] = g[i + m]
    OBVIOUS
  <2>1. \A j \in i + 1 .. N + 1 : j \in 1 .. N + 1 /\ j >= N + 1 - d BY <1>0
  <2>2. \A j \in i + 1 .. N + 1 : f[j] = g[j + m] BY <1>5, <2>1
  <2> QED BY <1>3, <2>2
<1>6. Nat \subseteq T
  <2> HIDE DEF T
  <2> QED BY <1>4, <1>5, EveryNumber
<1>7. N \in T BY <1>0, <1>6
<1>8. 1 \in 1 .. N + 1 /\ 1 >= N + 1 - N BY <1>0
<1>9. f[1] = g[1 + m] BY <1>7, <1>8
<1> QED BY <1>9 DEF f, g

(* Data bytes begin no message.                                            *)
LEMMA DataSkipped ==
  ASSUME NEW q \in Seq(Byte), NEW k \in 0 .. Len(q),
         \A j \in 1 .. k : MsgLen[q[j]] = 0
  PROVE  MessagesFrom(q)[1] = MessagesFrom(q)[k + 1]
<1> DEFINE g == MessagesFrom(q)
           T == {d \in Nat : d <= k => g[1] = g[d + 1]}
<1>0. Len(q) \in Nat OBVIOUS
<1>1. \A i \in 1 .. Len(q) + 1 : g[i] = MessageRule(q, g, i) BY MessagesUnfold
<1> HIDE DEF g
<1>2. 0 \in T OBVIOUS
<1>3. ASSUME NEW d \in Nat, d \in T PROVE d + 1 \in T
  <2> SUFFICES ASSUME d + 1 <= k PROVE g[1] = g[(d + 1) + 1] OBVIOUS
  <2>1. d + 1 \in 1 .. k /\ d + 1 \in 1 .. Len(q) + 1 /\ ~(d + 1 > Len(q)) /\ d <= k
    BY <1>0
  <2>2. MsgLen[q[d + 1]] = 0 BY <2>1
  <2>3. MessageRule(q, g, d + 1) = g[(d + 1) + 1] BY <2>1, <2>2 DEF MessageRule
  <2> QED BY <1>1, <1>3, <2>1, <2>3
<1>4. Nat \subseteq T
  <2> HIDE DEF T
  <2> QED BY <1>2, <1>3, EveryNumber
<1>5. k \in T /\ k <= k BY <1>4
<1>6. g[1] = g[k + 1] BY <1>5
<1> QED BY <1>6 DEF g

(* One sequence begins with the other.                                     *)
Begins(a, b) == Len(a) <= Len(b) /\ \A j \in 1 .. Len(a) : b[j] = a[j]

(* The same first element put before both keeps that.                      *)
LEMMA BeginsWithSame ==
  ASSUME NEW S, NEW s \in S, NEW a \in Seq(S), NEW b \in Seq(S), Begins(a, b)
  PROVE  Begins(<<s>> \o a, <<s>> \o b)
<1>1. Len(a) \in Nat /\ Len(b) \in Nat /\ Len(a) <= Len(b) BY DEF Begins
<1>2. <<s>> \in Seq(S) /\ Len(<<s>>) = 1 OBVIOUS
<1>3. /\ Len(<<s>> \o a) = 1 + Len(a)
      /\ \A j \in 1 .. 1 + Len(a) : (<<s>> \o a)[j] = IF j <= 1 THEN <<s>>[j] ELSE a[j - 1]
  BY <1>2, ConcatProperties
<1>4. /\ Len(<<s>> \o b) = 1 + Len(b)
      /\ \A j \in 1 .. 1 + Len(b) : (<<s>> \o b)[j] = IF j <= 1 THEN <<s>>[j] ELSE b[j - 1]
  BY <1>2, ConcatProperties
<1> DEFINE c == <<s>> \o a  d == <<s>> \o b
<1> HIDE DEF c, d
<1>5. ASSUME NEW j \in 1 .. 1 + Len(a) PROVE d[j] = c[j]
  <2>1. j \in 1 .. 1 + Len(b) BY <1>1
  <2>2. CASE j <= 1 BY <1>3, <1>4, <2>1, <2>2 DEF c, d
  <2>3. CASE ~(j <= 1)
    <3>1. j - 1 \in 1 .. Len(a) BY <1>1, <2>3
    <3>2. b[j - 1] = a[j - 1] BY <3>1 DEF Begins
    <3> QED BY <1>3, <1>4, <2>1, <2>3, <3>2 DEF c, d
  <2> QED BY <2>2, <2>3
<1> QED BY <1>1, <1>3, <1>4, <1>5 DEF Begins, c, d

(* What begins a sequence is its front.                                    *)
LEMMA BeginsIsFront ==
  ASSUME NEW S, NEW a \in Seq(S), NEW b \in Seq(S), Begins(a, b)
  PROVE  SubSeq(b, 1, Len(a)) = a
<1>1. Len(a) \in Nat /\ Len(b) \in Nat /\ Len(a) <= Len(b)
      /\ \A j \in 1 .. Len(a) : b[j] = a[j]
  BY DEF Begins
<1> DEFINE c == SubSeq(b, 1, Len(a))
<1>2. c \in Seq(S) /\ Len(c) = Len(a) /\ \A j \in 1 .. Len(a) : c[j] = b[j] BY <1>1
<1> HIDE DEF c
<1>3. \A j \in 1 .. Len(c) : c[j] = a[j] BY <1>1, <1>2
<1>4. c = a BY <1>2, <1>3, SeqEqual
<1> QED BY <1>4 DEF c

(* Every sequence begins with the empty one.                               *)
LEMMA NothingBegins ==
  ASSUME NEW S, NEW b \in Seq(S)
  PROVE  Begins(<<>>, b)
<1>1. Len(b) \in Nat /\ Len(<<>>) = 0 OBVIOUS
<1> QED BY <1>1 DEF Begins

(* The messages from every place behind i on begin those of g.             *)
BeginBehind(q, f, g, i) ==
  \A j \in i + 1 .. Len(q) + 1 :
    f[j] \in Seq(Seq(Byte)) /\ g[j] \in Seq(Seq(Byte)) /\ Begins(f[j], g[j])

(* More bytes complete a message, they change none.                        *)
LEMMA RuleOfMore ==
  ASSUME NEW q \in Seq(Byte), NEW r \in Seq(Byte), Begins(q, r),
         NEW f, NEW g, NEW i \in 1 .. Len(q) + 1, BeginBehind(q, f, g, i),
         MessageRule(r, g, i) \in Seq(Seq(Byte))
  PROVE  Begins(MessageRule(q, f, i), MessageRule(r, g, i))
<1> DEFINE n == MsgLen[q[i]]
<1>0. /\ Len(q) \in Nat /\ Len(r) \in Nat /\ Len(q) <= Len(r)
      /\ \A j \in 1 .. Len(q) : r[j] = q[j]
      /\ \A j \in i + 1 .. Len(q) + 1 :
           f[j] \in Seq(Seq(Byte)) /\ g[j] \in Seq(Seq(Byte)) /\ Begins(f[j], g[j])
  BY DEF Begins, BeginBehind
<1>1. CASE i > Len(q)
  <2>1. MessageRule(q, f, i) = <<>> BY <1>1 DEF MessageRule
  <2> QED BY <2>1, NothingBegins
<1>2. CASE ~(i > Len(q))
  <2>1. /\ i \in 1 .. Len(q) /\ i + 1 \in i + 1 .. Len(q) + 1
        /\ i \in 1 .. Len(r) /\ ~(i > Len(r))
    BY <1>0, <1>2
  <2>2. n = MsgLen[r[i]] /\ n \in 0 .. 3
    <3>1. r[i] = q[i] BY <1>0, <2>1
    <3>2. n \in 0 .. 3 BY <2>1, MessageBytes
    <3> QED BY <3>1, <3>2
  <2>3. CASE n = 0
    <3>1. MessageRule(q, f, i) = f[i + 1] BY <1>2, <2>3 DEF MessageRule
    <3>2. MessageRule(r, g, i) = g[i + 1] BY <2>1, <2>2, <2>3 DEF MessageRule
    <3>3. Begins(f[i + 1], g[i + 1]) BY <1>0, <2>1, Zenon
    <3> QED BY <3>1, <3>2, <3>3
  <2>4. CASE n # 0 /\ i + n > Len(q) + 1
    <3>1. MessageRule(q, f, i) = <<>> BY <1>2, <2>4 DEF MessageRule
    <3> QED BY <3>1, NothingBegins
  <2>5. CASE n # 0 /\ ~(i + n > Len(q) + 1)
    <3> DEFINE s == SubSeq(q, i, i + n - 1)
               t == SubSeq(r, i, i + n - 1)
    <3>1. /\ i + n \in i + 1 .. Len(q) + 1
          /\ s \in Seq(Byte) /\ Len(s) = n /\ \A j \in 1 .. n : s[j] = q[i + j - 1]
      BY <2>1, <2>5, MessageBytes
    <3>2. t \in Seq(Byte) /\ Len(t) = n /\ \A j \in 1 .. n : t[j] = r[i + j - 1]
      <4>1. n \in Nat /\ i + n - 1 <= Len(r) /\ 1 <= i BY <1>0, <2>1, <2>2, <2>5
      <4> HIDE DEF n
      <4> QED BY <1>0, <2>1, <4>1
    <3> HIDE DEF s, t
    <3>3. ASSUME NEW j \in 1 .. n PROVE s[j] = t[j]
      <4>1. n \in Int /\ i + n <= Len(q) + 1 BY <2>2, <3>1
      <4> HIDE DEF n
      <4>2. i + j - 1 \in 1 .. Len(q) BY <1>0, <4>1
      <4>3. r[i + j - 1] = q[i + j - 1] BY <1>0, <4>2, Zenon
      <4>4. s[j] = q[i + j - 1] /\ t[j] = r[i + j - 1] BY <3>1, <3>2
      <4> QED BY <4>3, <4>4
    <3>4. s = t
      <4>1. Len(s) = Len(t) /\ \A j \in 1 .. Len(s) : s[j] = t[j]
        BY <3>1, <3>2, <3>3
      <4> QED BY <3>1, <3>2, <4>1, SameBytes, Zenon
    <3>5. /\ f[i + n] \in Seq(Seq(Byte)) /\ g[i + n] \in Seq(Seq(Byte))
          /\ Begins(f[i + n], g[i + n])
      BY <1>0, <3>1, Zenon
    <3>6. MessageRule(q, f, i) = <<s>> \o f[i + n]
      BY <1>2, <2>5 DEF MessageRule, s
    <3>7. MessageRule(r, g, i) = <<t>> \o g[i + n]
      <4>1. ~(i + n > Len(r) + 1) BY <1>0, <2>1, <2>2, <2>5
      <4> QED BY <2>1, <2>2, <2>5, <4>1 DEF MessageRule, t
    <3>8. Begins(<<s>> \o f[i + n], <<s>> \o g[i + n])
      BY <3>1, <3>5, BeginsWithSame
    <3> QED BY <3>4, <3>6, <3>7, <3>8
  <2> QED BY <2>3, <2>4, <2>5
<1> QED BY <1>1, <1>2

(* The messages of more bytes begin with those of the first of them.       *)
LEMMA MessagesOfMore ==
  ASSUME NEW q \in Seq(Byte), NEW r \in Seq(Byte), Begins(q, r)
  PROVE  /\ MessagesFrom(q)[1] \in Seq(Seq(Byte)) /\ MessagesFrom(r)[1] \in Seq(Seq(Byte))
         /\ Begins(MessagesFrom(q)[1], MessagesFrom(r)[1])
<1> DEFINE N == Len(q)
           D == Seq(Seq(Byte))
           f == MessagesFrom(q)
           g == MessagesFrom(r)
           T == {d \in Nat : \A i \in 1 .. N + 1 : i >= N + 1 - d => Begins(f[i], g[i])}
<1>0. N \in Nat OBVIOUS
<1>1. \A i \in 1 .. N + 1 : f[i] \in D /\ f[i] = MessageRule(q, f, i)
  BY MessagesUnfold
<1>2. \A i \in 1 .. N + 1 : g[i] \in D /\ g[i] = MessageRule(r, g, i)
  <2>1. \A i \in 1 .. Len(r) + 1 : g[i] \in D /\ g[i] = MessageRule(r, g, i)
    BY MessagesUnfold
  <2>2. \A i \in 1 .. N + 1 : i \in 1 .. Len(r) + 1 BY <1>0 DEF Begins
  <2> HIDE DEF g, D
  <2> QED BY <2>1, <2>2
<1> HIDE DEF f, g, N
<1>3. ASSUME NEW i \in 1 .. N + 1, \A j \in i + 1 .. N + 1 : Begins(f[j], g[j])
      PROVE  Begins(f[i], g[i])
  <2>1. \A j \in i + 1 .. N + 1 : j \in 1 .. N + 1 BY <1>0
  <2> HIDE DEF D
  <2>2. \A j \in i + 1 .. N + 1 : f[j] \in D /\ g[j] \in D /\ Begins(f[j], g[j])
    BY <1>1, <1>2, <1>3, <2>1
  <2>3. i \in 1 .. Len(q) + 1 /\ BeginBehind(q, f, g, i) BY <2>2 DEF BeginBehind, N, D
  <2>4. MessageRule(r, g, i) \in Seq(Seq(Byte)) BY <1>2 DEF D
  <2>5. Begins(MessageRule(q, f, i), MessageRule(r, g, i)) BY <2>3, <2>4, RuleOfMore
  <2> QED BY <1>1, <1>2, <2>5
<1>4. 0 \in T
  <2> SUFFICES ASSUME NEW i \in 1 .. N + 1, i >= N + 1 - 0 PROVE Begins(f[i], g[i])
    OBVIOUS
  <2>1. \A j \in i + 1 .. N + 1 : FALSE BY <1>0
  <2> QED BY <1>3, <2>1
<1>5. ASSUME NEW d \in Nat, d \in T PROVE d + 1 \in T
  <2> SUFFICES ASSUME NEW i \in 1 .. N + 1, i >= N + 1 - (d + 1) PROVE Begins(f[i], g[i])
    OBVIOUS
  <2>1. \A j \in i + 1 .. N + 1 : j \in 1 .. N + 1 /\ j >= N + 1 - d BY <1>0
  <2>2. \A j \in i + 1 .. N + 1 : Begins(f[j], g[j]) BY <1>5, <2>1
  <2> QED BY <1>3, <2>2
<1>6. Nat \subseteq T
  <2> HIDE DEF T
  <2> QED BY <1>4, <1>5, EveryNumber
<1>7. N \in T BY <1>0, <1>6
<1>8. 1 \in 1 .. N + 1 /\ 1 >= N + 1 - N BY <1>0
<1>9. Begins(f[1], g[1]) BY <1>7, <1>8
<1>10. f[1] \in D /\ g[1] \in D BY <1>1, <1>2, <1>8
<1> QED BY <1>9, <1>10 DEF f, g, D
-----------------------------------------------------------------------------
(* A call sees the messages of the queue.                                   *)

(* Where the first command byte is, everything before it is data.          *)
LEMMA FirstCommand ==
  ASSUME TypeOK, NEW k \in Commands, \A j \in Commands : k <= j
  PROVE  /\ k \in 0 .. Len(Unread) - 1 /\ MsgLen[Unread[k + 1]] = MsgLen[ByteAt(k)]
         /\ MsgLen[ByteAt(k)] > 0
         /\ Messages = MessagesFrom(Unread)[k + 1]
<1>0. Unread \in Seq(Byte) /\ Len(Unread) = CanRead /\ CanRead \in Nat
  BY UnreadBytes, JavaLevels
<1>1. k \in 0 .. CanRead - 1 /\ MsgLen[ByteAt(k)] > 0 BY DEF Commands
<1>2. MsgLen[Unread[k + 1]] = MsgLen[ByteAt(k)]
  <2>1. k \in Nat /\ k < CanRead BY <1>0, <1>1
  <2>2. ByteAt(k) = Unread[k + 1] BY <2>1, ByteAtIsUnread
  <2> QED BY <2>2
<1>3. ASSUME NEW j \in 1 .. k PROVE MsgLen[Unread[j]] = 0
  <2>1. j - 1 \in 0 .. CanRead - 1 /\ j - 1 \in Nat /\ j - 1 < CanRead /\ (j - 1) + 1 = j
        /\ ~(k <= j - 1)
    BY <1>0, <1>1
  <2>2. j - 1 \notin Commands BY <2>1
  <2>3. ByteAt(j - 1) = Unread[(j - 1) + 1] /\ Unread[(j - 1) + 1] \in Byte
    BY <2>1, ByteAtIsUnread
  <2>4. ~(MsgLen[ByteAt(j - 1)] > 0) BY <2>1, <2>2 DEF Commands
  <2>5. ByteAt(j - 1) = Unread[j] /\ MsgLen[Unread[j]] \in 0 .. 3
    BY <2>1, <2>3, MidiAssumption
  <2> QED BY <2>4, <2>5
<1>4. k \in 0 .. Len(Unread) BY <1>0, <1>1
<1>5. Messages = MessagesFrom(Unread)[k + 1] BY <1>0, <1>3, <1>4, DataSkipped DEF Messages
<1> QED BY <1>0, <1>1, <1>2, <1>5

(* Where no message is found, there is no whole one.                       *)
LEMMA NoneWhole ==
  ASSUME TypeOK, NextMessage = {} PROVE Messages = <<>>
<1> DEFINE q == Unread
           N == Len(Unread)
<1>0. q \in Seq(Byte) /\ N = CanRead /\ CanRead \in Nat
  BY UnreadBytes, JavaLevels
<1>1. CASE Commands = {}
  <2>1. ASSUME NEW j \in 1 .. N PROVE MsgLen[q[j]] = 0
    <3>1. j - 1 \in 0 .. CanRead - 1 /\ j - 1 \in Nat /\ j - 1 < CanRead /\ (j - 1) + 1 = j
      BY <1>0
    <3>2. ByteAt(j - 1) = q[(j - 1) + 1] /\ q[(j - 1) + 1] \in Byte
      BY <3>1, ByteAtIsUnread
    <3>3. ~(MsgLen[ByteAt(j - 1)] > 0) BY <1>1, <3>1 DEF Commands
    <3>4. ByteAt(j - 1) = q[j] /\ MsgLen[q[j]] \in 0 .. 3
      BY <3>1, <3>2, MidiAssumption
    <3> QED BY <3>3, <3>4
  <2>2. N \in 0 .. N /\ N + 1 \in 1 .. N + 1 /\ N + 1 > N BY <1>0
  <2>3. Messages = MessagesFrom(q)[N + 1] BY <1>0, <2>1, <2>2, DataSkipped DEF Messages
  <2>4. MessagesFrom(q)[N + 1] = MessageRule(q, MessagesFrom(q), N + 1)
    BY <1>0, <2>2, MessagesUnfold
  <2> QED BY <2>2, <2>3, <2>4 DEF MessageRule
<1>2. CASE Commands # {}
  <2>1. Commands \in SUBSET Nat BY <1>0 DEF Commands
  <2>2. PICK k \in Commands : \A j \in Commands : k <= j BY <1>2, <2>1, Smallest
  <2>3. /\ k \in 0 .. N - 1 /\ MsgLen[q[k + 1]] = MsgLen[ByteAt(k)]
        /\ MsgLen[ByteAt(k)] > 0 /\ Messages = MessagesFrom(q)[k + 1]
    BY <2>2, FirstCommand
  <2>4. ~(CanRead >= k + MsgLen[ByteAt(k)]) BY <2>2 DEF NextMessage
  <2>5. k + 1 \in 1 .. N /\ k + 1 \in 1 .. N + 1 /\ ~(k + 1 > N) BY <1>0, <2>3
  <2>6. MsgLen[q[k + 1]] \in 0 .. 3 BY <1>0, <2>5, MessageBytes
  <2>7. MsgLen[q[k + 1]] # 0 /\ (k + 1) + MsgLen[q[k + 1]] > N + 1
    <3> DEFINE n == MsgLen[q[k + 1]]
    <3>1. n \in Nat /\ n > 0 /\ ~(CanRead >= k + n) /\ k \in Nat
      BY <1>0, <2>3, <2>4, <2>6
    <3> HIDE DEF n
    <3>2. n # 0 /\ (k + 1) + n > CanRead + 1 BY <1>0, <3>1
    <3> QED BY <1>0, <3>2 DEF n
  <2>8. MessagesFrom(q)[k + 1] = MessageRule(q, MessagesFrom(q), k + 1)
    BY <1>0, <2>5, MessagesUnfold
  <2>9. MessageRule(q, MessagesFrom(q), k + 1) = <<>>
    BY <2>5, <2>7, Zenon DEF MessageRule
  <2> QED BY <2>3, <2>8, <2>9
<1> QED BY <1>1, <1>2

(* A message that is found is the first whole one, and the others follow.  *)
LEMMA FoundWhole ==
  ASSUME TypeOK, NEW k \in NextMessage, NEW n, n = MsgLen[ByteAt(k)]
  PROVE  /\ k + n \in 1 .. Len(Unread) /\ n \in Nat
         /\ Messages = <<SubSeq(Unread, k + 1, k + n)>> \o MessagesFrom(Unread)[1 + (k + n)]
         /\ SubSeq(Unread, k + 1, k + n) \in Seq(Byte)
         /\ MessagesFrom(Unread)[1 + (k + n)] \in Seq(Seq(Byte))
<1> DEFINE q == Unread
           N == Len(Unread)
<1>0. q \in Seq(Byte) /\ N = CanRead /\ CanRead \in Nat
  BY UnreadBytes, JavaLevels
<1>1. /\ k \in 0 .. CanRead - 1 /\ k \in Nat
      /\ n \in 1 .. 3 /\ k + n <= CanRead
  BY MessageInUnread
<1>2. k \in Commands /\ \A j \in Commands : k <= j BY DEF NextMessage
<1>3. MsgLen[q[k + 1]] = n /\ Messages = MessagesFrom(q)[k + 1]
  BY <1>2, FirstCommand
<1>4. /\ k + 1 \in 1 .. N + 1 /\ ~(k + 1 > N) /\ n # 0 /\ ~((k + 1) + n > N + 1)
      /\ (k + 1) + n - 1 = k + n /\ (k + 1) + n = 1 + (k + n)
      /\ k + n \in 1 .. N /\ n \in Nat /\ 1 + (k + n) \in 1 .. N + 1
  BY <1>0, <1>1
<1>5. MessagesFrom(q)[k + 1] = MessageRule(q, MessagesFrom(q), k + 1)
  BY <1>0, <1>4, MessagesUnfold
<1>6. MessageRule(q, MessagesFrom(q), k + 1) =
        <<SubSeq(q, k + 1, (k + 1) + n - 1)>> \o MessagesFrom(q)[(k + 1) + n]
  BY <1>3, <1>4, Zenon DEF MessageRule
<1>7. Messages = <<SubSeq(q, k + 1, k + n)>> \o MessagesFrom(q)[1 + (k + n)]
  BY <1>3, <1>4, <1>5, <1>6, Zenon
<1>8. SubSeq(q, k + 1, k + n) \in Seq(Byte) BY <1>0, <1>1
<1>9. MessagesFrom(q)[1 + (k + n)] \in Seq(Seq(Byte)) BY <1>0, <1>4, MessagesUnfold
<1> QED BY <1>4, <1>7, <1>8, <1>9

(* An element put before a sequence is its head, the sequence its tail.    *)
LEMMA HeadAndTail ==
  ASSUME NEW S, NEW s \in S, NEW a \in Seq(S)
  PROVE  <<s>> \o a # <<>> /\ Head(<<s>> \o a) = s /\ Tail(<<s>> \o a) = a
<1> DEFINE b == <<s>> \o a
<1>1. Len(a) \in Nat /\ <<s>> \in Seq(S) /\ Len(<<s>>) = 1 /\ <<s>>[1] = s OBVIOUS
<1>2. /\ b \in Seq(S) /\ Len(b) = 1 + Len(a)
      /\ \A j \in 1 .. 1 + Len(a) : b[j] = IF j <= 1 THEN <<s>>[j] ELSE a[j - 1]
  BY <1>1, ConcatProperties
<1> HIDE DEF b
<1>3. b # <<>> /\ Head(b) = s BY <1>1, <1>2
<1>4. Tail(b) \in Seq(S) /\ Len(Tail(b)) = Len(a) /\ \A j \in 1 .. Len(a) : Tail(b)[j] = b[j + 1]
  BY <1>1, <1>2
<1>5. ASSUME NEW j \in 1 .. Len(a) PROVE Tail(b)[j] = a[j]
  <2>1. j + 1 \in 1 .. 1 + Len(a) /\ ~(j + 1 <= 1) /\ (j + 1) - 1 = j BY <1>1
  <2> QED BY <1>2, <1>4, <2>1
<1>6. Tail(b) = a BY <1>4, <1>5, SeqEqual
<1> QED BY <1>3, <1>6 DEF b

(* rb_read_next_midi_message takes the first message and leaves the rest.  *)
LEMMA ReadsMessage ==
  ASSUME TypeOK, NEW k \in NextMessage, NEW n, n = MsgLen[ByteAt(k)],
         ret'.data = CopyOut(buf, MessageStart(k), n),
         read_index' = CopiedIndex(MessageStart(k), n),
         last_was_write' = FALSE, UNCHANGED <<write_index, buf>>
  PROVE  /\ Messages # <<>>
         /\ ret'.data = Head(Messages) /\ Messages' = Tail(Messages)
<1> DEFINE q == Unread
           N == Len(Unread)
           m == SubSeq(Unread, k + 1, k + n)
           rest == MessagesFrom(Unread)[1 + (k + n)]
<1>0. /\ q = Contents(buf, read_index, CanRead)
      /\ q \in Seq(Byte) /\ N = CanRead /\ CanRead \in Count
      /\ read_index \in Index /\ buf \in [Index -> Byte]
  BY UnreadBytes
<1>1. /\ k + n \in 1 .. N /\ n \in Nat /\ Messages = <<m>> \o rest
      /\ m \in Seq(Byte) /\ rest \in Seq(Seq(Byte))
  BY FoundWhole
<1>2. /\ MessageStart(k) = Wrap(read_index + k) /\ MessageStart(k) \in Index
      /\ CopiedIndex(MessageStart(k), n) = Wrap(read_index + (k + n))
  BY MessagePlace
<1>3. k \in Nat /\ n \in Count /\ k \in 0 .. CanRead
      /\ k + n <= CanRead /\ CanRead - k \in Count /\ n \in 0 .. CanRead - k
  BY <1>0, MessageInUnread
<1> HIDE DEF m, rest
<1>4. ret'.data = m
  <2>1. ret'.data = Contents(buf, MessageStart(k), n) BY <1>0, <1>2, <1>3, CopyOutBytes
  <2>2. SubSeq(q, k + 1, CanRead) = Contents(buf, MessageStart(k), CanRead - k)
    <3>1. SubSeq(Contents(buf, read_index, CanRead), k + 1, CanRead)
            = Contents(buf, Wrap(read_index + k), CanRead - k)
      BY <1>0, <1>3, ContentsRest
    <3> QED BY <1>0, <1>2, <3>1, Zenon
  <2>3. SubSeq(Contents(buf, MessageStart(k), CanRead - k), 1, n)
          = Contents(buf, MessageStart(k), n)
    BY <1>0, <1>2, <1>3, ContentsFront
  <2> DEFINE u == SubSeq(q, k + 1, CanRead)
             v == SubSeq(u, 1, n)
  <2>4. u \in Seq(Byte) /\ Len(u) = CanRead - k /\ \A j \in 1 .. CanRead - k : u[j] = q[k + j]
    BY <1>0, <1>3
  <2> HIDE DEF u
  <2>5. v \in Seq(Byte) /\ Len(v) = n /\ \A j \in 1 .. n : v[j] = u[j]
    BY <1>0, <1>3, <2>4
  <2>6. m \in Seq(Byte) /\ Len(m) = n /\ \A j \in 1 .. n : m[j] = q[k + j]
    <3>1. /\ k + 1 \in Int /\ k + n \in Int /\ 1 <= k + 1 /\ k + n <= Len(q)
          /\ n \in Nat /\ k \in Nat /\ Len(q) \in Nat
      BY <1>0, <1>3
    <3>2. \A j \in k + 1 .. k + n : q[j] \in Byte BY <1>0, <3>1
    <3>3. /\ Len(m) = IF k + 1 <= k + n THEN (k + n) - (k + 1) + 1 ELSE 0
          /\ \A j \in 1 .. (k + n) - (k + 1) + 1 : m[j] = q[(k + 1) + j - 1]
      BY <3>1, <3>2, SubSeqProperties DEF m
    <3>4. (k + n) - (k + 1) + 1 = n /\ \A j \in 1 .. n : (k + 1) + j - 1 = k + j
      BY <3>1
    <3>5. Len(m) = n BY <3>1, <3>3
    <3>6. \A j \in 1 .. n : m[j] = q[k + j] BY <3>3, <3>4
    <3> QED BY <1>1, <3>5, <3>6
  <2> HIDE DEF v
  <2>7. Len(v) = Len(m) /\ \A j \in 1 .. Len(v) : v[j] = m[j]
    <3>1. \A j \in 1 .. n : j \in 1 .. CanRead - k BY <1>0, <1>3
    <3> QED BY <2>4, <2>5, <2>6, <3>1
  <2>8. v = m BY <2>5, <2>6, <2>7, SameBytes, Zenon
  <2> QED BY <2>1, <2>2, <2>3, <2>8 DEF u, v
<1>5. Messages' = rest
  <2>1. CanRead' = CanRead - (k + n)
    <3>1. CanRead' = rb_can_read(Wrap(read_index + (k + n)), write_index, FALSE)
      BY <1>2 DEF CanRead
    <3>2. k + n \in 1 .. rb_can_read(read_index, write_index, last_was_write)
      BY <1>0, <1>1 DEF CanRead
    <3>3. write_index \in Index /\ last_was_write \in BOOLEAN BY DEF TypeOK
    <3> QED BY <1>0, <3>1, <3>2, <3>3, FillTaken DEF CanRead
  <2>2. Unread' = Contents(buf, Wrap(read_index + (k + n)), CanRead - (k + n))
    BY <1>2, <2>1 DEF Unread, Contents
  <2>3. k + n \in 0 .. CanRead BY <1>0, <1>1
  <2>4. Unread' = SubSeq(q, (k + n) + 1, CanRead)
    BY <1>0, <2>2, <2>3, ContentsRest
  <2>5. /\ SubSeq(q, (k + n) + 1, CanRead) \in Seq(Byte)
        /\ Len(SubSeq(q, (k + n) + 1, CanRead)) = CanRead - (k + n)
        /\ \A i \in 1 .. CanRead - (k + n) :
             SubSeq(q, (k + n) + 1, CanRead)[i] = q[i + (k + n)]
    BY <1>0, <2>3
  <2>6. Unread' \in Seq(Byte) /\ Rest(q, Unread', k + n) /\ k + n \in Nat
    <3>1. CanRead = (k + n) + (CanRead - (k + n)) BY <1>0, <2>3
    <3>2. k + n \in Nat BY <2>3
    <3> QED BY <1>0, <2>4, <2>5, <3>1, <3>2, Zenon DEF Rest
  <2>7. MessagesFrom(Unread')[1] = MessagesFrom(q)[1 + (k + n)]
    BY <1>0, <2>6, MessagesOfRest
  <2> QED BY <2>7 DEF Messages, MessagesFrom, rest
<1> QED BY <1>1, <1>4, <1>5, HeadAndTail

(* Reading takes the first message, if there is one, and no other byte of  *)
(* a message.                                                              *)
LEMMA ReadsFirst ==
  ASSUME TypeOK, rb_read_next_midi_message
  PROVE  IF Messages = <<>>
           THEN ret'.n = 0 /\ Unread' = Unread
           ELSE ret'.data = Head(Messages) /\ Messages' = Tail(Messages)
<1>1. ASSUME NEW k \in NextMessage, NEW n, n = MsgLen[ByteAt(k)],
             Return("rb_read_next_midi_message", 0, 0, n,
                    CopyOut(buf, MessageStart(k), n)),
             read_index' = CopiedIndex(MessageStart(k), n),
             last_was_write' = FALSE,
             UNCHANGED <<write_index, buf>>
      PROVE  /\ Messages # <<>>
             /\ ret'.data = Head(Messages) /\ Messages' = Tail(Messages)
  <2>1. ret'.data = CopyOut(buf, MessageStart(k), n) BY <1>1, ReturnFields
  <2> QED BY <1>1, <2>1, ReadsMessage
<1>2. ASSUME NextMessage = {}, Return("rb_read_next_midi_message", 0, 0, 0, <<>>),
             UNCHANGED data_vars
      PROVE  Messages = <<>> /\ ret'.n = 0 /\ Unread' = Unread
  BY <1>2, NoneWhole, ReturnFields, QueueKept
<1>3. \/ \E k \in NextMessage :
           /\ Return("rb_read_next_midi_message", 0, 0, MsgLen[ByteAt(k)],
                     CopyOut(buf, MessageStart(k), MsgLen[ByteAt(k)]))
           /\ read_index' = CopiedIndex(MessageStart(k), MsgLen[ByteAt(k)])
           /\ last_was_write' = FALSE
           /\ UNCHANGED <<write_index, buf>>
      \/ /\ NextMessage = {}
         /\ Return("rb_read_next_midi_message", 0, 0, 0, <<>>)
         /\ UNCHANGED data_vars
  BY Zenon DEF rb_read_next_midi_message, MessageStart
<1> QED BY <1>1, <1>2, <1>3

(* Writing puts bytes behind those that are there.                         *)
LEMMA WriteAppends ==
  ASSUME TypeOK, NEW source \in Seq(Byte), rb_write(source)
  PROVE  Begins(Unread, Unread')
<1> DEFINE t == SubSeq(source, 1, Queue!Least(Len(source), Size - Len(Unread)))
<1>1. Unread' = Unread \o t BY WriteIsQueueWrite DEF Queue!Write
<1>2. Unread \in Seq(Byte) /\ Len(Unread) \in Count BY UnreadBytes
<1>3. t \in Seq(Byte)
  <2>1. Queue!Least(Len(source), Size - Len(Unread)) \in 0 .. Len(source)
    BY <1>2 DEF Queue!Least
  <2> QED BY <2>1
<1> HIDE DEF t
<1>4. /\ Len(Unread \o t) = Len(Unread) + Len(t)
      /\ \A i \in 1 .. Len(Unread) + Len(t) :
           (Unread \o t)[i] = IF i <= Len(Unread) THEN Unread[i] ELSE t[i - Len(Unread)]
  BY <1>2, <1>3, ConcatProperties
<1>5. Len(t) \in Nat /\ Len(Unread) \in Nat BY <1>2, <1>3
<1> QED BY <1>1, <1>4, <1>5 DEF Begins

(* Of the calls that leave "rb_write" as the last call, each leaves the    *)
(* bytes that are there in place.                                          *)
LEMMA OnlyWritesReturnWrite ==
  ASSUME TypeOK, [Next \/ Scanning]_vars, ret'.op = "rb_write"
  PROVE  Unread' = Unread \/ Begins(Unread, Unread')
<1>1. CASE UNCHANGED data_vars BY <1>1, QueueKept
<1>2. ASSUME NEW source \in Seq(Byte), rb_write(source) PROVE Begins(Unread, Unread')
  BY <1>2, WriteAppends
<1>3. ASSUME Next PROVE Unread' = Unread \/ Begins(Unread, Unread')
  <2>1. ASSUME NEW count \in 0 .. MaxCount,
               \/ rb_read(count) \/ rb_overread(count)
               \/ rb_advance_read_index(count)
               \/ rb_overadvance_read_index(count)
        PROVE  FALSE
    <3>1. ret'.op \in {"rb_read", "rb_overread", "rb_advance_read_index",
                       "rb_overadvance_read_index"}
      BY <2>1, GenericReturnsOp
      DEF rb_read, rb_overread, rb_advance_read_index, rb_overadvance_read_index
    <3> QED BY <3>1
  <2>2. ASSUME rb_drop PROVE FALSE
    <3>1. ret'.op = "rb_drop" BY <2>2, GenericReturnsOp DEF rb_drop
    <3> QED BY <3>1
  <2>3. ASSUME NEW count \in 0 .. MaxCount, NEW source \in [1 .. count -> Byte],
               rb_write(source)
        PROVE  Begins(Unread, Unread')
    <3>1. source \in Seq(Byte) BY BoundAssumption
    <3> QED BY <1>2, <2>3, <3>1
  <2>4. ASSUME NEW count, rb_advance_write_index(count) PROVE FALSE
    <3>1. ret'.op = "rb_advance_write_index"
      BY <2>4, ReturnsOp DEF rb_advance_write_index
    <3> QED BY <3>1
  <2>5. ASSUME NEW count, NEW offset, rb_peek_at(count, offset) PROVE UNCHANGED data_vars
    BY <2>5 DEF rb_peek_at
  <2>6. ASSUME NEW offset, rb_peek_byte_at(offset) PROVE UNCHANGED data_vars
    BY <2>6 DEF rb_peek_byte_at
  <2>7. ASSUME NEW b, rb_find_byte(b) PROVE UNCHANGED data_vars
    BY <2>7 DEF rb_find_byte
  <2>8. ASSUME rb_get_read_regions \/ rb_get_next_read_region \/ rb_reset_stats
        PROVE  UNCHANGED data_vars
    BY <2>8 DEF rb_get_read_regions, rb_get_next_read_region, rb_reset_stats
  <2>9. ASSUME rb_reset PROVE FALSE
    <3>1. ret'.op = "rb_reset" BY <2>9, ReturnsOp DEF rb_reset
    <3> QED BY <3>1
  <2>10. ASSUME StoreInWriteRegion PROVE Unread' = Unread
    BY <2>10, StoreKeepsQueue
  <2> QED
    BY <1>1, <1>3, <2>1, <2>2, <2>3, <2>4, <2>5, <2>6, <2>7, <2>8, <2>9, <2>10
    DEF Next, Reading, Writing
<1>4. ASSUME Scanning PROVE Unread' = Unread \/ Begins(Unread, Unread')
  <2>1. ASSUME NEW pattern, rb_find_byte_sequence(pattern) PROVE UNCHANGED data_vars
    BY <2>1 DEF rb_find_byte_sequence, Fault
  <2>2. ASSUME NEW l, rb_deinterleave_items(l) PROVE UNCHANGED data_vars
    BY <2>2, Zenon DEF rb_deinterleave_items, Fault
  <2>3. ASSUME MidiCall PROVE FALSE
    <3>1. \E op \in {"rb_find_next_midi_message", "rb_read_next_midi_message"} :
            \E offset, n, data : Return(op, 0, offset, n, data)
      BY <2>3 DEF MidiCall, rb_find_next_midi_message, rb_read_next_midi_message
    <3>2. ret'.op \in {"rb_find_next_midi_message", "rb_read_next_midi_message"}
      BY <3>1, ReturnsOp
    <3> QED BY <3>2
  <2>4. ASSUME NEW op, op # "rb_write", NEW incident, Refused(op, incident) PROVE FALSE
    BY <2>4, ReturnsOp DEF Refused
  <2>5. ASSUME rb_read_float PROVE FALSE
    <3>1. CASE rb_read(FloatSize)
      <4>1. FALSE \in BOOLEAN OBVIOUS
      <4>2. ret'.op = "rb_read" BY <3>1, <4>1, GenericReturnsOp DEF rb_read
      <4> QED BY <4>2
    <3> QED BY <2>4, <2>5, <3>1 DEF rb_read_float
  <2>6. ASSUME NEW offset, rb_peek_float_at(offset) PROVE UNCHANGED data_vars
    BY <2>6 DEF rb_peek_float_at, rb_peek_at, Refused
  <2>7. ASSUME rb_skip_float PROVE FALSE
    <3>1. CASE rb_advance_read_index(FloatSize)
      <4>1. FALSE \in BOOLEAN OBVIOUS
      <4>2. ret'.op = "rb_advance_read_index"
        BY <3>1, <4>1, GenericReturnsOp DEF rb_advance_read_index
      <4> QED BY <4>2
    <3> QED BY <2>4, <2>7, <3>1 DEF rb_skip_float
  <2>8. ASSUME NEW source \in [1 .. FloatSize -> Byte], rb_write_float(source)
        PROVE  Unread' = Unread \/ Begins(Unread, Unread')
    <3>1. source \in Seq(Byte) BY FloatAssumption
    <3>2. CASE rb_write(source) BY <1>2, <3>1, <3>2
    <3> QED BY <2>4, <2>8, <3>2 DEF rb_write_float
  <2> QED BY <1>1, <1>4, <2>1, <2>2, <2>3, <2>5, <2>6, <2>7, <2>8 DEF Scanning, FloatCall
<1>5. CASE UNCHANGED vars BY <1>1, <1>5 DEF vars, data_vars
<1> QED BY <1>3, <1>4, <1>5

(* However the writer cuts its bytes into writes and whenever the reader   *)
(* looks, whole messages come out in the order they went in: for every     *)
(* Size, byte set and table of message lengths up to 3.                    *)
THEOREM MessagesKeepWhole == ScanSpec => MidiFraming
<1>0. TypeOK' => Unread' \in Seq(Byte)
  <2>1. TypeOK => Unread \in Seq(Byte) BY UnreadBytes
  <2>2. TypeOK' => (Unread \in Seq(Byte))' BY <2>1, PTL
  <2> QED BY <2>2
<1>1. TypeOK /\ [Next \/ Scanning]_vars => [MidiStep]_vars
  <2> SUFFICES ASSUME TypeOK, [Next \/ Scanning]_vars PROVE MidiStep OBVIOUS
  <2>1. ASSUME rb_read_next_midi_message
        PROVE  IF Messages = <<>>
                 THEN ret'.n = 0 /\ Unread' = Unread
                 ELSE ret'.data = Head(Messages) /\ Messages' = Tail(Messages)
    BY <2>1, ReadsFirst
  <2>2. ASSUME ret'.op = "rb_write" PROVE SubSeq(Messages', 1, Len(Messages)) = Messages
    <3>1. TypeOK' BY ScanType
    <3>2. Unread \in Seq(Byte) BY UnreadBytes
    <3>3. Unread' \in Seq(Byte) BY <1>0, <3>1
    <3>4. Begins(Unread, Unread')
      <4>1. CASE Unread' = Unread BY <3>2, <4>1 DEF Begins
      <4> QED BY <2>2, <4>1, OnlyWritesReturnWrite
    <3>5. /\ MessagesFrom(Unread)[1] \in Seq(Seq(Byte))
          /\ MessagesFrom(Unread')[1] \in Seq(Seq(Byte))
          /\ Begins(MessagesFrom(Unread)[1], MessagesFrom(Unread')[1])
      BY <3>2, <3>3, <3>4, MessagesOfMore
    <3>6. Messages' = MessagesFrom(Unread')[1] BY DEF Messages, MessagesFrom
    <3> QED BY <3>5, <3>6, BeginsIsFront DEF Messages
  <2> QED BY <2>1, <2>2, Zenon DEF MidiStep
<1> QED BY <1>1, ScanTypeCorrect, PTL DEF ScanSpec, MidiFraming
=============================================================================
