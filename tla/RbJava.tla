------------------------------- MODULE RbJava -------------------------------
(***************************************************************************)
(* rb/extra/java/RB.java, a second implementation of the reading side of   *)
(* rb.h: a Java process maps the file of a shared ringbuffer and reads the *)
(* header fields and the bytes behind the header at fixed positions.  Its  *)
(* calls are functions of the mapped state here, to be compared with the   *)
(* calls of RbRing in the same state.                                      *)
(***************************************************************************)
EXTENDS RbRing

header_length == 716

\* The mapped file, as far as the bytes of the ringbuffer go.
mbb == [i \in header_length .. header_length + Size - 1 |-> buf[i - header_length]]

\* mbb.position(at) and mbb.get(destination, ., count).
mbb_get(at, count) == [k \in 1 .. count |-> mbb[at + k - 1]]

java_can_read ==
  IF read_index = write_index THEN (IF last_was_write THEN Size ELSE 0)
  ELSE IF read_index < write_index THEN write_index - read_index
  ELSE write_index + Size - read_index

java_can_write ==
  IF read_index = write_index THEN (IF last_was_write THEN 0 ELSE Size)
  ELSE IF read_index < write_index THEN Size - write_index + read_index
  ELSE read_index - write_index

\* What a call leaves in the file and returns.
JavaCall(n, data, r, w, last, s) ==
  [n |-> n, data |-> data, read_index |-> r, write_index |-> w,
   last_was_write |-> last, stats |-> s]
java_refuses(s) ==
  JavaCall(0, <<>>, read_index, write_index, last_was_write, s)

\* Mutant: a short call is not counted.
java_counts_none(c, d, short) ==
  [stats EXCEPT ![c] = (@ + d) % Word[c]]

java_counts(c, d, short) ==
  [stats EXCEPT ![c] = (@ + d) % Word[c],
                !["underflows"] = (@ + (IF short THEN 1 ELSE 0)) % Word["underflows"]]

\* Mutant: reading past the written bytes leaves the write index behind.
java_consumes_no_drag(n, data, r, count, over) ==
  JavaCall(n, data, r, write_index, FALSE, java_counts("bytes_read", n, n < count))

\* The end of both consuming calls.
java_consumes(n, data, r, count, over) ==
  JavaCall(n, data, r, IF over /\ java_can_read < n THEN r ELSE write_index,
           FALSE, java_counts("bytes_read", n, n < count))

java_limit(count, over) ==
  LET most == IF over THEN Size ELSE java_can_read IN
    IF count > most THEN most ELSE count

java_generic_read(count, over) ==
  LET n == java_limit(count, over)
      split == read_index + n > Size
      copy_1 == IF split THEN Size - read_index ELSE n
      copy_2 == IF split THEN read_index + n - Size ELSE 0
  IN IF count = 0 \/ (~over /\ java_can_read < 1) THEN java_refuses(stats)
     ELSE java_consumes(n,
            mbb_get(header_length + read_index, copy_1) \o mbb_get(header_length, copy_2),
            (IF copy_2 < 1 THEN read_index + copy_1 ELSE copy_2) % Size, count, over)

java_generic_advance_read_index(count, over) ==
  LET n == java_limit(count, over)
      linear_end == read_index + n
  IN CASE count = 0 -> java_refuses(stats)
       [] count > 0 /\ ~over /\ java_can_read < 1 ->
            java_refuses(java_counts("bytes_read", 0, TRUE))
       [] OTHER -> java_consumes(n, <<>>,
            (IF linear_end > Size THEN linear_end - Size ELSE linear_end) % Size,
            count, over)

\* The second copy is too short by the offset, as in rb_peek_at; below zero
\* it is left out.
java_peek_at(count, offset) ==
  LET left == java_can_read - offset
      n == IF count > left THEN left ELSE count
      tmp == read_index + offset
      split == tmp + n > Size /\ tmp < Size
      copy_1 == IF split THEN Size - tmp ELSE n
      copy_2 == IF split THEN tmp + n - Size - offset ELSE 0
      data == mbb_get(header_length + (tmp % Size), copy_1)
                \o mbb_get(header_length, IF copy_2 > 0 THEN copy_2 ELSE 0)
  IN CASE count = 0 -> java_refuses(stats)
       [] count > 0 /\ left <= 0 -> java_refuses(java_counts("bytes_peek", 0, TRUE))
       [] OTHER -> JavaCall(n, data \o [k \in 1 .. n - Len(data) |-> Untouched],
                     read_index, write_index, last_was_write,
                     java_counts("bytes_peek", n, n < count))
-----------------------------------------------------------------------------
\* The call of RB.java that answers to the call of rb.h just made.
JavaAnswer(op, count, offset) ==
  CASE op = "rb_read"     -> java_generic_read(count, FALSE)
    [] op = "rb_overread" -> java_generic_read(count, TRUE)
    [] op = "rb_peek_at"  -> java_peek_at(count, offset)
    [] op = "rb_advance_read_index" -> java_generic_advance_read_index(count, FALSE)
    [] op = "rb_overadvance_read_index" -> java_generic_advance_read_index(count, TRUE)

Answered == {"rb_read", "rb_overread", "rb_peek_at", "rb_advance_read_index",
             "rb_overadvance_read_index"}

\* A Java process may stand in for a C process at the reading end: in every
\* state, whatever was called before, RB.java returns the same bytes and the
\* same count and leaves the same indices, flag and statistics as rb.h.
JavaStep ==
  /\ java_can_read = CanRead /\ java_can_write = CanWrite
  /\ ret'.op \in Answered /\ UNCHANGED buf /\ alive' =>
       JavaAnswer(ret'.op, ret'.count, ret'.offset) =
         JavaCall(ret'.n, ret'.data, read_index', write_index', last_was_write', stats')
JavaAgrees == [][JavaStep]_vars
=============================================================================
