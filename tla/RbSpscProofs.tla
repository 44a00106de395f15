---------------------------- MODULE RbSpscProofs ----------------------------
(***************************************************************************)
(* What holds of RbSpsc, one reader and one writer thread without a lock,  *)
(* for every Size, every set of bytes, every count a caller passes and     *)
(* every width of the counters.                                            *)
(***************************************************************************)
EXTENDS RbSpsc, RbIndexProofs

USE SizeAssumption DEF Index, Count

(***************************************************************************)
(* The inductive invariant.                                                *)
(***************************************************************************)

\* The writer is between its memcpy() and the store of its index.
Publishing == \/ wr.pc \in {"advance", "store_index"}
              \/ wr.pc = "load_flag" /\ wr.op = "rb_advance_write_index"

PCs == {"idle", "load_flag", "copy", "advance", "store_index",
        "clear_flag", "set_flag"}
Ops == ReaderOps \cup WriterOps
         \cup {"none", "rb_advance_read_index", "rb_advance_write_index"}

ReaderPlace(p) ==
  /\ p \in Place
  /\ p.pc # "idle" => p.n \in Nat \ {0}
  /\ p.pc \in {"copy", "store_index", "clear_flag"} => p.n \in 1 .. Size
  /\ p.pc = "copy" => p.todo \subseteq 0 .. p.n - 1

WriterPlace(p) ==
  /\ [pc |-> p.pc, op |-> p.op, n |-> p.n, todo |-> p.todo] \in Place
  /\ p.source \in Seq(Byte)
  /\ p.pc # "idle" => p.n \in Nat \ {0} /\ Len(p.source) = p.n
  /\ p.pc \in {"copy", "store_index", "set_flag"} => p.n \in 1 .. Size
  /\ IF p.pc = "copy" THEN p.todo \subseteq 0 .. p.n - 1 ELSE p.todo = {}

SharedTypes ==
  /\ read_index \in Index
  /\ write_index \in Index
  /\ last_was_write \in BOOLEAN
  /\ buf \in [Index -> Byte]
  /\ total_bytes_read \in 0 .. Word - 1
  /\ total_bytes_write \in 0 .. Word - 1
  /\ stream \in Seq(Byte)
  /\ Len(stream) \in Count
  /\ intact \in BOOLEAN

SpscTypes ==
  /\ SharedTypes
  /\ ReaderPlace(rd)
  /\ WriterPlace(wr)
  /\ Publishing => wr.n \in 1 .. Size

\* The bytes s lie in the buffer b from slot r on.
Held(b, r, s) == \A k \in 1 .. Len(s) : b[Wrap(r + k - 1)] = s[k]

\* Of the n bytes for slot w on, those not in todo are in the buffer b.
Stored(b, w, source, n, todo) ==
  \A k \in 1 .. n : k - 1 \notin todo => b[Wrap(w + k - 1)] = source[k]

\* What a side has decided on stays there for it.
ReaderServed == rd.pc \in {"copy", "store_index"} => rd.n <= Len(stream)
WriterServed ==
  wr.pc \in {"copy", "store_index"} => Len(stream) + wr.n <= Size
WriterStored ==
  wr.pc = "copy" \/ Publishing
    => Stored(buf, write_index, wr.source, wr.n, wr.todo)

StreamHeld ==
  /\ intact
  /\ write_index = Wrap(read_index + Len(stream))
  /\ Held(buf, read_index, stream)
  /\ ReaderServed
  /\ WriterServed
  /\ WriterStored

SpscInv == SpscTypes /\ (~misled => StreamHeld)

\* Without overlapping calls the flag, once it is stored, tells full from
\* empty.
FlagTrue ==
  /\ rd.pc = "clear_flag" => Len(stream) < Size
  /\ wr.pc = "set_flag" => Len(stream) > 0
  /\ rd.pc # "clear_flag" /\ wr.pc # "set_flag"
       => IF last_was_write THEN Len(stream) > 0 ELSE Len(stream) < Size

Alone ==
  /\ ~misled
  /\ rd.pc = "idle" \/ wr.pc = "idle"
  /\ rd.pc = "load_flag" \/ wr.pc = "load_flag" => read_index = write_index
  /\ FlagTrue

SerialInv == SpscInv /\ (~overlapped => Alone)
-----------------------------------------------------------------------------
(***************************************************************************)
(* A thread's place in its calls.                                          *)
(***************************************************************************)

(* The conjuncts of the type invariant are those of SpscTypes.             *)
LEMMA TypesGiveTypeOK == SpscTypes => TypeOK
  BY DEF SpscTypes, SharedTypes, ReaderPlace, WriterPlace, TypeOK

(* The fields of the reader's place.                                       *)
LEMMA ReaderAtPlace ==
  ASSUME NEW pc \in PCs, NEW op \in Ops, NEW n \in Nat, NEW todo \in SUBSET Index
  PROVE  LET p == ReaderAt(pc, op, n, todo)
         IN  /\ p \in Place
             /\ p.pc = pc /\ p.op = op /\ p.n = n /\ p.todo = todo
  BY DEF ReaderAt, Place, PCs, Ops

(* The fields of the writer's place.                                       *)
LEMMA WriterAtPlace ==
  ASSUME NEW pc \in PCs, NEW op \in Ops, NEW n \in Nat, NEW todo \in SUBSET Index,
         NEW source
  PROVE  LET p == WriterAt(pc, op, n, todo, source)
         IN  /\ [pc |-> p.pc, op |-> p.op, n |-> p.n, todo |-> p.todo] \in Place
             /\ p.pc = pc /\ p.op = op /\ p.n = n /\ p.todo = todo
             /\ p.source = source
  BY DEF WriterAt, Place, PCs, Ops

(* The smaller of the count asked for and the fill level.                  *)
LEMMA MinBounds ==
  ASSUME NEW a \in Nat \ {0}, NEW b \in Nat \ {0}
  PROVE  rb_MIN(a, b) \in Nat \ {0} /\ rb_MIN(a, b) <= a /\ rb_MIN(a, b) <= b
  BY DEF rb_MIN

(* A call that is told can bytes goes on with at most that many.           *)
LEMMA ReaderServesPlace ==
  ASSUME NEW op \in Ops, NEW count \in Nat \ {0}, NEW can \in Count,
         ReaderServes(op, count, can)
  PROVE  /\ ReaderPlace(rd')
         /\ rd'.pc \in {"idle", "advance", "copy", "store_index"}
         /\ rd'.pc # "idle" => rd'.n \in 1 .. can
  <1> DEFINE n == IF op = "rb_drop" THEN can ELSE rb_MIN(count, can)
  <1>1. CASE can = 0
    <2>1. rd' = ReaderAt("idle", "none", 0, {})
      BY <1>1 DEF ReaderServes, IdleReader
    <2>2. "idle" \in PCs /\ "none" \in Ops /\ {} \in SUBSET Index
      BY DEF PCs, Ops
    <2>3. rd' \in Place /\ rd'.pc = "idle"
      BY <2>1, <2>2, ReaderAtPlace
    <2> QED  BY <2>3 DEF ReaderPlace
  <1>2. CASE can # 0
    <2>1. n \in 1 .. can
      BY <1>2, MinBounds
    <2> DEFINE all == 0 .. n - 1
    <2>0. all \in SUBSET Index
      BY <2>1
    <2> HIDE DEF n
    <2>2. \/ rd' = ReaderAt("advance", op, n, {})
          \/ rd' = ReaderAt("copy", op, n, all)
          \/ rd' = ReaderAt("store_index", op, n, {})
      BY <1>2, Zenon DEF ReaderServes, n
    <2>3. /\ {"advance", "copy", "store_index"} \subseteq PCs
          /\ {} \in SUBSET Index
          /\ n \in Nat \ {0} /\ n \in 1 .. Size
      BY <2>1 DEF PCs
    <2> HIDE DEF all
    <2>4. /\ rd' \in Place
          /\ rd'.pc \in {"advance", "copy", "store_index"}
          /\ rd'.n = n
          /\ rd'.pc = "copy" => rd'.todo = all
      <3>1. CASE rd' = ReaderAt("advance", op, n, {})
        BY <3>1, <2>3, ReaderAtPlace
      <3>2. CASE rd' = ReaderAt("copy", op, n, all)
        BY <3>2, <2>3, <2>0, ReaderAtPlace
      <3>3. CASE rd' = ReaderAt("store_index", op, n, {})
        BY <3>3, <2>3, ReaderAtPlace
      <3> QED  BY <2>2, <3>1, <3>2, <3>3
    <2> QED  BY <2>1, <2>3, <2>4 DEF ReaderPlace, all
  <1> QED  BY <1>1, <1>2

(* The first part of rb_can_read() either waits for the flag or goes on    *)
(* with what the unequal indices leave.                                    *)
LEMMA ReaderLoadsPlace ==
  ASSUME NEW op \in Ops, NEW count \in Nat \ {0},
         read_index \in Index, write_index \in Index,
         ReaderLoadsIndex(op, count)
  PROVE  /\ ReaderPlace(rd')
         /\ rd'.pc \in {"idle", "load_flag", "advance", "copy", "store_index"}
         /\ rd'.pc = "load_flag" => read_index = write_index
         /\ rd'.pc \in {"advance", "copy", "store_index"}
              => /\ read_index # write_index
                 /\ rd'.n <= rb_can_read(read_index, write_index, FALSE)
  <1>1. CASE read_index = write_index
    <2>1. rd' = ReaderAt("load_flag", op, count, {})
      BY <1>1 DEF ReaderLoadsIndex
    <2>2. "load_flag" \in PCs /\ {} \in SUBSET Index /\ count \in Nat
      BY DEF PCs
    <2>3. rd' \in Place /\ rd'.pc = "load_flag" /\ rd'.n = count
      BY <2>1, <2>2, ReaderAtPlace
    <2> QED  BY <1>1, <2>3 DEF ReaderPlace
  <1>2. CASE read_index # write_index
    <2> DEFINE can == rb_can_read(read_index, write_index, FALSE)
    <2>1. ReaderServes(op, count, can)
      BY <1>2 DEF ReaderLoadsIndex
    <2>2. can \in Count
      BY FillInCount
    <2> HIDE DEF can
    <2>3. /\ ReaderPlace(rd')
          /\ rd'.pc \in {"idle", "advance", "copy", "store_index"}
          /\ rd'.pc # "idle" => rd'.n \in 1 .. can
      BY <2>1, <2>2, ReaderServesPlace
    <2>4. rd'.pc # "idle" => rd'.n <= can
      BY <2>2, <2>3
    <2>5. rd'.pc # "idle" => rd'.n <= rb_can_read(read_index, write_index, FALSE)
      BY <2>4, Zenon DEF can
    <2> QED  BY <1>2, <2>3, <2>5
  <1> QED  BY <1>1, <1>2

(* The first n bytes of a source.                                          *)
LEMMA SubSeqFront ==
  ASSUME NEW s \in Seq(Byte), NEW n \in 0 .. Len(s)
  PROVE  /\ SubSeq(s, 1, n) \in Seq(Byte)
         /\ Len(SubSeq(s, 1, n)) = n
         /\ \A k \in 1 .. n : SubSeq(s, 1, n)[k] = s[k]
  OBVIOUS

(* A writer that is told can bytes goes on with at most that many bytes of *)
(* its source, and copies them all unless they are in the buffer already.  *)
LEMMA WriterServesPlace ==
  ASSUME NEW op \in Ops, NEW source \in Seq(Byte), Len(source) # 0,
         NEW can \in Count, WriterServes(op, source, can)
  PROVE  /\ WriterPlace(wr')
         /\ wr'.pc \in {"idle", "copy", "store_index"}
         /\ wr'.pc # "idle" => wr'.n \in 1 .. can
         /\ wr'.pc = "copy" => wr'.todo = 0 .. wr'.n - 1
         /\ wr'.pc = "store_index"
              => /\ op = "rb_advance_write_index"
                 /\ wr'.n <= Len(source)
                 /\ \A k \in 1 .. wr'.n : wr'.source[k] = source[k]
  <1>1. CASE can = 0
    <2>1. wr' = WriterAt("idle", "none", 0, {}, <<>>)
      BY <1>1 DEF WriterServes, IdleWriter
    <2>2. "idle" \in PCs /\ "none" \in Ops /\ {} \in SUBSET Index
      BY DEF PCs, Ops
    <2>3. /\ [pc |-> wr'.pc, op |-> wr'.op, n |-> wr'.n, todo |-> wr'.todo]
               \in Place
          /\ wr'.pc = "idle" /\ wr'.source = <<>> /\ wr'.todo = {}
      BY <2>1, <2>2, WriterAtPlace
    <2>4. <<>> \in Seq(Byte)
      OBVIOUS
    <2> QED  BY <2>3, <2>4 DEF WriterPlace
  <1>2. CASE can # 0
    <2> DEFINE n == rb_MIN(Len(source), can)
               all == 0 .. n - 1
               front == SubSeq(source, 1, n)
    <2>1. n \in 1 .. can /\ n <= Len(source)
      BY <1>2, MinBounds
    <2> HIDE DEF n
    <2>2. all \in SUBSET Index
      BY <2>1
    <2>3. /\ n \in 0 .. Len(source) /\ n \in Nat \ {0} /\ n \in 1 .. Size
          /\ {"copy", "store_index"} \subseteq PCs /\ {} \in SUBSET Index
      BY <2>1 DEF PCs
    <2>4. /\ front \in Seq(Byte) /\ Len(front) = n
          /\ \A k \in 1 .. n : front[k] = source[k]
      BY <2>3, SubSeqFront
    <2> HIDE DEF all, front
    <2>5. CASE op = "rb_advance_write_index"
      <3>1. wr' = WriterAt("store_index", op, n, {}, front)
        BY <1>2, <2>5, Zenon DEF WriterServes, n, front
      <3>2. /\ [pc |-> wr'.pc, op |-> wr'.op, n |-> wr'.n, todo |-> wr'.todo]
                 \in Place
            /\ wr'.pc = "store_index" /\ wr'.n = n /\ wr'.source = front
            /\ wr'.todo = {}
        BY <2>3, <3>1, WriterAtPlace
      <3> QED  BY <2>1, <2>3, <2>4, <2>5, <3>2 DEF WriterPlace
    <2>6. CASE op # "rb_advance_write_index"
      <3>1. wr' = WriterAt("copy", op, n, all, front)
        BY <1>2, <2>6, Zenon DEF WriterServes, n, front, all
      <3>0. "copy" \in PCs /\ n \in Nat
        BY <2>3
      <3>2. /\ [pc |-> wr'.pc, op |-> wr'.op, n |-> wr'.n, todo |-> wr'.todo]
                 \in Place
            /\ wr'.pc = "copy" /\ wr'.n = n /\ wr'.source = front
            /\ wr'.todo = all
        <4>1. /\ wr'.pc = "copy" /\ wr'.op = op /\ wr'.n = n
              /\ wr'.todo = all /\ wr'.source = front
          BY <3>1, Zenon DEF WriterAt
        <4>2. [pc |-> "copy", op |-> op, n |-> n, todo |-> all] \in Place
          BY <2>2, <3>0 DEF Place, PCs, Ops
        <4> QED  BY <4>1, <4>2, Zenon
      <3> QED  BY <2>1, <2>3, <2>4, <2>6, <3>2 DEF WriterPlace, all
    <2> QED  BY <2>5, <2>6
  <1> QED  BY <1>1, <1>2

(* The first part of rb_can_write().                                       *)
LEMMA WriterLoadsPlace ==
  ASSUME NEW op \in Ops, NEW source \in Seq(Byte), Len(source) # 0,
         read_index \in Index, write_index \in Index,
         WriterLoadsIndex(op, source)
  PROVE  /\ WriterPlace(wr')
         /\ wr'.pc \in {"idle", "load_flag", "copy", "store_index"}
         /\ wr'.pc = "load_flag"
              => /\ read_index = write_index
                 /\ wr'.op = op /\ wr'.n = Len(source) /\ wr'.source = source
         /\ wr'.pc \in {"copy", "store_index"}
              => /\ read_index # write_index
                 /\ wr'.n <= rb_can_write(read_index, write_index, FALSE)
         /\ wr'.pc = "copy" => wr'.todo = 0 .. wr'.n - 1
         /\ wr'.pc = "store_index"
              => /\ op = "rb_advance_write_index"
                 /\ wr'.n <= Len(source)
                 /\ \A k \in 1 .. wr'.n : wr'.source[k] = source[k]
  <1>1. CASE read_index = write_index
    <2> DEFINE n == Len(source)
    <2>1. n \in Nat \ {0} /\ n \in Nat
      OBVIOUS
    <2> HIDE DEF n
    <2>2. wr' = WriterAt("load_flag", op, n, {}, source)
      BY <1>1, Zenon DEF WriterLoadsIndex, n
    <2>3. "load_flag" \in PCs /\ {} \in SUBSET Index
      BY DEF PCs
    <2>4. /\ [pc |-> wr'.pc, op |-> wr'.op, n |-> wr'.n, todo |-> wr'.todo]
               \in Place
          /\ wr'.pc = "load_flag" /\ wr'.op = op /\ wr'.n = n
          /\ wr'.todo = {} /\ wr'.source = source
      BY <2>1, <2>2, <2>3, WriterAtPlace
    <2> QED  BY <1>1, <2>1, <2>4 DEF WriterPlace, n
  <1>2. CASE read_index # write_index
    <2> DEFINE can == rb_can_write(read_index, write_index, FALSE)
    <2>1. WriterServes(op, source, can)
      BY <1>2 DEF WriterLoadsIndex
    <2>2. can \in Count
      BY FillInCount
    <2> HIDE DEF can
    <2>3. /\ WriterPlace(wr')
          /\ wr'.pc \in {"idle", "copy", "store_index"}
          /\ wr'.pc # "idle" => wr'.n \in 1 .. can
          /\ wr'.pc = "copy" => wr'.todo = 0 .. wr'.n - 1
          /\ wr'.pc = "store_index"
               => /\ op = "rb_advance_write_index"
                  /\ wr'.n <= Len(source)
                  /\ \A k \in 1 .. wr'.n : wr'.source[k] = source[k]
      BY <2>1, <2>2, WriterServesPlace
    <2>4. wr'.pc # "idle" => wr'.n <= can
      BY <2>2, <2>3
    <2>5. wr'.pc # "idle" => wr'.n <= rb_can_write(read_index, write_index, FALSE)
      BY <2>4, Zenon DEF can
    <2> QED  BY <1>2, <2>3, <2>5
  <1> QED  BY <1>1, <1>2

(* The reader's fields.                                                    *)
LEMMA ReaderFields ==
  ASSUME ReaderPlace(rd)
  PROVE  /\ rd.pc \in PCs /\ rd.op \in Ops /\ rd.n \in Nat
         /\ rd.todo \in SUBSET Index
  BY DEF ReaderPlace, Place, PCs, Ops

(* The writer's fields.                                                    *)
LEMMA WriterFields ==
  ASSUME WriterPlace(wr)
  PROVE  /\ wr.pc \in PCs /\ wr.op \in Ops /\ wr.n \in Nat
         /\ wr.todo \in SUBSET Index /\ wr.source \in Seq(Byte)
  <1> DEFINE p == [pc |-> wr.pc, op |-> wr.op, n |-> wr.n, todo |-> wr.todo]
  <1>1. p \in Place /\ wr.source \in Seq(Byte)
    BY DEF WriterPlace
  <1>2. p.pc \in PCs /\ p.op \in Ops /\ p.n \in Nat /\ p.todo \in SUBSET Index
    BY <1>1 DEF Place, PCs, Ops
  <1> QED  BY <1>1, <1>2

(* Every step of the reader leads it to a place of its calls.              *)
LEMMA ReaderKeepsPlace ==
  ASSUME SpscTypes, Reader
  PROVE  ReaderPlace(rd')
  <1>1. /\ ReaderPlace(rd) /\ read_index \in Index /\ write_index \in Index
        /\ rd.pc \in PCs /\ rd.op \in Ops /\ rd.n \in Nat
        /\ rd.todo \in SUBSET Index
    BY ReaderFields DEF SpscTypes, SharedTypes
  <1>2. CASE reader_call
    <2>1. PICK op \in ReaderOps, count \in 1 .. MaxCount :
            ReaderLoadsIndex(op, count)
      BY <1>2 DEF reader_call
    <2>2. op \in Ops /\ count \in Nat \ {0}
      BY MaxCountAssumption DEF Ops
    <2> QED  BY <1>1, <2>1, <2>2, ReaderLoadsPlace
  <1>3. CASE reader_loads_flag
    <2> DEFINE can == IF last_was_write THEN Size ELSE 0
    <2>1. can \in Count /\ rd.n \in Nat \ {0}
      BY <1>1, <1>3 DEF reader_loads_flag, ReaderPlace
    <2>2. ReaderServes(rd.op, rd.n, can)
      BY <1>3 DEF reader_loads_flag
    <2> HIDE DEF can
    <2> QED  BY <1>1, <2>1, <2>2, ReaderServesPlace
  <1>4. CASE reader_copies
    <2>1. PICK k \in rd.todo :
            rd' = IF rd.todo \ {k} # {}
                    THEN ReaderAt("copy", rd.op, rd.n, rd.todo \ {k})
                    ELSE CASE rd.op = "rb_read" ->
                                ReaderAt("store_index", rd.op, rd.n, {})
                           [] rd.op = "rb_peek" -> IdleReader
                           [] OTHER -> ReaderAt("advance", rd.op, rd.n, {})
      BY <1>4 DEF reader_copies
    <2> DEFINE left == rd.todo \ {k}
    <2>2. \/ rd' = ReaderAt("copy", rd.op, rd.n, left)
          \/ rd' = ReaderAt("store_index", rd.op, rd.n, {})
          \/ rd' = ReaderAt("idle", "none", 0, {})
          \/ rd' = ReaderAt("advance", rd.op, rd.n, {})
      BY <2>1, Zenon DEF IdleReader
    <2>3. /\ left \in SUBSET Index /\ left \subseteq 0 .. rd.n - 1
          /\ rd.n \in 1 .. Size /\ rd.n \in Nat \ {0}
      BY <1>1, <1>4 DEF reader_copies, ReaderPlace
    <2> HIDE DEF left
    <2>4. /\ {} \in SUBSET Index /\ "none" \in Ops /\ 0 \in Nat
          /\ "copy" \in PCs /\ "store_index" \in PCs /\ "idle" \in PCs
          /\ "advance" \in PCs
      BY DEF PCs, Ops
    <2>5. CASE rd' = ReaderAt("copy", rd.op, rd.n, left)
      <3>1. /\ rd' \in Place /\ rd'.pc = "copy" /\ rd'.n = rd.n
            /\ rd'.todo = left
        BY <1>1, <2>3, <2>4, <2>5, ReaderAtPlace
      <3> QED  BY <2>3, <3>1 DEF ReaderPlace
    <2>6. CASE rd' = ReaderAt("store_index", rd.op, rd.n, {})
      <3>1. rd' \in Place /\ rd'.pc = "store_index" /\ rd'.n = rd.n
        BY <1>1, <2>4, <2>6, ReaderAtPlace
      <3> QED  BY <2>3, <3>1 DEF ReaderPlace
    <2>7. CASE rd' = ReaderAt("idle", "none", 0, {})
      <3>1. rd' \in Place /\ rd'.pc = "idle"
        BY <2>4, <2>7, ReaderAtPlace
      <3> QED  BY <3>1 DEF ReaderPlace
    <2>8. CASE rd' = ReaderAt("advance", rd.op, rd.n, {})
      <3>1. rd' \in Place /\ rd'.pc = "advance" /\ rd'.n = rd.n
        BY <1>1, <2>4, <2>8, ReaderAtPlace
      <3> QED  BY <2>3, <3>1 DEF ReaderPlace
    <2> QED  BY <2>2, <2>5, <2>6, <2>7, <2>8
  <1>5. CASE reader_advances
    <2>1. ReaderLoadsIndex("rb_advance_read_index", rd.n)
      BY <1>5 DEF reader_advances
    <2>2. "rb_advance_read_index" \in Ops /\ rd.n \in Nat \ {0}
      BY <1>1, <1>5 DEF reader_advances, ReaderPlace, Ops
    <2> QED  BY <1>1, <2>1, <2>2, ReaderLoadsPlace
  <1>6. CASE reader_stores_index
    <2>1. /\ rd' = ReaderAt("clear_flag", rd.op, rd.n, {})
          /\ rd.n \in 1 .. Size
      BY <1>1, <1>6 DEF reader_stores_index, ReaderPlace
    <2>2. "clear_flag" \in PCs /\ {} \in SUBSET Index
      BY DEF PCs
    <2>3. rd' \in Place /\ rd'.pc = "clear_flag" /\ rd'.n = rd.n
      BY <1>1, <2>1, <2>2, ReaderAtPlace
    <2> QED  BY <2>1, <2>3 DEF ReaderPlace
  <1>7. CASE reader_clears_flag
    <2>1. rd' = ReaderAt("idle", "none", 0, {})
      BY <1>7 DEF reader_clears_flag, IdleReader
    <2>2. "idle" \in PCs /\ {} \in SUBSET Index /\ "none" \in Ops /\ 0 \in Nat
      BY DEF PCs, Ops
    <2>3. rd' \in Place /\ rd'.pc = "idle"
      BY <2>1, <2>2, ReaderAtPlace
    <2> QED  BY <2>3 DEF ReaderPlace
  <1> QED  BY <1>2, <1>3, <1>4, <1>5, <1>6, <1>7 DEF Reader

(* Every step of the writer leads it to a place of its calls.              *)
LEMMA WriterKeepsPlace ==
  ASSUME SpscTypes, Writer
  PROVE  WriterPlace(wr') /\ (Publishing' => wr'.n \in 1 .. Size)
  <1>1. /\ WriterPlace(wr) /\ read_index \in Index /\ write_index \in Index
        /\ wr.pc \in PCs /\ wr.op \in Ops /\ wr.n \in Nat
        /\ wr.todo \in SUBSET Index /\ wr.source \in Seq(Byte)
        /\ Publishing => wr.n \in 1 .. Size
    BY WriterFields DEF SpscTypes, SharedTypes
  <1>2. CASE writer_call
    <2>1. PICK op \in WriterOps, count \in 1 .. MaxCount :
            \E source \in [1 .. count -> Byte] : WriterLoadsIndex(op, source)
      BY <1>2 DEF writer_call
    <2>2. PICK source \in [1 .. count -> Byte] : WriterLoadsIndex(op, source)
      BY <2>1
    <2>3. /\ op \in Ops /\ op # "rb_advance_write_index"
          /\ source \in Seq(Byte) /\ Len(source) # 0
      BY MaxCountAssumption, OpsAssumption DEF Ops
    <2>4. /\ WriterPlace(wr')
          /\ wr'.pc \in {"idle", "load_flag", "copy", "store_index"}
          /\ wr'.pc = "load_flag" => wr'.op = op
      BY <1>1, <2>2, <2>3, WriterLoadsPlace
    <2> QED  BY <2>3, <2>4 DEF WriterPlace, Publishing
  <1>3. CASE writer_loads_flag
    <2> DEFINE can == IF last_was_write THEN 0 ELSE Size
    <2>1. can \in Count /\ wr.source \in Seq(Byte) /\ Len(wr.source) # 0
      BY <1>1, <1>3 DEF writer_loads_flag, WriterPlace
    <2>2. WriterServes(wr.op, wr.source, can)
      BY <1>3 DEF writer_loads_flag
    <2> HIDE DEF can
    <2>3. WriterPlace(wr') /\ wr'.pc \in {"idle", "copy", "store_index"}
      BY <1>1, <2>1, <2>2, WriterServesPlace
    <2> QED  BY <2>3 DEF WriterPlace, Publishing
  <1>4. CASE writer_copies
    <2>1. PICK k \in wr.todo :
            wr' = WriterAt(IF wr.todo \ {k} # {} THEN "copy"
                             ELSE IF wr.op = "rb_write" THEN "store_index"
                             ELSE "advance",
                           wr.op, wr.n, wr.todo \ {k}, wr.source)
      BY <1>4 DEF writer_copies
    <2> DEFINE left == wr.todo \ {k}
               pc == IF left # {} THEN "copy"
                     ELSE IF wr.op = "rb_write" THEN "store_index"
                     ELSE "advance"
    <2>2. /\ left \in SUBSET Index /\ left \subseteq 0 .. wr.n - 1
          /\ wr.n \in 1 .. Size /\ wr.n \in Nat \ {0}
          /\ Len(wr.source) = wr.n
          /\ pc \in PCs
          /\ pc \in {"copy", "store_index", "advance"}
          /\ pc # "copy" => left = {}
      BY <1>1, <1>4 DEF writer_copies, WriterPlace, PCs
    <2>3. wr' = WriterAt(pc, wr.op, wr.n, left, wr.source)
      BY <2>1
    <2> HIDE DEF left, pc
    <2>4. /\ [pc |-> wr'.pc, op |-> wr'.op, n |-> wr'.n, todo |-> wr'.todo]
               \in Place
          /\ wr'.pc = pc /\ wr'.n = wr.n /\ wr'.source = wr.source
          /\ wr'.todo = left
      BY <1>1, <2>2, <2>3, WriterAtPlace
    <2> QED  BY <1>1, <2>2, <2>4 DEF WriterPlace, Publishing
  <1>5. CASE writer_advances
    <2>1. WriterLoadsIndex("rb_advance_write_index", wr.source)
      BY <1>5 DEF writer_advances
    <2>2. /\ "rb_advance_write_index" \in Ops /\ Len(wr.source) # 0
          /\ Len(wr.source) = wr.n /\ wr.n \in 1 .. Size
      BY <1>1, <1>5 DEF writer_advances, WriterPlace, Ops, Publishing
    <2>3. /\ WriterPlace(wr')
          /\ wr'.pc \in {"idle", "load_flag", "copy", "store_index"}
          /\ wr'.pc = "load_flag" => wr'.n = Len(wr.source)
      BY <1>1, <2>1, <2>2, WriterLoadsPlace
    <2> QED  BY <2>2, <2>3 DEF WriterPlace, Publishing
  <1>6. CASE writer_stores_index
    <2>1. /\ wr' = WriterAt("set_flag", wr.op, wr.n, {}, wr.source)
          /\ wr.n \in 1 .. Size /\ Len(wr.source) = wr.n
      BY <1>1, <1>6 DEF writer_stores_index, WriterPlace
    <2>2. "set_flag" \in PCs /\ {} \in SUBSET Index
      BY DEF PCs
    <2>3. /\ [pc |-> wr'.pc, op |-> wr'.op, n |-> wr'.n, todo |-> wr'.todo]
               \in Place
          /\ wr'.pc = "set_flag" /\ wr'.n = wr.n /\ wr'.source = wr.source
          /\ wr'.todo = {}
      BY <1>1, <2>1, <2>2, WriterAtPlace
    <2> QED  BY <1>1, <2>1, <2>3 DEF WriterPlace, Publishing
  <1>7. CASE writer_sets_flag
    <2>1. wr' = WriterAt("idle", "none", 0, {}, <<>>)
      BY <1>7 DEF writer_sets_flag, IdleWriter
    <2>2. /\ "idle" \in PCs /\ {} \in SUBSET Index /\ "none" \in Ops /\ 0 \in Nat
          /\ <<>> \in Seq(Byte)
      BY DEF PCs, Ops
    <2>3. /\ [pc |-> wr'.pc, op |-> wr'.op, n |-> wr'.n, todo |-> wr'.todo]
               \in Place
          /\ wr'.pc = "idle" /\ wr'.source = <<>> /\ wr'.todo = {}
      BY <2>1, <2>2, WriterAtPlace
    <2> QED  BY <2>2, <2>3 DEF WriterPlace, Publishing
  <1> QED  BY <1>2, <1>3, <1>4, <1>5, <1>6, <1>7 DEF Writer
-----------------------------------------------------------------------------
(***************************************************************************)
(* Types.                                                                  *)
(***************************************************************************)

(* The counters stay in their width.                                       *)
LEMMA WordMod == \A a \in Int : a % Word \in 0 .. Word - 1
  BY WordAssumption

(* The stream that is followed fits the buffer.                            *)
LEMMA FollowTypes ==
  ASSUME NEW ok \in BOOLEAN, NEW next_stream, Follow(ok, next_stream),
         intact \in BOOLEAN,
         ok => next_stream \in Seq(Byte) /\ Len(next_stream) \in Count
  PROVE  /\ intact' \in BOOLEAN
         /\ stream' \in Seq(Byte)
         /\ Len(stream') \in Count
  <1>1. <<>> \in Seq(Byte) /\ Len(<<>>) \in Count
    OBVIOUS
  <1>2. intact' \in BOOLEAN
    BY DEF Follow
  <1>3. (stream' = next_stream /\ ok) \/ stream' = <<>>
    BY DEF Follow
  <1> QED  BY <1>1, <1>2, <1>3

LEMMA FollowsOn ==
  ASSUME NEW ok, NEW next_stream, ok, intact, Follow(ok, next_stream)
  PROVE  intact' /\ stream' = next_stream
  BY Zenon DEF Follow

(* What is left of a stream, and what it grows to.                         *)
LEMMA SubSeqBack ==
  ASSUME NEW s \in Seq(Byte), NEW n \in 0 .. Len(s)
  PROVE  /\ SubSeq(s, n + 1, Len(s)) \in Seq(Byte)
         /\ Len(SubSeq(s, n + 1, Len(s))) = Len(s) - n
         /\ \A k \in 1 .. Len(s) - n : SubSeq(s, n + 1, Len(s))[k] = s[n + k]
  OBVIOUS

LEMMA ConcatBytes ==
  ASSUME NEW s \in Seq(Byte), NEW t \in Seq(Byte)
  PROVE  /\ s \o t \in Seq(Byte)
         /\ Len(s \o t) = Len(s) + Len(t)
         /\ \A k \in 1 .. Len(s) : (s \o t)[k] = s[k]
         /\ \A k \in Len(s) + 1 .. Len(s) + Len(t) : (s \o t)[k] = t[k - Len(s)]
  OBVIOUS

LEMMA TypesInit == Init => SpscTypes /\ rd = IdleReader /\ wr = IdleWriter
  <1> SUFFICES ASSUME Init
               PROVE  SpscTypes /\ rd = IdleReader /\ wr = IdleWriter
    OBVIOUS
  <1>1. SharedTypes
    BY WordAssumption DEF Init, SharedTypes
  <1>2. "idle" \in PCs /\ "none" \in Ops /\ {} \in SUBSET Index /\ 0 \in Nat
    BY DEF PCs, Ops
  <1>3. rd = IdleReader /\ wr = IdleWriter
    BY DEF Init
  <1>4. rd \in Place /\ rd.pc = "idle"
    BY <1>2, <1>3, ReaderAtPlace DEF IdleReader
  <1>5. /\ [pc |-> wr.pc, op |-> wr.op, n |-> wr.n, todo |-> wr.todo] \in Place
        /\ wr.pc = "idle" /\ wr.source = <<>> /\ wr.todo = {}
    <2>1. wr = WriterAt("idle", "none", 0, {}, <<>>)
      BY <1>3 DEF IdleWriter
    <2> QED  BY <1>2, <2>1, WriterAtPlace
  <1>6. <<>> \in Seq(Byte)
    OBVIOUS
  <1>7. ReaderPlace(rd)
    BY <1>4 DEF ReaderPlace
  <1>8. WriterPlace(wr) /\ ~Publishing
    BY <1>5, <1>6 DEF WriterPlace, Publishing
  <1> QED  BY <1>1, <1>3, <1>7, <1>8 DEF SpscTypes

(* Both sides move their index by the count they have decided on.          *)
LEMMA ReaderMoves ==
  ASSUME SpscTypes, reader_stores_index
  PROVE  read_index' = Wrap(read_index + rd.n) /\ read_index' \in Index
  <1>1. read_index \in Index /\ rd.n \in Count
    BY DEF SpscTypes, SharedTypes, ReaderPlace, reader_stores_index
  <1>2. /\ CopiedIndex(read_index, rd.n) = Wrap(read_index + rd.n)
        /\ AdvancedIndex(read_index, rd.n) = Wrap(read_index + rd.n)
        /\ Wrap(read_index + rd.n) \in Index
    BY <1>1, MovedIsWrap
  <1> QED  BY <1>2, Zenon DEF reader_stores_index

LEMMA WriterMoves ==
  ASSUME SpscTypes, writer_stores_index
  PROVE  write_index' = Wrap(write_index + wr.n) /\ write_index' \in Index
  <1>1. write_index \in Index /\ wr.n \in Count
    BY DEF SpscTypes, SharedTypes, WriterPlace, writer_stores_index
  <1>2. /\ CopiedIndex(write_index, wr.n) = Wrap(write_index + wr.n)
        /\ AdvancedIndex(write_index, wr.n) = Wrap(write_index + wr.n)
        /\ Wrap(write_index + wr.n) \in Index
    BY <1>1, MovedIsWrap
  <1> QED  BY <1>2, Zenon DEF writer_stores_index

LEMMA SharedStep ==
  ASSUME SpscTypes, Next
  PROVE  SharedTypes'
  <1>1. SharedTypes /\ ReaderPlace(rd) /\ WriterPlace(wr)
    BY DEF SpscTypes
  <1>2. /\ rd.n \in Nat /\ wr.n \in Nat
        /\ rd.todo \in SUBSET Index
        /\ wr.todo \in SUBSET Index /\ wr.source \in Seq(Byte)
    BY <1>1, ReaderFields, WriterFields
  <1>3. CASE reader_call \/ reader_loads_flag \/ reader_advances
    BY <1>1, <1>3 DEF reader_call, reader_loads_flag, reader_advances,
                      SharedTypes, shared, totals
  <1>4. CASE writer_call \/ writer_loads_flag \/ writer_advances
    BY <1>1, <1>4 DEF writer_call, writer_loads_flag, writer_advances,
                      SharedTypes, shared, totals
  <1>5. CASE reader_copies
    <2>1. PICK k \in rd.todo :
            Follow(/\ k < Len(stream)
                   /\ buf[(read_index + k) % Size] = stream[k + 1], stream)
      BY <1>5 DEF reader_copies
    <2> DEFINE ok == /\ k < Len(stream)
                     /\ buf[(read_index + k) % Size] = stream[k + 1]
    <2>2. ok \in BOOLEAN /\ Follow(ok, stream)
      BY <2>1
    <2> HIDE DEF ok
    <2>3. /\ intact' \in BOOLEAN /\ stream' \in Seq(Byte)
          /\ Len(stream') \in Count
      BY <1>1, <2>2, FollowTypes DEF SharedTypes
    <2> QED  BY <1>1, <1>5, <2>3 DEF reader_copies, SharedTypes, shared, totals
  <1>6. CASE reader_stores_index
    <2> DEFINE ok == rd.n <= Len(stream)
               back == SubSeq(stream, rd.n + 1, Len(stream))
    <2>1. ok \in BOOLEAN /\ Follow(ok, back) /\ rd.n \in 1 .. Size
      BY <1>1, <1>6 DEF reader_stores_index, ReaderPlace
    <2>2. ok => back \in Seq(Byte) /\ Len(back) \in Count
      <3> SUFFICES ASSUME ok PROVE back \in Seq(Byte) /\ Len(back) \in Count
        OBVIOUS
      <3>1. stream \in Seq(Byte) /\ Len(stream) \in Count /\ rd.n \in 0 .. Len(stream)
        BY <1>1, <1>2 DEF SharedTypes
      <3>2. back \in Seq(Byte) /\ Len(back) = Len(stream) - rd.n
        BY <3>1, SubSeqBack
      <3> HIDE DEF back
      <3> QED  BY <3>1, <3>2
    <2> HIDE DEF ok, back
    <2>3. /\ intact' \in BOOLEAN /\ stream' \in Seq(Byte)
          /\ Len(stream') \in Count
      BY <1>1, <2>1, <2>2, FollowTypes DEF SharedTypes
    <2>4. read_index' \in Index
      BY <1>6, ReaderMoves
    <2> QED  BY <1>1, <1>6, <2>3, <2>4 DEF reader_stores_index, SharedTypes, totals
  <1>7. CASE reader_clears_flag
    <2>1. total_bytes_read' \in 0 .. Word - 1
      <3>1. total_bytes_read + rd.n \in Int
        BY <1>1, <1>2 DEF SharedTypes
      <3> QED  BY <1>7, <3>1, WordMod DEF reader_clears_flag
    <2> QED  BY <1>1, <1>7, <2>1 DEF reader_clears_flag, SharedTypes
  <1>8. CASE writer_copies
    <2>1. PICK k \in wr.todo :
            buf' = [buf EXCEPT ![(write_index + k) % Size] = wr.source[k + 1]]
      BY <1>8 DEF writer_copies
    <2>2. k + 1 \in 1 .. Len(wr.source) /\ k \in Int
      BY <1>1, <1>8 DEF writer_copies, WriterPlace
    <2>3. wr.source[k + 1] \in Byte
      BY <1>2, <2>2
    <2>4. buf' \in [Index -> Byte]
      BY <1>1, <2>1, <2>3 DEF SharedTypes
    <2> QED  BY <1>1, <1>8, <2>4 DEF writer_copies, SharedTypes, totals
  <1>9. CASE writer_stores_index
    <2> DEFINE ok == Len(stream) + wr.n <= Size
               grown == stream \o wr.source
    <2>1. /\ ok \in BOOLEAN /\ Follow(ok, grown) /\ wr.n \in 1 .. Size
          /\ Len(wr.source) = wr.n
      BY <1>1, <1>9 DEF writer_stores_index, WriterPlace
    <2>2. ok => grown \in Seq(Byte) /\ Len(grown) \in Count
      <3>1. /\ stream \in Seq(Byte) /\ Len(stream) \in Count
        BY <1>1 DEF SharedTypes
      <3>2. grown \in Seq(Byte) /\ Len(grown) = Len(stream) + wr.n
        BY <1>2, <2>1, <3>1, ConcatBytes
      <3> HIDE DEF grown
      <3> QED  BY <1>2, <3>1, <3>2
    <2> HIDE DEF ok, grown
    <2>3. /\ intact' \in BOOLEAN /\ stream' \in Seq(Byte)
          /\ Len(stream') \in Count
      BY <1>1, <2>1, <2>2, FollowTypes DEF SharedTypes
    <2>4. write_index' \in Index
      BY <1>9, WriterMoves
    <2> QED  BY <1>1, <1>9, <2>3, <2>4 DEF writer_stores_index, SharedTypes, totals
  <1>10. CASE writer_sets_flag
    <2>1. total_bytes_write' \in 0 .. Word - 1
      <3>1. total_bytes_write + wr.n \in Int
        BY <1>1, <1>2 DEF SharedTypes
      <3> QED  BY <1>10, <3>1, WordMod DEF writer_sets_flag
    <2> QED  BY <1>1, <1>10, <2>1 DEF writer_sets_flag, SharedTypes
  <1> QED  BY <1>3, <1>4, <1>5, <1>6, <1>7, <1>8, <1>9, <1>10
           DEF Next, Reader, Writer

(* The reader's steps leave the writer's place alone, and the reverse.     *)
LEMMA OneSideMoves ==
  ASSUME Next
  PROVE  (Reader /\ wr' = wr) \/ (Writer /\ rd' = rd)
  BY DEF Next, Reader, Writer, reader_call, reader_loads_flag, reader_copies,
         reader_advances, reader_stores_index, reader_clears_flag,
         writer_call, writer_loads_flag, writer_copies,
         writer_advances, writer_stores_index, writer_sets_flag

LEMMA TypesStep == SpscTypes /\ [Next]_vars => SpscTypes'
  <1> SUFFICES ASSUME SpscTypes, [Next]_vars PROVE SpscTypes'
    OBVIOUS
  <1>1. CASE Next
    <2>1. SharedTypes'
      BY <1>1, SharedStep
    <2>2. CASE Reader /\ wr' = wr
      <3>1. ReaderPlace(rd')
        BY <2>2, ReaderKeepsPlace
      <3> QED  BY <2>1, <2>2, <3>1 DEF SpscTypes, Publishing
    <2>3. CASE Writer /\ rd' = rd
      <3>1. WriterPlace(wr') /\ (Publishing' => wr'.n \in 1 .. Size)
        BY <2>3, WriterKeepsPlace
      <3> QED  BY <2>1, <2>3, <3>1 DEF SpscTypes
    <2> QED  BY <1>1, <2>2, <2>3, OneSideMoves
  <1>2. CASE UNCHANGED vars
    BY <1>2 DEF vars, shared, totals, SpscTypes, SharedTypes, Publishing
  <1> QED  BY <1>1, <1>2

(* No interleaving of the two threads drives an index, a byte of a         *)
(* memcpy() or a decided count out of the buffer.                          *)
THEOREM TypeCorrect == Spec => []TypeOK
  <1>1. Init => SpscTypes
    BY TypesInit
  <1> QED  BY <1>1, TypesStep, TypesGiveTypeOK, PTL DEF Spec
-----------------------------------------------------------------------------
(***************************************************************************)
(* What the steps do to the stream in the buffer.                          *)
(***************************************************************************)

(* Distinct offsets of less than Size bytes are distinct slots.            *)
LEMMA WrapApart ==
  ASSUME NEW i \in Index, NEW m \in Count, NEW j \in Count,
         m < Size, j < Size, m # j
  PROVE  Wrap(i + m) # Wrap(i + j)
  BY DEF Wrap

(* What is left after a read is where the moved index points.              *)
LEMMA HeldAfterRead ==
  ASSUME NEW b, NEW r \in Index, NEW s \in Seq(Byte), Len(s) \in Count,
         NEW n \in 1 .. Len(s), Held(b, r, s)
  PROVE  /\ Held(b, Wrap(r + n), SubSeq(s, n + 1, Len(s)))
         /\ Wrap(Wrap(r + n) + (Len(s) - n)) = Wrap(r + Len(s))
  <1> DEFINE t == SubSeq(s, n + 1, Len(s))
  <1>1. Len(t) = Len(s) - n /\ \A k \in 1 .. Len(s) - n : t[k] = s[n + k]
    BY SubSeqBack
  <1> HIDE DEF t
  <1>2. ASSUME NEW k \in 1 .. Len(t)
        PROVE  b[Wrap(Wrap(r + n) + k - 1)] = t[k]
    <2>1. n + k \in 1 .. Len(s) /\ k \in 1 .. Len(s) - n
      BY <1>1
    <2>2. b[Wrap(r + (n + k) - 1)] = s[n + k]
      BY <2>1 DEF Held
    <2>3. Wrap(Wrap(r + n) + k - 1) = Wrap(r + (n + k) - 1)
      BY <2>1 DEF Wrap
    <2>4. t[k] = s[n + k]
      BY <1>1, <2>1
    <2> QED  BY <2>2, <2>3, <2>4
  <1>3. Wrap(Wrap(r + n) + (Len(s) - n)) = Wrap(r + Len(s))
    BY DEF Wrap
  <1> QED  BY <1>2, <1>3 DEF Held, t

(* Stored bytes are part of the stream once the index is published.        *)
LEMMA HeldAfterWrite ==
  ASSUME NEW b, NEW r \in Index, NEW s \in Seq(Byte), NEW t \in Seq(Byte),
         Len(s) + Len(t) <= Size, Held(b, r, s),
         Stored(b, Wrap(r + Len(s)), t, Len(t), {})
  PROVE  /\ Held(b, r, s \o t)
         /\ Wrap(Wrap(r + Len(s)) + Len(t)) = Wrap(r + Len(s \o t))
  <1>1. /\ Len(s \o t) = Len(s) + Len(t)
        /\ \A k \in 1 .. Len(s) : (s \o t)[k] = s[k]
        /\ \A k \in Len(s) + 1 .. Len(s) + Len(t) : (s \o t)[k] = t[k - Len(s)]
    BY ConcatBytes
  <1>2. Len(s) \in Nat /\ Len(t) \in Nat
    OBVIOUS
  <1>3. ASSUME NEW k \in 1 .. Len(s \o t)
        PROVE  b[Wrap(r + k - 1)] = (s \o t)[k]
    <2>1. CASE k <= Len(s)
      <3>1. k \in 1 .. Len(s)
        BY <1>2, <2>1
      <3>2. (s \o t)[k] = s[k]
        BY <1>1, <3>1
      <3> QED  BY <3>1, <3>2 DEF Held
    <2>2. CASE k > Len(s)
      <3> DEFINE j == k - Len(s)
      <3>1. j \in 1 .. Len(t) /\ k \in Len(s) + 1 .. Len(s) + Len(t)
        BY <1>1, <1>2, <2>2
      <3>2. (s \o t)[k] = t[j]
        BY <1>1, <3>1
      <3>3. Wrap(Wrap(r + Len(s)) + j - 1) = Wrap(r + k - 1)
        BY <1>2, <3>1 DEF Wrap
      <3> HIDE DEF j
      <3>4. b[Wrap(Wrap(r + Len(s)) + j - 1)] = t[j]
        BY <3>1 DEF Stored
      <3> QED  BY <3>2, <3>3, <3>4
    <2> QED  BY <1>2, <2>1, <2>2
  <1>4. Wrap(Wrap(r + Len(s)) + Len(t)) = Wrap(r + Len(s \o t))
    BY <1>1, <1>2 DEF Wrap
  <1> QED  BY <1>3, <1>4 DEF Held

(* A byte stored in the free space leaves the stream and the bytes stored  *)
(* before alone.                                                           *)
LEMMA HeldAfterStore ==
  ASSUME NEW b \in [Index -> Byte], NEW r \in Index,
         NEW s \in Seq(Byte), NEW source, NEW n \in 1 .. Size,
         NEW todo, NEW k \in 0 .. n - 1,
         Len(s) + n <= Size, Held(b, r, s),
         Stored(b, Wrap(r + Len(s)), source, n, todo)
  PROVE  LET c == [b EXCEPT ![Wrap(Wrap(r + Len(s)) + k)] = source[k + 1]]
         IN  /\ Held(c, r, s)
             /\ Stored(c, Wrap(r + Len(s)), source, n, todo \ {k})
  <1> DEFINE w == Wrap(r + Len(s))
             slot == Wrap(w + k)
             c == [b EXCEPT ![slot] = source[k + 1]]
  <1>1. Len(s) \in Nat /\ w \in Index /\ slot \in Index
    BY DEF Wrap
  <1>2. slot = Wrap(r + (Len(s) + k))
    BY <1>1 DEF Wrap
  <1>3. \A i \in Index : c[i] = IF i = slot THEN source[k + 1] ELSE b[i]
    BY <1>1
  <1>4. ASSUME NEW j \in 1 .. Len(s)
        PROVE  c[Wrap(r + j - 1)] = s[j]
    <2> DEFINE i == Wrap(r + (j - 1))
    <2>1. i # slot
      <3>1. j - 1 \in Count /\ j - 1 < Size /\ Len(s) + k \in Count
            /\ Len(s) + k < Size /\ j - 1 # Len(s) + k
        BY <1>1
      <3> QED  BY <1>2, <3>1, WrapApart
    <2>2. i \in Index /\ r + j - 1 = r + (j - 1)
      BY <1>1 DEF Wrap
    <2>3. b[i] = s[j]
      BY <2>2 DEF Held
    <2> HIDE DEF slot, c
    <2> QED  BY <1>3, <2>1, <2>2, <2>3
  <1>5. ASSUME NEW j \in 1 .. n, j - 1 \notin todo \ {k}
        PROVE  c[Wrap(w + j - 1)] = source[j]
    <2> DEFINE i == Wrap(w + (j - 1))
    <2>1. i \in Index /\ w + j - 1 = w + (j - 1)
      BY <1>1 DEF Wrap
    <2>2. CASE j - 1 = k
      <3>1. i = slot /\ j = k + 1
        BY <1>1, <2>2
      <3> HIDE DEF slot, c
      <3> QED  BY <1>3, <2>1, <3>1
    <2>3. CASE j - 1 # k
      <3>1. j - 1 \in Count /\ j - 1 < Size /\ k \in Count /\ k < Size
        BY <2>3
      <3>2. i # slot
        BY <1>1, <2>3, <3>1, WrapApart
      <3>3. b[i] = source[j]
        BY <1>5, <2>1, <2>3 DEF Stored
      <3> HIDE DEF slot, c
      <3> QED  BY <1>3, <2>1, <3>2, <3>3
    <2> QED  BY <2>2, <2>3
  <1> QED  BY <1>4, <1>5 DEF Held, Stored
-----------------------------------------------------------------------------
(***************************************************************************)
(* The stream is held while the flag has misled nobody.                    *)
(***************************************************************************)

(* Unequal indices tell both sides the truth.                              *)
LEMMA TrueCounts ==
  ASSUME SpscTypes, StreamHeld, read_index # write_index
  PROVE  /\ rb_can_read(read_index, write_index, FALSE) = Len(stream)
         /\ rb_can_write(read_index, write_index, FALSE) = Size - Len(stream)
         /\ Len(stream) \in 1 .. Size - 1
  <1>1. /\ read_index \in Index /\ Len(stream) \in Count /\ FALSE \in BOOLEAN
        /\ write_index = Wrap(read_index + Len(stream))
    BY DEF SpscTypes, SharedTypes, StreamHeld
  <1> QED  BY <1>1, UnequalIndices

LEMMA ReaderSideHeld ==
  ASSUME StreamHeld, UNCHANGED <<shared, wr, stream, intact>>, ReaderServed'
  PROVE  StreamHeld'
  BY DEF StreamHeld, shared, Held, WriterServed, WriterStored, Stored, Publishing

LEMMA WriterSideHeld ==
  ASSUME StreamHeld, UNCHANGED <<shared, rd, stream, intact>>,
         WriterServed', WriterStored'
  PROVE  StreamHeld'
  BY DEF StreamHeld, shared, Held, ReaderServed

(* The reader goes on with no more than the stream holds.                  *)
LEMMA ReaderLoadsHeld ==
  ASSUME SpscTypes, StreamHeld, NEW op \in Ops, NEW count \in Nat \ {0},
         ReaderLoadsIndex(op, count), UNCHANGED <<shared, wr, stream, intact>>
  PROVE  StreamHeld'
  <1>1. read_index \in Index /\ write_index \in Index
    BY DEF SpscTypes, SharedTypes
  <1>2. /\ rd'.pc \in {"idle", "load_flag", "advance", "copy", "store_index"}
        /\ rd'.pc \in {"advance", "copy", "store_index"}
              => /\ read_index # write_index
                 /\ rd'.n <= rb_can_read(read_index, write_index, FALSE)
    BY <1>1, ReaderLoadsPlace
  <1>3. rd'.pc \in {"copy", "store_index"} => rd'.n <= Len(stream)
    BY <1>2, TrueCounts
  <1>4. ReaderServed'
    BY <1>3 DEF ReaderServed
  <1> QED  BY <1>4, ReaderSideHeld

(* The writer goes on with no more than the free space; bytes it has       *)
(* stored already stay its bytes.                                          *)
LEMMA WriterLoadsHeld ==
  ASSUME SpscTypes, StreamHeld, NEW op \in Ops,
         NEW source \in Seq(Byte), Len(source) # 0,
         op = "rb_advance_write_index"
           => Stored(buf, write_index, source, Len(source), {}),
         WriterLoadsIndex(op, source), UNCHANGED <<shared, rd, stream, intact>>
  PROVE  StreamHeld'
  <1>1. read_index \in Index /\ write_index \in Index /\ Len(stream) \in Count
    BY DEF SpscTypes, SharedTypes
  <1>2. /\ WriterPlace(wr')
        /\ wr'.pc \in {"idle", "load_flag", "copy", "store_index"}
        /\ wr'.pc = "load_flag"
              => wr'.op = op /\ wr'.n = Len(source) /\ wr'.source = source
        /\ wr'.pc \in {"copy", "store_index"}
              => /\ read_index # write_index
                 /\ wr'.n <= rb_can_write(read_index, write_index, FALSE)
        /\ wr'.pc = "copy" => wr'.todo = 0 .. wr'.n - 1
        /\ wr'.pc = "store_index"
              => /\ op = "rb_advance_write_index"
                 /\ wr'.n <= Len(source)
                 /\ \A k \in 1 .. wr'.n : wr'.source[k] = source[k]
    BY <1>1, WriterLoadsPlace
  <1>3. wr'.pc \in {"copy", "store_index"} => wr'.n \in 1 .. Size
    BY <1>2 DEF WriterPlace
  <1>4. wr'.pc \in {"copy", "store_index"} => Len(stream) + wr'.n <= Size
    <2> SUFFICES ASSUME wr'.pc \in {"copy", "store_index"}
                 PROVE  Len(stream) + wr'.n <= Size
      OBVIOUS
    <2>1. rb_can_write(read_index, write_index, FALSE) = Size - Len(stream)
      BY <1>2, TrueCounts
    <2>2. wr'.n <= Size - Len(stream) /\ wr'.n \in 1 .. Size
      BY <1>2, <1>3, <2>1
    <2> QED  BY <1>1, <2>2
  <1>5. WriterServed'
    BY <1>4 DEF WriterServed
  <1>6. WriterStored'
    <2>1. CASE wr'.pc = "copy"
      BY <1>2, <1>3, <2>1 DEF WriterStored, Stored
    <2>2. CASE wr'.pc = "store_index"
      <3>1. /\ \A k \in 1 .. wr'.n : wr'.source[k] = source[k]
            /\ Stored(buf, write_index, source, Len(source), {})
            /\ wr'.n \in 1 .. Len(source)
        BY <1>2, <1>3, <2>2
      <3>2. \A k \in 1 .. wr'.n : buf[Wrap(write_index + k - 1)] = wr'.source[k]
        BY <3>1 DEF Stored
      <3> QED  BY <3>2 DEF WriterStored, Stored, shared
    <2>3. CASE wr'.pc = "load_flag" /\ op = "rb_advance_write_index"
      <3>1. /\ wr'.n = Len(source) /\ wr'.source = source
            /\ Stored(buf, write_index, source, Len(source), {})
        BY <1>2, <2>3
      <3>2. \A k \in 1 .. wr'.n : buf[Wrap(write_index + k - 1)] = wr'.source[k]
        BY <3>1 DEF Stored
      <3> QED  BY <3>2 DEF WriterStored, Stored, shared
    <2>4. CASE \/ wr'.pc = "idle"
               \/ wr'.pc = "load_flag" /\ op # "rb_advance_write_index"
      BY <1>2, <2>4 DEF WriterStored, Publishing
    <2> QED  BY <1>2, <2>1, <2>2, <2>3, <2>4
  <1> QED  BY <1>5, <1>6, WriterSideHeld

(* Every step of the reader keeps the stream.                              *)
LEMMA ReaderKeepsHeld ==
  ASSUME SpscTypes, StreamHeld, Reader, ~misled'
  PROVE  StreamHeld'
  <1>1. /\ ReaderPlace(rd) /\ read_index \in Index /\ write_index \in Index
        /\ rd.pc \in PCs /\ rd.op \in Ops /\ rd.n \in Nat
        /\ stream \in Seq(Byte) /\ Len(stream) \in Count
    BY ReaderFields DEF SpscTypes, SharedTypes
  <1>2. CASE reader_call
    <2>1. PICK op \in ReaderOps, count \in 1 .. MaxCount :
            ReaderLoadsIndex(op, count)
      BY <1>2 DEF reader_call
    <2>2. /\ op \in Ops /\ count \in Nat \ {0}
          /\ UNCHANGED <<shared, wr, stream, intact>>
      BY <1>2, MaxCountAssumption DEF reader_call, Ops
    <2> QED  BY <2>1, <2>2, ReaderLoadsHeld
  <1>3. CASE reader_loads_flag
    <2> DEFINE can == IF last_was_write THEN Size ELSE 0
    <2>1. can \in Count /\ rd.n \in Nat \ {0}
      BY <1>1, <1>3 DEF reader_loads_flag, ReaderPlace
    <2>2. /\ ReaderServes(rd.op, rd.n, can)
          /\ UNCHANGED <<shared, wr, stream, intact>>
          /\ misled' = (misled \/ (intact /\ can > Len(stream)))
      BY <1>3 DEF reader_loads_flag
    <2> HIDE DEF can
    <2>3. ~(can > Len(stream))
      BY <2>2 DEF StreamHeld
    <2>4. /\ rd'.pc \in {"idle", "advance", "copy", "store_index"}
          /\ rd'.pc # "idle" => rd'.n \in 1 .. can
      BY <1>1, <2>1, <2>2, ReaderServesPlace
    <2>5. rd'.pc \in {"copy", "store_index"} => rd'.n <= Len(stream)
      BY <1>1, <2>1, <2>3, <2>4
    <2>6. ReaderServed'
      BY <2>2, <2>5 DEF ReaderServed
    <2> QED  BY <2>2, <2>6, ReaderSideHeld
  <1>4. CASE reader_copies
    <2>1. PICK k \in rd.todo :
            /\ rd' = IF rd.todo \ {k} # {}
                       THEN ReaderAt("copy", rd.op, rd.n, rd.todo \ {k})
                       ELSE CASE rd.op = "rb_read" ->
                                   ReaderAt("store_index", rd.op, rd.n, {})
                              [] rd.op = "rb_peek" -> IdleReader
                              [] OTHER -> ReaderAt("advance", rd.op, rd.n, {})
            /\ Follow(/\ k < Len(stream)
                      /\ buf[(read_index + k) % Size] = stream[k + 1], stream)
      BY <1>4 DEF reader_copies
    <2>2. /\ k \in 0 .. rd.n - 1 /\ rd.n \in 1 .. Size
          /\ rd.n <= Len(stream) /\ intact
      BY <1>1, <1>4 DEF reader_copies, ReaderPlace, StreamHeld, ReaderServed
    <2>3. (read_index + k) % Size = Wrap(read_index + k)
      <3>1. read_index + k \in 0 .. 2 * Size - 1
        BY <1>1, <2>2
      <3> QED  BY <3>1, ModIsWrap
    <2>4. k < Len(stream) /\ buf[(read_index + k) % Size] = stream[k + 1]
      <3>1. /\ k + 1 \in 1 .. Len(stream)
            /\ read_index + (k + 1) - 1 = read_index + k
        BY <1>1, <2>2
      <3>2. buf[Wrap(read_index + (k + 1) - 1)] = stream[k + 1]
        BY <3>1 DEF StreamHeld, Held
      <3> QED  BY <1>1, <2>2, <2>3, <3>1, <3>2
    <2>5. intact' = intact /\ stream' = stream
      BY <2>1, <2>2, <2>4 DEF Follow
    <2>6. \/ rd'.pc \in {"idle", "advance"}
          \/ rd'.n = rd.n
      BY <2>1, Zenon DEF ReaderAt, IdleReader
    <2>7. ReaderServed'
      BY <1>1, <2>2, <2>5, <2>6 DEF ReaderServed
    <2> QED  BY <1>4, <2>5, <2>7, ReaderSideHeld DEF reader_copies
  <1>5. CASE reader_advances
    <2>1. /\ ReaderLoadsIndex("rb_advance_read_index", rd.n)
          /\ UNCHANGED <<shared, wr, stream, intact>>
      BY <1>5 DEF reader_advances
    <2>2. "rb_advance_read_index" \in Ops /\ rd.n \in Nat \ {0}
      BY <1>1, <1>5 DEF reader_advances, ReaderPlace, Ops
    <2> QED  BY <2>1, <2>2, ReaderLoadsHeld
  <1>6. CASE reader_stores_index
    <2> DEFINE left == SubSeq(stream, rd.n + 1, Len(stream))
    <2>1. /\ rd.n \in 1 .. Len(stream) /\ intact
          /\ Follow(rd.n <= Len(stream), left)
          /\ UNCHANGED <<write_index, buf, wr>>
      BY <1>1, <1>6 DEF reader_stores_index, ReaderPlace, StreamHeld, ReaderServed
    <2>2. left \in Seq(Byte) /\ Len(left) = Len(stream) - rd.n
      BY <1>1, <2>1, SubSeqBack
    <2> HIDE DEF left
    <2>3. intact' /\ stream' = left
      <3>1. rd.n <= Len(stream)
        BY <1>1, <2>1
      <3> QED  BY <2>1, <3>1, FollowsOn
    <2>4. /\ Held(buf, read_index, stream)
          /\ write_index = Wrap(read_index + Len(stream))
      BY DEF StreamHeld
    <2>5. /\ Held(buf, Wrap(read_index + rd.n), left)
          /\ Wrap(Wrap(read_index + rd.n) + (Len(stream) - rd.n))
               = Wrap(read_index + Len(stream))
      BY <1>1, <2>1, <2>4, HeldAfterRead DEF left
    <2>6. read_index' = Wrap(read_index + rd.n)
      BY <1>6, ReaderMoves
    <2>7. write_index' = Wrap(read_index' + Len(stream'))
      BY <2>1, <2>2, <2>3, <2>4, <2>5, <2>6
    <2>8. Held(buf, read_index, stream)'
      <3>1. \A k \in 1 .. Len(left) : buf[Wrap(read_index' + k - 1)] = left[k]
        BY <2>5, <2>6 DEF Held
      <3> QED  BY <2>1, <2>3, <3>1 DEF Held
    <2>9. ReaderServed'
      <3>1. rd'.pc = "clear_flag"
        BY <1>6 DEF reader_stores_index, ReaderAt
      <3> QED  BY <3>1 DEF ReaderServed
    <2>10. WriterServed'
      <3>1. WriterServed /\ wr.n \in Nat
        BY WriterFields DEF StreamHeld, SpscTypes
      <3> QED  BY <1>1, <2>1, <2>2, <2>3, <3>1 DEF WriterServed
    <2>11. WriterStored'
      <3>1. WriterStored
        BY DEF StreamHeld
      <3> QED  BY <2>1, <3>1 DEF WriterStored, Stored, Publishing
    <2> QED  BY <2>3, <2>7, <2>8, <2>9, <2>10, <2>11 DEF StreamHeld
  <1>7. CASE reader_clears_flag
    <2>1. rd'.pc = "idle"
      BY <1>7 DEF reader_clears_flag, IdleReader, ReaderAt
    <2> QED
      BY <1>7, <2>1 DEF reader_clears_flag, StreamHeld, Held, ReaderServed,
                        WriterServed, WriterStored, Stored, Publishing
  <1> QED  BY <1>2, <1>3, <1>4, <1>5, <1>6, <1>7 DEF Reader

(* Every step of the writer keeps the stream.                              *)
LEMMA WriterKeepsHeld ==
  ASSUME SpscTypes, StreamHeld, Writer, ~misled'
  PROVE  StreamHeld'
  <1>1. /\ WriterPlace(wr) /\ read_index \in Index /\ write_index \in Index
        /\ wr.pc \in PCs /\ wr.op \in Ops /\ wr.n \in Nat
        /\ wr.source \in Seq(Byte) /\ buf \in [Index -> Byte]
        /\ stream \in Seq(Byte) /\ Len(stream) \in Count
        /\ write_index = Wrap(read_index + Len(stream))
        /\ Held(buf, read_index, stream) /\ intact
    BY WriterFields DEF SpscTypes, SharedTypes, StreamHeld
  <1>2. CASE writer_call
    <2>1. PICK op \in WriterOps, count \in 1 .. MaxCount :
            \E source \in [1 .. count -> Byte] : WriterLoadsIndex(op, source)
      BY <1>2 DEF writer_call
    <2>2. PICK source \in [1 .. count -> Byte] : WriterLoadsIndex(op, source)
      BY <2>1
    <2>3. /\ op \in Ops /\ op # "rb_advance_write_index"
          /\ source \in Seq(Byte) /\ Len(source) # 0
      BY MaxCountAssumption, OpsAssumption DEF Ops
    <2>4. UNCHANGED <<shared, rd, stream, intact>>
      BY <1>2 DEF writer_call
    <2> QED  BY <2>2, <2>3, <2>4, WriterLoadsHeld
  <1>3. CASE writer_loads_flag
    <2> DEFINE can == IF last_was_write THEN 0 ELSE Size
    <2>1. /\ can \in Count /\ wr.source \in Seq(Byte) /\ Len(wr.source) # 0
          /\ Len(wr.source) = wr.n /\ wr.pc = "load_flag"
          /\ wr.todo = {}
      BY <1>1, <1>3 DEF writer_loads_flag, WriterPlace
    <2>2. /\ WriterServes(wr.op, wr.source, can)
          /\ UNCHANGED <<shared, rd, stream, intact>>
          /\ misled' = (misled \/ (intact /\ can > Size - Len(stream)))
      BY <1>3 DEF writer_loads_flag
    <2> HIDE DEF can
    <2>3. ~(can > Size - Len(stream))
      BY <1>1, <2>2
    <2>4. /\ wr'.pc \in {"idle", "copy", "store_index"}
          /\ wr'.pc # "idle" => wr'.n \in 1 .. can
          /\ wr'.pc = "copy" => wr'.todo = 0 .. wr'.n - 1
          /\ wr'.pc = "store_index"
               => /\ wr.op = "rb_advance_write_index"
                  /\ wr'.n <= Len(wr.source)
                  /\ \A k \in 1 .. wr'.n : wr'.source[k] = wr.source[k]
      BY <1>1, <2>1, <2>2, WriterServesPlace
    <2>5. wr'.pc \in {"copy", "store_index"} => Len(stream) + wr'.n <= Size
      BY <1>1, <2>1, <2>3, <2>4
    <2>6. WriterServed'
      BY <2>2, <2>5 DEF WriterServed
    <2>7. WriterStored'
      <3>1. CASE wr'.pc = "copy"
        BY <2>1, <2>4, <3>1 DEF WriterStored, Stored
      <3>2. CASE wr'.pc = "store_index"
        <4>1. /\ \A k \in 1 .. wr'.n : wr'.source[k] = wr.source[k]
              /\ wr'.n \in 1 .. wr.n
          BY <2>1, <2>4, <3>2
        <4>2. Stored(buf, write_index, wr.source, wr.n, {})
          BY <2>1, <2>4, <3>2 DEF StreamHeld, WriterStored, Publishing
        <4>3. \A k \in 1 .. wr'.n :
                 buf[Wrap(write_index + k - 1)] = wr'.source[k]
          BY <1>1, <4>1, <4>2 DEF Stored
        <4> QED  BY <2>2, <4>3 DEF WriterStored, Stored, shared
      <3>3. CASE wr'.pc = "idle"
        BY <3>3 DEF WriterStored, Publishing
      <3> QED  BY <2>4, <3>1, <3>2, <3>3
    <2> QED  BY <2>2, <2>6, <2>7, WriterSideHeld
  <1>4. CASE writer_copies
    <2>1. PICK k \in wr.todo :
            /\ buf' = [buf EXCEPT ![(write_index + k) % Size]
                                    = wr.source[k + 1]]
            /\ wr' = WriterAt(IF wr.todo \ {k} # {} THEN "copy"
                                ELSE IF wr.op = "rb_write" THEN "store_index"
                                ELSE "advance",
                              wr.op, wr.n, wr.todo \ {k}, wr.source)
      BY <1>4 DEF writer_copies
    <2>2. /\ k \in 0 .. wr.n - 1 /\ wr.n \in 1 .. Size
          /\ Len(stream) + wr.n <= Size
          /\ Stored(buf, write_index, wr.source, wr.n, wr.todo)
      BY <1>1, <1>4 DEF writer_copies, WriterPlace, StreamHeld, WriterServed,
                        WriterStored
    <2>3. (write_index + k) % Size = Wrap(write_index + k)
      <3>1. write_index + k \in 0 .. 2 * Size - 1
        BY <1>1, <2>2
      <3> QED  BY <3>1, ModIsWrap
    <2>4. buf' = [buf EXCEPT ![Wrap(Wrap(read_index + Len(stream)) + k)]
                               = wr.source[k + 1]]
      BY <1>1, <2>1, <2>3, Zenon
    <2>5. Stored(buf, Wrap(read_index + Len(stream)), wr.source, wr.n, wr.todo)
      BY <1>1, <2>2, Zenon
    <2>6. /\ Held(buf', read_index, stream)
          /\ Stored(buf', Wrap(read_index + Len(stream)), wr.source, wr.n,
                    wr.todo \ {k})
      BY <1>1, <2>2, <2>4, <2>5, HeldAfterStore
    <2>7. /\ wr'.n = wr.n /\ wr'.source = wr.source
          /\ wr'.todo = wr.todo \ {k}
      BY <2>1, Zenon DEF WriterAt
    <2>8. UNCHANGED <<read_index, write_index, rd, stream, intact>>
      BY <1>4 DEF writer_copies
    <2>9. WriterServed'
      BY <2>2, <2>7, <2>8 DEF WriterServed
    <2>10. WriterStored'
      <3>1. Stored(buf', write_index, wr.source, wr.n, wr.todo \ {k})
        BY <1>1, <2>6, Zenon
      <3>2. \A j \in 1 .. wr.n : j - 1 \notin wr.todo \ {k}
                => buf'[Wrap(write_index + j - 1)] = wr.source[j]
        BY <3>1 DEF Stored
      <3> QED  BY <2>7, <2>8, <3>2 DEF WriterStored, Stored
    <2>11. Held(buf, read_index, stream)'
      BY <2>6, <2>8 DEF Held
    <2>12. write_index' = Wrap(read_index' + Len(stream'))
      BY <1>1, <2>8
    <2>13. ReaderServed'
      BY <2>8 DEF StreamHeld, ReaderServed
    <2> QED  BY <1>1, <2>8, <2>9, <2>10, <2>11, <2>12, <2>13 DEF StreamHeld
  <1>5. CASE writer_advances
    <2>1. /\ WriterLoadsIndex("rb_advance_write_index", wr.source)
          /\ UNCHANGED <<shared, rd, stream, intact>>
          /\ wr.pc = "advance"
      BY <1>5 DEF writer_advances
    <2>2. /\ "rb_advance_write_index" \in Ops /\ Len(wr.source) # 0
          /\ Len(wr.source) = wr.n /\ wr.todo = {}
      BY <1>1, <2>1 DEF WriterPlace, Ops
    <2>3. Stored(buf, write_index, wr.source, Len(wr.source), {})
      BY <2>1, <2>2 DEF StreamHeld, WriterStored, Publishing
    <2> QED  BY <1>1, <2>1, <2>2, <2>3, WriterLoadsHeld
  <1>6. CASE writer_stores_index
    <2> DEFINE grown == stream \o wr.source
    <2>1. /\ wr.n \in 1 .. Size /\ Len(wr.source) = wr.n /\ wr.todo = {}
          /\ Len(stream) + wr.n <= Size
          /\ Stored(buf, write_index, wr.source, wr.n, wr.todo)
          /\ Follow(Len(stream) + wr.n <= Size, grown)
          /\ UNCHANGED <<read_index, buf, rd>>
      BY <1>1, <1>6 DEF writer_stores_index, WriterPlace, StreamHeld,
                        WriterServed, WriterStored, Publishing
    <2>2. intact' /\ stream' = grown
      BY <1>1, <2>1, FollowsOn
    <2>3. Stored(buf, Wrap(read_index + Len(stream)), wr.source,
                 Len(wr.source), {})
      BY <1>1, <2>1, Zenon
    <2>4. /\ Held(buf, read_index, grown)
          /\ Wrap(Wrap(read_index + Len(stream)) + Len(wr.source))
               = Wrap(read_index + Len(grown))
      <3>1. Len(stream) + Len(wr.source) <= Size
        BY <2>1
      <3> HIDE DEF grown
      <3>2. /\ Held(buf, read_index, stream \o wr.source)
            /\ Wrap(Wrap(read_index + Len(stream)) + Len(wr.source))
                 = Wrap(read_index + Len(stream \o wr.source))
        <4>1. Held(buf, read_index, stream)
          BY <1>1
        <4>2. /\ read_index \in Index /\ stream \in Seq(Byte)
              /\ wr.source \in Seq(Byte)
          BY <1>1
        <4> QED  BY <2>3, <3>1, <4>1, <4>2, HeldAfterWrite, SMTT(60)
      <3> QED  BY <3>2, Zenon DEF grown
    <2>5. Len(grown) = Len(stream) + wr.n
      BY <1>1, <2>1, ConcatBytes
    <2> HIDE DEF grown
    <2>6. write_index' = Wrap(write_index + wr.n)
      BY <1>6, WriterMoves
    <2>7. write_index' = Wrap(read_index' + Len(stream'))
      BY <1>1, <2>1, <2>2, <2>4, <2>6
    <2>8. Held(buf, read_index, stream)'
      BY <2>1, <2>2, <2>4 DEF Held
    <2>9. ReaderServed'
      <3>1. ReaderServed /\ rd.n \in Nat
        BY ReaderFields DEF StreamHeld, SpscTypes
      <3> QED  BY <1>1, <2>1, <2>2, <2>5, <3>1 DEF ReaderServed
    <2>10. wr'.pc = "set_flag"
      BY <1>6 DEF writer_stores_index, WriterAt
    <2>11. WriterServed' /\ WriterStored'
      BY <2>10 DEF WriterServed, WriterStored, Publishing
    <2> QED  BY <2>2, <2>7, <2>8, <2>9, <2>11 DEF StreamHeld
  <1>7. CASE writer_sets_flag
    <2>1. wr'.pc = "idle"
      BY <1>7 DEF writer_sets_flag, IdleWriter, WriterAt
    <2> QED
      BY <1>7, <2>1 DEF writer_sets_flag, StreamHeld, Held, ReaderServed,
                        WriterServed, WriterStored, Publishing
  <1> QED  BY <1>2, <1>3, <1>4, <1>5, <1>6, <1>7 DEF Writer

(* The flag that has misled a call has done so for good.                   *)
LEMMA MisledStays == Next /\ misled => misled'
  BY DEF Next, Reader, Writer, reader_call, reader_loads_flag, reader_copies,
         reader_advances, reader_stores_index, reader_clears_flag,
         writer_call, writer_loads_flag, writer_copies,
         writer_advances, writer_stores_index, writer_sets_flag

LEMMA InvInit == Init => SpscInv
  <1> SUFFICES ASSUME Init PROVE SpscInv
    OBVIOUS
  <1>1. SpscTypes /\ rd.pc = "idle" /\ wr.pc = "idle"
    BY TypesInit DEF IdleReader, IdleWriter, ReaderAt, WriterAt
  <1>2. stream = <<>> /\ intact /\ write_index = 0 /\ read_index = 0
    BY DEF Init
  <1>3. write_index = Wrap(read_index + Len(stream))
    BY <1>2 DEF Wrap
  <1>4. Held(buf, read_index, stream)
    BY <1>2 DEF Held
  <1>5. ReaderServed /\ WriterServed /\ WriterStored
    BY <1>1 DEF ReaderServed, WriterServed, WriterStored, Publishing
  <1> QED  BY <1>1, <1>2, <1>3, <1>4, <1>5 DEF SpscInv, StreamHeld

LEMMA InvStep == SpscInv /\ [Next]_vars => SpscInv'
  <1> SUFFICES ASSUME SpscInv, [Next]_vars PROVE SpscInv'
    OBVIOUS
  <1>1. SpscTypes'
    BY TypesStep DEF SpscInv
  <1>2. CASE Next
    <2>1. ASSUME ~misled' PROVE StreamHeld'
      <3>1. SpscTypes /\ StreamHeld
        BY <1>2, <2>1, MisledStays DEF SpscInv
      <3> QED
        BY <1>2, <2>1, <3>1, ReaderKeepsHeld, WriterKeepsHeld DEF Next
    <2> QED  BY <1>1, <2>1 DEF SpscInv
  <1>3. CASE UNCHANGED vars
    BY <1>1, <1>3 DEF vars, shared, totals, SpscInv, StreamHeld, Held, ReaderServed,
                      WriterServed, WriterStored, Stored, Publishing
  <1> QED  BY <1>2, <1>3

(* The reader gets the bytes the writer put in, in order and unchanged, as *)
(* long as last_was_write has misled no call.                              *)
THEOREM IntactWhileTrue == Spec => []IntactUnlessMisled
  <1>1. SpscInv => IntactUnlessMisled
    BY DEF SpscInv, StreamHeld, IntactUnlessMisled
  <1> QED  BY <1>1, InvInit, InvStep, PTL DEF Spec
-----------------------------------------------------------------------------
(***************************************************************************)
(* Calls that do not overlap.                                              *)
(***************************************************************************)

(* A stream that is still intact has been followed.                        *)
LEMMA Followed ==
  ASSUME NEW ok, NEW next_stream, Follow(ok, next_stream), intact'
  PROVE  stream' = next_stream
  BY Zenon DEF Follow

(* A reader whose calls meet none of the writer's is told the truth, and   *)
(* leaves the flag true.                                                   *)
LEMMA ReaderAlone ==
  ASSUME SpscInv, Alone, Reader, wr.pc = "idle", wr' = wr
  PROVE  Alone'
  <1>1. /\ SpscTypes /\ StreamHeld /\ ~misled /\ FlagTrue
        /\ ReaderPlace(rd) /\ read_index \in Index /\ write_index \in Index
        /\ rd.pc \in PCs /\ rd.op \in Ops /\ rd.n \in Nat
        /\ stream \in Seq(Byte) /\ Len(stream) \in Count
        /\ wr.pc = "idle" /\ wr'.pc = "idle"
    BY ReaderFields DEF SpscInv, Alone, SpscTypes, SharedTypes
  <1>2. CASE reader_call \/ reader_advances
    <2>1. PICK op \in Ops, count \in Nat \ {0} : ReaderLoadsIndex(op, count)
      <3>1. CASE reader_call
        <4>1. PICK op \in ReaderOps, count \in 1 .. MaxCount :
                ReaderLoadsIndex(op, count)
          BY <3>1 DEF reader_call
        <4>2. op \in Ops /\ count \in Nat \ {0}
          BY MaxCountAssumption DEF Ops
        <4> QED  BY <4>1, <4>2
      <3>2. CASE reader_advances
        <4>1. ReaderLoadsIndex("rb_advance_read_index", rd.n)
          BY <3>2 DEF reader_advances
        <4>2. "rb_advance_read_index" \in Ops /\ rd.n \in Nat \ {0}
          BY <1>1, <3>2 DEF reader_advances, ReaderPlace, Ops
        <4> QED  BY <4>1, <4>2
      <3> QED  BY <1>2, <3>1, <3>2
    <2>2. /\ rd'.pc \in {"idle", "load_flag", "advance", "copy", "store_index"}
          /\ rd'.pc = "load_flag" => read_index = write_index
      BY <1>1, <2>1, ReaderLoadsPlace
    <2>3. /\ UNCHANGED <<shared, stream, misled>>
          /\ rd.pc \in {"idle", "advance"}
      BY <1>2 DEF reader_call, reader_advances
    <2> QED  BY <1>1, <2>2, <2>3 DEF Alone, FlagTrue, shared
  <1>3. CASE reader_loads_flag
    <2> DEFINE can == IF last_was_write THEN Size ELSE 0
    <2>1. /\ can \in Count /\ rd.n \in Nat \ {0} /\ rd.pc = "load_flag"
      BY <1>1, <1>3 DEF reader_loads_flag, ReaderPlace
    <2>2. /\ ReaderServes(rd.op, rd.n, can)
          /\ UNCHANGED <<shared, wr, stream, intact>>
          /\ misled' = (misled \/ (intact /\ can > Len(stream)))
      BY <1>3 DEF reader_loads_flag
    <2>3. Len(stream) \in {0, Size}
      <3>1. Wrap(read_index + Len(stream)) = read_index
        BY <2>1 DEF StreamHeld, SpscInv, Alone
      <3> QED  BY <1>1, <3>1, EqualIndices
    <2>4. IF last_was_write THEN Len(stream) > 0 ELSE Len(stream) < Size
      BY <1>1, <2>1 DEF FlagTrue
    <2>5. ~(can > Len(stream))
      BY <1>1, <2>3, <2>4
    <2> HIDE DEF can
    <2>6. ~misled'
      BY <1>1, <2>2, <2>5
    <2>7. rd'.pc \in {"idle", "advance", "copy", "store_index"}
      BY <1>1, <2>1, <2>2, ReaderServesPlace
    <2> QED  BY <1>1, <2>2, <2>4, <2>6, <2>7 DEF Alone, FlagTrue, shared
  <1>4. CASE reader_copies
    <2>1. /\ ~misled' /\ UNCHANGED shared /\ rd.pc = "copy"
      BY <1>1, <1>4 DEF reader_copies
    <2>2. intact'
      BY <1>1, <1>4, <2>1, ReaderKeepsHeld DEF Reader, StreamHeld
    <2>3. PICK k \in rd.todo :
            /\ rd' = IF rd.todo \ {k} # {}
                       THEN ReaderAt("copy", rd.op, rd.n, rd.todo \ {k})
                       ELSE CASE rd.op = "rb_read" ->
                                   ReaderAt("store_index", rd.op, rd.n, {})
                              [] rd.op = "rb_peek" -> IdleReader
                              [] OTHER -> ReaderAt("advance", rd.op, rd.n, {})
            /\ Follow(/\ k < Len(stream)
                      /\ buf[(read_index + k) % Size] = stream[k + 1], stream)
      BY <1>4 DEF reader_copies
    <2>4. stream' = stream
      BY <2>2, <2>3, Followed
    <2>5. rd'.pc \in {"idle", "advance", "copy", "store_index"}
      BY <2>3, Zenon DEF ReaderAt, IdleReader
    <2> QED  BY <1>1, <2>1, <2>4, <2>5 DEF Alone, FlagTrue, shared
  <1>5. CASE reader_stores_index
    <2> DEFINE left == SubSeq(stream, rd.n + 1, Len(stream))
    <2>1. /\ ~misled' /\ Follow(rd.n <= Len(stream), left)
          /\ rd'.pc = "clear_flag"
          /\ rd.n \in 1 .. Len(stream)
      BY <1>1, <1>5 DEF reader_stores_index, ReaderAt, ReaderPlace, StreamHeld,
                        ReaderServed
    <2>2. intact'
      BY <1>1, <1>5, <2>1, ReaderKeepsHeld DEF Reader, StreamHeld
    <2>3. Len(left) = Len(stream) - rd.n
      BY <1>1, <2>1, SubSeqBack
    <2> HIDE DEF left
    <2>4. stream' = left
      BY <2>1, <2>2, Followed
    <2>5. Len(stream') < Size
      BY <1>1, <2>1, <2>3, <2>4
    <2> QED  BY <1>1, <2>1, <2>5 DEF Alone, FlagTrue
  <1>6. CASE reader_clears_flag
    <2>1. /\ rd'.pc = "idle" /\ last_was_write' = FALSE /\ rd.pc = "clear_flag"
          /\ UNCHANGED <<stream, misled>>
      BY <1>6 DEF reader_clears_flag, IdleReader, ReaderAt
    <2> QED  BY <1>1, <2>1 DEF Alone, FlagTrue
  <1> QED  BY <1>2, <1>3, <1>4, <1>5, <1>6 DEF Reader

(* The same for a writer.                                                  *)
LEMMA WriterAlone ==
  ASSUME SpscInv, Alone, Writer, rd.pc = "idle", rd' = rd
  PROVE  Alone'
  <1>1. /\ SpscTypes /\ StreamHeld /\ ~misled /\ FlagTrue
        /\ WriterPlace(wr) /\ read_index \in Index /\ write_index \in Index
        /\ wr.pc \in PCs /\ wr.op \in Ops /\ wr.n \in Nat
        /\ wr.source \in Seq(Byte)
        /\ stream \in Seq(Byte) /\ Len(stream) \in Count
        /\ rd.pc = "idle" /\ rd'.pc = "idle"
    BY WriterFields DEF SpscInv, Alone, SpscTypes, SharedTypes
  <1>2. CASE writer_call \/ writer_advances
    <2>1. PICK op \in Ops, source \in Seq(Byte) :
            Len(source) # 0 /\ WriterLoadsIndex(op, source)
      <3>1. CASE writer_call
        <4>1. PICK op \in WriterOps, count \in 1 .. MaxCount :
                \E source \in [1 .. count -> Byte] :
                   WriterLoadsIndex(op, source)
          BY <3>1 DEF writer_call
        <4>2. PICK source \in [1 .. count -> Byte] :
                WriterLoadsIndex(op, source)
          BY <4>1
        <4>3. op \in Ops /\ source \in Seq(Byte) /\ Len(source) # 0
          BY MaxCountAssumption DEF Ops
        <4> QED  BY <4>2, <4>3
      <3>2. CASE writer_advances
        <4>1. /\ WriterLoadsIndex("rb_advance_write_index", wr.source)
              /\ wr.pc = "advance"
          BY <3>2 DEF writer_advances
        <4>2. "rb_advance_write_index" \in Ops /\ Len(wr.source) # 0
          BY <1>1, <4>1 DEF WriterPlace, Ops
        <4> QED  BY <1>1, <4>1, <4>2
      <3> QED  BY <1>2, <3>1, <3>2
    <2>2. /\ wr'.pc \in {"idle", "load_flag", "copy", "store_index"}
          /\ wr'.pc = "load_flag" => read_index = write_index
      BY <1>1, <2>1, WriterLoadsPlace
    <2>3. /\ UNCHANGED <<shared, stream, misled>>
          /\ wr.pc \in {"idle", "advance"}
      BY <1>2 DEF writer_call, writer_advances
    <2> QED  BY <1>1, <2>2, <2>3 DEF Alone, FlagTrue, shared
  <1>3. CASE writer_loads_flag
    <2> DEFINE can == IF last_was_write THEN 0 ELSE Size
    <2>1. /\ can \in Count /\ Len(wr.source) # 0 /\ wr.pc = "load_flag"
      BY <1>1, <1>3 DEF writer_loads_flag, WriterPlace
    <2>2. /\ WriterServes(wr.op, wr.source, can)
          /\ UNCHANGED <<shared, rd, stream, intact>>
          /\ misled' = (misled \/ (intact /\ can > Size - Len(stream)))
      BY <1>3 DEF writer_loads_flag
    <2>3. Len(stream) \in {0, Size}
      <3>1. Wrap(read_index + Len(stream)) = read_index
        BY <2>1 DEF StreamHeld, SpscInv, Alone
      <3> QED  BY <1>1, <3>1, EqualIndices
    <2>4. IF last_was_write THEN Len(stream) > 0 ELSE Len(stream) < Size
      BY <1>1, <2>1 DEF FlagTrue
    <2>5. ~(can > Size - Len(stream))
      BY <1>1, <2>3, <2>4
    <2> HIDE DEF can
    <2>6. ~misled'
      BY <1>1, <2>2, <2>5
    <2>7. wr'.pc \in {"idle", "copy", "store_index"}
      BY <1>1, <2>1, <2>2, WriterServesPlace
    <2> QED  BY <1>1, <2>2, <2>4, <2>6, <2>7 DEF Alone, FlagTrue, shared
  <1>4. CASE writer_copies
    <2>1. PICK k \in wr.todo :
            wr' = WriterAt(IF wr.todo \ {k} # {} THEN "copy"
                             ELSE IF wr.op = "rb_write" THEN "store_index"
                             ELSE "advance",
                           wr.op, wr.n, wr.todo \ {k}, wr.source)
      BY <1>4 DEF writer_copies
    <2>2. wr'.pc \in {"copy", "store_index", "advance"}
      BY <2>1, Zenon DEF WriterAt
    <2>3. /\ UNCHANGED <<read_index, write_index, last_was_write, stream, misled>>
          /\ wr.pc = "copy"
      BY <1>4 DEF writer_copies
    <2> QED  BY <1>1, <2>2, <2>3 DEF Alone, FlagTrue
  <1>5. CASE writer_stores_index
    <2> DEFINE grown == stream \o wr.source
    <2>1. /\ ~misled' /\ Follow(Len(stream) + wr.n <= Size, grown)
          /\ wr'.pc = "set_flag"
          /\ Len(wr.source) \in 1 .. Size
      BY <1>1, <1>5 DEF writer_stores_index, WriterAt, WriterPlace
    <2>2. intact'
      BY <1>1, <1>5, <2>1, WriterKeepsHeld DEF Writer, StreamHeld
    <2>3. Len(grown) = Len(stream) + Len(wr.source)
      BY <1>1, ConcatBytes
    <2> HIDE DEF grown
    <2>4. stream' = grown
      BY <2>1, <2>2, Followed
    <2>5. Len(stream') > 0
      BY <1>1, <2>1, <2>3, <2>4
    <2> QED  BY <1>1, <2>1, <2>5 DEF Alone, FlagTrue
  <1>6. CASE writer_sets_flag
    <2>1. /\ wr'.pc = "idle" /\ last_was_write' = TRUE /\ wr.pc = "set_flag"
          /\ UNCHANGED <<stream, misled>>
      BY <1>6 DEF writer_sets_flag, IdleWriter, WriterAt
    <2> QED  BY <1>1, <2>1 DEF Alone, FlagTrue
  <1> QED  BY <1>2, <1>3, <1>4, <1>5, <1>6 DEF Writer

(* Calls have overlapped for good, and a step without an overlap meets the *)
(* other side outside its calls.                                           *)
LEMMA NoOverlap ==
  ASSUME Next, ~overlapped'
  PROVE  /\ ~overlapped
         /\ \/ Reader /\ wr' = wr /\ (rd.pc # "idle" \/ wr.pc = "idle")
            \/ Writer /\ rd' = rd /\ (wr.pc # "idle" \/ rd.pc = "idle")
  <1>1. CASE Reader
    <2>1. CASE reader_call
      BY <1>1, <2>1, Zenon DEF reader_call
    <2>2. CASE reader_loads_flag \/ reader_copies \/ reader_advances
                 \/ reader_stores_index \/ reader_clears_flag
      <3>1. rd.pc # "idle" /\ wr' = wr /\ overlapped' = overlapped
        BY <2>2 DEF reader_loads_flag, reader_copies, reader_advances,
                    reader_stores_index, reader_clears_flag
      <3> QED  BY <1>1, <3>1, Zenon
    <2> QED  BY <1>1, <2>1, <2>2, Zenon DEF Reader
  <1>2. CASE Writer
    <2>1. CASE writer_call
      BY <1>2, <2>1, Zenon DEF writer_call
    <2>2. CASE writer_loads_flag \/ writer_copies \/ writer_advances
                 \/ writer_stores_index \/ writer_sets_flag
      <3>1. wr.pc # "idle" /\ rd' = rd /\ overlapped' = overlapped
        BY <2>2 DEF writer_loads_flag, writer_copies, writer_advances,
                    writer_stores_index, writer_sets_flag
      <3> QED  BY <1>2, <3>1, Zenon
    <2> QED  BY <1>2, <2>1, <2>2, Zenon DEF Writer
  <1> QED  BY <1>1, <1>2 DEF Next

LEMMA SerialInit == Init => SerialInv
  <1> SUFFICES ASSUME Init PROVE SerialInv
    OBVIOUS
  <1>1. SpscInv /\ rd.pc = "idle" /\ wr.pc = "idle"
    BY InvInit, TypesInit DEF IdleReader, IdleWriter, ReaderAt, WriterAt
  <1>2. ~misled /\ last_was_write = FALSE /\ Len(stream) = 0
    BY DEF Init
  <1> QED  BY <1>1, <1>2 DEF SerialInv, Alone, FlagTrue

LEMMA SerialStep == SerialInv /\ [Next]_vars => SerialInv'
  <1> SUFFICES ASSUME SerialInv, [Next]_vars PROVE SerialInv'
    OBVIOUS
  <1>1. SpscInv'
    BY InvStep DEF SerialInv
  <1>2. CASE Next
    <2>1. ASSUME ~overlapped' PROVE Alone'
      <3>1. SpscInv /\ Alone /\ (rd.pc = "idle" \/ wr.pc = "idle")
        BY <1>2, <2>1, NoOverlap DEF SerialInv, Alone
      <3>2. CASE Reader /\ wr' = wr /\ wr.pc = "idle"
        BY <3>1, <3>2, ReaderAlone
      <3>3. CASE Writer /\ rd' = rd /\ rd.pc = "idle"
        BY <3>1, <3>3, WriterAlone
      <3> QED  BY <1>2, <2>1, <3>1, <3>2, <3>3, NoOverlap
    <2> QED  BY <1>1, <2>1 DEF SerialInv
  <1>3. CASE UNCHANGED vars
    BY <1>1, <1>3 DEF vars, shared, totals, SerialInv, Alone, FlagTrue
  <1> QED  BY <1>2, <1>3

(* Calls of the two sides that never overlap neither mislead each other    *)
(* nor lose, repeat or change a byte.                                      *)
THEOREM SerialCorrect == Spec => []SerialCallsIntact
  <1>1. SerialInv => SerialCallsIntact
    BY DEF SerialInv, SpscInv, StreamHeld, Alone, SerialCallsIntact
  <1> QED  BY <1>1, SerialInit, SerialStep, PTL DEF Spec
-----------------------------------------------------------------------------
(***************************************************************************)
(* Each index and its side's byte total.                                   *)
(***************************************************************************)

\* A side's index is its byte total, with what it has moved by and not yet
\* counted, modulo Size.
OnTotal(index, total, uncounted) == index = (total + uncounted) % Size

(* A remainder is what is left of a quotient, and the only such.           *)
LEMMA Quotient ==
  ASSUME NEW m \in Nat \ {0}, NEW a \in Int
  PROVE  a = m * (a \div m) + (a % m) /\ (a \div m) \in Int
         /\ (a % m) \in 0 .. m - 1
  BY SMTT(30)

LEMMA MultipleDropsOut ==
  ASSUME NEW a \in Int, NEW q \in Int
  PROVE  (a + Size * q) % Size = a % Size
  <1> DEFINE r == a % Size
             p == a \div Size
  <1>1. a = Size * p + r /\ p \in Int /\ r \in 0 .. Size - 1
    BY Quotient
  <1> HIDE DEF r, p
  <1>2. a + Size * q = Size * (p + q) + r
    BY <1>1, SMTT(30)
  <1>3. (Size * (p + q) + r) % Size = r
    <2>1. p + q \in Int /\ r \in Int /\ 0 <= r /\ r < Size
      BY <1>1
    <2> QED  BY <2>1, SMTT(30)
  <1> QED  BY <1>2, <1>3, Zenon DEF r

(* Wrapping an index keeps it on its total.                                *)
LEMMA SumOfWrapped ==
  ASSUME NEW t \in Int, NEW n \in Int
  PROVE  ((t % Size) + n) % Size = (t + n) % Size
  <1> DEFINE r == t % Size
             p == t \div Size
  <1>1. t = Size * p + r /\ p \in Int /\ r \in Int
    BY Quotient
  <1> HIDE DEF r, p
  <1>2. t + n = (r + n) + Size * p
    BY <1>1
  <1>3. ((r + n) + Size * p) % Size = (r + n) % Size
    <2>1. r + n \in Int /\ p \in Int
      BY <1>1
    <2> QED  BY <2>1, MultipleDropsOut, Zenon
  <1> QED  BY <1>2, <1>3, Zenon DEF r

(* A counter whose width is a multiple of Size wraps between two whole     *)
(* buffers.                                                                *)
LEMMA CounterWraps ==
  ASSUME Word % Size = 0, NEW a \in Int
  PROVE  (a % Word) % Size = a % Size
  <1> DEFINE r == a % Word
             p == a \div Word
             buffers == Word \div Size
  <1>1. a = Word * p + r /\ p \in Int /\ r \in Int
    BY WordAssumption, Quotient
  <1>2. Word = Size * buffers /\ buffers \in Int
    <2>1. Word = Size * buffers + (Word % Size) /\ buffers \in Int
      BY WordAssumption, Quotient
    <2> QED  BY <2>1
  <1> HIDE DEF r, p, buffers
  <1>3. Word * p = Size * (buffers * p) /\ buffers * p \in Int
    BY <1>1, <1>2, SMTT(30)
  <1>4. a = r + Size * (buffers * p)
    BY <1>1, <1>3
  <1>5. (r + Size * (buffers * p)) % Size = r % Size
    BY <1>1, <1>3, MultipleDropsOut
  <1> QED  BY <1>4, <1>5, Zenon DEF r

(* A call that decides what to do is not yet past its index.               *)
LEMMA ReaderElsewhere ==
  ASSUME SpscTypes, Reader, ~reader_stores_index, ~reader_clears_flag
  PROVE  /\ rd.pc # "clear_flag" /\ rd'.pc # "clear_flag"
         /\ read_index' = read_index
         /\ total_bytes_read' = total_bytes_read
  <1>1. /\ ReaderPlace(rd) /\ read_index \in Index /\ write_index \in Index
        /\ rd.op \in Ops /\ rd.n \in Nat /\ rd.todo \in SUBSET Index
    BY ReaderFields DEF SpscTypes, SharedTypes
  <1>2. CASE reader_call
    <2>1. PICK op \in ReaderOps, count \in 1 .. MaxCount :
            ReaderLoadsIndex(op, count)
      BY <1>2 DEF reader_call
    <2>2. op \in Ops /\ count \in Nat \ {0}
      BY MaxCountAssumption DEF Ops
    <2>3. rd'.pc \in {"idle", "load_flag", "advance", "copy", "store_index"}
      BY <1>1, <2>1, <2>2, ReaderLoadsPlace
    <2> QED  BY <1>2, <2>3 DEF reader_call, shared, totals
  <1>3. CASE reader_loads_flag
    <2> DEFINE can == IF last_was_write THEN Size ELSE 0
    <2>1. can \in Count /\ rd.n \in Nat \ {0}
      BY <1>1, <1>3 DEF reader_loads_flag, ReaderPlace
    <2>2. ReaderServes(rd.op, rd.n, can)
      BY <1>3 DEF reader_loads_flag
    <2> HIDE DEF can
    <2>3. rd'.pc \in {"idle", "advance", "copy", "store_index"}
      BY <1>1, <2>1, <2>2, ReaderServesPlace
    <2> QED  BY <1>3, <2>3 DEF reader_loads_flag, shared, totals
  <1>4. CASE reader_copies
    <2>1. PICK k \in rd.todo :
            rd' = IF rd.todo \ {k} # {}
                    THEN ReaderAt("copy", rd.op, rd.n, rd.todo \ {k})
                    ELSE CASE rd.op = "rb_read" ->
                                ReaderAt("store_index", rd.op, rd.n, {})
                           [] rd.op = "rb_peek" -> IdleReader
                           [] OTHER -> ReaderAt("advance", rd.op, rd.n, {})
      BY <1>4 DEF reader_copies
    <2> DEFINE left == rd.todo \ {k}
    <2>2. \/ rd' = ReaderAt("copy", rd.op, rd.n, left)
          \/ rd' = ReaderAt("store_index", rd.op, rd.n, {})
          \/ rd' = ReaderAt("idle", "none", 0, {})
          \/ rd' = ReaderAt("advance", rd.op, rd.n, {})
      BY <2>1, Zenon DEF IdleReader
    <2>3. rd'.pc # "clear_flag"
      BY <2>2 DEF ReaderAt
    <2> QED  BY <1>4, <2>3 DEF reader_copies, shared, totals
  <1>5. CASE reader_advances
    <2>1. rd.n \in Nat \ {0} /\ "rb_advance_read_index" \in Ops
      BY <1>1, <1>5 DEF reader_advances, ReaderPlace, Ops
    <2>2. ReaderLoadsIndex("rb_advance_read_index", rd.n)
      BY <1>5 DEF reader_advances
    <2>3. rd'.pc \in {"idle", "load_flag", "advance", "copy", "store_index"}
      BY <1>1, <2>1, <2>2, ReaderLoadsPlace
    <2> QED  BY <1>5, <2>3 DEF reader_advances, shared, totals
  <1> QED  BY <1>2, <1>3, <1>4, <1>5 DEF Reader

LEMMA WriterElsewhere ==
  ASSUME SpscTypes, Writer, ~writer_stores_index, ~writer_sets_flag
  PROVE  /\ wr.pc # "set_flag" /\ wr'.pc # "set_flag"
         /\ write_index' = write_index
         /\ total_bytes_write' = total_bytes_write
  <1>1. /\ WriterPlace(wr) /\ read_index \in Index /\ write_index \in Index
        /\ wr.op \in Ops /\ wr.n \in Nat /\ wr.source \in Seq(Byte)
    BY WriterFields DEF SpscTypes, SharedTypes
  <1>2. CASE writer_call \/ writer_advances
    <2>1. PICK op, source : WriterLoadsIndex(op, source)
      BY <1>2, Zenon DEF writer_call, writer_advances
    <2> DEFINE can == rb_can_write(read_index, write_index, FALSE)
    <2>2. \/ wr' = WriterAt("load_flag", op, Len(source), {}, source)
          \/ WriterServes(op, source, can)
      BY <2>1, Zenon DEF WriterLoadsIndex
    <2>3. WriterServes(op, source, can) => wr'.pc # "set_flag"
      BY DEF WriterServes, WriterAt, IdleWriter
    <2>4. WriterAt("load_flag", op, Len(source), {}, source).pc # "set_flag"
      BY DEF WriterAt
    <2>5. wr'.pc # "set_flag"
      BY <2>2, <2>3, <2>4, Zenon
    <2> QED  BY <1>2, <2>5 DEF writer_call, writer_advances, shared, totals
  <1>3. CASE writer_loads_flag
    <2>1. wr'.pc # "set_flag"
      BY <1>3 DEF writer_loads_flag, WriterServes, WriterAt, IdleWriter
    <2> QED  BY <1>3, <2>1 DEF writer_loads_flag, shared, totals
  <1>4. CASE writer_copies
    <2>1. wr'.pc # "set_flag"
      BY <1>4 DEF writer_copies, WriterAt
    <2> QED  BY <1>4, <2>1 DEF writer_copies, totals
  <1> QED  BY <1>2, <1>3, <1>4 DEF Writer

\* The two sides of the invariant.
ReaderOnTotal ==
  OnTotal(read_index, total_bytes_read,
          IF rd.pc = "clear_flag" THEN rd.n ELSE 0)
WriterOnTotal ==
  OnTotal(write_index, total_bytes_write,
          IF wr.pc = "set_flag" THEN wr.n ELSE 0)

LEMMA ReaderStaysOnTotal ==
  ASSUME Word % Size = 0, SpscTypes, Reader, ReaderOnTotal
  PROVE  ReaderOnTotal'
  <1>1. total_bytes_read \in Int /\ rd.n \in Int
        /\ total_bytes_read + 0 = total_bytes_read
    BY ReaderFields, WordAssumption DEF SpscTypes, SharedTypes
  <1>2. CASE reader_stores_index
    <2>1. read_index' = Wrap(read_index + rd.n)
      BY <1>2, ReaderMoves
    <2>2. read_index = total_bytes_read % Size
      BY <1>1, <1>2 DEF reader_stores_index, ReaderOnTotal, OnTotal
    <2>3. read_index + rd.n \in 0 .. 2 * Size - 1
      BY <1>2 DEF SpscTypes, SharedTypes, ReaderPlace, reader_stores_index
    <2>4. read_index' = (read_index + rd.n) % Size
      BY <2>1, <2>3, ModIsWrap
    <2>5. read_index' = (total_bytes_read + rd.n) % Size
      BY <1>1, <2>2, <2>4, SumOfWrapped
    <2>6. rd'.pc = "clear_flag" /\ rd'.n = rd.n
          /\ total_bytes_read' = total_bytes_read
      BY <1>2 DEF reader_stores_index, ReaderAt, totals
    <2> QED  BY <2>5, <2>6 DEF ReaderOnTotal, OnTotal
  <1>3. CASE reader_clears_flag
    <2> DEFINE t == total_bytes_read + rd.n
    <2>1. read_index = t % Size /\ t \in Int
      BY <1>1, <1>3 DEF reader_clears_flag, ReaderOnTotal, OnTotal
    <2>2. /\ read_index' = read_index /\ total_bytes_read' = t % Word
          /\ rd'.pc = "idle"
      BY <1>3 DEF reader_clears_flag, IdleReader, ReaderAt
    <2> HIDE DEF t
    <2>3. (t % Word) % Size = t % Size /\ (t % Word) \in Int
      BY <2>1, CounterWraps, WordMod
    <2>4. total_bytes_read' + 0 = t % Word
      BY <2>2, <2>3
    <2> QED  BY <2>1, <2>2, <2>3, <2>4 DEF ReaderOnTotal, OnTotal
  <1>4. CASE ~reader_stores_index /\ ~reader_clears_flag
    BY <1>4, ReaderElsewhere DEF ReaderOnTotal, OnTotal
  <1> QED  BY <1>2, <1>3, <1>4

LEMMA WriterStaysOnTotal ==
  ASSUME Word % Size = 0, SpscTypes, Writer, WriterOnTotal
  PROVE  WriterOnTotal'
  <1>1. total_bytes_write \in Int /\ wr.n \in Int
        /\ total_bytes_write + 0 = total_bytes_write
    BY WriterFields, WordAssumption DEF SpscTypes, SharedTypes
  <1>2. CASE writer_stores_index
    <2>1. write_index' = Wrap(write_index + wr.n)
      BY <1>2, WriterMoves
    <2>2. write_index = total_bytes_write % Size
      BY <1>1, <1>2 DEF writer_stores_index, WriterOnTotal, OnTotal
    <2>3. write_index + wr.n \in 0 .. 2 * Size - 1
      BY <1>2 DEF SpscTypes, SharedTypes, WriterPlace, writer_stores_index
    <2>4. write_index' = (write_index + wr.n) % Size
      BY <2>1, <2>3, ModIsWrap
    <2>5. write_index' = (total_bytes_write + wr.n) % Size
      BY <1>1, <2>2, <2>4, SumOfWrapped
    <2>6. wr'.pc = "set_flag" /\ wr'.n = wr.n
          /\ total_bytes_write' = total_bytes_write
      BY <1>2 DEF writer_stores_index, WriterAt, totals
    <2> QED  BY <2>5, <2>6 DEF WriterOnTotal, OnTotal
  <1>3. CASE writer_sets_flag
    <2> DEFINE t == total_bytes_write + wr.n
    <2>1. write_index = t % Size /\ t \in Int
      BY <1>1, <1>3 DEF writer_sets_flag, WriterOnTotal, OnTotal
    <2>2. /\ write_index' = write_index /\ total_bytes_write' = t % Word
          /\ wr'.pc = "idle"
      BY <1>3 DEF writer_sets_flag, IdleWriter, WriterAt
    <2> HIDE DEF t
    <2>3. (t % Word) % Size = t % Size /\ (t % Word) \in Int
      BY <2>1, CounterWraps, WordMod
    <2>4. total_bytes_write' + 0 = t % Word
      BY <2>2, <2>3
    <2> QED  BY <2>1, <2>2, <2>3, <2>4 DEF WriterOnTotal, OnTotal
  <1>4. CASE ~writer_stores_index /\ ~writer_sets_flag
    BY <1>4, WriterElsewhere DEF WriterOnTotal, OnTotal
  <1> QED  BY <1>2, <1>3, <1>4

(* Neither side touches what the other's index and total are made of.      *)
LEMMA OtherTotalKept ==
  /\ Reader => UNCHANGED <<write_index, total_bytes_write>>
  /\ Writer => UNCHANGED <<read_index, total_bytes_read>>
  BY DEF Reader, Writer, reader_call, reader_loads_flag, reader_copies,
         reader_advances, reader_stores_index, reader_clears_flag,
         writer_call, writer_loads_flag, writer_copies,
         writer_advances, writer_stores_index, writer_sets_flag, shared, totals

LEMMA TotalsInit == Init => ReaderOnTotal /\ WriterOnTotal
  <1>1. 0 = (0 + 0) % Size
    BY Quotient, SMTT(30)
  <1>2. Init => rd.pc = "idle" /\ wr.pc = "idle"
    BY DEF Init, IdleReader, IdleWriter, ReaderAt, WriterAt
  <1> QED  BY <1>1, <1>2 DEF Init, ReaderOnTotal, WriterOnTotal, OnTotal

LEMMA TotalsStep ==
  ASSUME Word % Size = 0, SpscTypes, [Next]_vars, ReaderOnTotal, WriterOnTotal
  PROVE  ReaderOnTotal' /\ WriterOnTotal'
  <1>1. CASE Reader /\ wr' = wr
    <2>1. WriterOnTotal'
      BY <1>1, OtherTotalKept DEF WriterOnTotal, OnTotal
    <2> QED  BY <1>1, <2>1, ReaderStaysOnTotal
  <1>2. CASE Writer /\ rd' = rd
    <2>1. ReaderOnTotal'
      BY <1>2, OtherTotalKept DEF ReaderOnTotal, OnTotal
    <2> QED  BY <1>2, <2>1, WriterStaysOnTotal
  <1>3. CASE UNCHANGED vars
    BY <1>3 DEF vars, shared, totals, ReaderOnTotal, WriterOnTotal, OnTotal
  <1> QED  BY <1>1, <1>2, <1>3, OneSideMoves

(* Whatever a race does to the stream, an index stays its side's byte      *)
(* total modulo Size, for a counter whose width is a multiple of Size: it  *)
(* is displaced by whole buffers only.                                     *)
THEOREM IndicesOnTotals ==
  ASSUME Word % Size = 0
  PROVE  Spec => []IndicesFollowTotals
  <1> DEFINE Inv == SpscTypes /\ ReaderOnTotal /\ WriterOnTotal
  <1>1. Init => Inv
    BY TypesInit, TotalsInit
  <1>2. Inv /\ [Next]_vars => Inv'
    BY TypesStep, TotalsStep
  <1>3. Inv => IndicesFollowTotals
    BY DEF ReaderOnTotal, WriterOnTotal, OnTotal, IndicesFollowTotals
  <1> HIDE DEF Inv
  <1> QED  BY <1>1, <1>2, <1>3, PTL DEF Spec
=============================================================================
