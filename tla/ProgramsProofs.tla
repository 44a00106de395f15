--------------------------- MODULE ProgramsProofs ---------------------------
(***************************************************************************)
(* Theorems about the programs that share no state with each other, for    *)
(* every number of threads and processes and every size of ring or file:   *)
(* the sending threads (ThreadsSend), the locked ring (RbExclusive), tailf *)
(* (TailF), com (Com), the ringbuffer's client programs (RbClients) and    *)
(* the JACK ringbuffer (JackRing), which implements a pipe.  Each has an   *)
(* inductive invariant, named after the prefix of the module's variables,  *)
(* and a lemma for each action.                                            *)
(***************************************************************************)
EXTENDS ThreadsSend, RbExclusive, TailF, Com, RbClients, JackRing,
        SequenceTheorems, TLAPS

-----------------------------------------------------------------------------
(* threads_send_udp.                                                        *)

\* A thread is inside msg_send() exactly while it holds the lock, which makes
\* it the only one.
LockHolder == \A t \in Sender : snd_pc[t] # "idle" <=> snd_lock = t

\* The number in the message of the thread inside.
Numbered == \A t \in Sender :
  /\ snd_pc[t] = "numbered" => snd_msg[t] = common_counter
  /\ snd_pc[t] = "counted" => snd_msg[t] + 1 = common_counter

\* Between counting and sending the wire is one number behind the counter.
WireLength ==
  /\ \A t \in Sender : snd_pc[t] = "counted" => Len(snd_wire) + 1 = common_counter
  /\ (\A t \in Sender : snd_pc[t] # "counted") => Len(snd_wire) = common_counter

SndInv == SndTypeOK /\ LockHolder /\ Numbered /\ WireLength /\ SndInOrder

\* At the start nobody is inside and nothing is sent.
LEMMA SndInitInv == SndInit => SndInv
BY NoSenderAssumption
DEF SndInit, SndInv, SndTypeOK, LockHolder, Numbered, WireLength, SndInOrder

\* Whoever is inside, the others are not.
LEMMA OthersIdle ==
  ASSUME LockHolder, NEW t \in Sender, snd_pc[t] # "idle"
  PROVE  \A u \in Sender \ {t} : snd_pc[u] = "idle"
BY DEF LockHolder

\* pthread_mutex_lock.
LEMMA LocksInv ==
  ASSUME SndInv, NEW t \in Sender, snd_locks(t) PROVE SndInv'
<1> USE DEF SndInv, snd_locks, snd_goes
<1>1. \A u \in Sender : snd_pc[u] = "idle"
  BY NoSenderAssumption DEF LockHolder
<1>2. SndTypeOK' BY DEF SndTypeOK
<1>3. LockHolder' BY <1>1, NoSenderAssumption DEF LockHolder, SndTypeOK
<1>4. Numbered' BY DEF Numbered, SndTypeOK
<1>5. WireLength' BY <1>1 DEF WireLength, SndTypeOK
<1>6. SndInOrder' BY DEF SndInOrder
<1> QED BY <1>2, <1>3, <1>4, <1>5, <1>6

\* The counter goes into the message.
LEMMA NumbersInv ==
  ASSUME SndInv, NEW t \in Sender, snd_numbers(t) PROVE SndInv'
<1> USE DEF SndInv, snd_numbers, snd_goes
<1>1. \A u \in Sender \ {t} : snd_pc[u] = "idle" BY OthersIdle
<1>2. SndTypeOK' BY DEF SndTypeOK
<1>3. LockHolder' BY DEF LockHolder, SndTypeOK
<1>4. Numbered' BY DEF Numbered, SndTypeOK
<1>5. WireLength' BY <1>1 DEF WireLength, SndTypeOK
<1>6. SndInOrder' BY DEF SndInOrder
<1> QED BY <1>2, <1>3, <1>4, <1>5, <1>6

\* The counter is incremented.
LEMMA CountsInv ==
  ASSUME SndInv, NEW t \in Sender, snd_counts(t) PROVE SndInv'
<1> USE DEF SndInv, snd_counts, snd_goes
<1>1. \A u \in Sender \ {t} : snd_pc[u] = "idle" BY OthersIdle
<1>2. SndTypeOK' BY DEF SndTypeOK
<1>3. LockHolder' BY DEF LockHolder, SndTypeOK
<1>4. Numbered' BY <1>1 DEF Numbered, SndTypeOK
<1>5. WireLength'
  <2>1. \A u \in Sender : snd_pc[u] # "counted" BY <1>1
  <2>2. Len(snd_wire) + 1 = common_counter' BY <2>1 DEF WireLength
  <2> QED BY <2>2 DEF SndTypeOK, WireLength
<1>6. SndInOrder' BY DEF SndInOrder
<1> QED BY <1>2, <1>3, <1>4, <1>5, <1>6

\* The message goes to the socket.
LEMMA SendsInv ==
  ASSUME SndInv, NEW t \in Sender, snd_sends(t) PROVE SndInv'
<1> USE DEF SndInv, snd_sends, snd_goes
<1>1. \A u \in Sender \ {t} : snd_pc[u] = "idle" BY OthersIdle
<1>2. /\ Len(snd_wire) + 1 = common_counter /\ snd_msg[t] + 1 = common_counter
      /\ snd_wire \in Seq(Nat) /\ snd_msg[t] \in Nat /\ common_counter \in Nat
  BY DEF WireLength, Numbered, SndTypeOK
<1>3. snd_msg[t] = Len(snd_wire) BY <1>2
<1>4. /\ snd_wire' \in Seq(Nat) /\ Len(snd_wire') = Len(snd_wire) + 1
      /\ \A k \in 1 .. Len(snd_wire) + 1 :
           snd_wire'[k] = IF k <= Len(snd_wire) THEN snd_wire[k] ELSE snd_msg[t]
  BY <1>2
<1>5. SndTypeOK' BY <1>4 DEF SndTypeOK
<1>6. LockHolder' BY DEF LockHolder, SndTypeOK
<1>7. Numbered' BY <1>1 DEF Numbered, SndTypeOK
<1>8. WireLength' BY <1>1, <1>2, <1>4 DEF SndTypeOK, WireLength
<1>9. SndInOrder' BY <1>2, <1>3, <1>4 DEF SndInOrder
<1> QED BY <1>5, <1>6, <1>7, <1>8, <1>9

\* pthread_mutex_unlock.
LEMMA UnlocksInv ==
  ASSUME SndInv, NEW t \in Sender, snd_unlocks(t) PROVE SndInv'
<1> USE DEF SndInv, snd_unlocks, snd_goes
<1>1. \A u \in Sender \ {t} : snd_pc[u] = "idle" BY OthersIdle
<1>2. SndTypeOK' BY DEF SndTypeOK
<1>3. LockHolder' BY <1>1, NoSenderAssumption DEF LockHolder, SndTypeOK
<1>4. Numbered' BY DEF Numbered, SndTypeOK
<1>5. WireLength' BY <1>1 DEF WireLength, SndTypeOK
<1>6. SndInOrder' BY DEF SndInOrder
<1> QED BY <1>2, <1>3, <1>4, <1>5, <1>6

LEMMA SndNextInv == SndInv /\ [SndNext]_snd_vars => SndInv'
<1> SUFFICES ASSUME SndInv, [SndNext]_snd_vars PROVE SndInv' OBVIOUS
<1>1. CASE UNCHANGED snd_vars
  BY <1>1 DEF SndInv, SndTypeOK, LockHolder, Numbered, WireLength, SndInOrder, snd_vars
<1>2. CASE SndNext
  BY <1>2, LocksInv, NumbersInv, CountsInv, SendsInv, UnlocksInv DEF SndNext
<1> QED BY <1>1, <1>2

\* The numbers reach the socket in order, none twice and none left out,
\* whatever the number of threads and however long they run.
THEOREM SentInOrder == SndSpec => []SndInOrder
<1>1. SndInv => SndInOrder BY DEF SndInv
<1> QED BY <1>1, SndInitInv, SndNextInv, PTL DEF SndSpec
-----------------------------------------------------------------------------
(* The exclusive locks.                                                     *)

exc_places == {"idle", "locked", "load_flag", "copy", "store_index", "clear_flag",
               "set_flag", "served"}

ExcTypeOK ==
  /\ exc_pc \in [exc_all -> exc_places]
  /\ read_lock \in Reading \cup {Free} /\ write_lock \in Writing \cup {Free}
  /\ exc_source \in [Writing -> Seq(ExcItem)]
  /\ read_index \in Spsc!Index /\ write_index \in Spsc!Index
  /\ last_was_write \in BOOLEAN /\ stream \in Seq(ExcItem) /\ Len(stream) <= Slots

\* A process, dead or alive, is beyond its trylock exactly while it holds the
\* mutex of its side, which makes it the only one there.
ExcHolders ==
  /\ \A p \in Reading : exc_pc[p] # "idle" <=> read_lock = p
  /\ \A p \in Writing : exc_pc[p] # "idle" <=> write_lock = p

\* A writing process within a call has one item to write.
ExcSource == \A p \in Writing : exc_calls(p) => exc_source[p] \in [1 .. 1 -> ExcItem]

ExcInv == ExcTypeOK /\ ExcHolders /\ ExcSource

\* What RbSpsc's reader and writer are while the holder of the lock is at pc.
exc_rd_at(pc) ==
  IF pc \in {"idle", "locked", "served"} THEN Spsc!IdleReader
  ELSE Spsc!ReaderAt(pc, "rb_read", 1, IF pc = "copy" THEN {0} ELSE {})
exc_wr_at(pc, source) ==
  IF pc \in {"idle", "locked", "served"} THEN Spsc!IdleWriter
  ELSE Spsc!WriterAt(pc, "rb_write", 1, IF pc = "copy" THEN {0} ELSE {}, source)

\* An index moves on by one and stays in the ring.
LEMMA OneOn ==
  ASSUME NEW i \in Spsc!Index PROVE Spsc!CopiedIndex(i, 1) \in Spsc!Index
BY SlotsAssumption
DEF Spsc!Index, Spsc!CopiedIndex, Spsc!copy_count_1, Spsc!copy_count_2

\* A step of a reading process within its lock, seen by both sides of RbSpsc.
LEMMA ReadingStep ==
  ASSUME ExcInv, NEW p \in Reading, NEW from, NEW to, from # "idle",
         exc_goes(p, from, to), UNCHANGED <<read_lock, write_lock, exc_source>>
  PROVE  /\ exc_rd = exc_rd_at(from) /\ exc_rd' = exc_rd_at(to) /\ exc_wr' = exc_wr
         /\ exc_calls(write_lock) <=> exc_wr.pc # "idle"
<1> USE DEF exc_goes
<1>t. ExcTypeOK /\ ExcHolders /\ ExcSource BY DEF ExcInv
<1>1. p \in exc_all /\ p # Free /\ read_lock = p /\ exc_pc[p] = from /\ exc_pc'[p] = to
  BY <1>t, ProcessAssumption DEF ExcTypeOK, ExcHolders, exc_all
<1>2. exc_rd = exc_rd_at(from)
  BY <1>1 DEF exc_rd, exc_rd_at, exc_calls, exc_todo, Spsc!IdleReader, Spsc!ReaderAt
<1>3. exc_rd' = exc_rd_at(to)
  BY <1>1 DEF exc_rd, exc_rd_at, exc_calls, exc_todo, Spsc!IdleReader, Spsc!ReaderAt
<1>4. write_lock # p
  BY <1>t, ProcessAssumption DEF ExcTypeOK, exc_all
<1>5. exc_wr' = exc_wr
  BY <1>t, <1>4 DEF exc_wr, exc_calls, exc_todo, ExcTypeOK
<1>6. exc_calls(write_lock) <=> exc_wr.pc # "idle"
  BY DEF exc_wr, exc_calls
<1> QED BY <1>2, <1>3, <1>5, <1>6

\* A step of a writing process within its lock.
LEMMA WritingStep ==
  ASSUME ExcInv, NEW p \in Writing, NEW from, NEW to, from # "idle",
         exc_goes(p, from, to), UNCHANGED <<read_lock, write_lock>>
  PROVE  /\ exc_wr = exc_wr_at(from, exc_source[p])
         /\ exc_wr' = exc_wr_at(to, exc_source'[p]) /\ exc_rd' = exc_rd
         /\ exc_calls(read_lock) <=> exc_rd.pc # "idle"
<1> USE DEF exc_goes
<1>t. ExcTypeOK /\ ExcHolders /\ ExcSource BY DEF ExcInv
<1>1. p \in exc_all /\ p # Free /\ write_lock = p /\ exc_pc[p] = from /\ exc_pc'[p] = to
  BY <1>t, ProcessAssumption DEF ExcTypeOK, ExcHolders, exc_all
<1>2. exc_wr = exc_wr_at(from, exc_source[p])
  BY <1>1 DEF exc_wr, exc_wr_at, exc_calls, exc_todo, Spsc!IdleWriter, Spsc!WriterAt
<1>3. exc_wr' = exc_wr_at(to, exc_source'[p])
  BY <1>1 DEF exc_wr, exc_wr_at, exc_calls, exc_todo, Spsc!IdleWriter, Spsc!WriterAt
<1>4. read_lock # p
  BY <1>t, ProcessAssumption DEF ExcTypeOK, exc_all
<1>5. exc_rd' = exc_rd
  BY <1>t, <1>4 DEF exc_rd, exc_calls, exc_todo, ExcTypeOK
<1>6. exc_calls(read_lock) <=> exc_rd.pc # "idle"
  BY DEF exc_rd, exc_calls
<1> QED BY <1>2, <1>3, <1>5, <1>6

\* A process that goes on within its lock leaves holders and types as they are.
LEMMA GoesOn ==
  ASSUME ExcInv, NEW p \in exc_all, NEW from, NEW to \in exc_places \ {"idle"},
         from # "idle", exc_goes(p, from, to), UNCHANGED <<read_lock, write_lock>>
  PROVE  exc_pc' \in [exc_all -> exc_places] /\ ExcHolders'
BY ProcessAssumption DEF ExcInv, ExcTypeOK, ExcHolders, exc_goes, exc_all

\* And the item it has, if it keeps it.
LEMMA KeepsSource ==
  ASSUME ExcInv, NEW p \in exc_all, NEW from, NEW to,
         \/ p \in Reading \/ to \in {"idle", "locked", "served"}
         \/ from \notin {"idle", "locked", "served"},
         exc_goes(p, from, to), UNCHANGED exc_source
  PROVE  ExcSource'
<1> SUFFICES ASSUME NEW q \in Writing, exc_calls(q)' PROVE exc_source[q] \in [1 .. 1 -> ExcItem]
  BY DEF ExcSource
<1>1. CASE q = p
  <2>1. p \notin Reading /\ q \in exc_all BY <1>1, ProcessAssumption DEF exc_all
  <2>2. exc_pc'[q] = to /\ exc_pc[q] = from /\ to \notin {"idle", "locked", "served"}
    BY <1>1, <2>1 DEF ExcInv, ExcTypeOK, exc_goes, exc_calls
  <2> QED BY <1>1, <2>1, <2>2, ProcessAssumption DEF ExcInv, ExcSource, exc_calls, exc_all
<1>2. CASE q # p
  <2>1. exc_pc'[q] = exc_pc[q] BY <1>2 DEF ExcInv, ExcTypeOK, exc_goes, exc_all
  <2> QED BY <2>1 DEF ExcInv, ExcSource, exc_calls
<1> QED BY <1>1, <1>2

-----------------------------------------------------------------------------
LEMMA ExcInitInv == ExcInit => ExcInv
<1> SUFFICES ASSUME ExcInit PROVE ExcInv OBVIOUS
<1> USE DEF ExcInit
<1>1. ExcTypeOK
  <2>1. stream \in Seq(ExcItem) /\ Len(stream) <= Slots BY SlotsAssumption
  <2>2. read_index \in Spsc!Index /\ write_index \in Spsc!Index
    BY SlotsAssumption DEF Spsc!Index
  <2>3. exc_source \in [Writing -> Seq(ExcItem)] OBVIOUS
  <2>4. exc_pc \in [exc_all -> exc_places] BY DEF exc_places
  <2> QED BY <2>1, <2>2, <2>3, <2>4 DEF ExcTypeOK
<1>2. ExcHolders BY ProcessAssumption DEF ExcHolders, exc_all
<1>3. ExcSource BY DEF ExcSource, exc_calls, exc_all
<1> QED BY <1>1, <1>2, <1>3 DEF ExcInv

\* The stream stays one of items, and fits the ring.
LEMMA FollowItems ==
  ASSUME NEW ok, NEW next \in Seq(ExcItem), Spsc!Follow(ok, next), ok => Len(next) <= Slots
  PROVE  stream' \in Seq(ExcItem) /\ Len(stream') <= Slots
BY SlotsAssumption DEF Spsc!Follow

LEMMA ExcReadsInv ==
  ASSUME ExcInv, NEW p \in Reading, exc_reads(p) PROVE ExcInv'
<1> USE DEF exc_ring, exc_past, exc_sides
<1>t. ExcTypeOK /\ ExcHolders /\ ExcSource /\ p \in exc_all BY DEF ExcInv, exc_all
<1>1. CASE rb_try_exclusive_read(p)
  <2>1. ExcTypeOK' BY <1>t, <1>1 DEF rb_try_exclusive_read, exc_goes, ExcTypeOK, exc_places
  <2>2. ExcHolders' BY <1>t, <1>1, ProcessAssumption
    DEF rb_try_exclusive_read, exc_goes, ExcTypeOK, ExcHolders, exc_all
  <2>3. ExcSource' BY <1>t, <1>1, KeepsSource DEF rb_try_exclusive_read
  <2> QED BY <2>1, <2>2, <2>3 DEF ExcInv
<1>2. CASE exc_begins_read(p)
  <2>1. ExcHolders' /\ exc_pc' \in [exc_all -> exc_places]
    BY <1>t, <1>2, GoesOn DEF exc_begins_read, exc_loads_indices, exc_places
  <2>2. ExcSource' BY <1>t, <1>2, KeepsSource DEF exc_begins_read, exc_loads_indices
  <2> QED BY <1>t, <1>2, <2>1, <2>2 DEF ExcInv, ExcTypeOK, exc_begins_read, exc_loads_indices
<1>3. CASE exc_loads_flag(p)
  <2>1. ExcHolders' /\ exc_pc' \in [exc_all -> exc_places]
    BY <1>t, <1>3, GoesOn DEF exc_loads_flag, exc_places
  <2>2. ExcSource' BY <1>t, <1>3, KeepsSource DEF exc_loads_flag
  <2> QED BY <1>t, <1>3, <2>1, <2>2 DEF ExcInv, ExcTypeOK, exc_loads_flag
<1>4. CASE exc_copies_out(p)
  <2>1. ExcHolders' /\ exc_pc' \in [exc_all -> exc_places]
    BY <1>t, <1>4, GoesOn DEF exc_copies_out, exc_places
  <2>2. ExcSource' BY <1>t, <1>4, KeepsSource DEF exc_copies_out
  <2>3. stream' \in Seq(ExcItem) /\ Len(stream') <= Slots
    BY <1>t, <1>4, FollowItems DEF exc_copies_out, ExcTypeOK
  <2> QED BY <1>t, <1>4, <2>1, <2>2, <2>3 DEF ExcInv, ExcTypeOK, exc_copies_out
<1>5. CASE exc_stores_read(p)
  <2>1. ExcHolders' /\ exc_pc' \in [exc_all -> exc_places]
    BY <1>t, <1>5, GoesOn DEF exc_stores_read, exc_places
  <2>2. ExcSource' BY <1>t, <1>5, KeepsSource DEF exc_stores_read
  <2>3. stream' \in Seq(ExcItem) /\ Len(stream') <= Slots
    <3>1. /\ SubSeq(stream, 2, Len(stream)) \in Seq(ExcItem)
          /\ Len(SubSeq(stream, 2, Len(stream))) <= Slots
      BY <1>t, SlotsAssumption DEF ExcTypeOK
    <3> QED BY <1>5, <3>1, FollowItems DEF exc_stores_read
  <2>4. read_index' \in Spsc!Index BY <1>t, <1>5, OneOn DEF exc_stores_read, ExcTypeOK
  <2> QED BY <1>t, <1>5, <2>1, <2>2, <2>3, <2>4 DEF ExcInv, ExcTypeOK, exc_stores_read
<1>6. CASE exc_stores_flag(p, "clear_flag", FALSE)
  <2>1. ExcHolders' /\ exc_pc' \in [exc_all -> exc_places]
    BY <1>t, <1>6, GoesOn DEF exc_stores_flag, exc_places
  <2>2. ExcSource' BY <1>t, <1>6, KeepsSource DEF exc_stores_flag
  <2> QED BY <1>t, <1>6, <2>1, <2>2 DEF ExcInv, ExcTypeOK, exc_stores_flag
<1>7. CASE rb_release_read(p)
  <2>1. ExcTypeOK' BY <1>t, <1>7 DEF rb_release_read, exc_goes, ExcTypeOK, exc_places
  <2>2. ExcHolders' BY <1>t, <1>7, ProcessAssumption
    DEF rb_release_read, exc_goes, ExcTypeOK, ExcHolders, exc_all
  <2>3. ExcSource' BY <1>t, <1>7, KeepsSource DEF rb_release_read
  <2> QED BY <2>1, <2>2, <2>3 DEF ExcInv
<1> QED BY <1>1, <1>2, <1>3, <1>4, <1>5, <1>6, <1>7 DEF exc_reads

LEMMA ExcWritesInv ==
  ASSUME ExcInv, NEW p \in Writing, exc_writes(p) PROVE ExcInv'
<1> USE DEF exc_ring, exc_past, exc_sides
<1>t. ExcTypeOK /\ ExcHolders /\ ExcSource /\ p \in exc_all BY DEF ExcInv, exc_all
<1>1. CASE rb_try_exclusive_write(p)
  <2>1. ExcTypeOK' BY <1>t, <1>1 DEF rb_try_exclusive_write, exc_goes, ExcTypeOK, exc_places
  <2>2. ExcHolders' BY <1>t, <1>1, ProcessAssumption
    DEF rb_try_exclusive_write, exc_goes, ExcTypeOK, ExcHolders, exc_all
  <2>3. ExcSource' BY <1>t, <1>1, KeepsSource DEF rb_try_exclusive_write
  <2> QED BY <2>1, <2>2, <2>3 DEF ExcInv
<1>2. CASE exc_begins_write(p)
  <2>1. ExcHolders' /\ exc_pc' \in [exc_all -> exc_places]
    BY <1>t, <1>2, GoesOn DEF exc_begins_write, exc_loads_indices, exc_places
  <2>2. PICK item \in ExcItem : exc_source' = [exc_source EXCEPT ![p] = <<item>>]
    BY <1>2 DEF exc_begins_write
  <2>3. <<item>> \in Seq(ExcItem) /\ <<item>> \in [1 .. 1 -> ExcItem] OBVIOUS
  <2>4. exc_source' \in [Writing -> Seq(ExcItem)] BY <1>t, <2>2, <2>3 DEF ExcTypeOK
  <2>5. ExcSource'
    <3> SUFFICES ASSUME NEW q \in Writing, exc_calls(q)'
                 PROVE  exc_source'[q] \in [1 .. 1 -> ExcItem]
      BY DEF ExcSource
    <3>1. CASE q = p BY <3>1, <1>t, <2>2, <2>3 DEF ExcTypeOK
    <3>2. CASE q # p
      <4>1. exc_pc'[q] = exc_pc[q] /\ exc_source'[q] = exc_source[q]
        BY <3>2, <1>t, <1>2, <2>2
        DEF ExcTypeOK, exc_goes, exc_begins_write, exc_loads_indices, exc_all
      <4> QED BY <1>t, <4>1 DEF ExcSource, exc_calls
    <3> QED BY <3>1, <3>2
  <2> QED BY <1>t, <1>2, <2>1, <2>4, <2>5
      DEF ExcInv, ExcTypeOK, exc_begins_write, exc_loads_indices
<1>3. CASE exc_loads_flag(p)
  <2>1. ExcHolders' /\ exc_pc' \in [exc_all -> exc_places]
    BY <1>t, <1>3, GoesOn DEF exc_loads_flag, exc_places
  <2>2. ExcSource' BY <1>t, <1>3, KeepsSource DEF exc_loads_flag
  <2> QED BY <1>t, <1>3, <2>1, <2>2 DEF ExcInv, ExcTypeOK, exc_loads_flag
<1>4. CASE exc_copies_in(p)
  <2>1. ExcHolders' /\ exc_pc' \in [exc_all -> exc_places]
    BY <1>t, <1>4, GoesOn DEF exc_copies_in, exc_places
  <2>2. ExcSource' BY <1>t, <1>4, KeepsSource DEF exc_copies_in
  <2> QED BY <1>t, <1>4, <2>1, <2>2 DEF ExcInv, ExcTypeOK, exc_copies_in
<1>5. CASE exc_stores_written(p)
  <2>1. ExcHolders' /\ exc_pc' \in [exc_all -> exc_places]
    BY <1>t, <1>5, GoesOn DEF exc_stores_written, exc_places
  <2>2. ExcSource' BY <1>t, <1>5, KeepsSource DEF exc_stores_written
  <2>3. stream' \in Seq(ExcItem) /\ Len(stream') <= Slots
    <3>1. exc_source[p] \in Seq(ExcItem) /\ Len(exc_source[p]) = 1
      <4>0. p # Free BY <1>t, ProcessAssumption
      <4>1. exc_source[p] \in [1 .. 1 -> ExcItem]
        BY <1>t, <1>5, <4>0 DEF ExcSource, exc_stores_written, exc_goes, exc_calls
      <4> QED BY <1>t, <4>1 DEF ExcTypeOK
    <3>2. /\ stream \o exc_source[p] \in Seq(ExcItem)
          /\ Len(stream) < Slots => Len(stream \o exc_source[p]) <= Slots
      <4>1. stream \in Seq(ExcItem) BY <1>t DEF ExcTypeOK
      <4>2. PICK source \in Seq(ExcItem) : source = exc_source[p] /\ Len(source) = 1 BY <3>1
      <4>3. stream \o source \in Seq(ExcItem) /\ Len(stream \o source) = Len(stream) + 1
        <5>1. /\ stream \o source \in Seq(ExcItem)
              /\ Len(stream \o source) = Len(stream) + Len(source)
          BY <4>1, ConcatProperties
        <5> QED BY <5>1, <4>2
      <4> QED BY <4>1, <4>2, <4>3, SlotsAssumption
    <3> QED BY <1>5, <3>2, FollowItems DEF exc_stores_written
  <2>4. write_index' \in Spsc!Index
    BY <1>t, <1>5, OneOn DEF exc_stores_written, ExcTypeOK
  <2> QED BY <1>t, <1>5, <2>1, <2>2, <2>3, <2>4 DEF ExcInv, ExcTypeOK, exc_stores_written
<1>6. CASE exc_stores_flag(p, "set_flag", TRUE)
  <2>1. ExcHolders' /\ exc_pc' \in [exc_all -> exc_places]
    BY <1>t, <1>6, GoesOn DEF exc_stores_flag, exc_places
  <2>2. ExcSource' BY <1>t, <1>6, KeepsSource DEF exc_stores_flag
  <2> QED BY <1>t, <1>6, <2>1, <2>2 DEF ExcInv, ExcTypeOK, exc_stores_flag
<1>7. CASE rb_release_write(p)
  <2>1. ExcTypeOK'
    <3>1. exc_source' \in [Writing -> Seq(ExcItem)]
      BY <1>t, <1>7 DEF rb_release_write, ExcTypeOK
    <3> QED BY <1>t, <1>7, <3>1 DEF rb_release_write, exc_goes, ExcTypeOK, exc_places
  <2>2. ExcHolders' BY <1>t, <1>7, ProcessAssumption
    DEF rb_release_write, exc_goes, ExcTypeOK, ExcHolders, exc_all
  <2>3. ExcSource'
    <3> SUFFICES ASSUME NEW q \in Writing, exc_calls(q)'
                 PROVE  exc_source'[q] \in [1 .. 1 -> ExcItem]
      BY DEF ExcSource
    <3>1. q # p /\ exc_pc'[q] = exc_pc[q] /\ exc_source'[q] = exc_source[q]
      BY <1>t, <1>7 DEF ExcTypeOK, exc_goes, rb_release_write, exc_calls, exc_all
    <3> QED BY <1>t, <3>1 DEF ExcSource, exc_calls
  <2> QED BY <2>1, <2>2, <2>3 DEF ExcInv
<1> QED BY <1>1, <1>2, <1>3, <1>4, <1>5, <1>6, <1>7 DEF exc_writes

LEMMA ExcNextInv == ExcInv /\ [ExcNext]_exc_vars => ExcInv'
<1> SUFFICES ASSUME ExcInv, [ExcNext]_exc_vars PROVE ExcInv' OBVIOUS
<1> USE DEF exc_vars, exc_ring, exc_past, exc_sides
<1>1. CASE UNCHANGED exc_vars
  BY <1>1 DEF ExcInv, ExcTypeOK, ExcHolders, ExcSource, exc_calls
<1>2. ASSUME NEW p \in exc_all \ exc_dead, exc_dies(p) PROVE ExcInv'
  BY <1>2 DEF exc_dies, ExcInv, ExcTypeOK, ExcHolders, ExcSource, exc_calls
<1> QED BY <1>1, <1>2, ExcReadsInv, ExcWritesInv DEF ExcNext

-----------------------------------------------------------------------------
\* A call that finds an item, or room for one, goes on to its copy.
LEMMA ReaderServesOne ==
  ASSUME NEW can \in Nat \ {0}, exc_rd' = exc_rd_at("copy")
  PROVE  Spsc!ReaderServes("rb_read", 1, can)
<1>1. Spsc!rb_MIN(1, can) = 1 BY DEF Spsc!rb_MIN
<1>2. 0 .. 1 - 1 = {0} OBVIOUS
<1> QED BY <1>1, <1>2 DEF Spsc!ReaderServes, Spsc!Copies, exc_rd_at, Spsc!ReaderAt

\* Each step of a process is a step of RbSpsc's thread, or none.
LEMMA ReadsAsReader ==
  ASSUME ExcInv, NEW p \in Reading, exc_reads(p)
  PROVE  Spsc!Reader \/ UNCHANGED Spsc!vars
<1> USE DEF exc_ring, exc_past, exc_sides, Spsc!vars, Spsc!shared, Spsc!totals
<1>t. ExcTypeOK /\ ExcHolders /\ p \in exc_all /\ p # Free /\ p \notin Writing
  BY ProcessAssumption DEF ExcInv, exc_all
<1>r. read_index \in 0 .. Slots - 1 /\ Slots \in Nat \ {0}
  BY <1>t, SlotsAssumption DEF ExcTypeOK, Spsc!Index
<1> USE DEF exc_rd_at, Spsc!IdleReader, Spsc!ReaderAt
<1>1. CASE rb_try_exclusive_read(p)
  <2>1. exc_rd' = exc_rd
    BY <1>t, <1>1 DEF rb_try_exclusive_read, exc_goes, exc_rd, exc_calls, ExcTypeOK
  <2>2. exc_wr' = exc_wr
    <3>1. /\ write_lock' = write_lock /\ exc_source' = exc_source
          /\ write_lock # Free => exc_pc'[write_lock] = exc_pc[write_lock]
      BY <1>t, <1>1 DEF rb_try_exclusive_read, exc_goes, ExcTypeOK, exc_all
    <3> QED BY <3>1 DEF exc_wr, exc_calls, exc_todo
  <2> QED BY <1>1, <2>1, <2>2 DEF rb_try_exclusive_read
<1>2. CASE exc_begins_read(p)
  <2> DEFINE to == IF read_index = write_index THEN "load_flag" ELSE "copy"
  <2>1. /\ exc_rd.pc = "idle" /\ exc_rd' = exc_rd_at(to) /\ exc_wr' = exc_wr
        /\ exc_calls(write_lock) <=> exc_wr.pc # "idle"
    BY <1>2, ReadingStep DEF exc_begins_read, exc_loads_indices
  <2>2. Spsc!ReaderLoadsIndex("rb_read", 1)
    <3>1. CASE read_index = write_index BY <2>1, <3>1 DEF Spsc!ReaderLoadsIndex
    <3>2. CASE read_index # write_index
      <4>1. PICK can : can = Spsc!rb_can_read(read_index, write_index, FALSE) OBVIOUS
      <4>2. can \in Nat \ {0}
        BY <1>t, <1>r, <3>2, <4>1 DEF ExcTypeOK, Spsc!Index, Spsc!rb_can_read
      <4>3. Spsc!ReaderServes("rb_read", 1, can) BY <2>1, <3>2, <4>2, ReaderServesOne
      <4> QED BY <3>2, <4>1, <4>3 DEF Spsc!ReaderLoadsIndex
    <3> QED BY <3>1, <3>2
  <2>3. Spsc!reader_call
    BY <1>2, <2>1, <2>2 DEF exc_begins_read, exc_loads_indices, Spsc!reader_call
  <2> QED BY <2>3 DEF Spsc!Reader
<1>3. CASE exc_loads_flag(p)
  <2>1. /\ exc_rd = exc_rd_at("load_flag") /\ exc_wr' = exc_wr
        /\ exc_rd' = exc_rd_at(IF last_was_write THEN "copy" ELSE "served")
    BY <1>t, <1>3, ReadingStep DEF exc_loads_flag, ExcTypeOK
  <2> DEFINE can == IF last_was_write THEN Slots ELSE 0
  <2>2. Spsc!ReaderServes("rb_read", 1, can)
    <3>1. CASE last_was_write BY <1>r, <2>1, <3>1, ReaderServesOne
    <3>2. CASE ~last_was_write BY <2>1, <3>2 DEF Spsc!ReaderServes
    <3> QED BY <3>1, <3>2
  <2>3. misled' = (misled \/ (intact /\ can > Len(stream)))
    BY <1>t, <1>3, <1>r DEF exc_loads_flag, ExcTypeOK
  <2>4. Spsc!reader_loads_flag
    BY <1>3, <2>1, <2>2, <2>3 DEF exc_loads_flag, Spsc!reader_loads_flag
  <2> QED BY <2>4 DEF Spsc!Reader
<1>4. CASE exc_copies_out(p)
  <2>1. /\ exc_rd = exc_rd_at("copy") /\ exc_wr' = exc_wr
        /\ exc_rd' = exc_rd_at("store_index")
    BY <1>4, ReadingStep DEF exc_copies_out
  <2>2. (read_index + 0) % Slots = read_index BY <1>r
  <2>3. stream # <<>> <=> 0 < Len(stream) BY <1>t DEF ExcTypeOK
  <2>4. Spsc!Follow(0 < Len(stream) /\ exc_buf[(read_index + 0) % Slots] = stream[0 + 1], stream)
    BY <1>4, <2>2, <2>3 DEF exc_copies_out, Spsc!Follow
  <2>5. Spsc!reader_copies
    BY <1>4, <2>1, <2>4 DEF exc_copies_out, Spsc!reader_copies
  <2> QED BY <2>5 DEF Spsc!Reader
<1>5. CASE exc_stores_read(p)
  <2>1. /\ exc_rd = exc_rd_at("store_index") /\ exc_wr' = exc_wr
        /\ exc_rd' = exc_rd_at("clear_flag")
    BY <1>5, ReadingStep DEF exc_stores_read
  <2>2. stream # <<>> <=> 1 <= Len(stream) BY <1>t DEF ExcTypeOK
  <2>3. Spsc!Follow(1 <= Len(stream), SubSeq(stream, 1 + 1, Len(stream)))
    BY <1>5, <2>2 DEF exc_stores_read, Spsc!Follow
  <2>4. Spsc!reader_stores_index
    BY <1>5, <2>1, <2>3 DEF exc_stores_read, Spsc!reader_stores_index
  <2> QED BY <2>4 DEF Spsc!Reader
<1>6. CASE exc_stores_flag(p, "clear_flag", FALSE)
  <2>1. /\ exc_rd = exc_rd_at("clear_flag") /\ exc_wr' = exc_wr
        /\ exc_rd' = exc_rd_at("served")
    BY <1>6, ReadingStep DEF exc_stores_flag
  <2>2. (0 + 1) % 1 = 0 OBVIOUS
  <2>3. Spsc!reader_clears_flag
    BY <1>6, <2>1, <2>2 DEF exc_stores_flag, Spsc!reader_clears_flag
  <2> QED BY <2>3 DEF Spsc!Reader
<1>7. CASE rb_release_read(p)
  <2>1. exc_rd' = exc_rd
    BY <1>t, <1>7 DEF rb_release_read, exc_goes, exc_rd, exc_calls, ExcTypeOK, ExcHolders
  <2>2. exc_wr' = exc_wr
    <3>1. /\ write_lock' = write_lock /\ exc_source' = exc_source
          /\ write_lock # Free => exc_pc'[write_lock] = exc_pc[write_lock]
      BY <1>t, <1>7 DEF rb_release_read, exc_goes, ExcTypeOK, exc_all
    <3> QED BY <3>1 DEF exc_wr, exc_calls, exc_todo
  <2> QED BY <1>7, <2>1, <2>2 DEF rb_release_read
<1> QED BY <1>1, <1>2, <1>3, <1>4, <1>5, <1>6, <1>7 DEF exc_reads

LEMMA WriterServesOne ==
  ASSUME NEW can \in Nat \ {0}, NEW item \in ExcItem, exc_wr' = exc_wr_at("copy", <<item>>)
  PROVE  Spsc!WriterServes("rb_write", <<item>>, can)
<1>1. Len(<<item>>) = 1 /\ SubSeq(<<item>>, 1, 1) = <<item>>
  <2>1. <<item>> \in Seq(ExcItem) /\ Len(<<item>>) = 1 OBVIOUS
  <2>2. \A s \in Seq(ExcItem) : SubSeq(s, 1, Len(s)) = s BY SubSeqFull
  <2> QED BY <2>1, <2>2
<1>2. Spsc!rb_MIN(1, can) = 1 BY DEF Spsc!rb_MIN
<1>3. 0 .. 1 - 1 = {0} OBVIOUS
<1> QED BY <1>1, <1>2, <1>3 DEF Spsc!WriterServes, exc_wr_at, Spsc!WriterAt

LEMMA WritesAsWriter ==
  ASSUME ExcInv, NEW p \in Writing, exc_writes(p)
  PROVE  Spsc!Writer \/ UNCHANGED Spsc!vars
<1> USE DEF exc_ring, exc_past, exc_sides, Spsc!vars, Spsc!shared, Spsc!totals
<1>t. ExcTypeOK /\ ExcHolders /\ ExcSource /\ p \in exc_all /\ p # Free /\ p \notin Reading
  BY ProcessAssumption DEF ExcInv, exc_all
<1>r. write_index \in 0 .. Slots - 1 /\ Slots \in Nat \ {0}
  BY <1>t, SlotsAssumption DEF ExcTypeOK, Spsc!Index
<1>s. ASSUME exc_pc[p] \notin {"idle", "locked", "served"}
      PROVE  \E item \in ExcItem : exc_source[p] = <<item>>
  <2>1. exc_source[p] \in [1 .. 1 -> ExcItem] BY <1>t, <1>s DEF ExcSource, exc_calls
  <2>2. exc_source[p] = <<exc_source[p][1]>> /\ exc_source[p][1] \in ExcItem BY <2>1
  <2> QED BY <2>2
<1> USE DEF exc_wr_at, Spsc!IdleWriter, Spsc!WriterAt
<1>1. CASE rb_try_exclusive_write(p)
  <2>1. exc_wr' = exc_wr
    BY <1>t, <1>1 DEF rb_try_exclusive_write, exc_goes, exc_wr, exc_calls, ExcTypeOK
  <2>2. exc_rd' = exc_rd
    <3>1. /\ read_lock' = read_lock
          /\ read_lock # Free => exc_pc'[read_lock] = exc_pc[read_lock]
      BY <1>t, <1>1 DEF rb_try_exclusive_write, exc_goes, ExcTypeOK, exc_all
    <3> QED BY <3>1 DEF exc_rd, exc_calls, exc_todo
  <2> QED BY <1>1, <2>1, <2>2 DEF rb_try_exclusive_write
<1>2. CASE exc_begins_write(p)
  <2> DEFINE to == IF read_index = write_index THEN "load_flag" ELSE "copy"
  <2>1. PICK item \in ExcItem : exc_source' = [exc_source EXCEPT ![p] = <<item>>]
    BY <1>2 DEF exc_begins_write
  <2>2. exc_source'[p] = <<item>> BY <1>t, <2>1 DEF ExcTypeOK
  <2>3. /\ exc_wr.pc = "idle" /\ exc_wr' = exc_wr_at(to, <<item>>) /\ exc_rd' = exc_rd
        /\ exc_calls(read_lock) <=> exc_rd.pc # "idle"
    BY <1>2, <2>2, WritingStep DEF exc_begins_write, exc_loads_indices
  <2>4. Spsc!WriterLoadsIndex("rb_write", <<item>>)
    <3>1. CASE read_index = write_index
      <4>1. Len(<<item>>) = 1 OBVIOUS
      <4> QED BY <2>3, <3>1, <4>1 DEF Spsc!WriterLoadsIndex
    <3>2. CASE read_index # write_index
      <4>1. PICK can : can = Spsc!rb_can_write(read_index, write_index, FALSE) OBVIOUS
      <4>2. can \in Nat \ {0}
        BY <1>t, <1>r, <3>2, <4>1 DEF ExcTypeOK, Spsc!Index, Spsc!rb_can_write
      <4>3. Spsc!WriterServes("rb_write", <<item>>, can)
        BY <2>3, <3>2, <4>2, WriterServesOne
      <4> QED BY <3>2, <4>1, <4>3 DEF Spsc!WriterLoadsIndex
    <3> QED BY <3>1, <3>2
  <2>5. <<item>> \in [1 .. 1 -> ExcItem] OBVIOUS
  <2>6. Spsc!writer_call
    BY <1>2, <2>3, <2>4, <2>5 DEF exc_begins_write, exc_loads_indices, Spsc!writer_call
  <2> QED BY <2>6 DEF Spsc!Writer
<1>3. CASE exc_loads_flag(p)
  <2>1. PICK item \in ExcItem : exc_source[p] = <<item>>
    BY <1>3, <1>s DEF exc_loads_flag, exc_goes
  <2>2. /\ exc_wr = exc_wr_at("load_flag", <<item>>) /\ exc_rd' = exc_rd
        /\ exc_wr' = exc_wr_at(IF last_was_write THEN "served" ELSE "copy", <<item>>)
    <3> DEFINE to == IF last_was_write THEN "served" ELSE "copy"
    <3>1. to = IF last_was_write = (p \in Reading) THEN "copy" ELSE "served"
      BY <1>t DEF ExcTypeOK
    <3> HIDE DEF to
    <3>2. exc_goes(p, "load_flag", to) /\ UNCHANGED exc_sides
      BY <1>3, <3>1 DEF exc_loads_flag
    <3> QED BY <2>1, <3>2, WritingStep DEF to
  <2> DEFINE can == IF last_was_write THEN 0 ELSE Slots
  <2>3. Spsc!WriterServes("rb_write", <<item>>, can)
    <3>1. CASE ~last_was_write BY <1>r, <2>2, <3>1, WriterServesOne
    <3>2. CASE last_was_write
      <4>1. Len(<<item>>) = 1 /\ can = 0 BY <3>2
      <4> QED BY <2>2, <3>2, <4>1 DEF Spsc!WriterServes
    <3> QED BY <3>1, <3>2
  <2>4. misled' = (misled \/ (intact /\ can > Slots - Len(stream)))
    <3>1. stream # <<>> <=> Len(stream) > 0 BY <1>t DEF ExcTypeOK
    <3>2. (last_was_write = (p \in Reading)) = ~last_was_write BY <1>t DEF ExcTypeOK
    <3>3. misled' = (misled \/ (/\ intact /\ ~last_was_write /\ stream # <<>>))
      BY <1>t, <1>3, <3>2 DEF exc_loads_flag
    <3>4. Len(stream) \in 0 .. Slots BY <1>t, SlotsAssumption DEF ExcTypeOK
    <3>5. (can > Slots - Len(stream)) <=> (~last_was_write /\ Len(stream) > 0)
      <4>1. CASE last_was_write BY <3>4, <1>r, <4>1
      <4>2. CASE ~last_was_write BY <3>4, <1>r, <4>2
      <4> QED BY <4>1, <4>2
    <3> QED BY <3>1, <3>3, <3>5
  <2>5. Spsc!writer_loads_flag
    BY <1>3, <2>2, <2>3, <2>4 DEF exc_loads_flag, Spsc!writer_loads_flag
  <2> QED BY <2>5 DEF Spsc!Writer
<1>4. CASE exc_copies_in(p)
  <2>1. PICK item \in ExcItem : exc_source[p] = <<item>>
    BY <1>4, <1>s DEF exc_copies_in, exc_goes
  <2>2. /\ exc_wr = exc_wr_at("copy", <<item>>) /\ exc_rd' = exc_rd
        /\ exc_wr' = exc_wr_at("store_index", <<item>>)
    BY <1>4, <2>1, WritingStep DEF exc_copies_in
  <2>3. (write_index + 0) % Slots = write_index /\ exc_source[p][1] = <<item>>[0 + 1]
    BY <1>r, <2>1
  <2>4. exc_buf' = [exc_buf EXCEPT ![(write_index + 0) % Slots] = <<item>>[0 + 1]]
    BY <1>4, <2>1, <2>3 DEF exc_copies_in
  <2>5. Spsc!writer_copies
    BY <1>4, <2>2, <2>4 DEF exc_copies_in, Spsc!writer_copies
  <2> QED BY <2>5 DEF Spsc!Writer
<1>5. CASE exc_stores_written(p)
  <2>1. PICK item \in ExcItem : exc_source[p] = <<item>>
    BY <1>5, <1>s DEF exc_stores_written, exc_goes
  <2>2. /\ exc_wr = exc_wr_at("store_index", <<item>>) /\ exc_rd' = exc_rd
        /\ exc_wr' = exc_wr_at("set_flag", <<item>>)
    BY <1>5, <2>1, WritingStep DEF exc_stores_written
  <2>3. Len(stream) < Slots <=> Len(stream) + 1 <= Slots BY <1>t, <1>r DEF ExcTypeOK
  <2>4. Spsc!Follow(Len(stream) + 1 <= Slots, stream \o <<item>>)
    BY <1>5, <2>1, <2>3 DEF exc_stores_written, Spsc!Follow
  <2>5. Spsc!writer_stores_index
    BY <1>5, <2>2, <2>4 DEF exc_stores_written, Spsc!writer_stores_index
  <2> QED BY <2>5 DEF Spsc!Writer
<1>6. CASE exc_stores_flag(p, "set_flag", TRUE)
  <2>1. PICK item \in ExcItem : exc_source[p] = <<item>>
    BY <1>6, <1>s DEF exc_stores_flag, exc_goes
  <2>2. /\ exc_wr = exc_wr_at("set_flag", <<item>>) /\ exc_rd' = exc_rd
        /\ exc_wr' = exc_wr_at("served", <<item>>)
    BY <1>6, <2>1, WritingStep DEF exc_stores_flag
  <2>3. (0 + 1) % 1 = 0 OBVIOUS
  <2>4. Spsc!writer_sets_flag
    BY <1>6, <2>2, <2>3 DEF exc_stores_flag, Spsc!writer_sets_flag
  <2> QED BY <2>4 DEF Spsc!Writer
<1>7. CASE rb_release_write(p)
  <2>1. exc_wr' = exc_wr
    BY <1>t, <1>7 DEF rb_release_write, exc_goes, exc_wr, exc_calls, ExcTypeOK, ExcHolders
  <2>2. exc_rd' = exc_rd
    <3>1. /\ read_lock' = read_lock
          /\ read_lock # Free => exc_pc'[read_lock] = exc_pc[read_lock]
      BY <1>t, <1>7 DEF rb_release_write, exc_goes, ExcTypeOK, exc_all
    <3> QED BY <3>1 DEF exc_rd, exc_calls, exc_todo
  <2> QED BY <1>7, <2>1, <2>2 DEF rb_release_write
<1> QED BY <1>1, <1>2, <1>3, <1>4, <1>5, <1>6, <1>7 DEF exc_writes

\* Any number of processes under the two locks, on any ring and wherever they
\* die, are one reader and one writer of RbSpsc.
THEOREM ExclusiveAsOne == ExcSpec => ExclusiveIsSpsc
<1>1. ExcInit => Spsc!Init
  <2> SUFFICES ASSUME ExcInit PROVE Spsc!Init OBVIOUS
  <2>1. exc_rd = Spsc!IdleReader /\ exc_wr = Spsc!IdleWriter
    BY DEF ExcInit, exc_rd, exc_wr, exc_calls, Spsc!IdleReader, Spsc!IdleWriter,
           Spsc!ReaderAt, Spsc!WriterAt
  <2> QED BY <2>1 DEF ExcInit, Spsc!Init
<1>2. ExcInv /\ [ExcNext]_exc_vars => [Spsc!Next]_Spsc!vars
  <2> SUFFICES ASSUME ExcInv, [ExcNext]_exc_vars
               PROVE  Spsc!Reader \/ Spsc!Writer \/ UNCHANGED Spsc!vars
    BY DEF Spsc!Next
  <2>1. ASSUME UNCHANGED <<exc_pc, read_lock, write_lock, exc_source, exc_ring, exc_past>>
        PROVE  UNCHANGED Spsc!vars
    BY <2>1 DEF exc_rd, exc_wr, exc_calls, exc_todo, exc_ring, exc_past, Spsc!vars,
                Spsc!shared, Spsc!totals
  <2>2. CASE UNCHANGED exc_vars BY <2>1, <2>2 DEF exc_vars, exc_sides
  <2>3. CASE \E p \in exc_all \ exc_dead : exc_dies(p) BY <2>1, <2>3 DEF exc_dies
  <2> QED BY <2>2, <2>3, ReadsAsReader, WritesAsWriter DEF ExcNext
<1> QED BY <1>1, <1>2, ExcInitInv, ExcNextInv, PTL DEF ExcSpec, ExclusiveIsSpsc, Spsc!Spec
-----------------------------------------------------------------------------
(* tailf.                                                                   *)

TailTypeOK ==
  /\ tail_file \in Seq(tail_bytes) /\ prev_end \in Nat /\ fposition \in Int
  /\ tail_pc \in {"idle", "walk", "print"}

\* Some newline is not the file's last byte.
TwoLines == \E k \in 1 .. Len(tail_file) - 1 : tail_file[k] = Newline

\* No newline behind place p, but for the one that may end the file.
NoneBehind(p) ==
  \A k \in 0 .. Len(tail_file) - 1 :
    k > p => tail_file[k + 1] # Newline \/ Len(tail_file) - k <= 1

\* A file that has the length of the last look, was not rewritten up to it and
\* not misread, has not changed since: what has been found of it still stands.
TailFound ==
  prev_end = Len(tail_file) /\ ~tail_masked /\ ~tail_misread =>
    /\ tail_pc = "walk" => fposition \in 0 .. Len(tail_file) /\ NoneBehind(fposition)
    /\ tail_pc = "print" =>
         /\ fposition \in 0 .. Len(tail_file) - 2 /\ tail_file[fposition + 1] = Newline
         /\ NoneBehind(fposition)
    /\ tail_pc = "idle" /\ TwoLines => IsLastLine(tail_shown)

TailInv == TailTypeOK /\ TailFound

LEMMA TailInitInv == TailInit => TailInv
<1> SUFFICES ASSUME TailInit PROVE TailInv OBVIOUS
<1>1. TailTypeOK BY DEF TailInit, TailTypeOK
<1>2. ~TwoLines BY DEF TailInit, TwoLines
<1> QED BY <1>1, <1>2 DEF TailInit, TailInv, TailFound

\* Another process writes: the length is another one, or the history says so.
LEMMA TailChangesInv ==
  ASSUME TailInv, NEW file \in Seq(tail_bytes), tail_changes(file) PROVE TailInv'
BY DEF TailInv, TailTypeOK, TailFound, tail_changes

\* The walk begins behind all newlines; a look at the same length changes
\* stdio's buffer only.
LEMMA WalkFileInv == ASSUME TailInv, walkFile PROVE TailInv'
<1>t. TailTypeOK /\ TailFound /\ tail_file' = tail_file /\ tail_shown' = tail_shown
  BY DEF TailInv, walkFile
<1>1. CASE Len(tail_file) = prev_end
  <2>1. UNCHANGED <<prev_end, fposition, tail_pc, tail_masked, tail_misread>>
    BY <1>1 DEF walkFile
  <2> QED BY <1>t, <2>1
      DEF TailInv, TailTypeOK, TailFound, TwoLines, NoneBehind, IsLastLine
<1>2. CASE Len(tail_file) # prev_end
  <2>1. /\ prev_end' = Len(tail_file) /\ fposition' = Len(tail_file)
        /\ tail_pc' = "walk" /\ tail_masked' = FALSE /\ tail_misread' = FALSE
    BY <1>2 DEF walkFile
  <2>2. Len(tail_file) \in Nat BY <1>t DEF TailTypeOK
  <2>3. TailTypeOK' BY <1>t, <2>1, <2>2 DEF TailTypeOK
  <2>4. TailFound' BY <1>t, <2>1, <2>2 DEF TailFound, NoneBehind
  <2> QED BY <2>3, <2>4 DEF TailInv
<1> QED BY <1>1, <1>2

\* A turn of the walk goes past a byte that is no newline, or the last one, or
\* stops at a newline.
LEMMA TailWalksInv == ASSUME TailInv, tail_walks PROVE TailInv'
<1> DEFINE L == Len(tail_file)  c == ByteAt(fgetc(tail_buffer, fposition), fposition)
           there == ByteAt([at |-> 0, bytes |-> tail_file], fposition)
<1>t. /\ TailTypeOK /\ TailFound /\ L \in Nat /\ tail_pc = "walk"
      /\ UNCHANGED <<tail_file, prev_end, tail_shown, tail_masked>>
  BY DEF TailInv, TailTypeOK, tail_walks
<1>1. /\ tail_misread' = (tail_misread \/ c # there)
      /\ IF c = Newline /\ prev_end - fposition > 1
           THEN tail_pc' = "print" /\ fposition' = fposition
           ELSE /\ fposition' = fposition - 1
                /\ tail_pc' = IF fposition = 0 THEN "idle" ELSE "walk"
  BY DEF tail_walks, tail_stops
<1>2. fposition \in 0 .. L - 1 => there = tail_file[fposition + 1]
  BY DEF ByteAt
<1>3. TailTypeOK' BY <1>t, <1>1 DEF TailTypeOK
<1>4. TailFound'
  <2> SUFFICES ASSUME prev_end = L, ~tail_masked, ~tail_misread, c = there
               PROVE  /\ tail_pc' = "walk" => fposition' \in 0 .. L /\ NoneBehind(fposition')
                      /\ tail_pc' = "print" =>
                           /\ fposition' \in 0 .. L - 2
                           /\ tail_file[fposition' + 1] = Newline
                           /\ NoneBehind(fposition')
                      /\ tail_pc' = "idle" => ~TwoLines
    BY <1>t, <1>1 DEF TailFound, TwoLines, NoneBehind, TailTypeOK
  <2>1. fposition \in 0 .. L /\ NoneBehind(fposition) BY <1>t DEF TailFound
  <2> HIDE DEF c, there
  <2>2. CASE c = Newline /\ prev_end - fposition > 1
    <3>1. tail_pc' = "print" /\ fposition' = fposition /\ fposition \in 0 .. L - 2
      BY <1>1, <1>t, <2>1, <2>2
    <3> QED BY <1>2, <1>t, <2>1, <2>2, <3>1
  <2>3. CASE ~(c = Newline /\ prev_end - fposition > 1)
    <3>1. NoneBehind(fposition - 1)
      <4> SUFFICES ASSUME NEW k \in 0 .. L - 1, k > fposition - 1
                   PROVE  tail_file[k + 1] # Newline \/ L - k <= 1
        BY DEF NoneBehind
      <4>1. CASE k > fposition BY <2>1, <4>1 DEF NoneBehind
      <4>2. CASE k = fposition BY <1>2, <1>t, <2>3, <4>2
      <4> QED BY <4>1, <4>2, <2>1
    <3>2. CASE fposition = 0
      <4>1. NoneBehind(-1) BY <3>1, <3>2
      <4>2. ASSUME NEW k \in 1 .. L - 1, tail_file[k] = Newline PROVE FALSE
        <5>1. /\ k - 1 \in 0 .. L - 1 /\ k - 1 > -1 /\ (k - 1) + 1 = k
              /\ ~(L - (k - 1) <= 1)
          BY <1>t
        <5> QED BY <4>1, <4>2, <5>1 DEF NoneBehind
      <4> QED BY <1>1, <2>3, <3>2, <4>2 DEF TwoLines
    <3>3. CASE fposition # 0 BY <1>1, <2>1, <2>3, <3>1, <3>3
    <3> QED BY <3>2, <3>3
  <2> QED BY <2>2, <2>3
<1> QED BY <1>3, <1>4 DEF TailInv

LEMMA PrintLineInv == ASSUME TailInv, printLine PROVE TailInv'
<1> USE DEF TailInv, printLine
<1>1. TailTypeOK' BY DEF TailTypeOK
<1>2. TailFound'
  <2> SUFFICES ASSUME prev_end = Len(tail_file), ~tail_masked, ~tail_misread
               PROVE  \E k \in 1 .. Len(tail_file) - 1 :
                        /\ tail_file[k] = Newline
                        /\ tail_shown' = SubSeq(tail_file, k + 1, Len(tail_file))
                        /\ Newline \notin {tail_file[j] : j \in k + 1 .. Len(tail_file) - 1}
    BY DEF TailFound, IsLastLine
  <2> DEFINE L == Len(tail_file)
  <2>l. L \in Nat /\ tail_file \in Seq(tail_bytes) BY DEF TailTypeOK
  <2>3. fposition \in 0 .. L - 2 /\ tail_file[fposition + 1] = Newline /\ NoneBehind(fposition)
    BY DEF TailFound
  <2>6. ASSUME NEW j \in (fposition + 1) + 1 .. L - 1 PROVE tail_file[j] # Newline
    <3>1. j - 1 \in 0 .. L - 1 /\ j - 1 > fposition /\ (j - 1) + 1 = j /\ ~(L - (j - 1) <= 1)
      BY <2>3, <2>l
    <3> QED BY <2>3, <3>1 DEF NoneBehind
  <2>5. tail_shown' = SubSeq(tail_file, (fposition + 1) + 1, L)
    BY <2>3, (fposition + 1) + 1 = fposition + 2 DEF L
  <2> HIDE DEF L
  <2>4. fposition + 1 \in 1 .. L - 1 BY <2>3, <2>l
  <2> QED BY <2>3, <2>4, <2>5, <2>6 DEF L
<1> QED BY <1>1, <1>2

LEMMA TailNextInv == TailInv /\ [TailNext]_tail_vars => TailInv'
<1> SUFFICES ASSUME TailInv, [TailNext]_tail_vars PROVE TailInv' OBVIOUS
<1>1. CASE UNCHANGED tail_vars
  BY <1>1 DEF TailInv, TailTypeOK, TailFound, TwoLines, NoneBehind, IsLastLine, tail_vars
<1>2. CASE tail_appends
  <2>1. PICK b \in tail_bytes : tail_changes(Append(tail_file, b)) BY <1>2 DEF tail_appends
  <2>2. Append(tail_file, b) \in Seq(tail_bytes) BY DEF TailInv, TailTypeOK
  <2> QED BY <2>1, <2>2, TailChangesInv
<1>3. CASE tail_truncates
  <2>1. <<>> \in Seq(tail_bytes) /\ tail_changes(<<>>) BY <1>3 DEF tail_truncates
  <2> QED BY <2>1, TailChangesInv
<1> QED BY <1>1, <1>2, <1>3, WalkFileInv, TailWalksInv, PrintLineInv DEF TailNext

\* What tailf has printed is the last line of the file it last looked at,
\* however long the file, whatever stdio's buffer holds and however writers and
\* polls interleave, unless the walk met a byte that the file no longer had.
THEOREM TailfShowsLast == TailSpec => []TailShowsLast
<1>1. TailInv => TailShowsLast
  BY DEF TailInv, TailTypeOK, TailFound, TailShowsLast, tail_seen, TwoLines
<1> QED BY <1>1, TailInitInv, TailNextInv, PTL DEF TailSpec
-----------------------------------------------------------------------------
(* com.                                                                     *)

ComTypeOK ==
  /\ com_typed \in Seq({"byte", "C-a", "C-x"}) /\ com_arrived \in Seq({"byte"})
  /\ com_read \in [Side -> Nat]
  /\ com_sent \in [Side -> Seq(Nat)] /\ com_unsent \in [Side -> SUBSET Nat]

\* Bytes read have come in; bytes given up have been read; the byte being
\* written is an ordinary one, and the last one read.
ComBounds == \A s \in Side :
  /\ com_read[s] <= Len(com_in(s))
  /\ com_unsent[s] \subseteq 1 .. com_read[s]
  /\ com_pc = com_writing(s) => /\ com_read[s] >= 1
                                /\ com_in(s)[com_read[s]] = "byte"
                                /\ com_read[s] \notin com_unsent[s]

ComInv == ComTypeOK /\ ComBounds /\ ComPassesAll

\* What has been read stays where it is when more comes in.
LEMMA ComInputGrows ==
  ASSUME ComTypeOK, com_outside, NEW s \in Side
  PROVE  /\ com_typed' \in Seq({"byte", "C-a", "C-x"}) /\ com_arrived' \in Seq({"byte"})
         /\ Len(com_in(s)) \in Nat /\ Len(com_in(s)) <= Len(com_in(s)')
         /\ \A k \in 1 .. Len(com_in(s)) : com_in(s)'[k] = com_in(s)[k]
<1> USE DEF ComTypeOK, com_in
<1>1. ASSUME NEW key \in {"byte", "C-a", "C-x"}, com_typed' = Append(com_typed, key)
      PROVE  /\ com_typed' \in Seq({"byte", "C-a", "C-x"})
             /\ Len(com_typed) <= Len(com_typed')
             /\ \A k \in 1 .. Len(com_typed) : com_typed'[k] = com_typed[k]
  BY <1>1
<1>2. ASSUME com_arrived' = Append(com_arrived, "byte")
      PROVE  /\ com_arrived' \in Seq({"byte"})
             /\ Len(com_arrived) <= Len(com_arrived')
             /\ \A k \in 1 .. Len(com_arrived) : com_arrived'[k] = com_arrived[k]
  BY <1>2
<1>3. Len(com_typed) \in Nat /\ Len(com_arrived) \in Nat OBVIOUS
<1> QED BY <1>1, <1>2, <1>3 DEF com_outside

LEMMA ComOutsideInv == ASSUME ComInv, com_outside PROVE ComInv'
<1>1. ComTypeOK'
  BY ComInputGrows DEF ComInv, ComTypeOK, com_outside, com_writing, Side
<1>2. ASSUME NEW s \in Side
      PROVE  /\ com_read[s] \in Nat /\ com_read[s] <= Len(com_in(s)')
             /\ \A k \in 1 .. com_read[s] : com_in(s)'[k] = com_in(s)[k]
  BY <1>2, ComInputGrows DEF ComInv, ComTypeOK, ComBounds
<1>3. com_read' = com_read /\ com_pc' = com_pc /\ com_sent' = com_sent /\ com_unsent' = com_unsent
  BY DEF com_outside
<1>w. \A s \in Side : com_writing(s)' = com_writing(s) /\ com_held(s)' = com_held(s)
  BY <1>3 DEF com_writing, com_held
<1>4. ComBounds'
  <2> SUFFICES ASSUME NEW s \in Side
               PROVE  /\ com_read[s] <= Len(com_in(s)')
                      /\ com_unsent[s] \subseteq 1 .. com_read[s]
                      /\ com_pc = com_writing(s) => /\ com_read[s] >= 1
                                                    /\ com_in(s)'[com_read[s]] = "byte"
                                                    /\ com_read[s] \notin com_unsent[s]
    BY <1>3, <1>w DEF ComBounds
  <2>1. com_read[s] >= 1 => com_in(s)'[com_read[s]] = com_in(s)[com_read[s]] BY <1>2
  <2> QED BY <1>2, <2>1 DEF ComInv, ComBounds
<1>5. ComPassesAll'
  <2> SUFFICES ASSUME NEW s \in Side
               PROVE  /\ {com_sent[s][j] : j \in 1 .. Len(com_sent[s])} =
                           {k \in 1 .. com_read[s] :
                              com_in(s)'[k] = "byte" /\ k \notin com_unsent[s] \cup com_held(s)}
                      /\ \A j, k \in 1 .. Len(com_sent[s]) :
                           j < k => com_sent[s][j] < com_sent[s][k]
    BY <1>3, <1>w DEF ComPassesAll
  <2>1. {k \in 1 .. com_read[s] : com_in(s)'[k] = "byte" /\ k \notin com_unsent[s] \cup com_held(s)}
          = {k \in 1 .. com_read[s] : com_in(s)[k] = "byte" /\ k \notin com_unsent[s] \cup com_held(s)}
    BY <1>2
  <2> QED BY <2>1 DEF ComInv, ComPassesAll
<1> QED BY <1>1, <1>4, <1>5 DEF ComInv

\* A step that reads and writes none of the numbered bytes, and is at no write of
\* one before or after it.
LEMMA ComControlStep ==
  ASSUME ComInv, com_pc \in {"loop", "write more"} \cup Side,
         com_pc' \in {"loop", "closed", "write more"} \cup Side,
         UNCHANGED <<com_input, com_read, com_sent, com_unsent>>
  PROVE  ComInv'
<1> USE DEF ComInv, com_input
<1>1. ComTypeOK' BY DEF ComTypeOK, com_writing
<1>2. \A s \in Side : com_held(s)' = {} /\ com_held(s) = {} /\ com_in(s)' = com_in(s)
  BY DEF com_held, com_writing, com_in, Side
<1>3. ComBounds' BY <1>2 DEF ComBounds, com_writing, Side
<1>4. ComPassesAll'
  <2>1. com_sent' = com_sent /\ com_unsent' = com_unsent /\ com_read' = com_read OBVIOUS
  <2>2. \A s \in Side :
          {k \in 1 .. com_read'[s] :
             com_in(s)'[k] = "byte" /\ k \notin com_unsent'[s] \cup com_held(s)'}
          = {k \in 1 .. com_read[s] :
               com_in(s)[k] = "byte" /\ k \notin com_unsent[s] \cup com_held(s)}
    BY <1>2, <2>1
  <2>3. ComPassesAll OBVIOUS
  <2>4. \A s \in Side :
          /\ {com_sent'[s][j] : j \in 1 .. Len(com_sent'[s])}
               = {k \in 1 .. com_read'[s] :
                    com_in(s)'[k] = "byte" /\ k \notin com_unsent'[s] \cup com_held(s)'}
          /\ \A j, k \in 1 .. Len(com_sent'[s]) :
               j < k => com_sent'[s][j] < com_sent'[s][k]
    BY <2>1, <2>2, <2>3 DEF ComPassesAll
  <2> QED BY <2>4, Zenon DEF ComPassesAll
<1> QED BY <1>1, <1>3, <1>4

\* read(): an ordinary byte is held, anything else was not to be passed on.
LEMMA ComReadsInv == ASSUME ComInv, NEW s \in Side, com_reads(s) PROVE ComInv'
<1> DEFINE there == com_read[s] < Len(com_in(s))
           more == ~there /\ com_waiting(s)
           kind == IF there THEN com_in(s)[com_read[s] + 1]
                   ELSE IF more THEN "byte" ELSE "none"
<1>t. ComTypeOK /\ ComBounds /\ ComPassesAll BY DEF ComInv
<1>1. /\ com_read' = IF there THEN [com_read EXCEPT ![s] = @ + 1] ELSE com_read
      /\ IF kind = "byte" THEN com_pc' = IF more THEN "write more" ELSE com_writing(s)
         ELSE com_pc' = com_after(s)
      /\ com_pc = s
      /\ UNCHANGED <<com_typed, com_arrived, com_sent, com_unsent>>
  BY DEF com_reads, com_passes, com_input
<1>2. CASE ~there
  <2>1. com_read' = com_read BY <1>1, <1>2
  <2>2. com_pc' \in {"write more", com_after(s)} BY <1>1, <1>2
  <2> QED BY <1>1, <2>1, <2>2, ComControlStep DEF com_after, com_reads, Side
<1>3. CASE there
  <2> DEFINE r == com_read[s]
  <2>1. /\ r \in Nat /\ Len(com_in(s)) \in Nat /\ r + 1 <= Len(com_in(s))
        /\ kind = com_in(s)[r + 1] /\ ~more
    BY <1>t, <1>3 DEF ComTypeOK, com_in
  <2>2. /\ com_read' \in [Side -> Nat] /\ com_read'[s] = r + 1
        /\ \A u \in Side : u # s => com_read'[u] = com_read[u]
    BY <1>t, <1>1, <1>3 DEF ComTypeOK
  <2>3. \A u \in Side : /\ com_held(u) = {} /\ com_in(u)' = com_in(u)
                        /\ u # s => com_pc' # com_writing(u)
    BY <1>1 DEF com_held, com_writing, com_in, com_after, Side
  <2>4. /\ kind = "byte" => com_pc' = com_writing(s)
        /\ kind # "byte" => com_pc' # com_writing(s)
    BY <1>1, <2>1 DEF com_writing, com_after, Side
  <2> HIDE DEF there, kind, more
  <2>5. ComTypeOK'
    BY <1>t, <1>1, <2>2 DEF ComTypeOK, com_writing, com_after, Side
  <2>w. \A u \in Side : com_writing(u)' = com_writing(u) BY DEF com_writing
  <2>6. ComBounds'
    <3> SUFFICES ASSUME NEW u \in Side
                 PROVE  /\ com_read'[u] <= Len(com_in(u))
                        /\ com_unsent[u] \subseteq 1 .. com_read'[u]
                        /\ com_pc' = com_writing(u) =>
                             /\ com_read'[u] >= 1 /\ com_in(u)[com_read'[u]] = "byte"
                             /\ com_read'[u] \notin com_unsent[u]
      BY <1>1, <2>3, <2>w DEF ComBounds
    <3>1. CASE u # s BY <3>1, <1>t, <2>2, <2>3 DEF ComBounds
    <3>2. CASE u = s
      <4>1. com_unsent[s] \subseteq 1 .. r BY <1>t DEF ComBounds
      <4>2. r + 1 \notin com_unsent[s] /\ com_unsent[s] \subseteq 1 .. r + 1 BY <4>1, <2>1
      <4> QED BY <3>2, <4>2, <2>1, <2>2, <2>4
    <3> QED BY <3>1, <3>2
  <2>7. ComPassesAll'
    <3> SUFFICES ASSUME NEW u \in Side
                 PROVE  {k \in 1 .. com_read'[u] :
                           com_in(u)[k] = "byte" /\ k \notin com_unsent[u] \cup com_held(u)'}
                      = {k \in 1 .. com_read[u] :
                           com_in(u)[k] = "byte" /\ k \notin com_unsent[u] \cup com_held(u)}
      <4>1. com_sent' = com_sent /\ com_unsent' = com_unsent BY <1>1
      <4>2. \A v \in Side : com_in(v)' = com_in(v) BY <2>3
      <4>3. \A v \in Side :
              {k \in 1 .. com_read'[v] :
                 com_in(v)'[k] = "byte" /\ k \notin com_unsent[v] \cup com_held(v)'}
              = {k \in 1 .. com_read[v] :
                   com_in(v)[k] = "byte" /\ k \notin com_unsent[v] \cup com_held(v)}
        BY <4>2
      <4> QED BY <1>t, <4>1, <4>3 DEF ComPassesAll
    <3>1. CASE u # s BY <3>1, <2>2, <2>3, <2>w DEF com_held
    <3>2. CASE u = s
      <4>1. com_held(s)' = IF kind = "byte" THEN {r + 1} ELSE {}
        BY <2>2, <2>4, <2>w DEF com_held
      <4> QED BY <3>2, <4>1, <2>1, <2>2, <2>3
    <3> QED BY <3>1, <3>2
  <2> QED BY <2>5, <2>6, <2>7 DEF ComInv
<1> QED BY <1>2, <1>3

\* write(): the byte held is passed on behind all others, or is given up.
LEMMA ComWritesInv == ASSUME ComInv, NEW s \in Side, com_writes(s) PROVE ComInv'
<1> DEFINE r == com_read[s]
<1>t. ComTypeOK /\ ComBounds /\ ComPassesAll BY DEF ComInv
<1>1. /\ com_pc = com_writing(s) /\ com_pc' = com_after(s)
      /\ UNCHANGED <<com_typed, com_arrived, com_read>>
  BY DEF com_writes, com_input
<1>2. /\ r \in Nat /\ r >= 1 /\ com_in(s)[r] = "byte" /\ r \notin com_unsent[s]
      /\ com_unsent[s] \subseteq 1 .. r /\ com_sent[s] \in Seq(Nat)
  BY <1>t, <1>1 DEF ComTypeOK, ComBounds
<1>3. \A u \in Side : /\ com_held(u)' = {} /\ com_in(u)' = com_in(u)
                      /\ com_held(u) = IF u = s THEN {r} ELSE {}
                      /\ com_pc' # com_writing(u)' /\ com_writing(u)' = com_writing(u)
  BY <1>1 DEF com_held, com_writing, com_in, com_after, Side
<1> HIDE DEF r
<1>4. {com_sent[s][j] : j \in 1 .. Len(com_sent[s])} =
        {k \in 1 .. r : com_in(s)[k] = "byte" /\ k \notin com_unsent[s] \cup {r}}
  BY <1>t, <1>3 DEF ComPassesAll, r
<1>5. CASE com_sent' = [com_sent EXCEPT ![s] = Append(@, r)] /\ com_unsent' = com_unsent
  <2>1. /\ com_sent' \in [Side -> Seq(Nat)] /\ com_sent'[s] = Append(com_sent[s], r)
        /\ \A u \in Side : u # s => com_sent'[u] = com_sent[u]
    BY <1>t, <1>2, <1>5 DEF ComTypeOK
  <2>2. ComTypeOK' BY <1>t, <1>1, <1>5, <2>1 DEF ComTypeOK, com_writing, com_after, Side
  <2>3. ComBounds' BY <1>t, <1>1, <1>3, <1>5 DEF ComBounds
  <2> DEFINE out == com_sent[s]  L == Len(out)
  <2>4. /\ L \in Nat /\ Len(com_sent'[s]) = L + 1 /\ com_sent'[s][L + 1] = r
        /\ \A j \in 1 .. L : com_sent'[s][j] = out[j]
    BY <2>1, <1>2
  <2>5. {out[j] : j \in 1 .. L} = {k \in 1 .. r : com_in(s)[k] = "byte" /\ k \notin com_unsent[s] \cup {r}}
    BY <1>4
  <2>6. \A j, k \in 1 .. L : j < k => out[j] < out[k] BY <1>t DEF ComPassesAll
  <2>o. \A j \in 1 .. L : out[j] \in Nat BY <1>2
  <2> HIDE DEF out, L
  <2>7. {com_sent'[s][j] : j \in 1 .. L + 1} = {out[j] : j \in 1 .. L} \cup {r}
    <3>1. \A j \in 1 .. L + 1 : j \in 1 .. L \/ j = L + 1 BY <2>4
    <3>2. \A j \in 1 .. L : j \in 1 .. L + 1 BY <2>4
    <3>3. L + 1 \in 1 .. L + 1 BY <2>4
    <3> QED BY <3>1, <3>2, <3>3, <2>4
  <2>8. \A j, k \in 1 .. L + 1 : j < k => com_sent'[s][j] < com_sent'[s][k]
    <3>1. \A j \in 1 .. L : out[j] < r
      <4> SUFFICES ASSUME NEW j \in 1 .. L PROVE out[j] < r OBVIOUS
      <4>1. out[j] \in {out[i] : i \in 1 .. L} OBVIOUS
      <4>2. out[j] \in 1 .. r /\ out[j] # r BY <4>1, <2>5
      <4> QED BY <4>2, <1>2
    <3>2. \A j, k \in 1 .. L + 1 : j < k => j \in 1 .. L /\ (k \in 1 .. L \/ k = L + 1)
      BY <2>4
    <3> QED BY <3>1, <3>2, <2>4, <2>6
  <2>9. ComPassesAll'
    <3> SUFFICES ASSUME NEW u \in Side
                 PROVE  /\ {com_sent'[u][j] : j \in 1 .. Len(com_sent'[u])} =
                             {k \in 1 .. com_read[u] :
                                com_in(u)[k] = "byte" /\ k \notin com_unsent[u]}
                        /\ \A j, k \in 1 .. Len(com_sent'[u]) :
                             j < k => com_sent'[u][j] < com_sent'[u][k]
      BY <1>1, <1>3, <1>5 DEF ComPassesAll
    <3>1. CASE u # s
      <4>1. com_unsent[u] \cup com_held(u) = com_unsent[u] BY <3>1, <1>3
      <4>2. com_sent'[u] = com_sent[u] BY <3>1, <2>1
      <4> QED BY <1>t, <4>1, <4>2 DEF ComPassesAll
    <3>2. CASE u = s
      <4>1. {k \in 1 .. r : com_in(s)[k] = "byte" /\ k \notin com_unsent[s]}
              = {k \in 1 .. r : com_in(s)[k] = "byte" /\ k \notin com_unsent[s] \cup {r}} \cup {r}
        BY <1>2
      <4>2. com_read[u] = r /\ com_in(u) = com_in(s) /\ com_unsent[u] = com_unsent[s]
            /\ com_sent'[u] = com_sent'[s]
        BY <3>2 DEF r
      <4>3. {com_sent'[s][j] : j \in 1 .. L + 1}
              = {k \in 1 .. r : com_in(s)[k] = "byte" /\ k \notin com_unsent[s]}
        BY <4>1, <2>5, <2>7
      <4> QED BY <4>2, <4>3, <2>4, <2>8
    <3> QED BY <3>1, <3>2
  <2> QED BY <2>2, <2>3, <2>9 DEF ComInv
<1>6. CASE com_unsent' = [com_unsent EXCEPT ![s] = @ \cup {r}] /\ com_sent' = com_sent
  <2>1. /\ com_unsent' \in [Side -> SUBSET Nat] /\ com_unsent'[s] = com_unsent[s] \cup {r}
        /\ \A u \in Side : u # s => com_unsent'[u] = com_unsent[u]
    BY <1>t, <1>2, <1>6 DEF ComTypeOK
  <2>2. ComTypeOK' BY <1>t, <1>1, <1>6, <2>1 DEF ComTypeOK, com_writing, com_after, Side
  <2>3. ComBounds'
    <3>1. com_unsent'[s] \subseteq 1 .. r BY <1>2, <2>1
    <3> QED BY <1>t, <1>1, <1>3, <2>1, <3>1 DEF ComBounds, r
  <2>4. \A u \in Side : com_unsent'[u] \cup com_held(u)' = com_unsent[u] \cup com_held(u)
    BY <2>1, <1>3
  <2>5. ComPassesAll' BY <1>t, <1>1, <1>3, <1>6, <2>4 DEF ComPassesAll
  <2> QED BY <2>2, <2>3, <2>5 DEF ComInv
<1> QED BY <1>5, <1>6 DEF com_writes, r

LEMMA ComInitInv == ComInit => ComInv
<1> SUFFICES ASSUME ComInit PROVE ComInv OBVIOUS
<1>1. ComTypeOK BY DEF ComInit, ComTypeOK, Side
<1>2. ComBounds BY DEF ComInit, ComBounds, com_writing, com_in, Side
<1>3. ComPassesAll BY DEF ComInit, ComPassesAll
<1> QED BY <1>1, <1>2, <1>3 DEF ComInv

LEMMA ComNextInv == ComInv /\ [ComNext]_com_vars => ComInv'
<1> SUFFICES ASSUME ComInv, [ComNext]_com_vars PROVE ComInv' OBVIOUS
<1>1. CASE UNCHANGED com_vars
  <2>1. \A s : com_held(s)' = com_held(s) /\ com_in(s)' = com_in(s) /\ com_writing(s)' = com_writing(s)
    BY <1>1 DEF com_held, com_in, com_vars, com_input, com_writing
  <2>2. ComTypeOK' BY <1>1 DEF ComInv, ComTypeOK, com_vars, com_input, com_writing, Side
  <2>3. ComBounds' BY <1>1, <2>1 DEF ComInv, ComBounds, com_vars
  <2>4. ComPassesAll' BY <1>1, <2>1 DEF ComInv, ComPassesAll, com_vars
  <2> QED BY <2>2, <2>3, <2>4 DEF ComInv
<1>2. CASE com_selects BY <1>2, ComControlStep DEF com_selects, Side
<1>5. CASE com_writes_more BY <1>5, ComControlStep DEF com_writes_more, Side
<1>3. CASE com_exits BY <1>3, ComControlStep DEF com_exits, Side
<1>4. ASSUME NEW s \in Side, com_skips(s) PROVE ComInv'
  BY <1>4, ComControlStep DEF com_skips, com_after, Side
<1> QED BY <1>1, <1>2, <1>3, <1>4, <1>5, ComOutsideInv, ComReadsInv, ComWritesInv
    DEF ComNext, com_steps

\* com passes on every ordinary byte of either side once and in order, however
\* much is typed and received and whenever either side hangs up.
THEOREM ComPassesBytes == ComSpec => []ComPassesAll
<1>1. ComInv => ComPassesAll BY DEF ComInv
<1> QED BY <1>1, ComInitInv, ComNextInv, PTL DEF ComSpec
-----------------------------------------------------------------------------
(* The client programs, for every size of the ringbuffer, of the programs' *)
(* buffers, and of the header and the sentence they send.                  *)

USE ClientAssumption

CliTypes ==
  /\ cli_taken \in 0 .. MaxBytes
  /\ cli_buf \in Seq(Nat) /\ didwrite \in 0 .. Len(cli_buf)
  /\ cli_queue \in Seq(Nat) /\ Len(cli_queue) <= Capacity
  /\ cli_window \in Seq(Nat) /\ Len(cli_window) = buf_size
  /\ read_total \in 0 .. buf_size
  /\ cli_printed \in Seq(Nat)

\* What the writer has in its buffer and has not written yet.
Rest == SubSeq(cli_buf, didwrite + 1, Len(cli_buf))

CliInv ==
  /\ CliTypes
  /\ cli_writer = "none" => cli_taken = 0
  /\ CliNothingLost

(* A sequence is its front followed by its back.                           *)
LEMMA FrontAndBack ==
  ASSUME NEW s \in Seq(Nat), NEW n \in 0 .. Len(s)
  PROVE  /\ SubSeq(s, 1, n) \in Seq(Nat) /\ Len(SubSeq(s, 1, n)) = n
         /\ SubSeq(s, n + 1, Len(s)) \in Seq(Nat)
         /\ Len(SubSeq(s, n + 1, Len(s))) = Len(s) - n
         /\ SubSeq(s, 1, n) \o SubSeq(s, n + 1, Len(s)) = s
  <1>1. /\ Len(s) \in Nat
        /\ 1 \in 1 .. Len(s) + 1 /\ n \in 1 - 1 .. Len(s) /\ Len(s) \in n .. Len(s)
    OBVIOUS
  <1>2. SubSeq(s, 1, n) \o SubSeq(s, n + 1, Len(s)) = SubSeq(s, 1, Len(s))
    BY <1>1, ConcatAdjacentSubSeq, Zenon
  <1>3. SubSeq(s, 1, Len(s)) = s
    BY SubSeqFull, Zenon
  <1>4. SubSeq(s, 1, n) \in Seq(Nat) /\ Len(SubSeq(s, 1, n)) = n
    BY <1>1
  <1>5. /\ SubSeq(s, n + 1, Len(s)) \in Seq(Nat)
        /\ Len(SubSeq(s, n + 1, Len(s))) = Len(s) - n
    BY <1>1
  <1> QED  BY <1>2, <1>3, <1>4, <1>5, Zenon

(* The bytes of a sequence behind a, up to b.                              *)
LEMMA Between ==
  ASSUME NEW s \in Seq(Nat), NEW a \in Nat, NEW b \in a .. Len(s)
  PROVE  SubSeq(s, a + 1, b) \in Seq(Nat) /\ Len(SubSeq(s, a + 1, b)) = b - a
  OBVIOUS

(* The k-th of them.                                                       *)
LEMMA BetweenAt ==
  ASSUME NEW s \in Seq(Nat), NEW a \in Nat, NEW b \in a .. Len(s),
         NEW k \in 1 .. b - a
  PROVE  SubSeq(s, a + 1, b)[k] = s[a + k]
  OBVIOUS

(* Two sequences one behind the other, byte by byte.                       *)
LEMMA Joined ==
  ASSUME NEW s \in Seq(Nat), NEW t \in Seq(Nat)
  PROVE  /\ s \o t \in Seq(Nat) /\ Len(s \o t) = Len(s) + Len(t)
         /\ \A k \in 1 .. Len(s) + Len(t) :
               (s \o t)[k] = IF k <= Len(s) THEN s[k] ELSE t[k - Len(s)]
  OBVIOUS

(* Sequences with the same entries are equal.                              *)
LEMMA SameSeq ==
  ASSUME NEW S, NEW s \in Seq(S), NEW t \in Seq(S), Len(s) = Len(t),
         \A k \in 1 .. Len(s) : s[k] = t[k]
  PROVE  s = t
  OBVIOUS

(* How three sequences are bracketed does not matter.                      *)
LEMMA Associative ==
  ASSUME NEW s \in Seq(Nat), NEW t \in Seq(Nat), NEW u \in Seq(Nat)
  PROVE  (s \o t) \o u = s \o (t \o u)
  <1> DEFINE st == s \o t
             tu == t \o u
             l == st \o u
             r == s \o tu
  <1>1. /\ st \in Seq(Nat) /\ Len(st) = Len(s) + Len(t)
        /\ \A k \in 1 .. Len(s) + Len(t) :
              st[k] = IF k <= Len(s) THEN s[k] ELSE t[k - Len(s)]
    BY Joined, Zenon
  <1>2. /\ tu \in Seq(Nat) /\ Len(tu) = Len(t) + Len(u)
        /\ \A k \in 1 .. Len(t) + Len(u) :
              tu[k] = IF k <= Len(t) THEN t[k] ELSE u[k - Len(t)]
    BY Joined, Zenon
  <1> HIDE DEF st, tu
  <1>3. /\ l \in Seq(Nat) /\ Len(l) = Len(st) + Len(u)
        /\ \A k \in 1 .. Len(st) + Len(u) :
              l[k] = IF k <= Len(st) THEN st[k] ELSE u[k - Len(st)]
    BY <1>1, Joined, Zenon
  <1>4. /\ r \in Seq(Nat) /\ Len(r) = Len(s) + Len(tu)
        /\ \A k \in 1 .. Len(s) + Len(tu) :
              r[k] = IF k <= Len(s) THEN s[k] ELSE tu[k - Len(s)]
    BY <1>2, Joined, Zenon
  <1> HIDE DEF l, r
  <1>5. Len(s) \in Nat /\ Len(t) \in Nat /\ Len(u) \in Nat
    OBVIOUS
  <1>6. Len(l) = Len(r)
    BY <1>1, <1>2, <1>3, <1>4, <1>5
  <1>7. ASSUME NEW k \in 1 .. Len(l)
        PROVE  l[k] = r[k]
    <2>1. /\ k \in Nat /\ k \in 1 .. Len(st) + Len(u) /\ k \in 1 .. Len(s) + Len(tu)
          /\ k <= Len(s) => k <= Len(st) /\ k \in 1 .. Len(s) + Len(t)
      BY <1>1, <1>2, <1>3, <1>5
    <2>2. CASE k <= Len(s)
      <3>1. l[k] = st[k] /\ st[k] = s[k]
        BY <1>1, <1>3, <2>1, <2>2, Zenon
      <3>2. r[k] = s[k]
        BY <1>4, <2>1, <2>2, Zenon
      <3> QED  BY <3>1, <3>2
    <2>3. CASE ~(k <= Len(s)) /\ k <= Len(st)
      <3>1. k \in 1 .. Len(s) + Len(t) /\ k - Len(s) \in 1 .. Len(t) + Len(u)
                /\ k - Len(s) <= Len(t)
        BY <1>1, <1>5, <2>1, <2>3
      <3>2. l[k] = st[k] /\ st[k] = t[k - Len(s)]
        BY <1>1, <1>3, <2>1, <2>3, <3>1, Zenon
      <3>3. r[k] = tu[k - Len(s)] /\ tu[k - Len(s)] = t[k - Len(s)]
        BY <1>2, <1>4, <2>1, <2>3, <3>1, Zenon
      <3> QED  BY <3>2, <3>3
    <2>4. CASE ~(k <= Len(s)) /\ ~(k <= Len(st))
      <3>1. /\ k - Len(s) \in 1 .. Len(t) + Len(u) /\ ~(k - Len(s) <= Len(t))
            /\ (k - Len(s)) - Len(t) = k - Len(st)
        BY <1>1, <1>5, <2>1, <2>4
      <3>2. l[k] = u[k - Len(st)]
        BY <1>3, <2>1, <2>4, Zenon
      <3>3. r[k] = tu[k - Len(s)] /\ tu[k - Len(s)] = u[(k - Len(s)) - Len(t)]
        BY <1>2, <1>4, <2>1, <2>4, <3>1, Zenon
      <3> QED  BY <3>1, <3>2, <3>3, Zenon
    <2> QED  BY <2>2, <2>3, <2>4, Zenon
  <1>8. l = r
    BY <1>3, <1>4, <1>6, <1>7, SameSeq
  <1> QED  BY <1>8 DEF st, tu, l, r

(* The input is a sequence of MaxBytes bytes.                              *)
LEMMA InputBytes == cli_input \in Seq(Nat) /\ Len(cli_input) = MaxBytes
  <1>1. cli_input \in [1 .. MaxBytes -> Nat]
    <2>1. \A k \in 1 .. MaxBytes : ((k - 1) % content_length) + 1 \in Nat
      OBVIOUS
    <2> QED  BY <2>1 DEF cli_input
  <1> QED  BY <1>1

(* The programs begin with nothing.                                        *)
LEMMA CliInitInv == CliInit => CliInv
  <1> SUFFICES ASSUME CliInit
               PROVE  CliInv
    OBVIOUS
  <1>1. CliTypes
    BY DEF CliInit, CliTypes
  <1>2. CliNothingLost
    <2>1. SubSeq(cli_input, 1, 0) = <<>>
      BY SubSeqEmpty
    <2>2. SubSeq(cli_buf, didwrite + 1, Len(cli_buf)) = <<>>
      BY DEF CliInit
    <2> QED  BY <2>1, <2>2 DEF CliInit, CliNothingLost
  <1> QED  BY <1>1, <1>2 DEF CliInit, CliInv

(* Nothing of what CliInv is about changes but these.                      *)
LEMMA InvFrom ==
  ASSUME CliInv, CliTypes', cli_writer' = cli_writer,
         cli_taken' = cli_taken,
         cli_printed' \o cli_queue' \o Rest' = cli_printed \o cli_queue \o Rest
  PROVE  CliInv'
  <1>1. cli_input' = cli_input
    BY DEF cli_input
  <1>2. cli_printed \o cli_queue \o Rest = SubSeq(cli_input, 1, cli_taken)
    BY DEF CliInv, CliNothingLost, Rest
  <1>3. cli_printed' \o cli_queue' \o Rest' = SubSeq(cli_input', 1, cli_taken')
    BY <1>1, <1>2, Zenon
  <1>4. CliNothingLost'
    BY <1>3, Zenon DEF CliNothingLost, Rest
  <1> QED  BY <1>4 DEF CliInv

(* The writer takes the next bytes from its input.                         *)
LEMMA RefillsInv ==
  ASSUME CliInv, NEW n \in 0 .. MaxBytes - cli_taken, cli_refills(n),
         cli_writer # "none"
  PROVE  CliInv'
  <1> DEFINE input == cli_input
             taken == SubSeq(input, 1, cli_taken)
             next == SubSeq(input, cli_taken + 1, cli_taken + n)
  <1>1. /\ CliTypes /\ didwrite = Len(cli_buf)
        /\ cli_buf' = next /\ cli_taken' = cli_taken + n /\ didwrite' = 0
        /\ UNCHANGED <<cli_writer, cli_reading, cli_queue>>
    BY DEF CliInv, cli_refills
  <1>2. input \in Seq(Nat) /\ Len(input) = MaxBytes
    BY InputBytes
  <1>3. cli_input' = input
    BY <1>1 DEF cli_input
  <1>4. cli_printed \o cli_queue \o SubSeq(cli_buf, didwrite + 1, Len(cli_buf)) = taken
    BY DEF CliInv, CliNothingLost
  <1> HIDE DEF input
  <1>5. /\ 1 \in 1 .. Len(input) + 1 /\ cli_taken \in 1 - 1 .. Len(input)
        /\ cli_taken + n \in cli_taken .. Len(input)
    BY <1>1, <1>2 DEF CliTypes
  <1>6. taken \o next = SubSeq(input, 1, cli_taken + n)
    BY <1>2, <1>5, ConcatAdjacentSubSeq, Zenon
  <1>7. next \in Seq(Nat) /\ Len(next) = n
    <2>1. /\ input \in Seq(Nat) /\ cli_taken \in Nat
          /\ cli_taken + n \in cli_taken .. Len(input) /\ (cli_taken + n) - cli_taken = n
      BY <1>1, <1>2, <1>5 DEF CliTypes
    <2>2. next \in Seq(Nat) /\ Len(next) = (cli_taken + n) - cli_taken
      BY <2>1, Between, Zenon
    <2> QED  BY <2>1, <2>2, Zenon
  <1> HIDE DEF taken, next
  <1>8. SubSeq(cli_buf, didwrite + 1, Len(cli_buf)) = <<>>
    <2>1. didwrite + 1 \in Int /\ Len(cli_buf) \in Int /\ Len(cli_buf) < didwrite + 1
      BY <1>1 DEF CliTypes
    <2> QED  BY <2>1, SubSeqEmpty, Zenon
  <1>9. cli_printed \o cli_queue \in Seq(Nat)
    BY <1>1 DEF CliTypes
  <1>10. cli_printed \o cli_queue = taken
    BY <1>4, <1>8, <1>9, ConcatEmptySeq, Zenon
  <1>11. SubSeq(cli_buf', didwrite' + 1, Len(cli_buf')) = next
    <2>1. didwrite' + 1 = 1
      BY <1>1
    <2> QED  BY <1>1, <1>7, <2>1, SubSeqFull, Zenon
  <1>12. CliNothingLost'
    BY <1>1, <1>3, <1>6, <1>10, <1>11, Zenon DEF CliNothingLost, cli_reading
  <1>13. CliTypes'
    BY <1>1, <1>2, <1>5, <1>7 DEF CliTypes, cli_reading
  <1> QED  BY <1>1, <1>12, <1>13 DEF CliInv

(* rb_write() of the front of the rest.                                    *)
LEMMA WritesInv == CliInv /\ cli_writes => CliInv'
  <1> SUFFICES ASSUME CliInv, cli_writes
               PROVE  CliInv'
    OBVIOUS
  <1> DEFINE free == Capacity - Len(cli_queue)
             left == Len(cli_buf) - didwrite
             n == IF left < free THEN left ELSE free
             new == cli_written
  <1>1. CliTypes
    BY DEF CliInv
  <1>2. /\ Len(cli_buf) \in Nat /\ Len(cli_queue) \in Nat
        /\ n \in 0 .. left /\ n <= free /\ left \in Nat
    BY <1>1 DEF CliTypes
  <1>3. new = SubSeq(cli_buf, didwrite + 1, didwrite + n)
    BY DEF cli_written
  <1>4. /\ cli_queue' = cli_queue \o new /\ didwrite' = didwrite + Len(new)
        /\ UNCHANGED <<cli_writer, cli_taken, cli_buf, cli_reading>>
    BY DEF cli_writes
  <1> HIDE DEF new, n, left, free
  <1>5. new \in Seq(Nat) /\ Len(new) = n
    <2>1. /\ didwrite + n \in didwrite .. Len(cli_buf)
          /\ cli_buf \in Seq(Nat) /\ didwrite \in Nat
          /\ (didwrite + n) - didwrite = n
      BY <1>1, <1>2 DEF CliTypes, left
    <2>2. /\ SubSeq(cli_buf, didwrite + 1, didwrite + n) \in Seq(Nat)
          /\ Len(SubSeq(cli_buf, didwrite + 1, didwrite + n)) = (didwrite + n) - didwrite
      BY <2>1, Between
    <2> QED  BY <1>3, <2>1, <2>2, Zenon
  <1>6. Rest' = SubSeq(cli_buf, didwrite + n + 1, Len(cli_buf))
    BY <1>4, <1>5 DEF Rest
  <1>7. new \o Rest' = Rest
    <2>1. /\ didwrite + 1 \in 1 .. Len(cli_buf) + 1
          /\ didwrite + n \in (didwrite + 1) - 1 .. Len(cli_buf)
          /\ Len(cli_buf) \in didwrite + n .. Len(cli_buf)
      BY <1>1, <1>2 DEF CliTypes, left
    <2>2. cli_buf \in Seq(Nat)
      BY <1>1 DEF CliTypes
    <2> QED  BY <1>3, <1>6, <2>1, <2>2, ConcatAdjacentSubSeq, Zenon DEF Rest
  <1>8. /\ cli_printed \in Seq(Nat) /\ cli_queue \in Seq(Nat)
        /\ Rest' \in Seq(Nat) /\ cli_printed \o cli_queue \in Seq(Nat)
    <2>1. cli_printed \in Seq(Nat) /\ cli_queue \in Seq(Nat)
      BY <1>1 DEF CliTypes
    <2>2. /\ cli_buf \in Seq(Nat) /\ didwrite + n \in Nat
          /\ Len(cli_buf) \in didwrite + n .. Len(cli_buf)
      BY <1>1, <1>2 DEF CliTypes, left
    <2>3. Rest' \in Seq(Nat)
      BY <1>6, <2>2, Between, Zenon
    <2>4. cli_printed \o cli_queue \in Seq(Nat)
      BY <2>1
    <2> QED  BY <2>1, <2>3, <2>4, Zenon
  <1>9. cli_printed \o (cli_queue \o new) = (cli_printed \o cli_queue) \o new
    <2>1. cli_printed \in Seq(Nat) BY <1>8
    <2>2. cli_queue \in Seq(Nat) BY <1>8
    <2>3. new \in Seq(Nat) BY <1>5
    <2> QED BY <2>1, <2>2, <2>3, Associative, Zenon
  <1>10. ((cli_printed \o cli_queue) \o new) \o Rest'
           = (cli_printed \o cli_queue) \o (new \o Rest')
    <2>1. cli_printed \o cli_queue \in Seq(Nat) BY <1>8
    <2>2. new \in Seq(Nat) BY <1>5
    <2>3. Rest' \in Seq(Nat) BY <1>8
    <2> QED BY <2>1, <2>2, <2>3, Associative, Zenon
  <1>11. cli_printed' \o cli_queue' \o Rest' = cli_printed \o cli_queue \o Rest
    BY <1>4, <1>7, <1>9, <1>10, Zenon DEF cli_reading
  <1>12. CliTypes'
    <2>1. cli_queue' \in Seq(Nat) /\ Len(cli_queue') <= Capacity
      BY <1>1, <1>2, <1>4, <1>5 DEF CliTypes, free
    <2>2. didwrite' \in 0 .. Len(cli_buf')
      BY <1>1, <1>2, <1>4, <1>5 DEF CliTypes, left
    <2> QED  BY <1>1, <1>4, <2>1, <2>2 DEF CliTypes, cli_reading
  <1> QED  BY <1>4, <1>11, <1>12, InvFrom

(* What rb_read() gives and leaves.                                        *)
LEMMA GetsFront ==
  ASSUME CliTypes, NEW n \in Nat, cli_takes_off(cli_gets(n))
  PROVE  /\ cli_gets(n) \in Seq(Nat) /\ Len(cli_gets(n)) <= n
         /\ cli_queue' \in Seq(Nat) /\ Len(cli_queue') <= Capacity
         /\ cli_gets(n) \o cli_queue' = cli_queue
  <1> DEFINE k == IF n < Len(cli_queue) THEN n ELSE Len(cli_queue)
  <1>1. /\ cli_queue \in Seq(Nat) /\ k \in 0 .. Len(cli_queue) /\ k <= n
        /\ Len(cli_queue) \in Nat /\ Len(cli_queue) <= Capacity
    BY DEF CliTypes
  <1>2. cli_gets(n) = SubSeq(cli_queue, 1, k)
    BY DEF cli_gets
  <1> HIDE DEF k
  <1>3. /\ SubSeq(cli_queue, 1, k) \in Seq(Nat) /\ Len(SubSeq(cli_queue, 1, k)) = k
        /\ SubSeq(cli_queue, k + 1, Len(cli_queue)) \in Seq(Nat)
        /\ Len(SubSeq(cli_queue, k + 1, Len(cli_queue))) = Len(cli_queue) - k
        /\ SubSeq(cli_queue, 1, k) \o SubSeq(cli_queue, k + 1, Len(cli_queue)) = cli_queue
    BY <1>1, FrontAndBack
  <1>4. cli_queue' = SubSeq(cli_queue, k + 1, Len(cli_queue))
    BY <1>2, <1>3, Zenon DEF cli_takes_off
  <1>5. Len(cli_gets(n)) <= n /\ Len(cli_queue') <= Capacity
    BY <1>1, <1>2, <1>3, <1>4
  <1> QED  BY <1>2, <1>3, <1>4, <1>5, Zenon

(* Bytes that are read from the queue and printed stay where they are.     *)
LEMMA PrintsInv ==
  ASSUME CliInv, NEW bytes \in Seq(Nat), cli_queue' \in Seq(Nat),
         bytes \o cli_queue' = cli_queue,
         cli_printed' = cli_printed \o bytes,
         UNCHANGED cli_writing, CliTypes'
  PROVE  CliInv'
  <1>1. cli_printed \in Seq(Nat)
    BY DEF CliInv, CliTypes
  <1>2. (cli_printed \o bytes) \o cli_queue' = cli_printed \o (bytes \o cli_queue')
    BY <1>1, Associative, Zenon
  <1>3. Rest' = Rest /\ cli_writer' = cli_writer /\ cli_taken' = cli_taken
    BY DEF Rest, cli_writing
  <1>4. cli_printed' \o cli_queue' \o Rest' = cli_printed \o cli_queue \o Rest
    BY <1>2, <1>3, Zenon
  <1> QED  BY <1>3, <1>4, InvFrom

(* A full window starts again from the front; what is read is printed.     *)
LEMMA FillsInv == CliInv /\ cli_fills_window => CliInv'
  <1> SUFFICES ASSUME CliInv, cli_fills_window
               PROVE  CliInv'
    OBVIOUS
  <1> DEFINE offset == IF read_total >= buf_size THEN 0 ELSE read_total
             bytes == cli_gets(buf_size - offset)
             part == SubSeq(cli_window', offset + 1, read_total')
  <1>1. CliTypes
    BY DEF CliInv
  <1>2. offset \in 0 .. buf_size /\ buf_size - offset \in Nat /\ buf_size \in Nat
    BY <1>1 DEF CliTypes
  <1>3. /\ cli_takes_off(bytes)
        /\ cli_window' = [k \in 1 .. buf_size |->
             IF k \in offset + 1 .. offset + Len(bytes) THEN bytes[k - offset]
             ELSE cli_window[k]]
        /\ read_total' = offset + Len(bytes)
        /\ cli_printed' = cli_printed \o part
        /\ UNCHANGED <<cli_reader, cli_writing, no_more_input_data>>
    BY DEF cli_fills_window
  <1>4. /\ bytes \in Seq(Nat) /\ Len(bytes) <= buf_size - offset
        /\ cli_queue' \in Seq(Nat) /\ Len(cli_queue') <= Capacity
        /\ bytes \o cli_queue' = cli_queue
    BY <1>1, <1>2, <1>3, GetsFront
  <1> HIDE DEF offset, bytes
  <1>5. Len(bytes) \in Nat /\ \A k \in 1 .. Len(bytes) : bytes[k] \in Nat
    BY <1>4
  <1>6. cli_window' \in Seq(Nat) /\ Len(cli_window') = buf_size
    <2>1. \A k \in 1 .. buf_size : cli_window[k] \in Nat
      BY <1>1 DEF CliTypes
    <2>2. \A k \in offset + 1 .. offset + Len(bytes) : bytes[k - offset] \in Nat
      BY <1>2, <1>5
    <2>3. cli_window' \in [1 .. buf_size -> Nat]
      BY <1>2, <1>3, <2>1, <2>2
    <2> QED  BY <1>2, <2>3
  <1>7. part = bytes
    <2>1. /\ offset \in Nat /\ read_total' \in offset .. Len(cli_window')
          /\ read_total' - offset = Len(bytes)
      <3>1. read_total' = offset + Len(bytes) BY <1>3, Zenon
      <3>2. Len(bytes) <= buf_size - offset /\ Len(cli_window') = buf_size
        BY <1>4, <1>6, Zenon
      <3>3. Len(bytes) \in Nat BY <1>5, Zenon
      <3> QED BY <1>2, <3>1, <3>2, <3>3
    <2>2. part \in Seq(Nat) /\ Len(part) = Len(bytes)
      BY <1>6, <2>1, Between
    <2>5. ASSUME NEW k \in 1 .. Len(part)
          PROVE  part[k] = bytes[k]
      <3>1. /\ offset + k \in 1 .. buf_size
            /\ offset + k \in offset + 1 .. offset + Len(bytes)
            /\ (offset + k) - offset = k
        <4>1. k \in 1 .. Len(bytes) BY <2>2
        <4> QED BY <4>1, <1>2, <1>4, <1>5
      <3>2. cli_window'[offset + k] = bytes[(offset + k) - offset]
        BY <1>3, <3>1, Zenon
      <3>3. part[k] = cli_window'[offset + k]
        <4>1. k \in 1 .. read_total' - offset
          BY <2>1, <2>2
        <4> QED  BY <1>6, <2>1, <4>1, BetweenAt, Zenon DEF part
      <3> QED  BY <3>1, <3>2, <3>3, Zenon
    <2> HIDE DEF part
    <2> QED  BY <1>4, <2>2, <2>5, SameSeq
  <1> HIDE DEF part
  <1>8. CliTypes'
    <2>1. read_total' \in 0 .. buf_size
      BY <1>2, <1>3, <1>4, <1>5
    <2>2. cli_printed' \in Seq(Nat)
      BY <1>1, <1>3, <1>4, <1>7 DEF CliTypes
    <2> QED  BY <1>1, <1>3, <1>4, <1>6, <2>1, <2>2 DEF CliTypes, cli_writing
  <1> QED  BY <1>3, <1>4, <1>7, <1>8, PrintsInv

(* rb_cat prints what it reads, or ends.                                   *)
LEMMA CatReadsInv == CliInv /\ rb_cat_reads => CliInv'
  <1> SUFFICES ASSUME CliInv, rb_cat_reads
               PROVE  CliInv'
    OBVIOUS
  <1> DEFINE bytes == cli_gets(bufsize)
  <1>1. CliTypes /\ UNCHANGED <<cli_window, read_total, cli_writing>>
    BY DEF CliInv, rb_cat_reads
  <1>2. CASE no_more_input_data
    <2>1. UNCHANGED <<cli_printed, cli_queue>>
      BY <1>2 DEF rb_cat_reads
    <2>2. CliTypes'
      BY <1>1, <2>1 DEF CliTypes, cli_writing
    <2> QED  BY <1>1, <2>1, <2>2, InvFrom DEF cli_writing, Rest
  <1>3. CASE ~no_more_input_data
    <2>1. cli_takes_off(bytes) /\ cli_printed' = cli_printed \o bytes
      BY <1>3 DEF rb_cat_reads
    <2>2. /\ bytes \in Seq(Nat) /\ bytes \o cli_queue' = cli_queue
          /\ cli_queue' \in Seq(Nat) /\ Len(cli_queue') <= Capacity
      BY <1>1, <2>1, GetsFront
    <2> HIDE DEF bytes
    <2>3. cli_printed' \in Seq(Nat)
      BY <1>1, <2>1, <2>2 DEF CliTypes
    <2>4. CliTypes'
      BY <1>1, <2>2, <2>3 DEF CliTypes, cli_writing
    <2> QED  BY <1>1, <2>1, <2>2, <2>4, PrintsInv
  <1> QED  BY <1>2, <1>3

(* A program is started, ended or told that there is no more input.        *)
LEMMA OutsideInv ==
  ASSUME CliInv, cli_starts_writer \/ cli_starts_reader \/ cli_outside
  PROVE  CliInv'
  <1>1. /\ UNCHANGED <<cli_taken, cli_buf, didwrite, cli_window, read_total,
                       cli_printed, cli_queue>>
        /\ cli_writer' = cli_writer \/ (cli_writer = "none" /\ cli_writer' # "none")
    BY DEF cli_starts_writer, cli_starts_reader, cli_outside, cli_reading,
           cli_writing
  <1>2. CliTypes' /\ Rest' = Rest
    BY <1>1 DEF CliInv, CliTypes, Rest
  <1>3. CASE cli_writer' = cli_writer
    BY <1>1, <1>2, <1>3, InvFrom
  <1>4. CASE cli_writer = "none" /\ cli_writer' # "none"
    <2>1. cli_taken = 0 /\ cli_taken' = 0
      BY <1>1, <1>4 DEF CliInv
    <2>2. /\ SubSeq(cli_input, 1, cli_taken) = <<>>
          /\ SubSeq(cli_input', 1, cli_taken') = <<>>
      BY <2>1, SubSeqEmpty
    <2>3. CliNothingLost'
      BY <1>1, <2>2 DEF CliInv, CliNothingLost
    <2> QED  BY <1>2, <1>4, <2>3 DEF CliInv
  <1> QED  BY <1>1, <1>3, <1>4

(* Whatever program makes the step.                                        *)
LEMMA CliNextInv == CliInv /\ [CliNext]_cli_vars => CliInv'
  <1> SUFFICES ASSUME CliInv, [CliNext]_cli_vars
               PROVE  CliInv'
    OBVIOUS
  <1>1. CliTypes
    BY DEF CliInv
  <1>2. CASE UNCHANGED cli_vars
    <2>1. CliTypes'
      BY <1>1, <1>2 DEF CliTypes, cli_vars, cli_writing, cli_reading
    <2> QED  BY <1>2, <2>1, InvFrom DEF cli_vars, cli_writing, cli_reading, Rest
  <1>3. CASE cli_starts_writer \/ cli_starts_reader \/ cli_outside
    BY <1>3, OutsideInv
  <1>4. CASE rb_cat_reads_stdin
    <2>1. PICK n \in 1 .. bufsize : n <= MaxBytes - cli_taken /\ cli_refills(n)
      BY <1>4 DEF rb_cat_reads_stdin
    <2>2. n \in 0 .. MaxBytes - cli_taken /\ cli_writer # "none"
      BY <1>1, <1>4, <2>1 DEF CliTypes, rb_cat_reads_stdin
    <2> QED  BY <2>1, <2>2, RefillsInv
  <1>5. CASE img_cat_reads_file
    <2> DEFINE left == MaxBytes - cli_taken
               n == IF left < bufsize THEN left ELSE bufsize
    <2>1. cli_writer # "none"
      BY <1>5 DEF img_cat_reads_file
    <2>2. CASE cli_taken = 0
      <3>1. cli_refills(headersize) /\ headersize \in 0 .. MaxBytes - cli_taken
        BY <1>5, <2>2 DEF img_cat_reads_file
      <3> QED  BY <2>1, <3>1, RefillsInv
    <2>3. CASE cli_taken # 0
      <3>1. left > 0 /\ cli_refills(n)
        BY <1>5, <2>3, Zenon DEF img_cat_reads_file
      <3>2. bufsize \in Nat /\ left \in Nat
        BY <1>1 DEF CliTypes
      <3>3. n \in 0 .. left
        BY <3>2
      <3> HIDE DEF n
      <3> QED  BY <2>1, <3>1, <3>3, RefillsInv
    <2> QED  BY <2>2, <2>3
  <1>6. CASE rb_shared_writer_repeats \/ rb_test2_repeats
    <2>1. /\ cli_writer # "none" /\ cli_refills(content_length)
          /\ content_length \in 0 .. MaxBytes - cli_taken
      BY <1>1, <1>6 DEF rb_shared_writer_repeats, rb_test2_repeats, cli_repeats,
                        CliTypes
    <2> QED  BY <2>1, RefillsInv
  <1>7. CASE cli_writes
    BY <1>7, WritesInv
  <1>8. CASE rb_cat_reads
    BY <1>8, CatReadsInv
  <1>9. CASE rb_shared_reader_reads \/ rb_test2_reads
    BY <1>9, FillsInv DEF rb_shared_reader_reads, rb_test2_reads
  <1> QED  BY <1>2, <1>3, <1>4, <1>5, <1>6, <1>7, <1>8, <1>9
           DEF CliNext, cli_writer_steps, cli_reader_steps

(* No short transfer of any pair of programs, whatever the sizes of their  *)
(* buffers and of the ringbuffer between them, repeats, drops or reorders  *)
(* a byte.                                                                 *)
THEOREM NothingLost == CliSpec => []CliNothingLost
  <1>1. CliInv => CliNothingLost
    BY DEF CliInv
  <1> QED  BY <1>1, CliInitInv, CliNextInv, PTL DEF CliSpec
-----------------------------------------------------------------------------
(* The JACK ringbuffer, in every interleaving of its two threads.           *)

HIDE ClientAssumption
USE JackSizeAssumption DEF Slot

\* A position less than one buffer beyond the end, brought back.
Wrap(i) == IF i < Size THEN i ELSE i - Size

\* The bytes written and not yet taken.
Unread == jack_sent - Len(jack_out)

Call == [pc : {"idle", "copy", "store"}, op : {"none", "read", "peek", "vector", "write"},
         at : Slot, n1 : Nat, n2 : Nat]

JackTypeOK ==
  /\ jack_buf \in [Slot -> Nat]
  /\ read_ptr \in Slot /\ write_ptr \in Slot
  /\ jack_sent \in Nat /\ jack_out \in Seq(Nat)
  /\ jack_rd \in [call : Call, dest : Seq(Nat)]
  /\ jack_wr \in [call : Call, filled : Nat]

\* The pointers are as far apart as there are unread bytes, and one slot at
\* least stays free.
JackFill ==
  /\ Unread \in 0 .. Size - 1
  /\ write_ptr = Wrap(read_ptr + Unread)

\* From the read pointer r on lie the bytes after the first out ones.
Held(buf, r, out, h) == \A k \in 1 .. h : buf[Wrap(r + k - 1)] = out + k

\* The pieces of a call: the first ends at the end of the buffer if there is
\* a second.
Pieces(at, n1, n2) ==
  n1 > 0 /\ at + n1 <= Size /\ (n2 > 0 => at + n1 = Size)

\* A call that took some bytes of the u unread ones from r on: it still copies
\* the bytes behind them, or stores its pointer.
ReadCopies(at, n1, n2, taken, r, u) ==
  Pieces(at, n1, n2) /\ at = Wrap(r + taken) /\ taken + n1 + n2 <= u
ReadStores(at, n1, n2, taken, r, u) ==
  /\ taken > 0 /\ taken + n2 <= u
  /\ n2 > 0 => Pieces(at, n1, n2) /\ at = r /\ taken = n1

\* A call that filled some slots behind the unread bytes: there is room for
\* the rest, less the one slot.
WriteCopies(at, n1, n2, filled, r, u) ==
  Pieces(at, n1, n2) /\ at = Wrap(r + u + filled) /\ u + filled + n1 + n2 < Size
WriteStores(at, n1, n2, filled, r, u) ==
  /\ filled > 0 /\ u + filled + n2 < Size
  /\ n2 > 0 => Pieces(at, n1, n2) /\ at = Wrap(r + u) /\ filled = n1

ReaderInside ==
  LET c == jack_rd.call
      taken == Len(jack_rd.dest)
  IN
    /\ c.pc = "copy" =>
         /\ ReadCopies(c.at, c.n1, c.n2, taken, read_ptr, Unread)
         /\ c.op \in {"read", "peek", "vector"} /\ (c.op = "read" => taken = 0)
    /\ c.pc = "store" =>
         /\ ReadStores(c.at, c.n1, c.n2, taken, read_ptr, Unread)
         /\ c.op \in {"read", "vector"} /\ (c.op = "vector" => c.n2 = 0)

WriterInside ==
  LET c == jack_wr.call
      filled == jack_wr.filled
  IN
    /\ c.pc = "idle" => filled = 0
    /\ c.pc = "copy" =>
         /\ WriteCopies(c.at, c.n1, c.n2, filled, read_ptr, Unread)
         /\ c.op \in {"write", "vector"} /\ (c.op = "write" => filled = 0)
    /\ c.pc = "store" =>
         /\ WriteStores(c.at, c.n1, c.n2, filled, read_ptr, Unread)
         /\ c.op \in {"write", "vector"} /\ (c.op = "vector" => c.n2 = 0)

\* Behind the unread bytes lie those a call has copied in, not yet published.
JackHeld == Held(jack_buf, read_ptr, Len(jack_out), Unread + jack_wr.filled)

JackInv == JackTypeOK /\ JackFill /\ JackHeld /\ ReaderInside /\ WriterInside
             /\ JackIntact
-----------------------------------------------------------------------------
(***************************************************************************)
(* Lemmas about the arithmetic.                                            *)
(***************************************************************************)

\* & size_mask, for any position that occurs.
LEMMA MaskWraps ==
  ASSUME NEW i \in Nat, i < 2 * Size
  PROVE  size_mask(i) = Wrap(i)
<1>1. CASE i < Size BY <1>1 DEF size_mask, Wrap
<1>2. CASE i >= Size
  <2>1. i - Size \in Slot BY <1>2
  <2>2. \A a \in Slot : a % Size = a OBVIOUS
  <2>3. \A a \in Slot : (a + Size) % Size = a % Size OBVIOUS
  <2> QED BY <1>2, <2>1, <2>2, <2>3 DEF size_mask, Wrap
<1> QED BY <1>1, <1>2

\* The spaces the two threads compute.
LEMMA Spaces ==
  ASSUME JackTypeOK, JackFill
  PROVE  /\ jack_ringbuffer_read_space = Unread
         /\ jack_ringbuffer_write_space = Size - 1 - Unread
<1>0. /\ read_ptr \in Slot /\ write_ptr \in Slot /\ Unread \in 0 .. Size - 1
      /\ write_ptr = IF read_ptr + Unread < Size THEN read_ptr + Unread
                     ELSE read_ptr + Unread - Size
  BY DEF JackTypeOK, JackFill, Wrap
<1>1. CASE write_ptr > read_ptr
  <2> DEFINE i == (read_ptr + Size) - write_ptr
  <2>1. i \in Nat /\ i < Size BY <1>0, <1>1
  <2>2. size_mask(i) = i BY <2>1, MaskWraps DEF Wrap
  <2>3. write_ptr - read_ptr = Unread /\ i - 1 = Size - 1 - Unread BY <1>0, <1>1
  <2> HIDE DEF i
  <2>4. jack_ringbuffer_write_space = i - 1
    BY <1>1, <2>2 DEF jack_ringbuffer_write_space, i
  <2>5. jack_ringbuffer_read_space = write_ptr - read_ptr
    BY <1>1 DEF jack_ringbuffer_read_space
  <2> QED BY <2>3, <2>4, <2>5
<1>2. CASE write_ptr <= read_ptr
  <2> DEFINE i == (write_ptr + Size) - read_ptr
  <2>1. i \in Nat /\ i < 2 * Size BY <1>0, <1>2
  <2>2. size_mask(i) = Wrap(i) BY <2>1, MaskWraps
  <2>3. Wrap(i) = Unread BY <1>0, <1>2 DEF Wrap
  <2>4. jack_ringbuffer_write_space = Size - 1 - Unread
    BY <1>0, <1>2 DEF jack_ringbuffer_write_space
  <2> HIDE DEF i
  <2>5. jack_ringbuffer_read_space = size_mask(i)
    BY <1>0, <1>2 DEF jack_ringbuffer_read_space, i
  <2> QED BY <2>2, <2>3, <2>4, <2>5
<1> QED BY <1>0, <1>1, <1>2

\* A call split at the end of the buffer.
LEMMA CallSplit ==
  ASSUME NEW at \in Slot, NEW n \in 1 .. Size - 1,
         NEW op \in {"read", "peek", "vector", "write"}
  PROVE  \E n1, n2 \in Nat :
           /\ jack_call(op, at, n) = JackCall("copy", op, at, n1, n2)
           /\ Pieces(at, n1, n2) /\ n1 + n2 = n
<1>1. CASE at + n > Size
  <2>1. Size - at \in Nat /\ n - (Size - at) \in Nat BY <1>1
  <2>2. /\ jack_call(op, at, n) = JackCall("copy", op, at, Size - at, n - (Size - at))
        /\ Pieces(at, Size - at, n - (Size - at))
        /\ (Size - at) + (n - (Size - at)) = n
    BY <1>1 DEF jack_call, Pieces
  <2> QED BY <2>1, <2>2
<1>2. CASE at + n <= Size
  <2>1. n \in Nat /\ n - n \in Nat /\ n - n = 0 OBVIOUS
  <2>2. /\ jack_call(op, at, n) = JackCall("copy", op, at, n, n - n)
        /\ Pieces(at, n, n - n) /\ n + (n - n) = n
    BY <1>2 DEF jack_call, Pieces
  <2> QED BY <2>1, <2>2
<1> QED BY <1>1, <1>2

LEMMA NewCall ==
  ASSUME NEW op \in {"read", "peek", "vector", "write"}, NEW at \in Slot,
         NEW n1 \in Nat, NEW n2 \in Nat
  PROVE  \E call \in Call :
           /\ call = JackCall("copy", op, at, n1, n2)
           /\ call.pc = "copy" /\ call.op = op /\ call.at = at
           /\ call.n1 = n1 /\ call.n2 = n2
<1>1. JackCall("copy", op, at, n1, n2) \in Call BY DEF JackCall, Call
<1> QED BY <1>1 DEF JackCall

\* From the pieces on to the store, or to the second piece, which lies at the
\* start of the buffer.
LEMMA CallGoesOn ==
  ASSUME NEW c \in Call
  PROVE  /\ \E d \in Call : /\ d = jack_store(c) /\ d.pc = "store" /\ d.op = c.op
                            /\ d.at = c.at /\ d.n1 = c.n1 /\ d.n2 = c.n2
         /\ Pieces(c.at, c.n1, c.n2) /\ c.n2 > 0 =>
              \E d \in Call : /\ d = jack_second(c) /\ d.pc = "copy" /\ d.op = c.op
                             /\ d.at = 0 /\ d.n1 = c.n2 /\ d.n2 = 0
<1>0. /\ c.op \in {"none", "read", "peek", "vector", "write"} /\ c.at \in Slot
      /\ c.n1 \in Nat /\ c.n2 \in Nat /\ 0 \in Slot
  BY DEF Call
<1>1. jack_store(c) \in Call BY <1>0 DEF jack_store, JackCall, Call
<1>2. ASSUME Pieces(c.at, c.n1, c.n2), c.n2 > 0
      PROVE  jack_second(c) = JackCall("copy", c.op, 0, c.n2, 0)
  <2>1. size_mask(c.at + c.n1) = 0 BY <1>0, <1>2, MaskWraps DEF Pieces, Wrap
  <2> QED BY <2>1 DEF jack_second
<1>3. JackCall("copy", c.op, 0, c.n2, 0) \in Call BY <1>0 DEF JackCall, Call
<1> QED BY <1>1, <1>2, <1>3 DEF jack_store, JackCall

\* The steps of a reading call, from the start to the store of its pointer.
LEMMA ReadSteps ==
  ASSUME NEW at \in Slot, NEW n1 \in Nat, NEW n2 \in Nat, NEW taken \in Nat,
         NEW r \in Slot, NEW u \in 0 .. Size - 1
  PROVE  /\ Pieces(r, n1, n2) /\ n1 + n2 <= u => ReadCopies(r, n1, n2, 0, r, u)
         /\ ReadCopies(at, n1, n2, taken, r, u) /\ (taken = 0 \/ n2 = 0) =>
              ReadStores(at, n1, n2, taken + n1, r, u)
         /\ ReadCopies(at, n1, n2, taken, r, u) /\ n2 > 0 =>
              ReadCopies(0, n2, 0, taken + n1, r, u)
         /\ ReadStores(at, n1, n2, taken, r, u) /\ n2 > 0 =>
              ReadCopies(0, n2, 0, 0, Wrap(r + taken), u - taken)
BY DEF ReadCopies, ReadStores, Pieces, Wrap

\* What a writing call stores and publishes meanwhile does not matter to it.
LEMMA ReadsOn ==
  ASSUME NEW at \in Slot, NEW n1 \in Nat, NEW n2 \in Nat, NEW taken \in Nat,
         NEW r \in Slot, NEW u \in Nat, NEW more \in Nat
  PROVE  /\ ReadCopies(at, n1, n2, taken, r, u) => ReadCopies(at, n1, n2, taken, r, u + more)
         /\ ReadStores(at, n1, n2, taken, r, u) => ReadStores(at, n1, n2, taken, r, u + more)
BY DEF ReadCopies, ReadStores

\* The steps of a writing call.
LEMMA WriteSteps ==
  ASSUME NEW at \in Slot, NEW n1 \in Nat, NEW n2 \in Nat, NEW filled \in Nat,
         NEW r \in Slot, NEW u \in 0 .. Size - 1
  PROVE  /\ Pieces(at, n1, n2) /\ at = Wrap(r + u) /\ n1 + n2 <= Size - 1 - u =>
              WriteCopies(at, n1, n2, 0, r, u)
         /\ WriteCopies(at, n1, n2, filled, r, u) /\ (filled = 0 \/ n2 = 0) =>
              WriteStores(at, n1, n2, filled + n1, r, u)
         /\ WriteCopies(at, n1, n2, filled, r, u) /\ n2 > 0 =>
              WriteCopies(0, n2, 0, filled + n1, r, u)
         /\ WriteStores(at, n1, n2, filled, r, u) /\ n2 > 0 =>
              WriteCopies(0, n2, 0, 0, r, u + filled)
BY DEF WriteCopies, WriteStores, Pieces, Wrap

\* What a reading call takes meanwhile only makes room.
LEMMA WritesOn ==
  ASSUME NEW at \in Slot, NEW n1 \in Nat, NEW n2 \in Nat, NEW filled \in Nat,
         NEW r \in Slot, NEW u \in 0 .. Size - 1, NEW d \in 0 .. u
  PROVE  /\ WriteCopies(at, n1, n2, filled, r, u) =>
              WriteCopies(at, n1, n2, filled, Wrap(r + d), u - d)
         /\ WriteStores(at, n1, n2, filled, r, u) =>
              WriteStores(at, n1, n2, filled, Wrap(r + d), u - d)
BY DEF WriteCopies, WriteStores, Wrap

\* Taking bytes from the front of the held ones.
LEMMA HeldTaken ==
  ASSUME NEW buf, NEW r \in Slot, NEW out \in Nat, NEW h \in 0 .. Size - 1,
         NEW d \in 0 .. h, Held(buf, r, out, h)
  PROVE  Held(buf, Wrap(r + d), out + d, h - d)
<1> SUFFICES ASSUME NEW k \in 1 .. h - d
             PROVE  buf[Wrap(Wrap(r + d) + k - 1)] = out + d + k
  BY DEF Held
<1>1. Wrap(Wrap(r + d) + k - 1) = Wrap(r + (d + k) - 1) BY DEF Wrap
<1>2. d + k \in 1 .. h /\ out + (d + k) = out + d + k OBVIOUS
<1>3. buf[Wrap(r + (d + k) - 1)] = out + (d + k) BY <1>2 DEF Held
<1> QED BY <1>1, <1>2, <1>3

\* n slots from at on filled with the bytes after the first k.
Filled(new, buf, at, n, k) ==
  \A s \in Slot : new[s] = IF s \in at .. at + n - 1 THEN k + (s - at) + 1 ELSE buf[s]

\* memcpy() of one piece of a writing call.
Copied(buf, at, n, k) ==
  [s \in Slot |-> IF s \in at .. at + n - 1 THEN k + (s - at) + 1 ELSE buf[s]]

LEMMA CopiedIn ==
  ASSUME NEW buf \in [Slot -> Nat], NEW at \in Slot, NEW n \in Nat, NEW k \in Nat
  PROVE  /\ Copied(buf, at, n, k) \in [Slot -> Nat]
         /\ Filled(Copied(buf, at, n, k), buf, at, n, k)
<1>1. ASSUME NEW s \in Slot, s \in at .. at + n - 1 PROVE k + (s - at) + 1 \in Nat
  BY <1>1
<1>2. \A s \in Slot : buf[s] \in Nat OBVIOUS
<1> QED BY <1>1, <1>2 DEF Copied, Filled

\* Copying n bytes in behind the held ones.
LEMMA HeldFilled ==
  ASSUME NEW buf, NEW r \in Slot, NEW out \in Nat, NEW h \in Nat, NEW n \in Nat,
         NEW at \in Slot, at = Wrap(r + h), at + n <= Size, h + n < Size,
         Held(buf, r, out, h), NEW new, Filled(new, buf, at, n, out + h)
  PROVE  Held(new, r, out, h + n)
<1> USE DEF Filled
<1> SUFFICES ASSUME NEW k \in 1 .. h + n PROVE new[Wrap(r + k - 1)] = out + k
  BY DEF Held
<1>0. Wrap(r + k - 1) \in Slot BY DEF Wrap
<1>1. PICK s \in Slot : s = Wrap(r + k - 1) BY <1>0
<1>2. CASE k <= h
  <2>1. s \notin at .. at + n - 1 BY <1>1, <1>2 DEF Wrap
  <2>2. buf[s] = out + k BY <1>1, <1>2 DEF Held
  <2> QED BY <1>1, <2>1, <2>2
<1>3. CASE k > h
  <2>1. s \in at .. at + n - 1 /\ out + h + (s - at) + 1 = out + k
    BY <1>1, <1>3 DEF Wrap
  <2> QED BY <1>1, <2>1
<1> QED BY <1>2, <1>3

LEMMA IdleCall == JackIdle \in Call /\ JackIdle.pc = "idle"
BY DEF JackIdle, JackCall, Call

\* The bytes a call has taken are the next of the stream.
Taken(dest, out, n) == Len(dest) = n /\ \A k \in 1 .. n : dest[k] = out + k

\* Two runs of the stream, one behind the other.
LEMMA TakenOn ==
  ASSUME NEW dest \in Seq(Nat), NEW piece \in Seq(Nat), NEW out \in Nat,
         NEW taken \in Nat, NEW n \in Nat, Taken(dest, out, taken),
         Taken(piece, out + taken, n)
  PROVE  dest \o piece \in Seq(Nat) /\ Taken(dest \o piece, out, taken + n)
<1>1. /\ Len(dest) = taken /\ Len(piece) = n
      /\ \A k \in 1 .. taken : dest[k] = out + k
      /\ \A k \in 1 .. n : piece[k] = out + taken + k
  BY DEF Taken
<1>2. /\ dest \o piece \in Seq(Nat) /\ Len(dest \o piece) = taken + n
      /\ \A i \in 1 .. taken + n :
           (dest \o piece)[i] = IF i <= taken THEN dest[i] ELSE piece[i - taken]
  BY <1>1, ConcatProperties
<1>3. ASSUME NEW i \in 1 .. taken + n PROVE (dest \o piece)[i] = out + i
  <2>1. CASE i <= taken BY <1>1, <1>2, <2>1
  <2>2. CASE i > taken
    <3>1. i - taken \in 1 .. n BY <2>2
    <3>2. piece[i - taken] = out + i BY <1>1, <3>1
    <3>3. (dest \o piece)[i] = piece[i - taken] BY <1>1, <1>2, <2>2
    <3> QED BY <3>2, <3>3, Zenon
  <2>3. i <= taken \/ i > taken OBVIOUS
  <2> QED BY <2>1, <2>2, <2>3, Zenon
<1> QED BY <1>2, <1>3 DEF Taken

\* memcpy() of one piece of a reading call.
Piece(buf, at, n) == [k \in 1 .. n |-> buf[at + k - 1]]

\* It takes the next bytes of the stream.
LEMMA CopiedBytes ==
  ASSUME NEW buf \in [Slot -> Nat], NEW r \in Slot, NEW out \in Nat,
         NEW u \in Nat, NEW h \in Nat, u <= h, NEW at \in Slot, NEW n1 \in Nat,
         NEW n2 \in Nat, NEW taken \in Nat,
         Held(buf, r, out, h), ReadCopies(at, n1, n2, taken, r, u)
  PROVE  /\ Piece(buf, at, n1) \in Seq(Nat)
         /\ Taken(Piece(buf, at, n1), out + taken, n1)
<1> DEFINE piece == Piece(buf, at, n1)
<1>1. ASSUME NEW k \in 1 .. n1
      PROVE  at + k - 1 \in Slot /\ buf[at + k - 1] = out + taken + k
  <2>1. at + k - 1 \in Slot BY DEF ReadCopies, Pieces
  <2>2. taken + k \in 1 .. h BY DEF ReadCopies, Pieces
  <2>3. at + k - 1 = Wrap(r + (taken + k) - 1) BY DEF ReadCopies, Pieces, Wrap
  <2>4. buf[Wrap(r + (taken + k) - 1)] = out + (taken + k) BY <2>2 DEF Held
  <2>5. out + (taken + k) = out + taken + k OBVIOUS
  <2> QED BY <2>1, <2>3, <2>4, <2>5
<1>2. piece \in Seq(Nat) /\ Len(piece) = n1
  <2>1. \A k \in 1 .. n1 : buf[at + k - 1] \in Nat BY <1>1
  <2> QED BY <2>1 DEF Piece
<1>3. \A k \in 1 .. n1 : piece[k] = out + taken + k BY <1>1 DEF Piece
<1> QED BY <1>2, <1>3 DEF Taken

LEMMA JackInitInv == JackInit => JackInv
<1> SUFFICES ASSUME JackInit PROVE JackInv OBVIOUS
<1> USE DEF JackInit, JackNoRead, JackNoWrite
<1>1. /\ jack_rd.call = JackIdle /\ jack_rd.dest = <<>>
      /\ jack_wr.call = JackIdle /\ jack_wr.filled = 0
  OBVIOUS
<1>0. Unread = 0
  <2>1. jack_sent = 0 OBVIOUS
  <2>2. jack_out = <<>> OBVIOUS
  <2>3. Len(jack_out) = 0 BY <2>2, EmptySeq, Zenon
  <2> HIDE DEF JackInit
  <2> QED BY <2>1, <2>3 DEF Unread
<1>2. JackTypeOK BY IdleCall DEF JackTypeOK
<1>3. JackFill /\ JackHeld BY <1>0, <1>1 DEF JackFill, JackHeld, Held, Wrap
<1>4. ReaderInside /\ WriterInside BY <1>1, IdleCall DEF ReaderInside, WriterInside
<1>5. JackIntact BY <1>1 DEF JackIntact
<1> QED BY <1>2, <1>3, <1>4, <1>5 DEF JackInv
-----------------------------------------------------------------------------
(***************************************************************************)
(* The reading thread.                                                     *)
(***************************************************************************)
\* The types of what the steps compare.
LEMMA InvTypes ==
  ASSUME JackInv
  PROVE  /\ read_ptr \in Slot /\ write_ptr \in Slot /\ jack_buf \in [Slot -> Nat]
         /\ Unread \in 0 .. Size - 1 /\ Len(jack_out) \in Nat /\ jack_sent \in Nat
         /\ jack_sent = Len(jack_out) + Unread
         /\ jack_out \in Seq(Nat) /\ jack_rd.dest \in Seq(Nat)
         /\ Len(jack_rd.dest) \in Nat /\ jack_wr.filled \in Nat
         /\ jack_rd.call \in Call /\ jack_wr.call \in Call
         /\ jack_rd = [call |-> jack_rd.call, dest |-> jack_rd.dest]
         /\ jack_wr = [call |-> jack_wr.call, filled |-> jack_wr.filled]
<1>1. /\ read_ptr \in Slot /\ write_ptr \in Slot /\ jack_buf \in [Slot -> Nat]
      /\ jack_sent \in Nat /\ jack_out \in Seq(Nat) /\ Len(jack_out) \in Nat
      /\ jack_rd \in [call : Call, dest : Seq(Nat)]
      /\ jack_wr \in [call : Call, filled : Nat]
  BY DEF JackInv, JackTypeOK
<1>2. Unread \in 0 .. Size - 1 BY DEF JackInv, JackFill
<1>3. jack_sent = Len(jack_out) + Unread BY <1>1 DEF Unread
<1> QED BY <1>1, <1>2, <1>3

\* While only the reading call changes, the rest of the invariant stays.
LEMMA ReaderOnly ==
  ASSUME JackInv, NEW call \in Call, NEW dest \in Seq(Nat),
         jack_rd' = [call |-> call, dest |-> dest],
         UNCHANGED <<jack_buf, read_ptr, write_ptr, jack_wr, jack_sent, jack_out>>
  PROVE  /\ JackTypeOK' /\ JackFill' /\ JackHeld' /\ WriterInside'
         /\ Unread' = Unread
BY DEF JackInv, JackTypeOK, JackFill, JackHeld, WriterInside, Unread

LEMMA ReaderCallsInv == JackInv /\ jack_reader_calls => JackInv'
<1> SUFFICES ASSUME JackInv, jack_reader_calls PROVE JackInv' OBVIOUS
<1>1. PICK op \in {"read", "peek", "vector"}, n \in 1 .. jack_ringbuffer_read_space :
        jack_rd' = [call |-> jack_call(op, read_ptr, n), dest |-> <<>>]
  BY DEF jack_reader_calls
<1>0. read_ptr \in Slot /\ Unread \in 0 .. Size - 1 BY InvTypes
<1>2. jack_ringbuffer_read_space = Unread BY Spaces DEF JackInv
<1>3. n \in 1 .. Size - 1 /\ n <= Unread BY <1>0, <1>2
<1>4. PICK n1 \in Nat, n2 \in Nat :
        /\ jack_call(op, read_ptr, n) = JackCall("copy", op, read_ptr, n1, n2)
        /\ Pieces(read_ptr, n1, n2) /\ n1 + n2 = n
  <2>1. op \in {"read", "peek", "vector", "write"} OBVIOUS
  <2> QED BY <1>0, <1>3, <2>1, CallSplit, Zenon
<1>5. ReadCopies(read_ptr, n1, n2, 0, read_ptr, Unread)
  <2>1. n1 + n2 <= Unread BY <1>3, <1>4
  <2> QED BY <1>0, <1>4, <2>1, ReadSteps
<1>6. PICK call \in Call :
        /\ call = JackCall("copy", op, read_ptr, n1, n2)
        /\ call.pc = "copy" /\ call.op = op /\ call.at = read_ptr
        /\ call.n1 = n1 /\ call.n2 = n2
  BY <1>0, NewCall
<1>7. jack_rd' = [call |-> call, dest |-> <<>>] BY <1>1, <1>4, <1>6, Zenon
<1>8. <<>> \in Seq(Nat) /\ Len(<<>>) = 0 BY EmptySeq
<1>9. jack_rd'.call = call /\ jack_rd'.dest = <<>> BY <1>7
<1>20. /\ JackTypeOK' /\ JackFill' /\ JackHeld' /\ WriterInside'
       /\ Unread' = Unread /\ read_ptr' = read_ptr
  BY <1>6, <1>7, <1>8, ReaderOnly DEF jack_reader_calls
<1>21. ReaderInside'
  <2>1. Len(jack_rd'.dest) = 0 BY <1>8, <1>9, Zenon
  <2> QED BY <1>5, <1>6, <1>9, <1>20, <2>1 DEF ReaderInside
<1>22. JackIntact'
  <2>1. Len(jack_rd'.dest) = 0 BY <1>8, <1>9, Zenon
  <2> QED BY <2>1 DEF JackIntact
<1> QED BY <1>20, <1>21, <1>22 DEF JackInv

\* A step of the reading thread inside its call: the invariant holds if the
\* new call fits the bytes taken.
LEMMA ReaderGoesOn ==
  ASSUME JackInv, NEW call \in Call, NEW dest \in Seq(Nat), NEW taken \in Nat,
         jack_rd' = [call |-> call, dest |-> dest],
         UNCHANGED <<jack_buf, read_ptr, write_ptr, jack_wr, jack_sent, jack_out>>,
         Taken(dest, Len(jack_out), taken),
         call.pc = "copy" =>
           /\ ReadCopies(call.at, call.n1, call.n2, taken, read_ptr, Unread)
           /\ call.op \in {"read", "peek", "vector"} /\ (call.op = "read" => taken = 0),
         call.pc = "store" =>
           /\ ReadStores(call.at, call.n1, call.n2, taken, read_ptr, Unread)
           /\ call.op \in {"read", "vector"} /\ (call.op = "vector" => call.n2 = 0)
  PROVE  JackInv'
<1>1. /\ JackTypeOK' /\ JackFill' /\ JackHeld' /\ WriterInside'
      /\ Unread' = Unread /\ read_ptr' = read_ptr /\ jack_out' = jack_out
  BY ReaderOnly
<1>2. jack_rd'.call = call /\ jack_rd'.dest = dest OBVIOUS
<1>3. Len(dest) = taken /\ \A k \in 1 .. taken : dest[k] = Len(jack_out) + k
  BY DEF Taken
<1>4. ReaderInside' BY <1>1, <1>2, <1>3 DEF ReaderInside
<1>5. JackIntact' BY <1>1, <1>2, <1>3 DEF JackIntact
<1> QED BY <1>1, <1>4, <1>5 DEF JackInv

LEMMA ReaderCopiesInv == JackInv /\ jack_reader_copies => JackInv'
<1> SUFFICES ASSUME JackInv, jack_reader_copies PROVE JackInv' OBVIOUS
<1> DEFINE c == jack_rd.call
           taken == Len(jack_rd.dest)
           out == Len(jack_out)
<1>0. /\ c \in Call /\ c.at \in Slot /\ c.n1 \in Nat /\ c.n2 \in Nat
      /\ taken \in Nat /\ out \in Nat /\ jack_rd.dest \in Seq(Nat)
      /\ read_ptr \in Slot /\ Unread \in 0 .. Size - 1 /\ Unread \in Nat
      /\ jack_buf \in [Slot -> Nat]
  <2>1. c \in Call BY InvTypes
  <2>2. c.at \in Slot /\ c.n1 \in Nat /\ c.n2 \in Nat BY <2>1 DEF Call
  <2> QED BY <2>1, <2>2, InvTypes
<1>1. /\ c.pc = "copy" /\ c.op \in {"read", "peek", "vector"}
      /\ ReadCopies(c.at, c.n1, c.n2, taken, read_ptr, Unread)
      /\ c.op = "read" => taken = 0
  BY DEF JackInv, ReaderInside, jack_reader_copies
<1>2. PICK all :
        /\ all = jack_rd.dest \o Piece(jack_buf, c.at, c.n1)
        /\ jack_rd' = [call |-> IF c.op = "read" \/ (c.op = "vector" /\ c.n2 = 0)
                                  THEN jack_store(c)
                                ELSE IF c.n2 > 0 THEN jack_second(c) ELSE JackIdle,
                       dest |-> all]
        /\ UNCHANGED <<jack_buf, read_ptr, write_ptr, jack_wr, jack_sent, jack_out>>
  BY DEF jack_reader_copies, Piece
<1>3. all \in Seq(Nat) /\ Taken(all, out, taken + c.n1)
  <2>1. Taken(jack_rd.dest, out, taken)
    BY DEF JackInv, JackIntact, Taken
  <2>2. PICK h \in Nat : h = Unread + jack_wr.filled BY InvTypes
  <2>3. Unread <= h /\ Held(jack_buf, read_ptr, out, h)
    BY <2>2, InvTypes DEF JackInv, JackHeld
  <2> HIDE DEF c, taken, out
  <2>4. /\ Piece(jack_buf, c.at, c.n1) \in Seq(Nat)
        /\ Taken(Piece(jack_buf, c.at, c.n1), out + taken, c.n1)
    BY <1>0, <1>1, <2>3, CopiedBytes
  <2> QED BY <1>0, <1>2, <2>1, <2>4, TakenOn
<1> HIDE DEF c, taken, out
<1>4. taken + c.n1 \in Nat BY <1>0
<1>5. CASE c.op = "read" \/ (c.op = "vector" /\ c.n2 = 0)
  <2>1. PICK d \in Call : /\ d = jack_store(c) /\ d.pc = "store" /\ d.op = c.op
                          /\ d.at = c.at /\ d.n1 = c.n1 /\ d.n2 = c.n2
    BY <1>0, CallGoesOn
  <2>2. jack_rd' = [call |-> d, dest |-> all] BY <1>2, <1>5, <2>1
  <2>3. ReadStores(c.at, c.n1, c.n2, taken + c.n1, read_ptr, Unread)
    BY <1>0, <1>1, <1>5, ReadSteps
  <2> QED BY <1>2, <1>3, <1>4, <1>5, <2>1, <2>2, <2>3, ReaderGoesOn DEF out
<1>6. CASE ~ (c.op = "read" \/ (c.op = "vector" /\ c.n2 = 0)) /\ c.n2 > 0
  <2>1. Pieces(c.at, c.n1, c.n2) BY <1>1 DEF ReadCopies
  <2>2. PICK d \in Call : /\ d = jack_second(c) /\ d.pc = "copy" /\ d.op = c.op
                          /\ d.at = 0 /\ d.n1 = c.n2 /\ d.n2 = 0
    BY <1>0, <1>6, <2>1, CallGoesOn
  <2>3. jack_rd' = [call |-> d, dest |-> all] BY <1>2, <1>6, <2>2
  <2>4. ReadCopies(0, c.n2, 0, taken + c.n1, read_ptr, Unread)
    BY <1>0, <1>1, <1>6, ReadSteps
  <2> QED BY <1>1, <1>2, <1>3, <1>4, <1>6, <2>2, <2>3, <2>4, ReaderGoesOn DEF out
<1>7. CASE ~ (c.op = "read" \/ (c.op = "vector" /\ c.n2 = 0)) /\ ~ (c.n2 > 0)
  <2>1. jack_rd' = [call |-> JackIdle, dest |-> all] BY <1>2, <1>7
  <2> QED BY <1>2, <1>3, <1>4, <2>1, IdleCall, ReaderGoesOn DEF out
<1> QED BY <1>5, <1>6, <1>7

\* The bytes a writing call has copied in leave the free slot free.
LEMMA FilledFits == ASSUME JackInv PROVE Unread + jack_wr.filled \in 0 .. Size - 1
<1>1. /\ Unread \in 0 .. Size - 1 /\ jack_wr.filled \in Nat
      /\ jack_wr.call.n1 \in Nat /\ jack_wr.call.n2 \in Nat
      /\ jack_wr.call.pc \in {"idle", "copy", "store"}
  <2>1. jack_wr.call \in Call BY InvTypes
  <2>2. /\ jack_wr.call.n1 \in Nat /\ jack_wr.call.n2 \in Nat
        /\ jack_wr.call.pc \in {"idle", "copy", "store"}
    BY <2>1 DEF Call
  <2> QED BY <2>2, InvTypes
<1>2. WriterInside BY DEF JackInv
<1> QED BY <1>1, <1>2 DEF WriterInside, WriteCopies, WriteStores

\* The pointers after d bytes have been taken.
LEMMA FillTaken ==
  ASSUME NEW r \in Slot, NEW u \in 0 .. Size - 1, NEW d \in 0 .. u
  PROVE  /\ Wrap(r + d) \in Slot /\ u - d \in 0 .. Size - 1
         /\ size_mask(r + d) = Wrap(r + d)
         /\ Wrap(r + u) = Wrap(Wrap(r + d) + (u - d))
<1>1. size_mask(r + d) = Wrap(r + d) BY MaskWraps
<1> QED BY <1>1 DEF Wrap

LEMMA ReaderStoresInv == JackInv /\ jack_reader_stores => JackInv'
<1> SUFFICES ASSUME JackInv, jack_reader_stores PROVE JackInv' OBVIOUS
<1> DEFINE c == jack_rd.call
           taken == Len(jack_rd.dest)
           out == Len(jack_out)
<1>0. /\ c \in Call /\ c.at \in Slot /\ c.n1 \in Nat /\ c.n2 \in Nat
      /\ taken \in Nat /\ out \in Nat /\ jack_rd.dest \in Seq(Nat)
      /\ read_ptr \in Slot /\ Unread \in 0 .. Size - 1 /\ Unread \in Nat
      /\ jack_buf \in [Slot -> Nat] /\ jack_out \in Seq(Nat)
  <2>1. c \in Call BY InvTypes
  <2>2. c.at \in Slot /\ c.n1 \in Nat /\ c.n2 \in Nat BY <2>1 DEF Call
  <2> QED BY <2>1, <2>2, InvTypes
<1>1. /\ c.pc = "store" /\ c.op \in {"read", "vector"}
      /\ ReadStores(c.at, c.n1, c.n2, taken, read_ptr, Unread)
      /\ c.op = "vector" => c.n2 = 0
  BY DEF JackInv, ReaderInside, jack_reader_stores
<1>2. /\ read_ptr' = size_mask(read_ptr + taken) /\ jack_out' = jack_out \o jack_rd.dest
      /\ jack_rd' = [call |-> IF c.n2 > 0 THEN jack_second(c) ELSE JackIdle,
                     dest |-> <<>>]
      /\ UNCHANGED <<jack_buf, write_ptr, jack_wr, jack_sent>>
  BY DEF jack_reader_stores
<1>3. PICK d \in 0 .. Unread : d = taken BY <1>0, <1>1 DEF ReadStores
<1>4. Len(jack_out') = out + d /\ jack_out' \in Seq(Nat)
  BY <1>0, <1>2, <1>3, ConcatProperties
<1> HIDE DEF c, taken, out
<1>5. Unread' = Unread - d /\ d \in Nat
  <2>1. jack_sent' = out + Unread BY <1>2, InvTypes DEF out
  <2> QED BY <1>0, <1>3, <1>4, <2>1 DEF Unread
<1>6. /\ read_ptr' = Wrap(read_ptr + d) /\ read_ptr' \in Slot
      /\ Unread - d \in 0 .. Size - 1
      /\ write_ptr = Wrap(Wrap(read_ptr + d) + (Unread - d))
  <2>1. write_ptr = Wrap(read_ptr + Unread) BY DEF JackInv, JackFill
  <2>2. read_ptr' = size_mask(read_ptr + d) BY <1>2, <1>3, Zenon
  <2>3. /\ Wrap(read_ptr + d) \in Slot /\ Unread - d \in 0 .. Size - 1
        /\ size_mask(read_ptr + d) = Wrap(read_ptr + d)
        /\ Wrap(read_ptr + Unread) = Wrap(Wrap(read_ptr + d) + (Unread - d))
    BY <1>0, FillTaken
  <2> QED BY <2>1, <2>2, <2>3, Zenon
<1>7. JackFill' BY <1>2, <1>5, <1>6 DEF JackFill
<1>8. JackHeld'
  <2>1. PICK h \in 0 .. Size - 1 : h = Unread + jack_wr.filled BY FilledFits
  <2>2. Held(jack_buf, read_ptr, out, h) /\ d \in 0 .. h
    BY <1>0, <1>3, <2>1, InvTypes DEF JackInv, JackHeld, out
  <2>3. Held(jack_buf, Wrap(read_ptr + d), out + d, h - d)
    BY <1>0, <2>2, HeldTaken
  <2>4. h - d = Unread - d + jack_wr.filled BY <1>0, <1>5, <2>1, InvTypes
  <2> QED BY <1>2, <1>4, <1>5, <1>6, <2>3, <2>4 DEF JackHeld
<1>9. WriterInside'
  <2>1. jack_wr.call \in Call /\ jack_wr.filled \in Nat BY InvTypes
  <2>2. jack_wr.call.at \in Slot /\ jack_wr.call.n1 \in Nat /\ jack_wr.call.n2 \in Nat
    BY <2>1 DEF Call
  <2>3. WriterInside BY DEF JackInv
  <2> DEFINE w == jack_wr.call
             filled == jack_wr.filled
  <2>4. /\ WriteCopies(w.at, w.n1, w.n2, filled, read_ptr, Unread) =>
             WriteCopies(w.at, w.n1, w.n2, filled, Wrap(read_ptr + d), Unread - d)
        /\ WriteStores(w.at, w.n1, w.n2, filled, read_ptr, Unread) =>
             WriteStores(w.at, w.n1, w.n2, filled, Wrap(read_ptr + d), Unread - d)
    <3> HIDE DEF w, filled
    <3>1. w.at \in Slot /\ w.n1 \in Nat /\ w.n2 \in Nat /\ filled \in Nat
      BY <2>1, <2>2 DEF w, filled
    <3> QED BY <1>0, <3>1, WritesOn
  <2>5. jack_wr' = jack_wr /\ Unread' = Unread - d /\ read_ptr' = Wrap(read_ptr + d)
    BY <1>2, <1>5, <1>6
  <2> QED BY <2>3, <2>4, <2>5 DEF WriterInside
<1>10. PICK e \in Call :
         /\ jack_rd' = [call |-> e, dest |-> <<>>] /\ e.pc \in {"idle", "copy"}
         /\ e.pc = "copy" => /\ e.op = c.op /\ c.n2 > 0
                             /\ e.at = 0 /\ e.n1 = c.n2 /\ e.n2 = 0
  <2>1. CASE c.n2 > 0
    <3>1. Pieces(c.at, c.n1, c.n2) BY <1>1, <2>1 DEF ReadStores
    <3>2. PICK e \in Call : /\ e = jack_second(c) /\ e.pc = "copy" /\ e.op = c.op
                            /\ e.at = 0 /\ e.n1 = c.n2 /\ e.n2 = 0
      BY <1>0, <2>1, <3>1, CallGoesOn
    <3> QED BY <1>2, <2>1, <3>2
  <2>2. CASE ~ (c.n2 > 0) BY <1>2, <2>2, IdleCall
  <2> QED BY <2>1, <2>2
<1>11. /\ jack_rd'.call = e /\ jack_rd'.dest = <<>>
       /\ Len(jack_rd'.dest) = 0 /\ jack_rd'.dest \in Seq(Nat)
  <2>1. jack_rd'.call = e /\ jack_rd'.dest = <<>> BY <1>10
  <2> QED BY <2>1, EmptySeq, Zenon
<1>12. JackTypeOK'
  <2>1. jack_rd' \in [call : Call, dest : Seq(Nat)] BY <1>10, <1>11
  <2> QED BY <1>2, <1>4, <1>6, <2>1 DEF JackInv, JackTypeOK
<1>13. ReaderInside'
  <2>1. c.n2 > 0 => ReadCopies(0, c.n2, 0, 0, Wrap(read_ptr + d), Unread - d)
    BY <1>0, <1>1, <1>3, ReadSteps
  <2> QED BY <1>1, <1>5, <1>6, <1>10, <1>11, <2>1 DEF ReaderInside
<1>14. JackIntact' BY <1>11 DEF JackIntact
<1> QED BY <1>7, <1>8, <1>9, <1>12, <1>13, <1>14 DEF JackInv

-----------------------------------------------------------------------------
(***************************************************************************)
(* The writing thread.                                                     *)
(***************************************************************************)
\* A step of the writing thread inside its call: the invariant holds if the
\* new call fits the bytes copied in.
LEMMA WriterGoesOn ==
  ASSUME JackInv, NEW call \in Call, NEW filled \in Nat,
         jack_wr' = [call |-> call, filled |-> filled],
         UNCHANGED <<read_ptr, write_ptr, jack_rd, jack_sent, jack_out>>,
         jack_buf' \in [Slot -> Nat],
         Held(jack_buf', read_ptr, Len(jack_out), Unread + filled),
         call.pc = "idle" => filled = 0,
         call.pc = "copy" =>
           /\ WriteCopies(call.at, call.n1, call.n2, filled, read_ptr, Unread)
           /\ call.op \in {"write", "vector"} /\ (call.op = "write" => filled = 0),
         call.pc = "store" =>
           /\ WriteStores(call.at, call.n1, call.n2, filled, read_ptr, Unread)
           /\ call.op \in {"write", "vector"} /\ (call.op = "vector" => call.n2 = 0)
  PROVE  JackInv'
<1>1. jack_wr'.call = call /\ jack_wr'.filled = filled OBVIOUS
<1>2. Unread' = Unread BY DEF Unread
<1>3. JackTypeOK' BY DEF JackInv, JackTypeOK
<1>4. JackFill' BY <1>2 DEF JackInv, JackFill
<1>5. JackHeld' BY <1>1, <1>2 DEF JackHeld
<1>6. ReaderInside' BY <1>2 DEF JackInv, ReaderInside
<1>7. WriterInside' BY <1>1, <1>2 DEF WriterInside
<1>8. JackIntact' BY DEF JackInv, JackIntact
<1> QED BY <1>3, <1>4, <1>5, <1>6, <1>7, <1>8 DEF JackInv

\* What the steps of the writing thread start from.
LEMMA WriterTypes ==
  ASSUME JackInv
  PROVE  LET c == jack_wr.call IN
           /\ c \in Call /\ c.at \in Slot /\ c.n1 \in Nat /\ c.n2 \in Nat
           /\ jack_wr.filled \in Nat /\ Len(jack_out) \in Nat
           /\ read_ptr \in Slot /\ Unread \in 0 .. Size - 1 /\ Unread \in Nat
           /\ jack_buf \in [Slot -> Nat] /\ jack_sent = Len(jack_out) + Unread
           /\ write_ptr = Wrap(read_ptr + Unread)
           /\ Held(jack_buf, read_ptr, Len(jack_out), Unread + jack_wr.filled)
<1>1. jack_wr.call \in Call BY InvTypes
<1>2. /\ jack_wr.call.at \in Slot /\ jack_wr.call.n1 \in Nat
      /\ jack_wr.call.n2 \in Nat
  BY <1>1 DEF Call
<1>3. write_ptr = Wrap(read_ptr + Unread) BY DEF JackInv, JackFill
<1>4. Held(jack_buf, read_ptr, Len(jack_out), Unread + jack_wr.filled)
  BY DEF JackInv, JackHeld
<1> QED BY <1>1, <1>2, <1>3, <1>4, InvTypes

LEMMA WriterCallsInv == JackInv /\ jack_writer_calls => JackInv'
<1> SUFFICES ASSUME JackInv, jack_writer_calls PROVE JackInv' OBVIOUS
<1>1. PICK op \in {"write", "vector"}, n \in 1 .. jack_ringbuffer_write_space :
        jack_wr' = [call |-> jack_call(op, write_ptr, n), filled |-> 0]
  BY DEF jack_writer_calls
<1>0. /\ read_ptr \in Slot /\ write_ptr \in Slot /\ Unread \in 0 .. Size - 1
      /\ write_ptr = Wrap(read_ptr + Unread)
  BY InvTypes, WriterTypes
<1>2. jack_ringbuffer_write_space = Size - 1 - Unread BY Spaces DEF JackInv
<1>3. n \in 1 .. Size - 1 /\ n <= Size - 1 - Unread BY <1>0, <1>2
<1>4. PICK n1 \in Nat, n2 \in Nat :
        /\ jack_call(op, write_ptr, n) = JackCall("copy", op, write_ptr, n1, n2)
        /\ Pieces(write_ptr, n1, n2) /\ n1 + n2 = n
  <2>1. op \in {"read", "peek", "vector", "write"} OBVIOUS
  <2> QED BY <1>0, <1>3, <2>1, CallSplit, Zenon
<1>5. WriteCopies(write_ptr, n1, n2, 0, read_ptr, Unread)
  <2>1. n1 + n2 <= Size - 1 - Unread BY <1>3, <1>4
  <2>2. PICK at \in Slot : at = write_ptr BY <1>0
  <2>3. Pieces(at, n1, n2) /\ at = Wrap(read_ptr + Unread) BY <1>0, <1>4, <2>2, Zenon
  <2>4. WriteCopies(at, n1, n2, 0, read_ptr, Unread)
    BY <1>0, <2>1, <2>3 DEF WriteCopies, Wrap
  <2> QED BY <2>2, <2>4, Zenon
<1>6. PICK call \in Call :
        /\ call = JackCall("copy", op, write_ptr, n1, n2)
        /\ call.pc = "copy" /\ call.op = op /\ call.at = write_ptr
        /\ call.n1 = n1 /\ call.n2 = n2
  <2>1. op \in {"read", "peek", "vector", "write"} /\ write_ptr \in Slot BY <1>0
  <2> QED BY <2>1, NewCall
<1>7. jack_wr' = [call |-> call, filled |-> 0] BY <1>1, <1>4, <1>6, Zenon
<1>8. /\ UNCHANGED <<jack_buf, read_ptr, write_ptr, jack_rd, jack_sent, jack_out>>
      /\ jack_buf \in [Slot -> Nat]
  BY WriterTypes DEF jack_writer_calls
<1>9. Held(jack_buf', read_ptr, Len(jack_out), Unread + 0)
  <2>1. \A k \in 1 .. Unread : k \in 1 .. Unread + jack_wr.filled BY WriterTypes
  <2>2. Held(jack_buf, read_ptr, Len(jack_out), Unread) BY <2>1, WriterTypes DEF Held
  <2>3. Unread + 0 = Unread BY <1>0
  <2> QED BY <1>8, <2>2, <2>3
<1> QED BY <1>5, <1>6, <1>7, <1>8, <1>9, WriterGoesOn

LEMMA WriterCopiesInv == JackInv /\ jack_writer_copies => JackInv'
<1> SUFFICES ASSUME JackInv, jack_writer_copies PROVE JackInv' OBVIOUS
<1> DEFINE c == jack_wr.call
           filled == jack_wr.filled
           out == Len(jack_out)
<1>0. /\ c \in Call /\ c.at \in Slot /\ c.n1 \in Nat /\ c.n2 \in Nat
      /\ filled \in Nat /\ out \in Nat /\ read_ptr \in Slot
      /\ Unread \in 0 .. Size - 1 /\ Unread \in Nat /\ jack_buf \in [Slot -> Nat]
      /\ jack_sent = out + Unread /\ Held(jack_buf, read_ptr, out, Unread + filled)
  BY WriterTypes
<1>1. /\ c.pc = "copy" /\ c.op \in {"write", "vector"}
      /\ WriteCopies(c.at, c.n1, c.n2, filled, read_ptr, Unread)
      /\ c.op = "write" => filled = 0
  BY DEF JackInv, WriterInside, jack_writer_copies
<1>2. /\ jack_buf' = [s \in Slot |-> IF s \in c.at .. c.at + c.n1 - 1
                                       THEN jack_sent + filled + (s - c.at) + 1
                                       ELSE jack_buf[s]]
      /\ jack_wr' = [call |-> IF c.op = "vector" /\ c.n2 > 0 THEN jack_second(c)
                              ELSE jack_store(c),
                     filled |-> filled + c.n1]
      /\ UNCHANGED <<read_ptr, write_ptr, jack_rd, jack_sent, jack_out>>
  BY DEF jack_writer_copies
<1> HIDE DEF c, filled, out
<1>3. /\ jack_buf' \in [Slot -> Nat] /\ filled + c.n1 \in Nat
      /\ Held(jack_buf', read_ptr, out, Unread + (filled + c.n1))
  <2>1. PICK new : new = jack_buf' OBVIOUS
  <2>2. new \in [Slot -> Nat] /\ Filled(new, jack_buf, c.at, c.n1, jack_sent + filled)
    <3>1. jack_sent + filled \in Nat BY <1>0
    <3>2. new = Copied(jack_buf, c.at, c.n1, jack_sent + filled)
      BY <1>2, <2>1 DEF Copied
    <3> QED BY <1>0, <3>1, <3>2, CopiedIn, Zenon
  <2>3. PICK h \in Nat : h = Unread + filled BY <1>0
  <2>4. c.at = Wrap(read_ptr + h) /\ c.at + c.n1 <= Size /\ h + c.n1 < Size
    <3>1. read_ptr + h = read_ptr + Unread + filled BY <1>0, <2>3
    <3> QED BY <1>0, <1>1, <2>3, <3>1 DEF WriteCopies, Pieces
  <2>5. jack_sent + filled = out + h BY <1>0, <2>3
  <2>6. Held(jack_buf, read_ptr, out, h) /\ Filled(new, jack_buf, c.at, c.n1, out + h)
    BY <1>0, <2>2, <2>3, <2>5
  <2>7. Held(new, read_ptr, out, h + c.n1)
    BY <1>0, <2>4, <2>6, HeldFilled
  <2>8. h + c.n1 = Unread + (filled + c.n1) /\ filled + c.n1 \in Nat
    <3>1. c.n1 \in Nat /\ filled \in Nat /\ Unread \in Nat BY <1>0
    <3> QED BY <2>3, <3>1
  <2> QED BY <2>1, <2>2, <2>7, <2>8, Zenon
<1>4. CASE c.op = "vector" /\ c.n2 > 0
  <2>1. Pieces(c.at, c.n1, c.n2) BY <1>1 DEF WriteCopies
  <2>2. PICK d \in Call : /\ d = jack_second(c) /\ d.pc = "copy" /\ d.op = c.op
                          /\ d.at = 0 /\ d.n1 = c.n2 /\ d.n2 = 0
    BY <1>0, <1>4, <2>1, CallGoesOn
  <2>3. jack_wr' = [call |-> d, filled |-> filled + c.n1] BY <1>2, <1>4, <2>2
  <2>4. WriteCopies(0, c.n2, 0, filled + c.n1, read_ptr, Unread)
    BY <1>0, <1>1, <1>4, WriteSteps
  <2> QED BY <1>1, <1>2, <1>3, <1>4, <2>2, <2>3, <2>4, WriterGoesOn DEF out
<1>5. CASE ~ (c.op = "vector" /\ c.n2 > 0)
  <2>1. PICK d \in Call : /\ d = jack_store(c) /\ d.pc = "store" /\ d.op = c.op
                          /\ d.at = c.at /\ d.n1 = c.n1 /\ d.n2 = c.n2
    BY <1>0, CallGoesOn
  <2>2. jack_wr' = [call |-> d, filled |-> filled + c.n1] BY <1>2, <1>5, <2>1
  <2>3. filled = 0 \/ c.n2 = 0 BY <1>0, <1>1, <1>5
  <2>4. WriteStores(c.at, c.n1, c.n2, filled + c.n1, read_ptr, Unread)
    BY <1>0, <1>1, <2>3, WriteSteps
  <2>5. d.op = "vector" => d.n2 = 0 BY <1>0, <1>5, <2>1
  <2> QED BY <1>1, <1>2, <1>3, <2>1, <2>2, <2>4, <2>5, WriterGoesOn DEF out
<1> QED BY <1>4, <1>5

\* The pointers after d bytes have been published.
LEMMA FillAdded ==
  ASSUME NEW r \in Slot, NEW u \in 0 .. Size - 1, NEW d \in Nat, u + d < Size
  PROVE  /\ u + d \in 0 .. Size - 1
         /\ size_mask(Wrap(r + u) + d) = Wrap(r + (u + d))
         /\ Wrap(r + (u + d)) \in Slot
<1>1. PICK w \in Slot : w = Wrap(r + u) BY DEF Wrap
<1>2. size_mask(w + d) = Wrap(w + d) BY MaskWraps
<1>3. Wrap(w + d) = Wrap(r + (u + d)) BY <1>1 DEF Wrap
<1> QED BY <1>1, <1>2, <1>3 DEF Wrap

LEMMA WriterStoresInv == JackInv /\ jack_writer_stores => JackInv'
<1> SUFFICES ASSUME JackInv, jack_writer_stores PROVE JackInv' OBVIOUS
<1> DEFINE c == jack_wr.call
           filled == jack_wr.filled
           out == Len(jack_out)
<1>0. /\ c \in Call /\ c.at \in Slot /\ c.n1 \in Nat /\ c.n2 \in Nat
      /\ filled \in Nat /\ out \in Nat /\ read_ptr \in Slot
      /\ Unread \in 0 .. Size - 1 /\ Unread \in Nat /\ jack_buf \in [Slot -> Nat]
      /\ jack_sent = out + Unread /\ Held(jack_buf, read_ptr, out, Unread + filled)
  BY WriterTypes
<1>1. /\ c.pc = "store" /\ c.op \in {"write", "vector"}
      /\ WriteStores(c.at, c.n1, c.n2, filled, read_ptr, Unread)
      /\ c.op = "vector" => c.n2 = 0
  BY DEF JackInv, WriterInside, jack_writer_stores
<1>2. /\ write_ptr' = size_mask(write_ptr + filled) /\ jack_sent' = jack_sent + filled
      /\ jack_wr' = [call |-> IF c.n2 > 0 THEN jack_second(c) ELSE JackIdle,
                     filled |-> 0]
      /\ UNCHANGED <<jack_buf, read_ptr, jack_rd, jack_out>>
  BY DEF jack_writer_stores
<1>3. write_ptr = Wrap(read_ptr + Unread) BY WriterTypes
<1> HIDE DEF c, filled
<1>4. Unread + filled < Size BY <1>0, <1>1 DEF WriteStores
<1>5. Unread' = Unread + filled
  <2>1. out' = out BY <1>2
  <2>2. jack_sent' = out + Unread + filled BY <1>0, <1>2
  <2> HIDE DEF out
  <2>3. Unread' = jack_sent' - out' BY DEF Unread, out
  <2> QED BY <1>0, <2>1, <2>2, <2>3
<1>6. /\ Unread + filled \in 0 .. Size - 1 /\ write_ptr' \in Slot
      /\ write_ptr' = Wrap(read_ptr + (Unread + filled))
  <2>1. write_ptr' = size_mask(Wrap(read_ptr + Unread) + filled) BY <1>2, <1>3, Zenon
  <2>2. /\ Unread + filled \in 0 .. Size - 1
        /\ size_mask(Wrap(read_ptr + Unread) + filled) = Wrap(read_ptr + (Unread + filled))
        /\ Wrap(read_ptr + (Unread + filled)) \in Slot
    BY <1>0, <1>4, FillAdded
  <2> QED BY <2>1, <2>2, Zenon
<1>7. JackFill' BY <1>2, <1>5, <1>6 DEF JackFill
<1>8. PICK e \in Call :
        /\ jack_wr' = [call |-> e, filled |-> 0] /\ e.pc \in {"idle", "copy"}
        /\ e.pc = "copy" => /\ e.op = c.op /\ c.n2 > 0
                            /\ e.at = 0 /\ e.n1 = c.n2 /\ e.n2 = 0
  <2>1. CASE c.n2 > 0
    <3>1. Pieces(c.at, c.n1, c.n2) BY <1>1, <2>1 DEF WriteStores
    <3>2. PICK e \in Call : /\ e = jack_second(c) /\ e.pc = "copy" /\ e.op = c.op
                            /\ e.at = 0 /\ e.n1 = c.n2 /\ e.n2 = 0
      BY <1>0, <2>1, <3>1, CallGoesOn
    <3> QED BY <1>2, <2>1, <3>2
  <2>2. CASE ~ (c.n2 > 0) BY <1>2, <2>2, IdleCall
  <2> QED BY <2>1, <2>2
<1>9. jack_wr'.call = e /\ jack_wr'.filled = 0 BY <1>8
<1>10. JackTypeOK'
  <2>1. jack_sent' \in Nat BY <1>0, <1>2
  <2>2. jack_wr' \in [call : Call, filled : Nat] BY <1>8
  <2> QED BY <1>2, <1>6, <2>1, <2>2 DEF JackInv, JackTypeOK
<1>11. JackHeld'
  <2>1. Unread' + jack_wr'.filled = Unread + filled BY <1>0, <1>5, <1>9
  <2>2. jack_buf' = jack_buf /\ read_ptr' = read_ptr /\ Len(jack_out)' = Len(jack_out)
    BY <1>2
  <2> QED BY <1>0, <2>1, <2>2 DEF JackHeld
<1>12. WriterInside'
  <2>1. c.n2 > 0 => WriteCopies(0, c.n2, 0, 0, read_ptr, Unread + filled)
    BY <1>0, <1>1, WriteSteps
  <2>2. c.n2 > 0 => c.op = "write" BY <1>0, <1>1
  <2>3. read_ptr' = read_ptr BY <1>2
  <2> QED BY <1>5, <1>8, <1>9, <2>1, <2>2, <2>3 DEF WriterInside
<1>13. ReaderInside'
  <2> DEFINE d == jack_rd.call
             taken == Len(jack_rd.dest)
  <2>1. /\ d.at \in Slot /\ d.n1 \in Nat /\ d.n2 \in Nat /\ taken \in Nat
    <3>1. jack_rd.call \in Call /\ Len(jack_rd.dest) \in Nat BY InvTypes
    <3> QED BY <3>1 DEF Call
  <2> HIDE DEF d, taken
  <2>2. /\ ReadCopies(d.at, d.n1, d.n2, taken, read_ptr, Unread) =>
             ReadCopies(d.at, d.n1, d.n2, taken, read_ptr, Unread + filled)
        /\ ReadStores(d.at, d.n1, d.n2, taken, read_ptr, Unread) =>
             ReadStores(d.at, d.n1, d.n2, taken, read_ptr, Unread + filled)
    BY <1>0, <2>1, ReadsOn
  <2> USE DEF d, taken
  <2>3. ReaderInside BY DEF JackInv
  <2>4. jack_rd' = jack_rd /\ read_ptr' = read_ptr BY <1>2
  <2> QED BY <1>5, <2>2, <2>3, <2>4 DEF ReaderInside
<1>14. JackIntact' BY <1>2 DEF JackInv, JackIntact
<1> QED BY <1>7, <1>10, <1>11, <1>12, <1>13, <1>14 DEF JackInv

\* An emptied buffer.
LEMMA ResetInv == JackInv /\ jack_ringbuffer_reset => JackInv'
<1> SUFFICES ASSUME JackInv, jack_ringbuffer_reset PROVE JackInv' OBVIOUS
<1>1. /\ jack_rd.call.pc = "idle" /\ jack_wr.call.pc = "idle"
      /\ read_ptr' = 0 /\ write_ptr' = 0 /\ jack_sent' = Len(jack_out)
      /\ UNCHANGED <<jack_buf, jack_rd, jack_wr, jack_out>>
  BY DEF jack_ringbuffer_reset
<1>2. jack_wr.filled = 0 BY <1>1 DEF JackInv, WriterInside
<1>3. Len(jack_out) \in Nat BY InvTypes
<1>4. Unread' = 0
  <2>1. PICK n \in Nat : n = Len(jack_out) BY <1>3
  <2>2. Unread' = n - n BY <1>1, <2>1 DEF Unread
  <2> QED BY <2>2
<1>5. JackTypeOK' BY <1>1, <1>3 DEF JackInv, JackTypeOK
<1>6. JackFill' BY <1>1, <1>4 DEF JackFill, Wrap
<1>7. JackHeld' BY <1>1, <1>2, <1>4 DEF JackHeld, Held
<1>8. ReaderInside' /\ WriterInside' BY <1>1, <1>2 DEF ReaderInside, WriterInside
<1>9. JackIntact' BY <1>1 DEF JackInv, JackIntact
<1> QED BY <1>5, <1>6, <1>7, <1>8, <1>9 DEF JackInv

LEMMA JackNextInv == JackInv /\ [JackNext]_jack_vars => JackInv'
<1> SUFFICES ASSUME JackInv, [JackNext]_jack_vars PROVE JackInv' OBVIOUS
<1>1. CASE UNCHANGED jack_vars
  BY <1>1 DEF jack_vars, JackInv, JackTypeOK, JackFill, JackHeld, ReaderInside,
              WriterInside, JackIntact, Unread
<1>2. CASE JackNext
  BY <1>2, ReaderCallsInv, ReaderCopiesInv, ReaderStoresInv, WriterCallsInv,
     WriterCopiesInv, WriterStoresInv, ResetInv DEF JackNext
<1> QED BY <1>1, <1>2
-----------------------------------------------------------------------------
(***************************************************************************)
(* The theorems.                                                           *)
(***************************************************************************)
LEMMA JackAlways == JackSpec => []JackInv
<1> QED BY JackInitInv, JackNextInv, PTL DEF JackSpec

\* The bytes a reading call has copied out, jack_ringbuffer_peek's and those of
\* the two pieces of a vector included, are the next of the stream.
THEOREM ReadsIntact == JackSpec => []JackIntact
<1>1. JackInv => JackIntact BY DEF JackInv
<1> QED BY <1>1, JackAlways, PTL

\* While both threads copy, none of the slots one reads is one the other fills:
\* why no byte is torn and why the order of the bytes of a memcpy() is no matter.
JackApart ==
  LET r == jack_rd.call
      w == jack_wr.call
  IN  r.pc = "copy" /\ w.pc = "copy" =>
        (r.at .. r.at + r.n1 - 1) \cap (w.at .. w.at + w.n1 - 1) = {}

LEMMA ApartArithmetic ==
  ASSUME NEW at1 \in Slot, NEW n1 \in Nat, NEW m1 \in Nat, NEW taken \in Nat,
         NEW at2 \in Slot, NEW n2 \in Nat, NEW m2 \in Nat, NEW filled \in Nat,
         NEW r \in Slot, NEW u \in 0 .. Size - 1,
         ReadCopies(at1, n1, m1, taken, r, u), WriteCopies(at2, n2, m2, filled, r, u)
  PROVE  (at1 .. at1 + n1 - 1) \cap (at2 .. at2 + n2 - 1) = {}
<1> SUFFICES ASSUME NEW i \in Nat, i \in at1 .. at1 + n1 - 1, i \in at2 .. at2 + n2 - 1
             PROVE  FALSE
  OBVIOUS
<1> QED BY DEF ReadCopies, WriteCopies, Pieces, Wrap

THEOREM CopiesApart == JackSpec => []JackApart
<1>1. JackInv => JackApart
  <2> SUFFICES ASSUME JackInv, jack_rd.call.pc = "copy", jack_wr.call.pc = "copy"
               PROVE  JackApart
    BY DEF JackApart
  <2> DEFINE r == jack_rd.call
             w == jack_wr.call
             taken == Len(jack_rd.dest)
             filled == jack_wr.filled
  <2>1. /\ r.at \in Slot /\ r.n1 \in Nat /\ r.n2 \in Nat /\ taken \in Nat
        /\ w.at \in Slot /\ w.n1 \in Nat /\ w.n2 \in Nat /\ filled \in Nat
        /\ read_ptr \in Slot /\ Unread \in 0 .. Size - 1
    <3>1. r \in Call BY InvTypes
    <3>2. r.at \in Slot /\ r.n1 \in Nat /\ r.n2 \in Nat BY <3>1 DEF Call
    <3> QED BY <3>2, InvTypes, WriterTypes
  <2>2. ReadCopies(r.at, r.n1, r.n2, taken, read_ptr, Unread)
    BY DEF JackInv, ReaderInside
  <2>3. WriteCopies(w.at, w.n1, w.n2, filled, read_ptr, Unread)
    BY DEF JackInv, WriterInside
  <2> HIDE DEF r, w, taken, filled
  <2>4. (r.at .. r.at + r.n1 - 1) \cap (w.at .. w.at + w.n1 - 1) = {}
    BY <2>1, <2>2, <2>3, ApartArithmetic
  <2> QED BY <2>4 DEF JackApart, r, w
<1> QED BY <1>1, JackAlways, PTL

\* A store of the read pointer hands on the next bytes of the stream.
LEMMA StoreGets == JackInv /\ jack_reader_stores => JackPipe!Get
<1> SUFFICES ASSUME JackInv, jack_reader_stores PROVE JackPipe!Get OBVIOUS
<1> DEFINE taken == Len(jack_rd.dest)
           out == Len(jack_out)
<1>1. /\ taken \in Nat /\ out \in Nat /\ jack_rd.dest \in Seq(Nat)
      /\ jack_sent = out + Unread /\ Unread \in 0 .. Size - 1
  BY InvTypes
<1>2. taken \in 1 .. Unread
  <2>1. jack_rd.call.n2 \in Nat
    <3>1. jack_rd.call \in Call BY InvTypes
    <3> QED BY <3>1 DEF Call
  <2>2. ReadStores(jack_rd.call.at, jack_rd.call.n1, jack_rd.call.n2, taken,
                   read_ptr, Unread)
    BY DEF JackInv, ReaderInside, jack_reader_stores
  <2> QED BY <1>1, <2>1, <2>2 DEF ReadStores
<1>3. jack_rd.dest = [k \in 1 .. taken |-> out + k]
  <2>1. jack_rd.dest = [k \in 1 .. taken |-> jack_rd.dest[k]] BY <1>1
  <2>2. \A k \in 1 .. taken : jack_rd.dest[k] = out + k BY DEF JackInv, JackIntact
  <2> QED BY <2>1, <2>2
<1>4. taken \in 1 .. jack_sent - out
  <2> HIDE DEF taken, out
  <2> QED BY <1>1, <1>2
<1>5. jack_out' = jack_out \o [k \in 1 .. taken |-> out + k] /\ jack_sent' = jack_sent
  BY <1>3 DEF jack_reader_stores
<1> QED BY <1>4, <1>5 DEF JackPipe!Get

\* A store of the write pointer hands over what was copied in, if it fits.
LEMMA StorePuts == JackInv /\ jack_writer_stores => JackPipe!Put
<1> SUFFICES ASSUME JackInv, jack_writer_stores PROVE JackPipe!Put OBVIOUS
<1> DEFINE filled == jack_wr.filled
           out == Len(jack_out)
<1>1. /\ filled \in Nat /\ out \in Nat /\ jack_wr.call.n2 \in Nat
      /\ jack_sent = out + Unread /\ Unread \in 0 .. Size - 1
  BY WriterTypes
<1>2. WriteStores(jack_wr.call.at, jack_wr.call.n1, jack_wr.call.n2, filled,
                  read_ptr, Unread)
  BY DEF JackInv, WriterInside, jack_writer_stores
<1>3. jack_sent' = jack_sent + filled /\ jack_out' = jack_out
  BY DEF jack_writer_stores
<1> HIDE DEF filled, out
<1>4. filled > 0 /\ Unread + filled < Size BY <1>1, <1>2 DEF WriteStores
<1>5. jack_sent + filled \in jack_sent + 1 .. out + (Size - 1) BY <1>1, <1>4
<1> QED BY <1>3, <1>5 DEF JackPipe!Put, out

\* The ringbuffer of any size is a pipe with room for one byte less.
THEOREM ImplementsPipe == JackSpec => JackIsPipe
<1>1. JackInit => JackPipe!PipeInit BY DEF JackInit, JackPipe!PipeInit
<1>2. JackInv /\ [JackNext]_jack_vars =>
        [JackPipe!Put \/ JackPipe!Get \/ JackPipe!Clear]_<<jack_sent, jack_out>>
  <2> SUFFICES ASSUME JackInv, [JackNext]_jack_vars
               PROVE  \/ JackPipe!Put \/ JackPipe!Get \/ JackPipe!Clear
                      \/ UNCHANGED <<jack_sent, jack_out>>
    OBVIOUS
  <2>1. CASE jack_reader_stores BY <2>1, StoreGets
  <2>2. CASE jack_writer_stores BY <2>2, StorePuts
  <2>3. CASE jack_ringbuffer_reset
    BY <2>3 DEF jack_ringbuffer_reset, JackPipe!Clear
  <2>4. CASE jack_reader_calls BY <2>4 DEF jack_reader_calls
  <2>5. CASE jack_reader_copies BY <2>5 DEF jack_reader_copies
  <2>6. CASE jack_writer_calls BY <2>6 DEF jack_writer_calls
  <2>7. CASE jack_writer_copies BY <2>7 DEF jack_writer_copies
  <2>8. CASE UNCHANGED jack_vars BY <2>8 DEF jack_vars
  <2> QED BY <2>1, <2>2, <2>3, <2>4, <2>5, <2>6, <2>7, <2>8 DEF JackNext
<1> QED BY <1>1, <1>2, JackAlways, PTL DEF JackSpec, JackIsPipe, JackPipe!PipeSpec
=============================================================================
