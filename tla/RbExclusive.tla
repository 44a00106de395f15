---------------------------- MODULE RbExclusive ----------------------------
(***************************************************************************)
(* The exclusive read and write locks of rb/rb.h: two process-shared,      *)
(* non-robust mutexes in the control structure, taken with trylock.        *)
(* Several reading and several writing processes share one ringbuffer; one *)
(* that gets its lock makes one rb_read() or rb_write() of one item and    *)
(* releases.  The two mutexes are different ones, so a call of either side *)
(* is taken apart as in RbSpsc: the indices, last_was_write if they are    *)
(* equal, the copy, the store of the index, the store of the flag.  A      *)
(* process may die between any two steps, with its mutex held and the ring *)
(* as it is by then; trylock then fails for ever.                          *)
(***************************************************************************)
EXTENDS Integers, Sequences

CONSTANTS Reading, Writing,  \* the processes
          Free,              \* nobody holds the mutex
          ExcItem,           \* what one call moves
          Slots              \* size of the ringbuffer in items

exc_all == Reading \cup Writing

ASSUME ProcessAssumption == Free \notin exc_all /\ Reading \cap Writing = {}
ASSUME SlotsAssumption == Slots \in Nat \ {0}

VARIABLES
  read_lock, write_lock,     \* the holder of each mutex
  exc_pc, exc_dead,          \* dead, or never started
  exc_source,                \* what each writing process writes: one item, or none
  read_index, write_index, last_was_write, exc_buf,
  stream, intact, misled, overlapped   \* histories, those of RbSpsc

exc_sides == <<exc_dead, exc_source, read_lock, write_lock>>
exc_ring == <<read_index, write_index, last_was_write, exc_buf>>
exc_past == <<stream, intact, misled, overlapped>>
exc_vars == <<exc_pc, exc_sides, exc_ring, exc_past>>

(***************************************************************************)
(* The one reader and the one writer of RbSpsc: whoever holds the mutex of *)
(* the side, while in a call.                                              *)
(***************************************************************************)
exc_calls(p) == p # Free /\ exc_pc[p] \notin {"idle", "locked", "served"}
exc_todo(p) == IF exc_pc[p] = "copy" THEN {0} ELSE {}
exc_rd ==
  IF exc_calls(read_lock)
    THEN [pc |-> exc_pc[read_lock], op |-> "rb_read", n |-> 1,
          todo |-> exc_todo(read_lock)]
    ELSE [pc |-> "idle", op |-> "none", n |-> 0, todo |-> {}]
exc_wr ==
  IF exc_calls(write_lock)
    THEN [pc |-> exc_pc[write_lock], op |-> "rb_write", n |-> 1,
          todo |-> exc_todo(write_lock), source |-> exc_source[write_lock]]
    ELSE [pc |-> "idle", op |-> "none", n |-> 0, todo |-> {}, source |-> <<>>]

Spsc == INSTANCE RbSpsc WITH
  Size <- Slots, Byte <- ExcItem, MaxCount <- 1, Word <- 1,
  ReaderOps <- {"rb_read"}, WriterOps <- {"rb_write"},
  total_bytes_read <- 0, total_bytes_write <- 0,
  buf <- exc_buf, rd <- exc_rd, wr <- exc_wr
-----------------------------------------------------------------------------
ExcInit ==
  /\ read_lock = Free /\ write_lock = Free
  /\ exc_pc = [p \in exc_all |-> "idle"] /\ exc_dead \in SUBSET exc_all
  /\ exc_source = [p \in Writing |-> <<>>]
  /\ read_index = 0 /\ write_index = 0 /\ last_was_write = FALSE
  /\ exc_buf \in [Spsc!Index -> ExcItem]
  /\ stream = <<>> /\ intact = TRUE /\ misled = FALSE /\ overlapped = FALSE

exc_goes(p, from, to) ==
  /\ p \notin exc_dead
  /\ exc_pc[p] = from /\ exc_pc' = [exc_pc EXCEPT ![p] = to]

\* A try that fails returns 0 and changes nothing: the process tries again.
rb_try_exclusive_read(p) ==
  /\ read_lock = Free /\ read_lock' = p
  /\ exc_goes(p, "idle", "locked")
  /\ UNCHANGED <<write_lock, exc_dead, exc_source, exc_ring, exc_past>>

rb_try_exclusive_write(p) ==
  /\ write_lock = Free /\ write_lock' = p
  /\ exc_goes(p, "idle", "locked")
  /\ UNCHANGED <<read_lock, exc_dead, exc_source, exc_ring, exc_past>>

\* rb_can_read() and rb_can_write() of both calls, first the indices: unequal
\* ones leave an item, or the room for one.
exc_loads_indices(p, other) ==
  /\ exc_goes(p, "locked", IF read_index = write_index THEN "load_flag" ELSE "copy")
  /\ overlapped' = (overlapped \/ exc_calls(other))
  /\ UNCHANGED <<exc_dead, read_lock, write_lock, exc_ring, stream, intact, misled>>

exc_begins_read(p) == exc_loads_indices(p, write_lock) /\ UNCHANGED exc_source
exc_begins_write(p) ==
  /\ exc_loads_indices(p, read_lock)
  /\ \E item \in ExcItem : exc_source' = [exc_source EXCEPT ![p] = <<item>>]

\* Equal indices: the flag.  The call returns 0 or goes on.
exc_loads_flag(p) ==
  /\ exc_goes(p, "load_flag",
              IF last_was_write = (p \in Reading) THEN "copy" ELSE "served")
  /\ misled' = (misled \/ (/\ intact /\ last_was_write = (p \in Reading)
                            /\ IF p \in Reading THEN Len(stream) < Slots
                                                ELSE stream # <<>>))
  /\ UNCHANGED <<exc_sides, exc_ring, stream, intact, overlapped>>

exc_copies_out(p) ==
  /\ exc_goes(p, "copy", "store_index")
  /\ Spsc!Follow(stream # <<>> /\ exc_buf[read_index] = stream[1], stream)
  /\ UNCHANGED <<exc_sides, exc_ring, misled, overlapped>>

exc_copies_in(p) ==
  /\ exc_goes(p, "copy", "store_index")
  /\ exc_buf' = [exc_buf EXCEPT ![write_index] = exc_source[p][1]]
  /\ UNCHANGED <<exc_sides, read_index, write_index, last_was_write, exc_past>>

exc_stores_read(p) ==
  /\ exc_goes(p, "store_index", "clear_flag")
  /\ read_index' = Spsc!CopiedIndex(read_index, 1)
  /\ Spsc!Follow(stream # <<>>, SubSeq(stream, 2, Len(stream)))
  /\ UNCHANGED <<exc_sides, write_index, last_was_write, exc_buf, misled, overlapped>>

exc_stores_written(p) ==
  /\ exc_goes(p, "store_index", "set_flag")
  /\ write_index' = Spsc!CopiedIndex(write_index, 1)
  /\ Spsc!Follow(Len(stream) < Slots, stream \o exc_source[p])
  /\ UNCHANGED <<exc_sides, read_index, last_was_write, exc_buf, misled, overlapped>>

exc_stores_flag(p, from, flag) ==
  /\ exc_goes(p, from, "served")
  /\ last_was_write' = flag
  /\ UNCHANGED <<exc_sides, read_index, write_index, exc_buf, exc_past>>

\* Mutant: releases the other mutex.
rb_release_read_other(p) ==
  /\ exc_goes(p, "served", "idle")
  /\ write_lock' = Free
  /\ UNCHANGED <<read_lock, exc_dead, exc_source, exc_ring, exc_past>>

rb_release_read(p) ==
  /\ exc_goes(p, "served", "idle")
  /\ read_lock' = Free
  /\ UNCHANGED <<write_lock, exc_dead, exc_source, exc_ring, exc_past>>

rb_release_write(p) ==
  /\ exc_goes(p, "served", "idle")
  /\ write_lock' = Free
  /\ exc_source' = [exc_source EXCEPT ![p] = <<>>]
  /\ UNCHANGED <<read_lock, exc_dead, exc_ring, exc_past>>

\* Mutant: the lock of a process that dies becomes free as it is.
exc_dies_freeing(p) ==
  /\ exc_dead' = exc_dead \cup {p}
  /\ read_lock' = IF read_lock = p THEN Free ELSE read_lock
  /\ write_lock' = IF write_lock = p THEN Free ELSE write_lock
  /\ UNCHANGED <<exc_pc, exc_source, exc_ring, exc_past>>

\* The mutexes are initialised process-shared and not robust.
exc_dies(p) ==
  /\ exc_dead' = exc_dead \cup {p}
  /\ UNCHANGED <<read_lock, write_lock, exc_pc, exc_source, exc_ring, exc_past>>

exc_reads(p) == \/ rb_try_exclusive_read(p) \/ exc_begins_read(p)
                \/ exc_loads_flag(p) \/ exc_copies_out(p) \/ exc_stores_read(p)
                \/ exc_stores_flag(p, "clear_flag", FALSE) \/ rb_release_read(p)
exc_writes(p) == \/ rb_try_exclusive_write(p) \/ exc_begins_write(p)
                 \/ exc_loads_flag(p) \/ exc_copies_in(p) \/ exc_stores_written(p)
                 \/ exc_stores_flag(p, "set_flag", TRUE) \/ rb_release_write(p)

ExcNext == \/ \E p \in Reading : exc_reads(p)
           \/ \E p \in Writing : exc_writes(p)
           \/ \E p \in exc_all \ exc_dead : exc_dies(p)
ExcSpec == ExcInit /\ [][ExcNext]_exc_vars
\* A process that lives goes on.
ExcFairness == /\ \A p \in Reading : WF_exc_vars(exc_reads(p))
               /\ \A p \in Writing : WF_exc_vars(exc_writes(p))
-----------------------------------------------------------------------------
\* However many processes read and write under the two locks, and wherever they
\* die, the ring sees one reader and one writer thread: what holds of RbSpsc
\* holds of them, the stream intact until the flag misleads a call included
\* (IntactUnlessMisled), and so does what goes wrong there.
ExclusiveIsSpsc == Spsc!Spec

exc_cut(side, lock) == lock \in exc_dead \/ side \subseteq exc_dead

\* A side comes to its end, for good, only if all its processes die or one dies
\* that holds its mutex: else its lock is taken again and again, whatever the
\* other side does, and even if a process of the other died within a call.  If
\* neither side ends, items go in and come out for ever.
ExclusiveGoesOn ==
  /\ []<>(exc_cut(Reading, read_lock) \/ \E p \in Reading : exc_pc[p] = "locked")
  /\ []<>(exc_cut(Writing, write_lock) \/ \E p \in Writing : exc_pc[p] = "locked")
  /\ []<>(\/ exc_cut(Reading, read_lock) \/ exc_cut(Writing, write_lock)
          \/ \E p \in Reading : exc_pc[p] = "clear_flag")
  /\ []<>(\/ exc_cut(Reading, read_lock) \/ exc_cut(Writing, write_lock)
          \/ \E p \in Writing : exc_pc[p] = "set_flag")
=============================================================================
