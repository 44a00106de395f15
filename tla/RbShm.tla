------------------------------- MODULE RbShm -------------------------------
(***************************************************************************)
(* The life of one ringbuffer in shared memory (rb/rb.h): one process      *)
(* creates it, others open it, each frees it.  A call is taken apart at    *)
(* its system calls and at its accesses to the shared header.  A handle is *)
(* a fresh UUID, so there is one file and its name is never used again.    *)
(*                                                                         *)
(* The mapping of a process is the first page, which holds the header, and *)
(* the pages after it ("rest"), which only a mapping of the full size      *)
(* covers: the interesting case of a buffer longer than what is left of    *)
(* the first page.                                                         *)
(*                                                                         *)
(* The clients are those of rb_show_fill.c: they look at unlink_requested  *)
(* from time to time and free the buffer when they see it set.  A handle   *)
(* is meant to be passed on once the creator has returned, but the file is *)
(* in /dev/shm for everyone from its first moment; a process that does not *)
(* wait is remembered in early.                                            *)
(***************************************************************************)
EXTENDS Integers

CONSTANTS Proc,        \* the processes
          RB_VERSION,  \* RB_VERSION[p]: the version p was compiled with
          MapMayFail   \* whether mmap() and ftruncate() may fail

ASSUME VersionAssumption == RB_VERSION \in [Proc -> Nat \ {0}]
ASSUME SwitchAssumption == MapMayFail \in BOOLEAN

VARIABLES
  file,    \* the shared file: how long it is and the header fields in it
  linked,  \* its name is in /dev/shm
  told,    \* the creator has returned and told the handle
  pc,      \* pc[p]: what p does next with the buffer
  size,    \* size[p]: rb_open_shared's local copy of rb->size
  mapped,  \* mapped[p]: the pages of the file p has mapped
  locked,  \* locked[p]: those it has locked in memory
  early,   \* ghost: the processes that opened before the handle was told
  refused, \* ghost: some rb_open_shared() has failed
  killed,  \* ghost: the processes that were killed in the middle
  cut      \* ghost: one of them was inside rb_free()

deaths == <<killed, cut>>
ghosts == <<early, refused, deaths>>
vars == <<file, linked, told, pc, size, mapped, locked, ghosts>>

\* rb->size is 0 or the size asked for, in units of "rest".
Whole == 1
Page == {"header", "rest"}
Pages(n) == IF n = 0 THEN {"header"} ELSE Page

\* A file fresh from shm_open(O_CREAT) is empty, from ftruncate() full of 0.
Blank == [extended |-> FALSE, magic |-> FALSE, version |-> 0,
          shm_handle |-> FALSE, size |-> 0, in_shared_memory |-> FALSE,
          unlink_requested |-> FALSE, memory_locked |-> FALSE]

Init ==
  /\ file = Blank
  /\ linked = FALSE
  /\ told = FALSE
  /\ pc = [p \in Proc |-> "new"]
  /\ size = [p \in Proc |-> 0]
  /\ mapped = [p \in Proc |-> {}]
  /\ locked = [p \in Proc |-> {}]
  /\ early = {}
  /\ refused = FALSE
  /\ killed = {} /\ cut = FALSE

Go(p, from, to) == pc[p] = from /\ pc' = [pc EXCEPT ![p] = to]

Map(p, pages) ==
  /\ mapped' = [mapped EXCEPT ![p] = @ \cup pages]
  /\ UNCHANGED locked

\* What is no longer mapped is no longer locked.
Unmap(p, pages) ==
  /\ mapped' = [mapped EXCEPT ![p] = @ \ pages]
  /\ locked' = [locked EXCEPT ![p] = @ \ pages]

\* A process that faults is gone with all its mappings.
Fault(p) ==
  /\ pc' = [pc EXCEPT ![p] = "dead"]
  /\ Unmap(p, Page)

Memory == <<mapped, locked>>
-----------------------------------------------------------------------------
(***************************************************************************)
(* rb_new_shared_audio()                                                   *)
(***************************************************************************)
create_file(p) ==
  /\ \A q \in Proc : pc[q] = "new"
  /\ Go(p, "new", "truncate")
  /\ linked' = TRUE
  /\ UNCHANGED <<file, told, size, Memory, ghosts>>

create_truncate(p) ==
  /\ \/ Go(p, "truncate", "map") /\ file' = [file EXCEPT !.extended = TRUE]
                                 /\ UNCHANGED linked
     \/ MapMayFail /\ Go(p, "truncate", "idle") /\ linked' = FALSE
                   /\ UNCHANGED file
  /\ UNCHANGED <<told, size, Memory, ghosts>>

create_map(p) ==
  /\ \/ Go(p, "map", "set_magic") /\ Map(p, Page) /\ UNCHANGED linked
     \/ MapMayFail /\ Go(p, "map", "idle") /\ linked' = FALSE
                   /\ UNCHANGED Memory
  /\ UNCHANGED <<file, told, size, ghosts>>

\* A store of the creator to one header field, in the order of the code.
Sets(p, from, to, header) ==
  /\ Go(p, from, to)
  /\ file' = header
  /\ UNCHANGED <<linked, size, Memory, ghosts>>

set_magic(p) ==
  Sets(p, "set_magic", "set_version", [file EXCEPT !.magic = TRUE])
    /\ UNCHANGED told

set_version(p) ==
  Sets(p, "set_version", "set_handle",
       [file EXCEPT !.version = RB_VERSION[p], !.memory_locked = FALSE])
    /\ UNCHANGED told

set_handle(p) ==
  Sets(p, "set_handle", "set_size", [file EXCEPT !.shm_handle = TRUE])
    /\ UNCHANGED told

\* Mutant: the creator forgets what follows the size.
set_size_last(p) ==
  Sets(p, "set_size", "ready", [file EXCEPT !.size = Whole]) /\ told' = TRUE

\* Mutant: the size is not stored.
set_size_blank(p) ==
  Sets(p, "set_size", "set_shared", file) /\ UNCHANGED told

set_size(p) ==
  Sets(p, "set_size", "set_shared", [file EXCEPT !.size = Whole])
    /\ UNCHANGED told

set_shared(p) ==
  Sets(p, "set_shared", "set_unlink", [file EXCEPT !.in_shared_memory = TRUE])
    /\ UNCHANGED told

\* The last field; then the function returns and the caller tells the handle.
set_unlink(p) ==
  Sets(p, "set_unlink", "ready", [file EXCEPT !.unlink_requested = FALSE])
    /\ told' = TRUE

rb_new_shared(p) ==
  \/ create_file(p) \/ create_truncate(p) \/ create_map(p)
  \/ set_magic(p) \/ set_version(p) \/ set_handle(p)
  \/ set_size(p) \/ set_shared(p) \/ set_unlink(p)
-----------------------------------------------------------------------------
(***************************************************************************)
(* rb_open_shared().  Every failure after shm_open() unlinks the name.     *)
(***************************************************************************)
open_file(p) ==
  /\ pc[p] \in {"new", "idle"}
  /\ linked
  /\ Go(p, pc[p], "map_header")
  /\ early' = IF told THEN early ELSE early \cup {p}
  /\ UNCHANGED <<file, linked, told, size, Memory, refused, deaths>>

GiveUp(p, from) ==
  /\ Go(p, from, "idle")
  /\ linked' = FALSE

Refuse(p, from) == GiveUp(p, from) /\ refused' = TRUE

open_map_header(p) ==
  /\ \/ Go(p, "map_header", "check_magic") /\ Map(p, {"header"})
                                           /\ UNCHANGED <<linked, refused>>
     \/ MapMayFail /\ Refuse(p, "map_header") /\ UNCHANGED Memory
  /\ UNCHANGED <<file, told, size, early, deaths>>

\* The first access to the header: a fault while the file is still empty.
open_check_magic(p) ==
  /\ pc[p] = "check_magic"
  /\ \/ ~file.extended /\ Fault(p) /\ UNCHANGED <<linked, refused>>
     \/ /\ file.extended /\ ~file.magic
        /\ Refuse(p, "check_magic") /\ Unmap(p, {"header"})
     \/ /\ file.extended /\ file.magic
        /\ Go(p, "check_magic", "check_version")
        /\ UNCHANGED <<linked, Memory, refused>>
  /\ UNCHANGED <<file, told, size, early, deaths>>

open_check_version(p) ==
  /\ pc[p] = "check_version"
  /\ \/ /\ file.version # RB_VERSION[p]
        /\ Refuse(p, "check_version") /\ Unmap(p, {"header"})
     \/ /\ file.version = RB_VERSION[p]
        /\ Go(p, "check_version", "load_size")
        /\ UNCHANGED <<linked, Memory, refused>>
  /\ UNCHANGED <<file, told, size, early, deaths>>

open_load_size(p) ==
  /\ Go(p, "load_size", "remap")
  /\ size' = [size EXCEPT ![p] = file.size]
  /\ UNCHANGED <<file, linked, told, Memory, ghosts>>

\* The header is unmapped and mapped again with as much as size tells.
open_remap(p) ==
  /\ \/ /\ Go(p, "remap", "ready")
        /\ Map(p, Pages(size[p]))
        /\ UNCHANGED <<linked, refused>>
     \/ /\ MapMayFail
        /\ Refuse(p, "remap")
        /\ Unmap(p, {"header"})
  /\ size' = [size EXCEPT ![p] = 0]
  /\ UNCHANGED <<file, told, early, deaths>>

rb_open_shared(p) ==
  \/ open_file(p) \/ open_map_header(p) \/ open_check_magic(p)
  \/ open_check_version(p) \/ open_load_size(p) \/ open_remap(p)
-----------------------------------------------------------------------------
(***************************************************************************)
(* rb_free()                                                               *)
(***************************************************************************)
Freeing == {"munlock", "clear_size", "unmap", "unlink"}

\* Mutant: the others are not told.
free_request_silent(p) ==
  /\ Go(p, "ready", "munlock")
  /\ UNCHANGED <<file, linked, told, size, Memory, ghosts>>

free_request(p) ==
  /\ Go(p, "ready", "munlock")
  /\ file' = [file EXCEPT !.unlink_requested = TRUE]
  /\ UNCHANGED <<linked, told, size, Memory, ghosts>>

free_munlock(p) ==
  /\ Go(p, "munlock", "clear_size")
  /\ locked' = IF file.memory_locked
                 THEN [locked EXCEPT ![p] = @ \ Pages(file.size)] ELSE locked
  /\ UNCHANGED <<file, linked, told, size, mapped, ghosts>>

free_clear_size(p) ==
  /\ Go(p, "clear_size", "unmap")
  /\ file' = [file EXCEPT !.size = 0]
  /\ UNCHANGED <<linked, told, size, Memory, ghosts>>

\* The size that munmap() is called with is loaded again after it was
\* cleared.  free() of memory that malloc() did not return is fatal.
free_unmap(p) ==
  /\ \/ /\ file.in_shared_memory
        /\ Go(p, "unmap", IF file.shm_handle THEN "unlink" ELSE "idle")
        /\ Unmap(p, Pages(file.size))
     \/ /\ ~file.in_shared_memory
        /\ pc[p] = "unmap"
        /\ Fault(p)
  /\ UNCHANGED <<file, linked, told, size, ghosts>>

\* Mutant: the name stays.
free_unlink_skipped(p) ==
  /\ Go(p, "unlink", "idle")
  /\ UNCHANGED <<file, linked, told, size, Memory, ghosts>>

free_unlink(p) ==
  /\ GiveUp(p, "unlink")
  /\ UNCHANGED <<file, told, size, Memory, ghosts>>

rb_free(p) ==
  \/ free_munlock(p) \/ free_clear_size(p) \/ free_unmap(p) \/ free_unlink(p)
-----------------------------------------------------------------------------
(***************************************************************************)
(* What a process with the buffer open may also do.                        *)
(***************************************************************************)
rb_request_unlink(p) ==
  /\ Go(p, "ready", "ready")
  /\ file' = [file EXCEPT !.unlink_requested = TRUE]
  /\ UNCHANGED <<linked, told, size, Memory, ghosts>>

\* The loop of rb_show_fill: a requested unlink is answered by rb_free().
poll(p) ==
  /\ file.unlink_requested
  /\ free_request(p)

\* Mutant: the size asked for at creation is locked, not the size there is.
rb_mlock_whole(p) ==
  /\ Go(p, "ready", "ready")
  /\ locked' = [locked EXCEPT ![p] = Page]
  /\ file' = [file EXCEPT !.memory_locked = TRUE]
  /\ UNCHANGED <<linked, told, size, mapped, ghosts>>

\* mlock() and munlock() of pages that are not mapped fail and do nothing.
rb_mlock(p) ==
  /\ Go(p, "ready", "ready")
  /\ Pages(file.size) \subseteq mapped[p]
  /\ locked' = [locked EXCEPT ![p] = @ \cup Pages(file.size)]
  /\ file' = [file EXCEPT !.memory_locked = TRUE]
  /\ UNCHANGED <<linked, told, size, mapped, ghosts>>

\* munlock() of pages that are not locked succeeds.
rb_munlock(p) ==
  /\ Go(p, "ready", "ready")
  /\ Pages(file.size) \subseteq mapped[p]
  /\ locked' = [locked EXCEPT ![p] = @ \ Pages(file.size)]
  /\ file' = [file EXCEPT !.memory_locked = FALSE]
  /\ UNCHANGED <<linked, told, size, mapped, ghosts>>

\* Killed anywhere on the way: its mappings go, the shared file stays as it is.
dies(p) ==
  /\ pc[p] \notin {"new", "idle", "dead"}
  /\ Fault(p)
  /\ killed' = killed \cup {p}
  /\ cut' = (cut \/ pc[p] \in Freeing)
  /\ UNCHANGED <<file, linked, told, size, early, refused>>

\* The steps of a process that is inside one of the three functions.
Running(p) == rb_new_shared(p) \/ rb_open_shared(p) \/ rb_free(p)

Next ==
  \E p \in Proc :
    \/ Running(p) \/ free_request(p) \/ poll(p)
    \/ rb_request_unlink(p) \/ rb_mlock(p) \/ rb_munlock(p)
    \/ dies(p)

Spec == Init /\ [][Next]_vars

(* A function that has been entered goes on, and a client polls.  Nobody   *)
(* has to create, open or free anything of its own accord.                 *)
Fairness ==
  \A p \in Proc :
    /\ WF_vars(Running(p) /\ pc[p] \notin {"new", "idle"})
    /\ WF_vars(poll(p))
-----------------------------------------------------------------------------
(***************************************************************************)
(* Properties                                                              *)
(***************************************************************************)
Place == {"new", "truncate", "map", "set_magic", "set_version", "set_handle",
          "set_size", "set_shared", "set_unlink", "ready", "map_header",
          "check_magic", "check_version", "load_size", "remap", "munlock",
          "clear_size", "unmap", "unlink", "idle", "dead"}

(* The fields have their types, and only mapped pages are locked.          *)
TypeOK ==
  /\ file \in [extended : BOOLEAN, magic : BOOLEAN,
               version : {0} \cup {RB_VERSION[p] : p \in Proc},
               shm_handle : BOOLEAN, size : {0, Whole},
               in_shared_memory : BOOLEAN, unlink_requested : BOOLEAN,
               memory_locked : BOOLEAN]
  /\ linked \in BOOLEAN
  /\ told \in BOOLEAN
  /\ pc \in [Proc -> Place]
  /\ size \in [Proc -> {0, Whole}]
  /\ mapped \in [Proc -> SUBSET Page]
  /\ locked \in [Proc -> SUBSET Page]
  /\ \A p \in Proc : locked[p] \subseteq mapped[p]
  /\ killed \in SUBSET Proc

(* A client that sees no unlink request has the whole buffer: rb_free()    *)
(* requests the unlink before it clears the size, and rb_open_shared()     *)
(* hands out nothing half-made or half-freed without that request being    *)
(* visible.  Not so once a process has opened before the handle was told.  *)
WholeUnlessUnlinked ==
  \A p \in Proc :
    early = {} /\ pc[p] = "ready" /\ ~file.unlink_requested =>
      file.size = Whole /\ mapped[p] = Page

(* Only a process that did not wait for the handle can fault inside        *)
(* rb_open_shared() or rb_free(), wherever others were killed.             *)
NoFault == \A p \in Proc : pc[p] = "dead" => p \in early \cup killed

(* A buffer whose handle was told stays in /dev/shm until some process     *)
(* asks for its end ("Not calling rb_free() after use means to leave a     *)
(* file in /dev/shm/"), as long as every rb_open_shared() succeeds.        *)
FileStays ==
  told /\ early = {} /\ ~refused => linked \/ file.unlink_requested

(* A process that has left rb_free() keeps no page of the buffer: "The     *)
(* caller must arrange for a call to rb_free() to release the memory       *)
(* associated with the ringbuffer after use".                              *)
FreeReleases == \A p \in Proc : pc[p] = "idle" => mapped[p] = {}

(* Once one process begins to free the buffer, all polling clients let go  *)
(* of it and its name disappears, also if others were opening it meanwhile *)
(* or were refused ("buffer disappeared gracefully"), or were killed       *)
(* anywhere but in rb_free(), which nobody else completes.                 *)
Gone == ~linked /\ \A p \in Proc : pc[p] \in {"new", "idle", "dead"}

DisappearsGracefully ==
  (\E p \in Proc : pc[p] = "munlock") ~> [](Gone \/ early # {} \/ cut)
=============================================================================
