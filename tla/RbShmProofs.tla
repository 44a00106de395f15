---------------------------- MODULE RbShmProofs ----------------------------
(***************************************************************************)
(* What holds of RbShm for any number of processes of any versions,        *)
(* whether or not maps may fail.                                           *)
(***************************************************************************)
EXTENDS RbShm, TLAPS

\* Where a process is in rb_new_shared_audio(), from ftruncate() on and from
\* mmap() on, and where it is after it has entered rb_open_shared().
Storing == {"set_magic", "set_version", "set_handle", "set_size", "set_shared",
            "set_unlink"}
Creating == {"truncate", "map"} \cup Storing
Opened == {"map_header", "check_magic", "check_version", "load_size", "remap",
           "ready"} \cup Freeing

\* One process creates, before all others; its header fills up in order and
\* is complete when the handle is told.
InOrder ==
  /\ told => \E p \in Proc : pc[p] # "new"
  /\ told => file.extended /\ file.in_shared_memory
  /\ \A p \in Proc :
       /\ pc[p] \in Creating =>
            ~told /\ \A q \in Proc : pc[q] \in Creating => q = p
       /\ pc[p] \in Creating \ {"truncate"} => file.extended
       /\ pc[p] = "set_unlink" => file.in_shared_memory
       /\ pc[p] \in Opened => told \/ p \in early

\* What the waiting for the handle is good for.
Kept ==
  /\ told => file.size = Whole \/ file.unlink_requested
  /\ told /\ ~refused => linked \/ file.unlink_requested
  /\ \A p \in Proc :
       /\ pc[p] \in Creating /\ ~refused => linked
       /\ pc[p] \in {"set_shared", "set_unlink"} => file.size = Whole
       /\ pc[p] \in Storing => mapped[p] = Page
       /\ pc[p] = "remap" => size[p] = Whole \/ file.unlink_requested
       /\ pc[p] = "ready" => mapped[p] = Page \/ file.unlink_requested
       /\ pc[p] \in Freeing => file.unlink_requested

ShmInv == TypeOK /\ InOrder /\ NoFault /\ (early = {} => Kept)

\* The type of file in TypeOK.
FileFields ==
  [extended : BOOLEAN, magic : BOOLEAN,
   version : {0} \cup {RB_VERSION[p] : p \in Proc},
   shm_handle : BOOLEAN, size : {0, Whole},
   in_shared_memory : BOOLEAN, unlink_requested : BOOLEAN,
   memory_locked : BOOLEAN]
-----------------------------------------------------------------------------
(***************************************************************************)
(* Every step keeps the types.                                             *)
(***************************************************************************)

(* A step in rb_new_shared_audio().                                        *)
LEMMA CreateTypes ==
  ASSUME TypeOK, NEW p \in Proc, rb_new_shared(p)
  PROVE  TypeOK'
  <1> USE DEF TypeOK, Memory, ghosts, deaths, Go, Sets, Map, rb_new_shared,
              create_file, create_truncate, create_map, set_magic,
              set_version, set_handle, set_size, set_shared, set_unlink
  <1>1. file' \in FileFields
    <2>1. CASE create_truncate(p)
      BY <2>1 DEF FileFields
    <2>2. CASE set_version(p)
      <3>1. RB_VERSION[p] \in {RB_VERSION[q] : q \in Proc}
        OBVIOUS
      <3>2. file' = [file EXCEPT !.version = RB_VERSION[p], !.memory_locked = FALSE]
        BY <2>2, Zenon
      <3> HIDE DEF rb_new_shared
      <3> QED  BY <3>1, <3>2 DEF FileFields
    <2>3. CASE set_magic(p) \/ set_handle(p) \/ set_size(p) \/ set_shared(p)
               \/ set_unlink(p)
      BY <2>3 DEF FileFields, Whole
    <2>4. CASE create_file(p) \/ create_map(p)
      BY <2>4 DEF FileFields
    <2> QED  BY <2>1, <2>2, <2>3, <2>4
  <1>2. linked' \in BOOLEAN /\ told' \in BOOLEAN
    OBVIOUS
  <1>3. pc' \in [Proc -> Place] /\ size' \in [Proc -> {0, Whole}]
    BY DEF Place
  <1>4. /\ mapped' \in [Proc -> SUBSET Page] /\ locked' \in [Proc -> SUBSET Page]
        /\ \A q \in Proc : locked'[q] \subseteq mapped'[q]
    BY DEF Page
  <1> QED  BY <1>1, <1>2, <1>3, <1>4 DEF FileFields

(* A step in rb_open_shared().                                             *)
LEMMA OpenTypes ==
  ASSUME TypeOK, NEW p \in Proc, rb_open_shared(p)
  PROVE  TypeOK'
  <1> USE DEF TypeOK, Memory, ghosts, deaths, Go, GiveUp, Refuse, Map, Unmap, Fault,
              rb_open_shared, open_file, open_map_header,
              open_check_magic, open_check_version, open_load_size,
              open_remap
  <1>1. file' \in FileFields
    BY DEF FileFields, Whole
  <1>2. linked' \in BOOLEAN /\ told' \in BOOLEAN
    OBVIOUS
  <1>3. pc' \in [Proc -> Place] /\ size' \in [Proc -> {0, Whole}]
    BY DEF Place
  <1>4. /\ mapped' \in [Proc -> SUBSET Page] /\ locked' \in [Proc -> SUBSET Page]
        /\ \A q \in Proc : locked'[q] \subseteq mapped'[q]
    BY DEF Page, Pages
  <1> QED  BY <1>1, <1>2, <1>3, <1>4 DEF FileFields

(* A step in rb_free().                                                    *)
LEMMA FreeTypes ==
  ASSUME TypeOK, NEW p \in Proc,
         rb_free(p) \/ free_request(p)
  PROVE  TypeOK'
  <1> USE DEF TypeOK, Memory, ghosts, deaths, Go, GiveUp, Unmap, Fault,
              rb_free, free_request, free_munlock, free_clear_size,
              free_unmap, free_unlink
  <1>1. file' \in FileFields
    BY DEF FileFields, Whole
  <1>2. linked' \in BOOLEAN /\ told' \in BOOLEAN
    OBVIOUS
  <1>3. pc' \in [Proc -> Place] /\ size' \in [Proc -> {0, Whole}]
    BY DEF Place
  <1>4. /\ mapped' \in [Proc -> SUBSET Page] /\ locked' \in [Proc -> SUBSET Page]
        /\ \A q \in Proc : locked'[q] \subseteq mapped'[q]
    BY DEF Page, Pages
  <1> QED  BY <1>1, <1>2, <1>3, <1>4 DEF FileFields

(* A step with the buffer open, or a death anywhere.                       *)
LEMMA UseTypes ==
  ASSUME TypeOK, NEW p \in Proc,
         rb_request_unlink(p) \/ rb_mlock(p) \/ rb_munlock(p) \/ dies(p)
  PROVE  TypeOK'
  <1> USE DEF TypeOK, Memory, ghosts, deaths, Go, Fault, Unmap,
              rb_request_unlink, rb_mlock, rb_munlock, dies
  <1>1. file' \in FileFields
    BY DEF FileFields, Whole
  <1>2. linked' \in BOOLEAN /\ told' \in BOOLEAN
    OBVIOUS
  <1>3. pc' \in [Proc -> Place] /\ size' \in [Proc -> {0, Whole}]
    BY DEF Place
  <1>4. /\ mapped' \in [Proc -> SUBSET Page] /\ locked' \in [Proc -> SUBSET Page]
        /\ \A q \in Proc : locked'[q] \subseteq mapped'[q]
    BY DEF Page, Pages
  <1> QED  BY <1>1, <1>2, <1>3, <1>4 DEF FileFields

-----------------------------------------------------------------------------
(***************************************************************************)
(* Every step keeps the order of creation, and kills only early processes. *)
(***************************************************************************)

(* A step in rb_new_shared_audio().                                        *)
LEMMA CreateInOrder ==
  ASSUME ShmInv, TypeOK', NEW p \in Proc, rb_new_shared(p)
  PROVE  InOrder' /\ NoFault'
  <1> USE DEF ShmInv, TypeOK, InOrder, NoFault, Memory, ghosts, deaths, Place,
              Creating, Storing, Opened, Freeing, Go, Sets, Map
  <1>1. CASE create_file(p)
    BY <1>1 DEF create_file
  <1>2. CASE create_truncate(p)
    BY <1>2 DEF create_truncate
  <1>3. CASE create_map(p)
    BY <1>3 DEF create_map
  <1>4. CASE set_magic(p)
    BY <1>4 DEF set_magic
  <1>5. CASE set_version(p)
    BY <1>5 DEF set_version
  <1>6. CASE set_handle(p)
    BY <1>6 DEF set_handle
  <1>7. CASE set_size(p)
    BY <1>7 DEF set_size
  <1>8. CASE set_shared(p)
    BY <1>8 DEF set_shared
  <1>9. CASE set_unlink(p)
    BY <1>9 DEF set_unlink
  <1> QED  BY <1>1, <1>2, <1>3, <1>4, <1>5, <1>6, <1>7, <1>8, <1>9
           DEF rb_new_shared

(* A step in rb_open_shared().                                             *)
LEMMA OpenInOrder ==
  ASSUME ShmInv, TypeOK', NEW p \in Proc, rb_open_shared(p)
  PROVE  InOrder' /\ NoFault'
  <1> USE DEF ShmInv, TypeOK, InOrder, NoFault, Memory, ghosts, deaths, Place,
              Creating, Storing, Opened, Freeing,
              Go, GiveUp, Refuse, Map, Unmap, Fault
  <1>1. CASE open_file(p)
    BY <1>1 DEF open_file
  <1>2. CASE open_map_header(p)
    BY <1>2 DEF open_map_header
  <1>3. CASE open_check_magic(p)
    BY <1>3 DEF open_check_magic
  <1>4. CASE open_check_version(p)
    BY <1>4 DEF open_check_version
  <1>5. CASE open_load_size(p)
    BY <1>5 DEF open_load_size
  <1>6. CASE open_remap(p)
    BY <1>6 DEF open_remap
  <1> QED  BY <1>1, <1>2, <1>3, <1>4, <1>5, <1>6 DEF rb_open_shared

(* A step in rb_free().                                                    *)
LEMMA FreeInOrder ==
  ASSUME ShmInv, TypeOK', NEW p \in Proc,
         rb_free(p) \/ free_request(p)
  PROVE  InOrder' /\ NoFault'
  <1> USE DEF ShmInv, TypeOK, InOrder, NoFault, Memory, ghosts, deaths, Place,
              Creating, Storing, Opened, Freeing,
              Go, GiveUp, Unmap, Fault
  <1>1. CASE free_request(p)
    BY <1>1 DEF free_request
  <1>2. CASE free_munlock(p)
    BY <1>2 DEF free_munlock
  <1>3. CASE free_clear_size(p)
    BY <1>3 DEF free_clear_size
  <1>4. CASE free_unmap(p)
    BY <1>4 DEF free_unmap
  <1>5. CASE free_unlink(p)
    BY <1>5 DEF free_unlink
  <1> QED  BY <1>1, <1>2, <1>3, <1>4, <1>5 DEF rb_free

(* A step with the buffer open, or a death anywhere.                       *)
LEMMA UseInOrder ==
  ASSUME ShmInv, TypeOK', NEW p \in Proc,
         rb_request_unlink(p) \/ rb_mlock(p) \/ rb_munlock(p) \/ dies(p)
  PROVE  InOrder' /\ NoFault'
  <1> USE DEF ShmInv, TypeOK, InOrder, NoFault, Memory, ghosts, deaths, Place,
              Creating, Storing, Opened, Freeing, Go
  <1>1. CASE rb_request_unlink(p)
    BY <1>1 DEF rb_request_unlink
  <1>2. CASE rb_mlock(p)
    BY <1>2 DEF rb_mlock
  <1>3. CASE rb_munlock(p)
    BY <1>3 DEF rb_munlock
  <1>4. CASE dies(p)
    BY <1>4 DEF dies, Fault, Unmap
  <1> QED  BY <1>1, <1>2, <1>3, <1>4

-----------------------------------------------------------------------------
(***************************************************************************)
(* Every step keeps what was promised with the handle.                     *)
(***************************************************************************)

(* A step in rb_new_shared_audio().                                        *)
LEMMA CreateKept ==
  ASSUME ShmInv, TypeOK', NEW p \in Proc, rb_new_shared(p)
  PROVE  (early = {} => Kept)'
  <1> USE DEF ShmInv, TypeOK, InOrder, Kept, Memory, ghosts, deaths, Place,
              Page, Pages, Whole, Creating, Storing, Opened, Freeing, Go, Sets, Map
  <1>1. CASE create_file(p)
    BY <1>1 DEF create_file
  <1>2. CASE create_truncate(p)
    BY <1>2 DEF create_truncate
  <1>3. CASE create_map(p)
    BY <1>3 DEF create_map
  <1>4. CASE set_magic(p)
    BY <1>4 DEF set_magic
  <1>5. CASE set_version(p)
    BY <1>5 DEF set_version
  <1>6. CASE set_handle(p)
    BY <1>6 DEF set_handle
  <1>7. CASE set_size(p)
    BY <1>7 DEF set_size
  <1>8. CASE set_shared(p)
    BY <1>8 DEF set_shared
  <1>9. CASE set_unlink(p)
    BY <1>9 DEF set_unlink
  <1> QED  BY <1>1, <1>2, <1>3, <1>4, <1>5, <1>6, <1>7, <1>8, <1>9
           DEF rb_new_shared

(* A step in rb_open_shared().                                             *)
LEMMA OpenKept ==
  ASSUME ShmInv, TypeOK', NEW p \in Proc, rb_open_shared(p)
  PROVE  (early = {} => Kept)'
  <1> USE DEF ShmInv, TypeOK, InOrder, Kept, Memory, ghosts, deaths, Place,
              Page, Pages, Whole, Creating, Storing, Opened, Freeing,
              Go, GiveUp, Refuse, Map, Unmap, Fault
  <1>1. CASE open_file(p)
    BY <1>1 DEF open_file
  <1>2. CASE open_map_header(p)
    BY <1>2 DEF open_map_header
  <1>3. CASE open_check_magic(p)
    BY <1>3 DEF open_check_magic
  <1>4. CASE open_check_version(p)
    BY <1>4 DEF open_check_version
  <1>5. CASE open_load_size(p)
    BY <1>5 DEF open_load_size
  <1>6. CASE open_remap(p)
    BY <1>6 DEF open_remap
  <1> QED  BY <1>1, <1>2, <1>3, <1>4, <1>5, <1>6 DEF rb_open_shared

(* A step in rb_free().                                                    *)
LEMMA FreeKept ==
  ASSUME ShmInv, TypeOK', NEW p \in Proc,
         rb_free(p) \/ free_request(p)
  PROVE  (early = {} => Kept)'
  <1> USE DEF ShmInv, TypeOK, InOrder, Kept, Memory, ghosts, deaths, Place,
              Page, Pages, Whole, Creating, Storing, Opened, Freeing,
              Go, GiveUp, Unmap, Fault
  <1>1. CASE free_request(p)
    BY <1>1 DEF free_request
  <1>2. CASE free_munlock(p)
    BY <1>2 DEF free_munlock
  <1>3. CASE free_clear_size(p)
    BY <1>3 DEF free_clear_size
  <1>4. CASE free_unmap(p)
    BY <1>4 DEF free_unmap
  <1>5. CASE free_unlink(p)
    BY <1>5 DEF free_unlink
  <1> QED  BY <1>1, <1>2, <1>3, <1>4, <1>5 DEF rb_free

(* A step with the buffer open, or a death anywhere.                       *)
LEMMA UseKept ==
  ASSUME ShmInv, TypeOK', NEW p \in Proc,
         rb_request_unlink(p) \/ rb_mlock(p) \/ rb_munlock(p) \/ dies(p)
  PROVE  (early = {} => Kept)'
  <1> USE DEF ShmInv, TypeOK, InOrder, Kept, Memory, ghosts, deaths, Place,
              Page, Pages, Whole, Creating, Storing, Opened, Freeing, Go
  <1>1. CASE rb_request_unlink(p)
    BY <1>1 DEF rb_request_unlink
  <1>2. CASE rb_mlock(p)
    BY <1>2 DEF rb_mlock
  <1>3. CASE rb_munlock(p)
    BY <1>3 DEF rb_munlock
  <1>4. CASE dies(p)
    BY <1>4 DEF dies, Fault, Unmap
  <1> QED  BY <1>1, <1>2, <1>3, <1>4

-----------------------------------------------------------------------------
(***************************************************************************)
(* The theorems.                                                           *)
(***************************************************************************)

(* A machine on which the buffer is not there yet.                         *)
LEMMA InvInit == Init => ShmInv
  <1> USE VersionAssumption DEF Init, ShmInv
  <1>1. Init => TypeOK
    <2>1. Blank \in FileFields
      BY DEF Blank, FileFields, Whole
    <2> QED  BY <2>1 DEF TypeOK, FileFields, Place, Page, Whole
  <1>2. Init => InOrder /\ NoFault
    BY DEF InOrder, NoFault, Creating, Storing, Opened, Freeing
  <1>3. Init => Kept
    BY DEF Kept, Creating, Storing, Freeing
  <1> QED  BY <1>1, <1>2, <1>3

(* Whichever process makes the step.                                       *)
LEMMA InvStep == ShmInv /\ [Next]_vars => ShmInv'
  <1> SUFFICES ASSUME ShmInv, [Next]_vars
               PROVE  ShmInv'
    OBVIOUS
  <1>1. CASE UNCHANGED vars
    BY <1>1 DEF ShmInv, TypeOK, InOrder, NoFault, Kept, vars, ghosts, deaths
  <1>2. CASE Next
    <2>1. PICK p \in Proc : \/ rb_new_shared(p) \/ rb_open_shared(p)
                            \/ rb_free(p) \/ free_request(p)
                            \/ rb_request_unlink(p) \/ rb_mlock(p)
                            \/ rb_munlock(p) \/ dies(p)
      BY <1>2 DEF Next, Running, poll
    <2>2. TypeOK'
      BY <2>1, CreateTypes, OpenTypes, FreeTypes, UseTypes DEF ShmInv
    <2>3. InOrder' /\ NoFault'
      BY <2>1, <2>2, CreateInOrder, OpenInOrder, FreeInOrder, UseInOrder
    <2>4. (early = {} => Kept)'
      BY <2>1, <2>2, CreateKept, OpenKept, FreeKept, UseKept
    <2> QED  BY <2>2, <2>3, <2>4 DEF ShmInv
  <1> QED  BY <1>1, <1>2

LEMMA InvAlways == Spec => []ShmInv
  BY InvInit, InvStep, PTL DEF Spec

(* Header fields, places and mappings have their types, and a process has  *)
(* locked only what it has mapped, although memory_locked is shared and    *)
(* the lock is not.                                                        *)
THEOREM TypeCorrect == Spec => []TypeOK
  <1>1. ShmInv => TypeOK
    BY DEF ShmInv
  <1> QED  BY <1>1, InvAlways, PTL

(* Whoever waits for the handle is never killed inside rb_open_shared() or *)
(* rb_free(), whatever those who did not wait do to the file.              *)
THEOREM WaitingIsSafe == Spec => []NoFault
  <1>1. ShmInv => NoFault
    BY DEF ShmInv
  <1> QED  BY <1>1, InvAlways, PTL

(* A client that sees no unlink request has the whole buffer mapped.       *)
THEOREM WholeCorrect == Spec => []WholeUnlessUnlinked
  <1>1. ShmInv => WholeUnlessUnlinked
    BY DEF ShmInv, TypeOK, InOrder, Kept, WholeUnlessUnlinked, Opened
  <1> QED  BY <1>1, InvAlways, PTL

(* While no open fails, the name of a buffer whose handle was told stays   *)
(* until someone asks for its end.                                         *)
THEOREM NameStays == Spec => []FileStays
  <1>1. ShmInv => FileStays
    BY DEF ShmInv, Kept, FileStays
  <1> QED  BY <1>1, InvAlways, PTL
=============================================================================
