-------------------------------- MODULE Com --------------------------------
(***************************************************************************)
(* com/com.c: a terminal on a serial port.  One loop waits for the         *)
(* keyboard and the port with select() and passes one byte of each that is *)
(* ready.  Keys and port bytes come whenever they like; either side may    *)
(* hang up, after which every read() of it returns nothing.                *)
(*                                                                         *)
(* A byte is known by its place in the stream it comes from, so the        *)
(* streams are sequences of kinds: "byte" for an ordinary one, and on the  *)
(* keyboard "C-a" and "C-x".  Behind the bytes that are followed, the port *)
(* may deliver any number of others, which are not numbered.  A side may   *)
(* be busy: a write() to it fails with EAGAIN and is tried again until it  *)
(* is not.  A read() or write() with EINTR and a select() with -1 change   *)
(* nothing.  print_status() and the terminal settings are left out.        *)
(***************************************************************************)
EXTENDS Integers, Sequences

CONSTANTS MaxKeys,    \* bound: keys pressed
          MaxArrive   \* bound: numbered bytes the port delivers

VARIABLES
  com_typed, com_arrived,   \* what has come in, by kind
  com_more,                 \* another byte of the port, not numbered, is there
  com_hungup, com_busy,     \* the sides that have hung up or answer EAGAIN
  com_read,                 \* for each side, how much of it has been read
  com_pc, com_fds,          \* place in the loop, what select() returned
  need_exit,
  com_sent,                 \* for each side, the places of the bytes passed on
  com_unsent,               \* for each side, the bytes whose write() failed
  com_asked                 \* history: C-a has been read

com_input == <<com_typed, com_arrived, com_hungup, com_busy>>
com_vars == <<com_input, com_more, com_read, com_pc, com_fds, need_exit, com_sent,
              com_unsent, com_asked>>

Side == {"keys", "port"}
com_in(s) == IF s = "keys" THEN com_typed ELSE com_arrived
com_waiting(s) == com_read[s] < Len(com_in(s)) \/ (s = "port" /\ com_more)
com_ready == {s \in Side : com_waiting(s) \/ s \in com_hungup}

ComInit ==
  /\ com_typed = <<>> /\ com_arrived = <<>> /\ com_hungup = {}
  /\ com_more = FALSE /\ com_busy = {}
  /\ com_read = [s \in Side |-> 0]
  /\ com_pc = "loop" /\ com_fds = {} /\ need_exit = 0
  /\ com_sent = [s \in Side |-> <<>>]
  /\ com_unsent = [s \in Side |-> {}]
  /\ com_asked = FALSE

\* The user and the device.
com_outside ==
  /\ \/ /\ Len(com_typed) < MaxKeys /\ "keys" \notin com_hungup
        /\ \E key \in {"byte", "C-a", "C-x"} : com_typed' = Append(com_typed, key)
        /\ UNCHANGED <<com_arrived, com_more, com_hungup, com_busy>>
     \/ /\ Len(com_arrived) < MaxArrive /\ "port" \notin com_hungup
        /\ com_arrived' = Append(com_arrived, "byte")
        /\ UNCHANGED <<com_typed, com_more, com_hungup, com_busy>>
     \/ /\ Len(com_arrived) = MaxArrive /\ "port" \notin com_hungup
        /\ com_more' = TRUE
        /\ UNCHANGED <<com_typed, com_arrived, com_hungup, com_busy>>
     \/ /\ \E s \in Side \ com_hungup : com_hungup' = com_hungup \cup {s}
        /\ UNCHANGED <<com_typed, com_arrived, com_more, com_busy>>
     \/ /\ \E s \in Side : com_busy' \in {com_busy \cup {s}, com_busy \ {s}}
        /\ UNCHANGED <<com_typed, com_arrived, com_more, com_hungup>>
  /\ UNCHANGED <<com_read, com_pc, com_fds, need_exit, com_sent, com_unsent,
                 com_asked>>

com_selects ==
  /\ com_pc = "loop" /\ need_exit = 0 /\ com_ready # {}
  /\ com_fds' = com_ready
  /\ com_pc' = "keys"
  /\ UNCHANGED <<com_input, com_more, com_read, need_exit, com_sent, com_unsent,
                 com_asked>>

\* Between read() and write() of a byte that came in at s.
com_writing(s) == IF s = "keys" THEN "write keys" ELSE "write port"
com_after(s) == IF s = "keys" THEN "port" ELSE "loop"
com_other(s) == IF s = "keys" THEN "port" ELSE "keys"

com_skips(s) ==
  /\ com_pc = s /\ s \notin com_fds
  /\ com_pc' = com_after(s)
  /\ UNCHANGED <<com_input, com_more, com_read, com_fds, need_exit, com_sent,
                 com_unsent, com_asked>>

\* Mutant: the end of the input is not told from an input that has nothing yet.
com_result_open(kind) == IF kind = "C-a" THEN -1 ELSE 0

\* transfer_byte(): what it returns if it need not write.
com_result(kind) == CASE kind = "none" -> -2
                      [] kind = "C-a"  -> -1
                      [] OTHER         -> 0

\* Mutant: C-x is passed on.
com_passes_control(kind) == kind \in {"byte", "C-x"}

\* transfer_byte(): the bytes that are written to the other side.
com_passes(kind) == kind = "byte"

\* transfer_byte(): read().
com_reads(s) ==
  /\ com_pc = s /\ s \in com_fds
  /\ LET there == com_read[s] < Len(com_in(s))
         more == ~there /\ com_waiting(s)
         kind == IF there THEN com_in(s)[com_read[s] + 1]
                 ELSE IF more THEN "byte" ELSE "none"
     IN
       /\ com_read' = IF there THEN [com_read EXCEPT ![s] = @ + 1] ELSE com_read
       /\ com_more' = (com_more /\ ~more)
       /\ IF com_passes(kind)
            THEN /\ com_pc' = IF more THEN "write more" ELSE com_writing(s)
                 /\ UNCHANGED need_exit
            ELSE com_pc' = com_after(s) /\ need_exit' = com_result(kind)
       /\ com_asked' = (com_asked \/ kind = "C-a")
  /\ UNCHANGED <<com_input, com_fds, com_sent, com_unsent>>

\* transfer_byte(): write(), done or given up, and return 0.
com_writes(s) ==
  /\ com_pc = com_writing(s) /\ com_other(s) \notin com_busy
  /\ \/ /\ com_sent' = [com_sent EXCEPT ![s] = Append(@, com_read[s])]
        /\ UNCHANGED com_unsent
     \/ /\ com_unsent' = [com_unsent EXCEPT ![s] = @ \cup {com_read[s]}]
        /\ UNCHANGED com_sent
  /\ need_exit' = 0
  /\ com_pc' = com_after(s)
  /\ UNCHANGED <<com_input, com_more, com_read, com_fds, com_asked>>

com_writes_more ==
  /\ com_pc = "write more" /\ "keys" \notin com_busy
  /\ need_exit' = 0
  /\ com_pc' = "loop"
  /\ UNCHANGED <<com_input, com_more, com_read, com_fds, com_sent, com_unsent,
                 com_asked>>

com_exits ==
  /\ com_pc = "loop" /\ need_exit # 0
  /\ com_pc' = "closed"
  /\ UNCHANGED <<com_input, com_more, com_read, com_fds, need_exit, com_sent,
                 com_unsent, com_asked>>

com_steps == \/ com_selects \/ com_exits \/ com_writes_more
             \/ \E s \in Side : com_skips(s) \/ com_reads(s) \/ com_writes(s)

ComNext == com_outside \/ com_steps
ComSpec == ComInit /\ [][ComNext]_com_vars
\* The program goes on; nobody has to press a key.
ComFairness == WF_com_vars(com_steps)
-----------------------------------------------------------------------------
\* A side whose byte is between read() and write().
com_held(s) == IF com_pc = com_writing(s) THEN {com_read[s]} ELSE {}

\* Every ordinary byte read is passed on exactly once and in order, except one
\* whose write() failed and the one being written; control keys stay here.
ComPassesAll == \A s \in Side :
  /\ {com_sent[s][j] : j \in 1 .. Len(com_sent[s])} =
       {k \in 1 .. com_read[s] : /\ com_in(s)[k] = "byte"
                                /\ k \notin com_unsent[s] \cup com_held(s)}
  /\ \A j, k \in 1 .. Len(com_sent[s]) : j < k => com_sent[s][j] < com_sent[s][k]

\* A keyboard that has hung up ends the program, if the port falls silent or
\* hangs up itself and no side is busy for good: a port byte in every round
\* overwrites the hang-up's exit code every time, and a busy side holds the loop.
ComQuiet == ~com_waiting("port") /\ com_busy = {}
ComEndsOnHangup ==
  <>[](ComQuiet /\ "keys" \in com_hungup) => <>[](com_pc = "closed")

=============================================================================
