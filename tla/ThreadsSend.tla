---------------------------- MODULE ThreadsSend ----------------------------
(***************************************************************************)
(* thread/threads_send_udp.c: threads that number messages with one shared *)
(* counter and hand them to one socket.  Reading the counter into the      *)
(* message, incrementing it and sending are steps of their own; what makes *)
(* them one critical section is increment_and_send_lock.  The wire is what *)
(* the socket was given, in that order; what the network does is not part  *)
(* of the program.                                                         *)
(***************************************************************************)
EXTENDS Naturals, Sequences

CONSTANTS Sender,     \* the threads: thread1 .. thread5
          NoSender,   \* nobody holds the lock
          MaxSends    \* bound: numbers the threads give out

ASSUME NoSenderAssumption == NoSender \notin Sender

VARIABLES
  snd_pc,             \* each thread's place in msg_send()
  snd_lock,           \* who holds increment_and_send_lock
  common_counter,
  snd_msg,            \* the number in each thread's message
  snd_wire            \* the numbers handed to the socket

snd_vars == <<snd_pc, snd_lock, common_counter, snd_msg, snd_wire>>

SndInit ==
  /\ snd_pc = [t \in Sender |-> "idle"]
  /\ snd_lock = NoSender
  /\ common_counter = 0
  /\ snd_msg = [t \in Sender |-> 0]
  /\ snd_wire = <<>>

snd_goes(t, from, to) == snd_pc[t] = from /\ snd_pc' = [snd_pc EXCEPT ![t] = to]

\* Mutant: the lock is left out, as threads_send_udp.c:156 invites to try.
snd_locks_not(t) ==
  /\ common_counter < MaxSends
  /\ snd_goes(t, "idle", "locked")
  /\ UNCHANGED <<snd_lock, common_counter, snd_msg, snd_wire>>

\* pthread_mutex_lock: whoever does not get it waits.
snd_locks(t) ==
  /\ snd_lock = NoSender
  /\ common_counter < MaxSends
  /\ snd_goes(t, "idle", "locked")
  /\ snd_lock' = t
  /\ UNCHANGED <<common_counter, snd_msg, snd_wire>>

snd_numbers(t) ==
  /\ snd_goes(t, "locked", "numbered")
  /\ snd_msg' = [snd_msg EXCEPT ![t] = common_counter]
  /\ UNCHANGED <<snd_lock, common_counter, snd_wire>>

snd_counts(t) ==
  /\ snd_goes(t, "numbered", "counted")
  /\ common_counter' = common_counter + 1
  /\ UNCHANGED <<snd_lock, snd_msg, snd_wire>>

snd_sends(t) ==
  /\ snd_goes(t, "counted", "sent")
  /\ snd_wire' = Append(snd_wire, snd_msg[t])
  /\ UNCHANGED <<snd_lock, common_counter, snd_msg>>

snd_unlocks(t) ==
  /\ snd_goes(t, "sent", "idle")
  /\ snd_lock' = NoSender
  /\ UNCHANGED <<common_counter, snd_msg, snd_wire>>

SndNext == \E t \in Sender : \/ snd_locks(t)  \/ snd_numbers(t)
                             \/ snd_counts(t) \/ snd_sends(t) \/ snd_unlocks(t)

SndSpec == SndInit /\ [][SndNext]_snd_vars
-----------------------------------------------------------------------------
SndTypeOK ==
  /\ snd_pc \in [Sender -> {"idle", "locked", "numbered", "counted", "sent"}]
  /\ snd_lock \in Sender \cup {NoSender}
  /\ common_counter \in Nat
  /\ snd_msg \in [Sender -> Nat]
  /\ snd_wire \in Seq(Nat)

\* The wire shows the counter's values one after the other: no number twice,
\* none left out, none out of order, although five threads send (the three
\* failures the comments in threads_send_udp.c:97, :103 and :156 show).
SndInOrder == \A k \in 1 .. Len(snd_wire) : snd_wire[k] = k - 1
=============================================================================
