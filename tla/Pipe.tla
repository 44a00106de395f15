------------------------------- MODULE Pipe -------------------------------
(***************************************************************************)
(* What a ringbuffer between one writer and one reader promises: the       *)
(* number of bytes sent and the bytes delivered, where the k-th byte sent  *)
(* is known as k.  At most Room bytes are under way.                       *)
(***************************************************************************)
EXTENDS Naturals, Sequences

CONSTANT Room
VARIABLES sent, delivered

PipeInit == sent = 0 /\ delivered = <<>>

Put == /\ sent' \in sent + 1 .. Len(delivered) + Room
       /\ UNCHANGED delivered

Get == /\ \E n \in 1 .. sent - Len(delivered) :
            delivered' = delivered \o [k \in 1 .. n |-> Len(delivered) + k]
       /\ UNCHANGED sent

\* Bytes under way are given up, and their numbers with them.
Clear == sent' = Len(delivered) /\ UNCHANGED delivered

PipeSpec == PipeInit /\ [][Put \/ Get \/ Clear]_<<sent, delivered>>
=============================================================================
