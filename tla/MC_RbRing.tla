----------------------------- MODULE MC_RbRing -----------------------------
(* Small instances of RbRing for TLC. *)
EXTENDS RbJava

NoOffset == {0}
EveryOffset == 0 .. Size

\* Counters that are left out, and counters of the bytes that went in and out
\* with one value more than there are slots: they wrap, and a full buffer
\* still differs from none; and one that tells whether an underflow was counted.
NoStats == [c \in Counters |-> 1]
ByteStats ==
  [c \in Counters |->
     IF c \in {"bytes_read", "bytes_write"} THEN Size + 1
     ELSE IF c = "underflows" THEN 2 ELSE 1]
=============================================================================
