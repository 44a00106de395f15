------------------------------ MODULE MC_RbShm ------------------------------
(* Small instances of RbShm for TLC. *)
EXTENDS RbShm

\* One process was compiled with another rb.h.
CONSTANT Stranger
OtherVersion == [p \in Proc |-> IF p = Stranger THEN 2 ELSE 1]
=============================================================================
