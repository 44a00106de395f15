----------------------------- MODULE VectorList -----------------------------
(***************************************************************************)
(* What vector/vector.h promises: a list of pointers.  The module knows of *)
(* no capacity and no memory block.  Only when memory runs out may an add  *)
(* or an insert break the list (broken), after which nothing is promised.  *)
(***************************************************************************)
EXTENDS Integers, Sequences, SequencesExt

CONSTANTS Item,          \* the pointers callers store
          NULL,
          MaxSize,       \* bound: callers keep at most so many items
          AllocMayFail   \* whether memory can run out

VARIABLES q, ret, broken
vars == <<q, ret, broken>>

Index == -1 .. MaxSize

Return(op, value) == ret' = [op |-> op, value |-> value]

Valid(index) == index \in 0 .. Len(q) - 1

Init ==
  /\ q = <<>>
  /\ ret = [op |-> "vector_init", value |-> 0]
  /\ broken = FALSE

Refuse(op, value) == Return(op, value) /\ UNCHANGED <<q, broken>>

Add(item) ==
  /\ Return("vector_add", Len(q) + 1)
  /\ q' = Append(q, item)
  /\ UNCHANGED broken

Insert(index, item) ==
  \/ ~Valid(index) /\ Refuse("vector_insert", -1)
  \/ /\ Valid(index)
     /\ Return("vector_insert", Len(q) + 1)
     /\ q' = InsertAt(q, index + 1, item)
     /\ UNCHANGED broken

Set(index, item) ==
  \/ ~Valid(index) /\ Refuse("vector_set", -1)
  \/ /\ Valid(index)
     /\ Return("vector_set", Len(q))
     /\ q' = [q EXCEPT ![index + 1] = item]
     /\ UNCHANGED broken

Get(index) ==
  Refuse("vector_get", IF Valid(index) THEN q[index + 1] ELSE NULL)

Delete(index) ==
  \/ ~Valid(index) /\ Refuse("vector_delete", -1)
  \/ /\ Valid(index)
     /\ Return("vector_delete", Len(q) - 1)
     /\ q' = RemoveAt(q, index + 1)
     /\ UNCHANGED broken

\* The capacity it returns means nothing to a list.
Clear ==
  /\ ret'.op = "vector_clear"
  /\ ret'.value \in Nat \cup {-1}
  /\ q' = <<>>
  /\ UNCHANGED broken

Break ==
  /\ AllocMayFail
  /\ ret'.op \in {"vector_add", "vector_insert"}
  /\ broken' = TRUE

Next ==
  /\ ~broken
  /\ \/ \E item \in Item :
          \/ Add(item)
          \/ \E index \in Index : Insert(index, item) \/ Set(index, item)
     \/ \E index \in Index : Get(index) \/ Delete(index)
     \/ Clear
     \/ Break

Spec == Init /\ [][Next]_vars
=============================================================================
