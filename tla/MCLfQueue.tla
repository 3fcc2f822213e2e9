----------------------------- MODULE MCLfQueue -----------------------------
(* LfQueue for a thread and an interrupt. *)
EXTENDS LfQueue

CONSTANTS thread1, interrupt1

Levels == [p \in Process |-> CASE p = thread1 -> 1 [] OTHER -> 2]

Ops == [p \in Process |-> CASE p = thread1 -> 1 [] OTHER -> 3]
=============================================================================
