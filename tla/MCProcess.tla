----------------------------- MODULE MCProcess -----------------------------
(***************************************************************************)
(* Process ids other than that of init, and thread ids, can be exchanged:   *)
(* which of them the sequences hand out is left open.                       *)
(***************************************************************************)
EXTENDS Process, TLC

Symmetry == Permutations(Pid \ {Init1}) \cup Permutations(Tid \ {InitThread})
=============================================================================
