------------------------------- MODULE Lists -------------------------------
(***************************************************************************)
(* The intrusive doubly linked lists of lib/libnc/set/list.c, on which the  *)
(* kernel and the servers keep every queue.  A guard node with the entries  *)
(* linked behind it is a sequence of the entries; an entry that is in no    *)
(* list is linked to itself.                                                *)
(***************************************************************************)
EXTENDS Integers, Sequences

\* The entries linked behind a guard.
Elems(s) == {s[i] : i \in 1..Len(s)}

\* An entry has one pair of links, so it is in a list once at most.
NoDup(s) == \A i, j \in 1..Len(s) : s[i] = s[j] => i = j

\* list_append (list_enqueue): links an entry in front of the guard.
ListEnqueue(s, e) == Append(s, e)

\* list_insert (list_push): links an entry behind the guard.
ListInsert(s, e) == <<e>> \o s

\* What list_insert of the first g entries of a list, one by one, puts at the head of
\* another list.
Turned(s, g) == [i \in 1 .. g |-> s[g + 1 - i]]

\* list_pick (list_dequeue) unlinks the entry behind the guard.
ListDequeue(s) == Tail(s)

(***************************************************************************)
(* list_remove: the two neighbours are linked to each other and the entry   *)
(* to itself.  On an entry that is linked to itself it changes nothing.     *)
(***************************************************************************)
ListRemove(s, e) ==
  IF e \in Elems(s)
    THEN LET at == CHOOSE i \in 1..Len(s) : s[i] = e
         IN  [i \in 1..(Len(s) - 1) |-> IF i < at THEN s[i] ELSE s[i + 1]]
    ELSE s
=============================================================================
