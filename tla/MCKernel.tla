------------------------------ MODULE MCKernel ------------------------------
(* Kernel on small sets of threads. *)
EXTENDS Kernel, TLC

CONSTANTS sv1, sv2, us1, us2

MCPriority == {0, 2, 3, 5, 7}
TwoServerPrio ==
  [t \in Thread |-> CASE t = Delay -> 0 [] t = sv1 -> 2 [] t = sv2 -> 3
                      [] t \in User -> 5 [] t = Idle -> 7]
TwoServerBoot == <<Delay, sv1, sv2>>
=============================================================================
