---------------------------- MODULE MCCoordinator ----------------------------
(* Instances of Coordinator for TLC. *)
EXTENDS Coordinator, TLC

Found == [listed |-> TRUE, enabled |-> TRUE, discovery |-> TRUE,
          addr |-> NoAddr, port |-> 1]
Disabled == [Found EXCEPT !.enabled = FALSE]

\* One VM, found by mDNS, which the operator may disable.
OneVM == {<<Found>>, <<Disabled>>}

Symmetry == Permutations(LeaseId) \cup Permutations(Slot) \cup Permutations(Owner)
===============================================================================
