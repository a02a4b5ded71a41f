---------------------------- MODULE MCLeaseStore ----------------------------
(* Instances of LeaseStore for TLC. *)
EXTENDS LeaseStore

Static == [listed |-> TRUE, enabled |-> TRUE, discovery |-> FALSE,
           addr |-> CHOOSE a \in Addr : TRUE, port |-> 1]
Discoverable == [listed |-> TRUE, enabled |-> TRUE, discovery |-> TRUE,
                 addr |-> NoAddr, port |-> 0]
Disabled == [Static EXCEPT !.enabled = FALSE]
Unlisted == [Discoverable EXCEPT !.listed = FALSE]

\* Two VMs, one found by mDNS; the operator may later disable the first or
\* take it off the list.
MCConfigs == {<<Static, Discoverable>>, <<Disabled, Static>>, <<Unlisted, Static>>}

\* One VM, which two clients compete for.
OneVMConfigs == {<<Static>>}
===============================================================================
