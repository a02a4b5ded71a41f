-------------------------------- MODULE VMPool --------------------------------
(***************************************************************************)
(* What the coordinator promises its clients, without lease ids, tables or *)
(* files: a timed, exclusive claim on a VM.  A client may be given a VM    *)
(* only while no other client holds an unexpired claim on it, a claim is   *)
(* never cut short by anybody else's request, and it lasts at most TTL.    *)
(***************************************************************************)
EXTENDS Naturals

CONSTANTS VM, Client, TTL

VARIABLE held   \* the unexpired claims

Claim == [vm : VM, client : Client, left : 1..TTL]

PoolTypeOK == held \subseteq Claim

Others(c) == {h \in held : h.client # c}

Init == held = {}

\* Give VM v to c, or renew c's claim on it; c's previous claim is replaced.
Assign(v, c) ==
  /\ \A h \in Others(c) : h.vm # v
  /\ held' = Others(c) \cup {[vm |-> v, client |-> c, left |-> TTL]}

\* c gives up its claim, or the operator takes it away.
Withdraw(c) == held' = Others(c)

Tick ==
  held' = {[h EXCEPT !.left = @ - 1] : h \in {g \in held : g.left > 1}}

Next ==
  \/ \E v \in VM, c \in Client : Assign(v, c)
  \/ \E c \in Client : Withdraw(c)
  \/ Tick

Spec == Init /\ [][Next]_held
===============================================================================
