---------------------------- MODULE HostPolling ----------------------------
(***************************************************************************)
(* What the client believes about its hosts while it runs                  *)
(* (ComputerManager): the address the coordinator granted, the hosts       *)
(* known, one polling thread per host with the ones that were interrupted  *)
(* and have not ended, the tasks that add an assigned host, pair with it   *)
(* or quit its game, and the main thread that hears of changes.            *)
(*                                                                         *)
(* A request and the use of its reply are two steps: the threads overtake  *)
(* one another between them.  The VMs are external.  A relayed VM is       *)
(* always at the same loopback address, so who answers there changes.      *)
(* The saved list and its deletions are HostList's.                        *)
(***************************************************************************)
EXTENDS Naturals, FiniteSets

CONSTANTS
  Hosts,     \* VMs, by the uuid they answer with
  Addresses, \* where VMs are leased: the relay's, and their own
  Leases,    \* pairs of an address and a VM that may be leased there
  NoAddress, \* a null NvAddress, and the absence of a granted one
  MaxWork    \* bound: what users and VMs do, a lease counting twice

ASSUME PollingAssumption ==
  /\ Leases \subseteq Addresses \X Hosts /\ {l[1] : l \in Leases} = Addresses
  /\ NoAddress \notin Addresses /\ MaxWork \in Nat

VARIABLES
  polling,  \* m_PollingRef > 0
  auth,     \* m_AuthorizedAddresses, which holds one address at most
  known,    \* m_KnownHosts
  host,     \* of each host: manualAddress, state, currentGameId # 0, pendingQuit, pairState
  active,   \* the active thread of its ComputerPollingEntry: where it polls and what it read
  old,      \* threads of its m_InactiveList that still run
  adds,     \* PendingAddTasks
  quits,    \* hosts with a PendingQuitTask
  pairs,    \* hosts with a PendingPairingTask whose VM has accepted
  posted,   \* hosts whose computerStateChanged the main thread has not handled
  who,      \* the VM that answers at an address
  vm,       \* of each VM: does a game run, is this client paired
  work,     \* what users and VMs have done
  lateAdd,  \* history: an add ended when its address was no longer granted
  failed,   \* history: the add of the address last granted failed
  unseen    \* history: hosts asked to quit when no game was seen to run (by the user
            \* or the task), or whose game began again before its end was seen

taskVars == <<adds, quits, pairs>>
histVars == <<lateAdd, failed, unseen>>
vars == <<polling, auth, known, host, active, old, taskVars, posted, who, vm, work, histVars>>

\* What a poll or an add has read: nothing yet, no answer, or a VM's state.
Unread == [ok |-> FALSE, read |-> FALSE, uuid |-> NoAddress, game |-> FALSE, paired |-> FALSE]
NoAnswer == [Unread EXCEPT !.read = TRUE]

\* Until PendingPairingTask has pinned the VM's certificate it is asked over plain
\* HTTP, where it tells nobody that he is paired.
ServerInfo(a) ==
  [ok |-> TRUE, read |-> TRUE, uuid |-> who[a], game |-> vm[who[a]].game,
   paired |-> vm[who[a]].paired /\ who[a] \notin pairs]

NoThread == [addr |-> NoAddress, info |-> Unread]
Thread(a) == [addr |-> a, info |-> Unread]

\* A saved list of at most one host has been read; nothing is known of its state.
\* A game runs on every VM.  Who answers at an address before it is first leased makes no difference.
Init ==
  /\ polling = TRUE /\ auth = NoAddress
  /\ \E saved \in {{}} \union {{l} : l \in Leases} :
       /\ known = {l[2] : l \in saved}
       /\ host = [h \in Hosts |->
            [manual |-> IF \E l \in saved : l[2] = h
                        THEN (CHOOSE l \in saved : l[2] = h)[1] ELSE NoAddress,
             online |-> FALSE, game |-> FALSE, pendingQuit |-> FALSE, paired |-> FALSE]]
  /\ active = [h \in Hosts |-> NoThread] /\ old = [h \in Hosts |-> {}]
  /\ adds = {} /\ quits = {} /\ pairs = {} /\ posted = {}
  /\ who = [a \in Addresses |-> CHOOSE h \in Hosts : <<a, h>> \in Leases]
  /\ vm = [h \in Hosts |-> [game |-> TRUE, paired |-> FALSE]]
  /\ work = 0 /\ lateAdd = FALSE /\ failed = FALSE /\ unseen = {}

Event == work < MaxWork /\ work' = work + 1

-----------------------------------------------------------------------------
(* Polling threads.                                                        *)

isAuthorized(a, granted) == a # NoAddress /\ a = granted

\* startPollingComputer(): nothing if a thread is active.
StartPolling(h, manual, granted, act) ==
  IF polling /\ isAuthorized(manual, granted) /\ act = NoThread
  THEN Thread(manual)
  ELSE act

\* interrupt(): the thread goes to the inactive list, where it ends by itself.
Interrupted(h) ==
  old[h] \union (IF active[h] = NoThread THEN {} ELSE {active[h]})

\* NvComputer::update() with what was read of it; a poll reads no manualAddress.
Updated(h, info) ==
  [host[h] EXCEPT !.online = TRUE, !.game = info.game, !.paired = info.paired]

\* Mutant: whoever answers is taken for the host.
Polled_anyone(h, info) ==
  IF info.ok THEN Updated(h, info) ELSE [host[h] EXCEPT !.online = FALSE]

\* The end of a poll: another VM's answer counts as none.
Polled(h, info) ==
  IF info.ok /\ info.uuid = h
  THEN Updated(h, info)
  ELSE [host[h] EXCEPT !.online = FALSE]

\* A thread sends its request; the tries of one poll are one.
Fetch(h) ==
  /\ active[h] # NoThread /\ ~active[h].info.read
  /\ \/ active' = [active EXCEPT ![h].info = ServerInfo(active[h].addr)] /\ UNCHANGED work
     \/ active' = [active EXCEPT ![h].info = NoAnswer] /\ Event
  /\ UNCHANGED <<polling, auth, known, host, old, taskVars, posted, who, vm, histVars>>

\* It takes the answer in and tells the main thread of a change.
Poll(h) ==
  /\ active[h] # NoThread /\ active[h].info.read
  /\ active' = [active EXCEPT ![h].info = Unread]
  /\ host' = [host EXCEPT ![h] = Polled(h, active[h].info)]
  /\ posted' = IF host'[h] = host[h] THEN posted ELSE posted \union {h}
  /\ UNCHANGED <<polling, auth, known, old, taskVars, who, vm, work, histVars>>

\* An interrupted thread ends, after the poll it was in if it was in one.
OldEnds(h, t) ==
  /\ t \in old[h] /\ old' = [old EXCEPT ![h] = @ \ {t}]
  /\ \/ UNCHANGED <<host, posted>>
     \/ \E info \in {ServerInfo(t.addr), t.info} :
          /\ info.read
          /\ host' = [host EXCEPT ![h] = Polled(h, info)]
          /\ posted' = IF host'[h] = host[h] THEN posted ELSE posted \union {h}
  /\ UNCHANGED <<polling, auth, known, active, taskVars, who, vm, work, histVars>>

-----------------------------------------------------------------------------
(* The main thread.                                                        *)

startPolling ==
  /\ ~polling /\ polling' = TRUE
  /\ active' = [h \in Hosts |->
       IF h \in known /\ isAuthorized(host[h].manual, auth) /\ active[h] = NoThread
       THEN Thread(host[h].manual) ELSE active[h]]
  /\ UNCHANGED <<auth, known, host, old, taskVars, posted, who, vm, work, histVars>>

stopPollingAsync ==
  /\ polling /\ polling' = FALSE /\ Event
  /\ old' = [h \in Hosts |-> Interrupted(h)] /\ active' = [h \in Hosts |-> NoThread]
  /\ UNCHANGED <<auth, known, host, taskVars, posted, who, vm, histVars>>

\* Mutant: threads of a VM leased before go on.
addAssignedHost_keepPolling(a, v) ==
  /\ work + 2 <= MaxWork /\ work' = work + 2
  /\ who' = [who EXCEPT ![a] = v] /\ auth' = a
  /\ active' = [h \in Hosts |->
       IF h \in known /\ host[h].manual = a THEN StartPolling(h, a, a, active[h]) ELSE active[h]]
  /\ adds' = adds \union {[n |-> work, addr |-> a, info |-> Unread]}
  /\ failed' = FALSE
  /\ UNCHANGED <<polling, known, host, old, quits, pairs, posted, vm, lateAdd, unseen>>

\* The coordinator leased VM v, which answers at a from now on.  Threads of
\* hosts elsewhere are interrupted, a saved host at a is polled, and a task
\* adds the host.
addAssignedHost(a, v) ==
  /\ work + 2 <= MaxWork /\ work' = work + 2
  /\ who' = [who EXCEPT ![a] = v] /\ auth' = a
  /\ active' = [h \in Hosts |->
       CASE h \in known /\ host[h].manual = a -> StartPolling(h, a, a, active[h])
         [] h \in known /\ host[h].manual # a -> NoThread
         [] OTHER -> active[h]]
  /\ old' = [h \in Hosts |->
       IF h \in known /\ host[h].manual # a THEN Interrupted(h) ELSE old[h]]
  /\ adds' = adds \union {[n |-> work, addr |-> a, info |-> Unread]}
  /\ failed' = FALSE
  /\ UNCHANGED <<polling, known, host, quits, pairs, posted, vm, lateAdd, unseen>>

clearAssignedHosts ==
  /\ auth # NoAddress /\ auth' = NoAddress /\ Event
  /\ old' = [h \in Hosts |-> Interrupted(h)] /\ active' = [h \in Hosts |-> NoThread]
  /\ UNCHANGED <<polling, known, host, taskVars, posted, who, vm, histVars>>

\* handleComputerStateChanged(), which ends a quit when the game is gone.
HandleStateChanged(h) ==
  /\ h \in posted /\ posted' = posted \ {h}
  /\ host' = [host EXCEPT ![h].pendingQuit = @ /\ host[h].game]
  /\ UNCHANGED <<polling, auth, known, active, old, taskVars, who, vm, work, histVars>>

\* A host is shown, and can be used, if getComputers() returns it.
Shown(h) == h \in known /\ isAuthorized(host[h].manual, auth)

quitRunningApp(h) ==
  /\ Shown(h) /\ h \notin quits /\ Event
  /\ host' = [host EXCEPT ![h].pendingQuit = TRUE]
  /\ quits' = quits \union {h}
  /\ unseen' = IF host[h].game THEN unseen ELSE unseen \union {h}
  /\ UNCHANGED <<polling, auth, known, active, old, adds, pairs, posted, who, vm,
                 lateAdd, failed>>

-----------------------------------------------------------------------------
(* Worker tasks.                                                           *)

\* The task reads currentGameId: a poll or an add may just have put an older
\* answer there, and then a running game is not asked to quit.
NoGameSeen(h) ==
  /\ ~host[h].game /\ UNCHANGED <<host, vm, work>>
  /\ unseen' = IF vm[h].game THEN unseen \union {h} ELSE unseen

\* Mutant: a failed request leaves the quit pending.
RunQuit_keepPending(h) ==
  /\ h \in quits /\ quits' = quits \ {h}
  /\ \/ /\ host[h].game /\ vm' = [vm EXCEPT ![h].game = FALSE]
        /\ UNCHANGED <<host, work, unseen>>
     \/ host[h].game /\ Event /\ UNCHANGED <<host, vm, unseen>>
     \/ NoGameSeen(h)
  /\ UNCHANGED <<polling, auth, known, active, old, adds, pairs, posted, who, lateAdd, failed>>

\* PendingQuitTask: the game ends, or the request fails and the quit with it.
RunQuit(h) ==
  /\ h \in quits /\ quits' = quits \ {h}
  /\ \/ /\ host[h].game /\ vm' = [vm EXCEPT ![h].game = FALSE]
        /\ UNCHANGED <<host, work, unseen>>
     \/ /\ host[h].game /\ Event /\ host' = [host EXCEPT ![h].pendingQuit = FALSE]
        /\ UNCHANGED <<vm, unseen>>
     \/ NoGameSeen(h)
  /\ UNCHANGED <<polling, auth, known, active, old, adds, pairs, posted, who, lateAdd, failed>>

\* The VM accepts a pairing ...
Pair(h) ==
  /\ Shown(h) /\ ~vm[h].paired /\ Event
  /\ vm' = [vm EXCEPT ![h].paired = TRUE] /\ pairs' = pairs \union {h}
  /\ UNCHANGED <<polling, auth, known, host, active, old, adds, quits, posted, who, histVars>>

\* ... and PendingPairingTask notes it.
RunPair(h) ==
  /\ h \in pairs /\ pairs' = pairs \ {h}
  /\ host' = [host EXCEPT ![h].paired = TRUE] /\ posted' = posted \union {h}
  /\ UNCHANGED <<polling, auth, known, active, old, adds, quits, who, vm, work, histVars>>

\* PendingAddTask asks who is at its address; all its tries may fail.
AddFetch(t) ==
  /\ t \in adds /\ ~t.info.read
  /\ \/ /\ adds' = (adds \ {t}) \union {[t EXCEPT !.info = ServerInfo(t.addr)]}
        /\ UNCHANGED <<failed, work>>
     \/ /\ Event /\ adds' = adds \ {t}
        /\ failed' = (failed \/ t.addr = auth)
  /\ UNCHANGED <<polling, auth, known, host, active, old, quits, pairs, posted, who, vm,
                 lateAdd, unseen>>

\* It folds what it read into the known host, or stores a new one, and polls it.
AddStore(t) ==
  /\ t \in adds /\ t.info.read /\ adds' = adds \ {t}
  /\ LET h == t.info.uuid
         new == [Updated(h, t.info) EXCEPT !.manual = t.addr] IN
     /\ known' = known \union {h}
     /\ host' = [host EXCEPT ![h] = new]
     /\ active' = [active EXCEPT ![h] = StartPolling(h, t.addr, auth, @)]
     /\ posted' = IF h \in known /\ new = host[h] THEN posted ELSE posted \union {h}
  /\ lateAdd' = (lateAdd \/ t.addr # auth)
  /\ UNCHANGED <<polling, auth, old, quits, pairs, who, vm, work, failed, unseen>>

\* A game is started on a VM, or ends by itself.
Game(h) ==
  /\ Event /\ vm' = [vm EXCEPT ![h].game = ~@]
  /\ unseen' = IF ~vm[h].game /\ (host[h].game \/ host[h].pendingQuit)
               THEN unseen \union {h} ELSE unseen
  /\ UNCHANGED <<polling, auth, known, host, active, old, taskVars, posted, who, lateAdd, failed>>

-----------------------------------------------------------------------------
Tasks ==
  \/ \E h \in Hosts : HandleStateChanged(h) \/ RunQuit(h) \/ RunPair(h)
                      \/ \E t \in old[h] : OldEnds(h, t)
  \/ \E t \in adds : AddFetch(t) \/ AddStore(t)

Users ==
  \/ stopPollingAsync \/ clearAssignedHosts
  \/ \E l \in Leases : addAssignedHost(l[1], l[2])
  \/ \E h \in Hosts : quitRunningApp(h) \/ Pair(h) \/ Game(h)

PollStep(h) == Fetch(h) \/ Poll(h)

Next == Users \/ startPolling \/ Tasks \/ \E h \in Hosts : PollStep(h)

\* Every thread and task goes on, and a window that was hidden is shown again.
Spec ==
  /\ Init /\ [][Next]_vars
  /\ WF_vars(startPolling) /\ WF_vars(Tasks)
  /\ \A h \in Hosts : WF_vars(PollStep(h))

-----------------------------------------------------------------------------
Info == [ok : BOOLEAN, read : BOOLEAN, uuid : Hosts \union {NoAddress}, game : BOOLEAN,
         paired : BOOLEAN]
ThreadSet == [addr : Addresses \union {NoAddress}, info : Info]

TypeOK ==
  /\ polling \in BOOLEAN /\ auth \in Addresses \union {NoAddress} /\ known \subseteq Hosts
  /\ host \in [Hosts -> [manual : Addresses \union {NoAddress}, online : BOOLEAN, game : BOOLEAN,
                         pendingQuit : BOOLEAN, paired : BOOLEAN]]
  /\ active \in [Hosts -> ThreadSet] /\ old \in [Hosts -> SUBSET ThreadSet]
  /\ adds \subseteq [n : 0..MaxWork, addr : Addresses, info : Info]
  /\ quits \subseteq Hosts /\ pairs \subseteq Hosts /\ posted \subseteq Hosts
  /\ who \in [Addresses -> Hosts] /\ vm \in [Hosts -> [game : BOOLEAN, paired : BOOLEAN]]
  /\ work \in 0..MaxWork
  /\ lateAdd \in BOOLEAN /\ failed \in BOOLEAN /\ unseen \subseteq Hosts

\* No thread but those about to end contacts a VM at an address that is not
\* granted any more, none at all while polling is off, and every host shown has
\* its thread (computermanager.cpp:395, 765, 784); unless an add that was slow
\* to end moved a host back to an earlier address.
PolledIsGranted ==
  ~lateAdd =>
    \A h \in Hosts :
      /\ active[h] # NoThread => Shown(h) /\ polling /\ active[h].addr = auth
      /\ Shown(h) /\ polling => active[h] # NoThread

\* The types, and who is polled.
PollingInv == TypeOK /\ PolledIsGranted

\* Whatever threads and tasks overtook one another: in the end the leased VM is
\* shown, online, with the game and the pairing it really has, and any other
\* host at its address, such as one relayed before, is offline
\* (computermanager.cpp:55, 123, 986); unless its add failed or a late one
\* moved a host.
LeasedHostAppears ==
  <>[](auth # NoAddress /\ ~failed /\ ~lateAdd =>
         LET h == who[auth] IN
         /\ Shown(h) /\ host[h].online
         /\ host[h].game = vm[h].game /\ host[h].paired = vm[h].paired
         /\ \A g \in Hosts \ {h} : Shown(g) => ~host[g].online)

\* A quit of a game that was seen to run is answered in the end while its VM
\* stays leased (computermanager.cpp:476, 684): it fails, or a poll sees the
\* game end; unless another game starts before that is seen, or the task was
\* shown an older state than the user.
QuitEnds ==
  <>[](\A h \in Hosts : host[h].pendingQuit =>
         h \in unseen \/ lateAdd \/ auth = NoAddress \/ who[auth] # h)
=============================================================================
