----------------------------- MODULE Coordinator -----------------------------
(***************************************************************************)
(* The coordinator's HTTP handlers (main.go, admin.go, relay.go) over the  *)
(* lease store.  A handler that does network I/O between two store calls   *)
(* is several steps here: whatever it read from the store may be out of    *)
(* date when it acts.  Each handler goroutine occupies a Slot; handlers    *)
(* that make a single store call are single steps of the store.            *)
(*                                                                         *)
(* A handler has been waiting for "age" ticks since its last store call.   *)
(* The HTTP client, dial and pairing timeouts and the relay's lease-check  *)
(* ticker bound that wait: Tick is not taken beyond them.                  *)
(***************************************************************************)
EXTENDS LeaseStore

CONSTANTS
  Slot,        \* handler goroutines
  NoClient,
  CloseTicks,  \* time limit of CloseApp's request to Sunshine
  PairTicks,   \* time limit of Pair: clean-up, eight seconds of retries, last try
  DialTicks,   \* relayDialTimeout
  CheckTicks   \* relayLeaseCheckEvery

ASSUME TicksAssumption == {CloseTicks, PairTicks, DialTicks, CheckTicks} \subseteq Nat

VARIABLES
  task,    \* what each handler goroutine is waiting for
  session, \* external: the client whose app runs on each VM
  paired   \* external: the clients Sunshine has certificates of, per VM

cvars == <<vars, task, session, paired>>

Client == Owner \X Device
ClientOf(l) == <<l.owner, l.device>>

Limit == [close |-> CloseTicks, pair |-> PairTicks, pin |-> PairTicks, dial |-> DialTicks, relay |-> CheckTicks]
MaxTicks == CloseTicks + PairTicks + DialTicks + CheckTicks

\* What a handler keeps of the lease it looked up.
Reservation == [id : LeaseId, vm : VM, owner : Owner, device : Device]
Res(l) == [id |-> l.id, vm |-> l.vm, owner |-> l.owner, device |-> l.device]

\* History: "dead" counts the ticks since the lease of a waiting handler ended
\* (up to MaxTicks + 1).
Idle == [op |-> "idle"]
Task ==
  {Idle}
  \cup [op : {"browse", "allocate"}, owner : Owner, device : Device]
  \cup [op : {"browseStatus", "snapshot"}]
  \cup [op : {"close", "pair", "pin", "dial", "relay"}, lease : Reservation, age : 0..MaxTicks, dead : Nat]
  \cup [op : {"kick"}, lease : Reservation]
  \cup [op : {"delete"}, id : LeaseId, owner : Owner]

Timed(t) == t.op \in DOMAIN Limit

CTypeOK ==
  /\ TypeOK
  /\ task \in [Slot -> Task]
  /\ session \in [VM -> Client \cup {NoClient}]
  /\ paired \in [VM -> SUBSET Client]

Become(s, t) == task' = [task EXCEPT ![s] = t]
Waiting(op, l) == [op |-> op, lease |-> Res(l), age |-> 0, dead |-> 0]

\* A new lease id is not one that a handler still works with (randomID).
UnusedIds ==
  \A l \in leases' : l.id \in Ids(leases) \/
    \A s \in Slot : (Timed(task[s]) \/ task[s].op = "kick") => task[s].lease.id # l.id

CInit ==
  /\ Init
  /\ task = [s \in Slot |-> Idle]
  /\ session = [v \in VM |-> NoClient]
  /\ paired = [v \in VM |-> {}]

-------------------------------------------------------------------------------
(* createLease and adminStatus: refresh discovery, then use the store *)

createLease(s, o, d) ==
  /\ up /\ task[s] = Idle
  /\ Become(s, [op |-> "browse", owner |-> o, device |-> d])
  /\ UNCHANGED <<vars, session, paired>>

adminStatus(s) ==
  /\ up /\ task[s] = Idle
  /\ \E op \in {"browseStatus", "snapshot"} : Become(s, [op |-> op])
  /\ UNCHANGED <<vars, session, paired>>

\* Refresh: the browse ends, at its timeout or with the request's context, and
\* what it found is stored.
Refresh(s, S, f) ==
  /\ UpdateVMs(S, f)
  /\ \/ task[s].op = "browse" /\ Become(s, [task[s] EXCEPT !.op = "allocate"])
     \/ task[s].op = "browseStatus" /\ Become(s, [task[s] EXCEPT !.op = "snapshot"])
  /\ UNCHANGED <<session, paired>>

\* Refresh fails: createLease goes on with the addresses it has, adminStatus
\* answers 502.
RefreshFailed(s) ==
  /\ up
  /\ \/ task[s].op = "browse" /\ Become(s, [task[s] EXCEPT !.op = "allocate"])
     \/ task[s].op = "browseStatus" /\ Become(s, Idle)
  /\ UNCHANGED <<vars, session, paired>>

createLeaseAllocate(s) ==
  /\ task[s].op = "allocate"
  /\ CreateOrRecover(task[s].owner, task[s].device)
  /\ UnusedIds
  /\ Become(s, Idle)
  /\ UNCHANGED <<session, paired>>

adminStatusSnapshot(s) ==
  /\ task[s].op = "snapshot"
  /\ AdminSnapshot
  /\ Become(s, Idle)
  /\ UNCHANGED <<session, paired>>

-------------------------------------------------------------------------------
(* Handlers that check the lease first *)

\* The lease LeaseVM answers with, if any; the VM has to be usable.
Checked(id, o) ==
  {l \in ById(reapLocked(leases), id) : l.owner = o /\ available(vms[l.vm])}

\* pairLease and relay: LeaseVM, then wait for the VM; otherwise an error reply.
CheckThenWait(s, op, id, o) ==
  /\ task[s] = Idle
  /\ LeaseVM
  /\ \/ \E l \in Checked(id, o) : Become(s, Waiting(op, l))
     \/ Checked(id, o) = {} /\ UNCHANGED task
  /\ UNCHANGED <<session, paired>>

pairLease(s, id, o) == CheckThenWait(s, "pair", id, o)
relay(s, id, o) == CheckThenWait(s, "dial", id, o)

\* Pair first removes the device's old certificates from the VM, which an old
\* Sunshine does not offer ...
removeStaleClients(s) ==
  /\ up
  /\ task[s].op = "pair"
  /\ LET l == task[s].lease IN
     \/ paired' = [paired EXCEPT ![l.vm] = {c \in @ : c[2] # l.device}]
     \/ UNCHANGED paired
  /\ Become(s, [task[s] EXCEPT !.op = "pin"])
  /\ UNCHANGED <<vars, session>>

\* ... and then submits the PIN to it, trying again while nothing is pending.
tryPair(s) ==
  /\ up
  /\ task[s].op = "pin"
  /\ LET l == task[s].lease IN
     paired' = [paired EXCEPT ![l.vm] = @ \cup {ClientOf(l)}]
  /\ Become(s, Idle)
  /\ UNCHANGED <<vars, session>>

\* Sunshine refuses, the request is cancelled or the deadline passes.
PairFails(s) ==
  /\ up
  /\ task[s].op \in {"pair", "pin"}
  /\ Become(s, Idle)
  /\ UNCHANGED <<vars, session, paired>>

\* dialRelayUpstream and the upgrade: the relay opens or the handler ends.
DialRelay(s) ==
  /\ up
  /\ task[s].op = "dial"
  /\ \/ Become(s, [task[s] EXCEPT !.op = "relay", !.age = 0])
     \/ Become(s, Idle)
  /\ UNCHANGED <<vars, session, paired>>

\* Either end of an open relay closes it.
RelayEnds(s) ==
  /\ up
  /\ task[s].op = "relay"
  /\ Become(s, Idle)
  /\ UNCHANGED <<vars, session, paired>>

\* watchRelayLease, on the ticker: close the relay unless the lease still holds.
LeaseHolds_anyOwnerLease(l) ==
  OfClient(leases, l.owner, l.device) # {}
LeaseHolds(l) == Checked(l.id, l.owner) # {}

watchRelayLease(s) ==
  /\ task[s].op = "relay"
  /\ LeaseVM
  /\ Become(s, IF LeaseHolds(task[s].lease) THEN [task[s] EXCEPT !.age = 0] ELSE Idle)
  /\ UNCHANGED <<session, paired>>

\* release: LeaseVM, whose refusal ends the handler, then Release.
release(s, id, o) ==
  /\ task[s] = Idle
  /\ LeaseVM
  /\ IF \E l \in ById(reapLocked(leases), id) : l.owner # o
     THEN UNCHANGED task
     ELSE Become(s, [op |-> "delete", id |-> id, owner |-> o])
  /\ UNCHANGED <<session, paired>>

releaseDelete(s) ==
  /\ task[s].op = "delete"
  /\ Release(task[s].id, task[s].owner)
  /\ Become(s, Idle)
  /\ UNCHANGED <<session, paired>>

-------------------------------------------------------------------------------
(* adminKick: AdminLease, CloseApp unless forced, AdminRelease *)

adminKick(s, id) ==
  /\ task[s] = Idle
  /\ AdminLease
  /\ \/ \E l \in ById(reapLocked(leases), id) :
          /\ vms[l.vm].listed
          /\ Become(s, Waiting("close", l)) \/ Become(s, [op |-> "kick", lease |-> Res(l)])
     \/ /\ \A l \in ById(reapLocked(leases), id) : ~vms[l.vm].listed
        /\ UNCHANGED task
  /\ UNCHANGED <<session, paired>>

CloseApp(s) ==
  /\ up
  /\ task[s].op = "close"
  /\ LET l == task[s].lease IN
     \/ /\ session' = [session EXCEPT ![l.vm] = NoClient]
        /\ Become(s, [op |-> "kick", lease |-> l])
     \/ /\ Become(s, Idle)                           \* 502, the lease stays
        /\ UNCHANGED session
  /\ UNCHANGED <<vars, paired>>

\* The leases an operator's kick of l removes.
KickTarget_sameVM(l) == OnVM(leases, l.vm)
KickTarget(l) == ById(leases, l.id)

adminKickRelease(s) ==
  /\ up
  /\ task[s].op = "kick"
  /\ \/ \E l \in KickTarget(task[s].lease) : AdminRelease(l.id)
     \/ KickTarget(task[s].lease) = {} /\ UNCHANGED vars
  /\ Become(s, Idle)
  /\ UNCHANGED <<session, paired>>

-------------------------------------------------------------------------------
(* Single-step handlers, the VMs' users, time and the process *)

SingleStep ==
  /\ \/ \E id \in LeaseId, o \in Owner : Heartbeat(id, o)
     \/ \E v \in VM, o \in Owner, d \in Device : AdminAssign(v, o, d) /\ UnusedIds
     \/ \E c \in Configs : Restart(c)
  /\ UNCHANGED <<task, session, paired>>

\* External: a client that holds a VM starts its app there, and it ends.
StartSession(p) ==
  /\ session' = [session EXCEPT ![p.vm] = ClientOf(p)]
  /\ UNCHANGED <<vars, task, paired>>

EndSession(v) ==
  /\ session[v] # NoClient
  /\ session' = [session EXCEPT ![v] = NoClient]
  /\ UNCHANGED <<vars, task, paired>>

CCrash ==
  /\ Crash
  /\ task' = [s \in Slot |-> Idle]
  /\ UNCHANGED <<session, paired>>

\* Lease l is in the table and has time left.
Live(l) == \E m \in leases : m.id = l.id /\ m.left > 0

DeadFor(t) ==
  IF Live(t.lease) THEN 0
  ELSE IF t.dead > MaxTicks THEN t.dead ELSE t.dead + 1

Older(t) ==
  IF Timed(t)
  THEN [t EXCEPT !.age = @ + 1, !.dead = DeadFor(t)]
  ELSE t

CTick ==
  /\ \A s \in Slot : Timed(task[s]) => task[s].age < Limit[task[s].op]
  /\ Tick
  /\ task' = [s \in Slot |-> Older(task[s])]
  /\ UNCHANGED <<session, paired>>

Work(s) ==
  \/ \E S \in SUBSET VM : \E f \in [S -> Discovered] : Refresh(s, S, f)
  \/ RefreshFailed(s)
  \/ createLeaseAllocate(s)
  \/ adminStatusSnapshot(s)
  \/ removeStaleClients(s) \/ tryPair(s) \/ PairFails(s)
  \/ DialRelay(s)
  \/ watchRelayLease(s)
  \/ releaseDelete(s)
  \/ CloseApp(s)
  \/ adminKickRelease(s)

CNext ==
  \/ \E s \in Slot :
       \/ \E o \in Owner, d \in Device : createLease(s, o, d)
       \/ \E id \in LeaseId, o \in Owner :
            pairLease(s, id, o) \/ relay(s, id, o) \/ release(s, id, o)
       \/ adminStatus(s)
       \/ \E id \in LeaseId : adminKick(s, id)
       \/ RelayEnds(s)
       \/ Work(s)
  \/ SingleStep
  \/ \E p \in promised : StartSession(p)
  \/ \E v \in VM : EndSession(v)
  \/ CCrash
  \/ CTick

CSpec == CInit /\ [][CNext]_cvars

-------------------------------------------------------------------------------
(* Properties *)

\* A relay never outlives its lease by more than the time to dial the VM plus
\* one period of the lease check, however its lease ended (expiry, release,
\* kick, VM reconfigured), even if the same client has a new lease by then.
RelayCut ==
  \A s \in Slot : task[s].op = "relay" => task[s].dead <= DialTicks + CheckTicks

\* The types, with the waits in their bounds, and the cut.
CoordinatorInv == CTypeOK /\ RelayCut

\* Kicking a lease never takes a VM away from the holder of another lease, not
\* even when the kicked lease ended and the VM was leased again meanwhile.
KickHitsOnlyItsLease ==
  [][\A s \in Slot :
       task[s].op = "kick" /\ task'[s] = Idle
       => \A p \in promised : p.id = task[s].lease.id \/ p \in promised']_cvars
===============================================================================
