------------------------------ MODULE LeaseStore ------------------------------
(***************************************************************************)
(* The coordinator's VM pool (coordinator/store.go): the VM list, the      *)
(* lease table and the JSON state file that survives a restart.            *)
(*                                                                         *)
(* Every exported method of Store runs under one mutex, so each is one     *)
(* action here.  Writing the state file (persistLocked) replaces the file  *)
(* by a rename: it either happens completely or fails and leaves the old   *)
(* file, and every method that calls it has both outcomes.                 *)
(*                                                                         *)
(* Time.  The code only ever compares a lease's ExpiresAt with the current *)
(* time, so a lease carries the time it has left, ExpiresAt - now cut off  *)
(* at 0, and Tick ages every copy of it: in memory, in the file and in the *)
(* clients' hands.  ExpiresAt.After(now) is left > 0.                      *)
(***************************************************************************)
EXTENDS Naturals, FiniteSets

CONSTANTS
  NumVMs,   \* length of the configured VM list
  Owner,    \* user ids: what a bearer token authenticates
  Device,   \* client installation ids
  LeaseId,  \* random lease ids; unused ones stand for fresh randomID results
  TTL,      \* leaseTTLSeconds, in ticks
  Addr,     \* private addresses Sunshine can be discovered at
  NoAddr,   \* the empty StreamAddress
  Port,     \* Sunshine base ports
  Configs   \* VM lists the coordinator may be started with

VM == 1..NumVMs

VMRecord == [listed    : BOOLEAN,             \* the id occurs in s.vms
             enabled   : BOOLEAN,
             discovery : BOOLEAN,             \* DiscoveryName # ""
             addr      : Addr \cup {NoAddr},
             port      : Port \cup {0}]

Lease == [id : LeaseId, vm : VM, owner : Owner, device : Device, left : 0..TTL]

\* loadConfig (main.go) rejects an empty list and a VM that has neither a
\* discovery name nor a static endpoint.
ConfigOK(c) ==
  /\ c \in [VM -> VMRecord]
  /\ \E v \in VM : c[v].listed
  /\ \A v \in VM : c[v].listed => c[v].discovery \/ (c[v].addr # NoAddr /\ c[v].port # 0)

ASSUME TTLAssumption == TTL \in Nat \ {0}

ASSUME PoolAssumption ==
  /\ NumVMs \in Nat \ {0}
  /\ NoAddr \notin Addr
  /\ Port \subseteq 1..65535

ASSUME ConfigAssumption == \A c \in Configs : ConfigOK(c)

VARIABLES
  up,       \* the coordinator process runs
  vms,      \* s.vms, in list order
  leases,   \* s.leases: the lease table, a set of Lease records
  disk,     \* the leases of the state file
  promised, \* history: lease copies handed out (cloneLease) and not given up
  released, \* history: ids DELETE has acknowledged that are still in the file
  unsaved   \* history: ids renewed since the file was last written

vars == <<up, vms, leases, disk, promised, released, unsaved>>

TypeOK ==
  /\ up \in BOOLEAN
  /\ vms \in [VM -> VMRecord]
  /\ leases \subseteq Lease
  /\ disk \subseteq Lease
  /\ promised \subseteq Lease
  /\ released \subseteq LeaseId
  /\ unsaved \subseteq LeaseId

-------------------------------------------------------------------------------
(* Helpers *)

Ids(ls) == {l.id : l \in ls}
OnVM(ls, v) == {l \in ls : l.vm = v}
OfClient(ls, o, d) == {l \in ls : l.owner = o /\ l.device = d}
ById(ls, id) == {l \in ls : l.id = id}

\* VM.available
available(vm) ==
  vm.listed /\ vm.enabled /\ vm.addr # NoAddr /\ vm.port \in 1..65535

\* reapLocked: drop the leases that have run out.
reapLocked_never(ls) == ls
reapLocked_early(ls) == {l \in ls : l.left > 1}
reapLocked(ls) == {l \in ls : l.left > 0}

\* ExpiresAt = now + ttl
Renewed(l) == [l EXCEPT !.left = TTL]

\* The VMs CreateOrRecover may hand out, given the table after the reap.
FreeVMs_ignoresOccupied(ls) == {v \in VM : available(vms[v])}
FreeVMs(ls) == {v \in VM : available(vms[v]) /\ OnVM(ls, v) = {}}

\* randomID: 192 random bits, taken to be an id nobody holds.
FreshId == LeaseId \ (Ids(leases) \cup Ids(disk) \cup Ids(promised))

\* The table with a new lease, taken back when the file could not be written.
Inserted_noRollback(ls, new, ok) == ls \cup {new}
Inserted(ls, new, ok) == IF ok THEN ls \cup {new} ELSE ls

\* Mutant: the file is written before the table is changed.
Persist_before(ok, ack) ==
  /\ disk' = IF ok THEN leases ELSE disk
  /\ unsaved' = IF ok THEN {} ELSE unsaved \cup Ids(leases' \ leases)
  /\ released' = (released \cup ack) \cap Ids(disk')

\* persistLocked succeeded or failed; ack is the set of ids whose release this
\* call acknowledges.  An acknowledged id matters as long as the file holds it.
\* What a failed write leaves in memory only is the renewal it was to save.
Persist(ok, ack) ==
  /\ disk' = IF ok THEN leases' ELSE disk
  /\ unsaved' = IF ok THEN {} ELSE unsaved \cup Ids(leases' \ leases)
  /\ released' = (released \cup ack) \cap Ids(disk')

\* The client of lease l now knows l; nobody was told; l's client gave it up.
Tell(l) == promised' = (promised \ ById(promised, l.id)) \cup {l}
TellNobody == UNCHANGED promised
GiveUp(ls) == promised' = {p \in promised : p.id \notin Ids(ls)}

-------------------------------------------------------------------------------
(* Client operations *)

Init ==
  /\ up = TRUE
  /\ vms \in Configs
  /\ leases = {} /\ disk = {}          \* NewStore, and Load of a missing file
  /\ promised = {} /\ released = {} /\ unsaved = {}

\* CreateOrRecover finds the client's lease on a usable VM: renew it.
Recover(o, d) ==
  LET kept == reapLocked(leases) IN
  \E l \in OfClient(kept, o, d), ok \in BOOLEAN :
     /\ available(vms[l.vm])
     /\ leases' = (kept \ {l}) \cup {Renewed(l)}
     /\ Persist(ok, {})
     /\ IF ok THEN Tell(Renewed(l)) ELSE TellNobody

\* The table CreateOrRecover searches for a free VM: the client's own lease
\* is dropped when its VM is no longer listed or available.
Unrecoverable(o, d) ==
  {l \in OfClient(reapLocked(leases), o, d) : ~available(vms[l.vm])}
Searched(o, d) == reapLocked(leases) \ Unrecoverable(o, d)

NothingToRecover(o, d) == OfClient(Searched(o, d), o, d) = {}

\* CreateOrRecover gives out the first free VM of the list.  When the state
\* file cannot be written the new lease is taken back; the lease dropped on
\* the way is not put back.
Grant(o, d) ==
  /\ NothingToRecover(o, d)
  /\ LET searched == Searched(o, d)
         free == FreeVMs(searched) IN
     \E v \in free, id \in FreshId, ok \in BOOLEAN :
        LET new == [id |-> id, vm |-> v, owner |-> o, device |-> d, left |-> TTL] IN
        /\ \A w \in free : v <= w
        /\ leases' = Inserted(searched, new, ok)
        /\ Persist(ok, {})
        /\ promised' = {p \in promised : p.id \notin Ids(Unrecoverable(o, d))}
                          \cup (IF ok THEN {new} ELSE {})

\* CreateOrRecover returns errPoolExhausted.  The reap and the dropped lease
\* stay in memory only: nothing is written.
PoolExhausted(o, d) ==
  /\ NothingToRecover(o, d)
  /\ FreeVMs(Searched(o, d)) = {}
  /\ leases' = Searched(o, d)
  /\ GiveUp(Unrecoverable(o, d))
  /\ UNCHANGED <<disk, released, unsaved>>

CreateOrRecover(o, d) ==
  /\ up
  /\ Recover(o, d) \/ Grant(o, d) \/ PoolExhausted(o, d)
  /\ UNCHANGED <<up, vms>>

\* Heartbeat renews the owner's lease; a missing or foreign lease only reaps.
Heartbeat(id, o) ==
  LET kept == reapLocked(leases) IN
  /\ up
  /\ \/ \E l \in ById(kept, id), ok \in BOOLEAN :
          /\ l.owner = o
          /\ leases' = (kept \ {l}) \cup {Renewed(l)}
          /\ Persist(ok, {})
          /\ IF ok THEN Tell(Renewed(l)) ELSE TellNobody
     \/ /\ \A l \in ById(kept, id) : l.owner # o
        /\ leases' = kept
        /\ UNCHANGED <<disk, promised, released, unsaved>>
  /\ UNCHANGED <<up, vms>>

\* Release does not reap.  A lease that is not in memory is reported as
\* released without touching the file.
Release(id, o) ==
  /\ up
  /\ \/ \E l \in ById(leases, id), ok \in BOOLEAN :
          /\ l.owner = o
          /\ leases' = leases \ {l}
          /\ Persist(ok, IF ok THEN {id} ELSE {})
          /\ GiveUp({l})
     \/ /\ ById(leases, id) = {}
        /\ released' = released \cup Ids({l \in ById(disk, id) : l.owner = o})
        /\ UNCHANGED <<leases, disk, promised, unsaved>>
     \/ /\ \E l \in ById(leases, id) : l.owner # o
        /\ UNCHANGED <<leases, disk, promised, released, unsaved>>
  /\ UNCHANGED <<up, vms>>

\* LeaseVM, the check made before pairing and while relaying, reaps whatever
\* it answers.
LeaseVM ==
  /\ up
  /\ leases' = reapLocked(leases)
  /\ UNCHANGED <<up, vms, disk, promised, released, unsaved>>

-------------------------------------------------------------------------------
(* Operator, discovery and process life *)

\* AdminSnapshot writes the file when the reap removed something.
AdminSnapshot ==
  /\ up
  /\ leases' = reapLocked(leases)
  /\ \/ leases' # leases /\ \E ok \in BOOLEAN : Persist(ok, {})
     \/ leases' = leases /\ UNCHANGED <<disk, released, unsaved>>
  /\ UNCHANGED <<up, vms, promised>>

\* AdminLease is LeaseVM without the owner check.
AdminLease == LeaseVM

\* AdminRelease removes the lease even when the file cannot be written.
AdminRelease(id) ==
  /\ up
  /\ \E l \in ById(leases, id), ok \in BOOLEAN :
        /\ leases' = leases \ {l}
        /\ Persist(ok, IF ok THEN {id} ELSE {})
        /\ GiveUp({l})
  /\ UNCHANGED <<up, vms>>

\* AdminAssign reserves a given VM; a busy VM or a client that already has a
\* lease only reaps.
AssignConflict_ignoresClient(ls, v, o, d) == OnVM(ls, v) # {}
AssignConflict(ls, v, o, d) == OnVM(ls, v) # {} \/ OfClient(ls, o, d) # {}

AdminAssign(v, o, d) ==
  LET kept == reapLocked(leases) IN
  /\ up
  /\ \/ /\ available(vms[v])
        /\ ~AssignConflict(kept, v, o, d)
        /\ \E id \in FreshId, ok \in BOOLEAN :
             LET new == [id |-> id, vm |-> v, owner |-> o, device |-> d, left |-> TTL] IN
             /\ leases' = Inserted(kept, new, ok)
             /\ Persist(ok, {})
             /\ IF ok THEN Tell(new) ELSE TellNobody
     \/ /\ ~available(vms[v]) \/ AssignConflict(kept, v, o, d)
        /\ leases' = kept
        /\ UNCHANGED <<disk, promised, released, unsaved>>
  /\ UNCHANGED <<up, vms>>

\* UpdateVMs stores what a discovery found: S is the set of VMs an mDNS entry
\* with a valid address matched, f the address and port it carried.  Port 0
\* keeps the old port, and a VM that was not found keeps its old endpoint.
UpdateVMs(S, f) ==
  /\ up
  /\ \A v \in S : vms[v].listed /\ vms[v].discovery
  /\ vms' = [v \in VM |->
               IF v \in S
               THEN [vms[v] EXCEPT !.addr = f[v].addr,
                                   !.port = IF f[v].port > 0 THEN f[v].port ELSE @]
               ELSE vms[v]]
  /\ UNCHANGED <<up, leases, disk, promised, released, unsaved>>

Crash ==
  /\ up
  /\ up' = FALSE
  /\ leases' = {} /\ unsaved' = {}
  /\ UNCHANGED <<vms, disk, promised, released>>

\* main: read the configuration, NewStore, Load the unexpired leases.
Restart(c) ==
  /\ ~up
  /\ up' = TRUE
  /\ vms' = c
  /\ leases' = reapLocked(disk)
  /\ UNCHANGED <<disk, promised, released, unsaved>>

\* Time passes for every copy of a lease; a promise that has run out is over.
Aged(ls) == {[l EXCEPT !.left = IF @ > 0 THEN @ - 1 ELSE 0] : l \in ls}

Tick ==
  /\ leases' = Aged(leases)
  /\ disk' = Aged(disk)
  /\ promised' = {p \in Aged(promised) : p.left > 0}
  /\ UNCHANGED <<up, vms, released, unsaved>>

Discovered == [addr : Addr, port : Port \cup {0}]

Next ==
  \/ \E o \in Owner, d \in Device : CreateOrRecover(o, d)
  \/ \E id \in LeaseId, o \in Owner : Heartbeat(id, o)
  \/ \E id \in LeaseId, o \in Owner : Release(id, o)
  \/ LeaseVM
  \/ AdminSnapshot
  \/ AdminLease
  \/ \E id \in LeaseId : AdminRelease(id)
  \/ \E v \in VM, o \in Owner, d \in Device : AdminAssign(v, o, d)
  \/ \E S \in SUBSET VM : \E f \in [S -> Discovered] : UpdateVMs(S, f)
  \/ Crash
  \/ \E c \in Configs : Restart(c)
  \/ Tick

Spec == Init /\ [][Next]_vars

-------------------------------------------------------------------------------
(* Properties *)

\* No two different leases of a table name the same VM or the same client, and
\* no two carry the same id.
Exclusive(ls) ==
  \A l, m \in ls :
    \/ l.vm = m.vm
    \/ l.owner = m.owner /\ l.device = m.device
    \/ l.id = m.id
    => l = m

\* A VM is reserved at most once and a client holds at most one VM, in memory
\* and in the file a restart would load (CreateOrRecover, AdminAssign, Load).
NoDoubleAssignment == Exclusive(leases) /\ Exclusive(disk)

SameReservation(l, m) ==
  l.id = m.id /\ l.vm = m.vm /\ l.owner = m.owner /\ l.device = m.device

\* File ds has lease l, for the same VM and client and with the same end, or
\* an earlier one if us says that the file has missed a renewal of l.
BackedBy(l, ds, us) ==
  \E m \in ds :
    /\ SameReservation(l, m)
    /\ m.left <= l.left
    /\ l.id \in us \/ m.left = l.left

\* Every lease the coordinator acts on is in the state file as it is, whatever
\* the order of failed writes and requests; only the end of a lease may be
\* earlier there, when it was renewed and nothing could be written since.  So
\* a crash never lengthens a lease that is in memory, and takes nothing from one
\* but a renewal that could not be saved.  That may be all the time the lease had
\* left; the renewal was answered with an error, and what was promised before
\* is kept (PromiseKept).  Leases that only the file has are not spoken of: a
\* crash may bring them back (ReleasedStaysReleased).
Durable == \A l \in leases : BackedBy(l, disk, unsaved)

\* Table ls reserves for p what p says, for at least as long.
Covers(ls, p) == \E l \in ls : SameReservation(p, l) /\ p.left <= l.left

\* A client that was told it holds a VM until a given time keeps that VM until
\* then, across renewals, other clients' requests, failed writes, crashes and
\* restarts, unless the lease is released, kicked or its VM has become
\* unusable when the client asks again.
PromiseKept ==
  \A p \in promised : Covers(disk, p) /\ (up => Covers(leases, p))

\* Two clients never both hold an unexpired promise for one VM.
OneClientPerVM ==
  \A p, q \in promised : p.vm = q.vm => p.owner = q.owner /\ p.device = q.device

\* Exclusive use, of the tables and of what clients believe: the promise of the
\* pool (CreateOrRecover and AdminAssign), with the types.
StoreInv == TypeOK /\ NoDoubleAssignment /\ OneClientPerVM

\* The store implements the abstract pool of timed claims (module VMPool): the
\* claims are the unexpired promises, with the lease id forgotten.
Claims == {[vm |-> p.vm, client |-> <<p.owner, p.device>>, left |-> p.left] : p \in promised}
Pool == INSTANCE VMPool WITH Client <- Owner \X Device, held <- Claims
ImplementsPool == Pool!Spec

\* A lease whose release was acknowledged to its owner (204) is not live again.
ReleasedStaysReleased == \A l \in leases : l.id \notin released

-------------------------------------------------------------------------------
(* Liveness *)

Served(o, d) == OfClient(promised, o, d) # {}
RequestServed(o, d) == CreateOrRecover(o, d) /\ Served(o, d)'

\* Time passes and a crashed coordinator is started again.
Fairness == WF_vars(Tick) /\ WF_vars(\E c \in Configs : Restart(c))

FairSpec == Spec /\ Fairness

\* The client keeps asking: when its request could succeed again and again, it
\* arrives at such a moment at some time.
KeepsAsking(o, d) == SF_vars(RequestServed(o, d))

\* The step creates or renews no lease of a client other than <<o, d>>.
OthersSilent(o, d) ==
  \A l \in leases' \ OfClient(leases', o, d) :
    l \in leases \cup Aged(leases) \/ (~up /\ l \in disk)

\* A crashed or disconnected client cannot occupy a slot forever: a client that
\* keeps asking while the others have gone silent is served again and again,
\* although nothing but the next request reaps an expired lease.
NoStarvation ==
  \A o \in Owner, d \in Device :
    KeepsAsking(o, d) /\ <>[][OthersSilent(o, d)]_vars => []<>Served(o, d)
===============================================================================
