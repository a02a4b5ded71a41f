--------------------------- MODULE CoordinatorProofs ---------------------------
(***************************************************************************)
(* Proofs about the coordinator's lease table (LeaseStore) for any number  *)
(* of VMs, any clients, any lease time and any sequence of configurations, *)
(* and that it implements VMPool.  Then about the handlers: whatever they  *)
(* interleave, they drive the store only through its own operations, so    *)
(* every theorem about the store holds of the coordinator.                 *)
(***************************************************************************)
EXTENDS Coordinator, TLAPS

\* A promise is dropped from the history when it runs out.
PromisesLive == \A p \in promised : p.left > 0

\* The inductive invariant.  PromiseKept needs PromisesLive (a reap must not
\* touch the lease behind a promise), OneClientPerVM follows from PromiseKept
\* and the exclusivity of the file, and a restart needs that of the file.
IInv == TypeOK /\ NoDoubleAssignment /\ Durable /\ PromiseKept /\ PromisesLive

-------------------------------------------------------------------------------
(* Facts about the helpers *)

\* A lease time is positive, and a full one is a legal remaining time.
LEMMA TTLFacts == TTL \in Nat /\ TTL > 0 /\ TTL <= TTL /\ TTL \in 0..TTL
  <1>1. TTL \in Nat \ {0}
    BY TTLAssumption
  <1> QED BY <1>1

\* loadConfig only accepts well-formed VM lists.
LEMMA ConfigType == \A c \in Configs : c \in [VM -> VMRecord]
  BY ConfigAssumption DEF ConfigOK

\* No lease has more than the full time left.
LEMMA LeftBound == \A l \in Lease : l.left \in Nat /\ l.left <= TTL
  BY TTLFacts DEF Lease

\* reapLocked only removes leases, and only the ones that have run out.
LEMMA ReapFacts ==
  ASSUME NEW ls
  PROVE  /\ reapLocked(ls) \subseteq ls
         /\ \A l \in ls : l.left > 0 => l \in reapLocked(ls)
  BY DEF reapLocked

\* Exclusivity is inherited by any smaller table.
LEMMA SubsetExclusive ==
  ASSUME NEW ls, NEW ms \in SUBSET ls, Exclusive(ls)
  PROVE  Exclusive(ms)
  BY DEF Exclusive

\* Adding a lease with a new id, on a VM nobody in the table has and for a
\* client without a lease, keeps the table exclusive.
LEMMA InsertExclusive ==
  ASSUME NEW ls, Exclusive(ls), NEW new,
         OnVM(ls, new.vm) = {}, OfClient(ls, new.owner, new.device) = {},
         new.id \notin Ids(ls)
  PROVE  Exclusive(ls \cup {new})
  BY DEF Exclusive, OnVM, OfClient, Ids

\* A renewal changes nothing but the time left.
LEMMA RenewedFacts ==
  ASSUME NEW l \in Lease
  PROVE  /\ Renewed(l) \in Lease
         /\ Renewed(l).left = TTL
         /\ SameReservation(l, Renewed(l)) /\ SameReservation(Renewed(l), l)
  <1>1. TTL \in 0..TTL
    BY TTLFacts
  <1>2. Renewed(l) \in Lease
    BY <1>1 DEF Renewed, Lease
  <1>3. Renewed(l).left = TTL
    BY DEF Renewed, Lease
  <1>4. SameReservation(l, Renewed(l)) /\ SameReservation(Renewed(l), l)
    BY DEF Renewed, Lease, SameReservation
  <1> QED BY <1>2, <1>3, <1>4

\* Renewing one lease keeps a table exclusive.
LEMMA RenewExclusive ==
  ASSUME NEW ls \in SUBSET Lease, Exclusive(ls), NEW l \in ls
  PROVE  Exclusive((ls \ {l}) \cup {Renewed(l)})
  BY RenewedFacts DEF Exclusive, SameReservation

\* Renewing one lease covers everything the table covered before.
LEMMA RenewCovers ==
  ASSUME NEW ls \in SUBSET Lease, NEW l \in ls, NEW p \in Lease, Covers(ls, p)
  PROVE  Covers((ls \ {l}) \cup {Renewed(l)}, p)
  <1>1. PICK m \in ls : SameReservation(p, m) /\ p.left <= m.left
    BY DEF Covers
  <1>2. CASE m = l
    <2>1. p.left <= TTL
      BY LeftBound
    <2> QED
      BY <1>1, <1>2, <2>1, RenewedFacts DEF Covers, SameReservation
  <1>3. CASE m # l
    BY <1>1, <1>3 DEF Covers
  <1> QED BY <1>2, <1>3

\* An unexpired promise covered by a table is covered by the reaped table.
LEMMA ReapCovers ==
  ASSUME NEW ls \in SUBSET Lease, NEW p \in Lease, p.left > 0, Covers(ls, p)
  PROVE  Covers(reapLocked(ls), p)
  BY DEF Covers, reapLocked, Lease

\* What a file backs it also backs when more renewals are known to be unsaved.
LEMMA BackedMore ==
  ASSUME NEW l, NEW ds, NEW us, NEW vs, us \subseteq vs, BackedBy(l, ds, us)
  PROVE  BackedBy(l, ds, vs)
  BY DEF BackedBy

\* A failed write leaves its renewals unsaved, a successful one none.
LEMMA PersistFacts ==
  ASSUME NEW ok \in BOOLEAN, NEW ack, Persist(ok, ack)
  PROVE  /\ ok => disk' = leases' /\ unsaved' = {}
         /\ ~ok => disk' = disk /\ unsaved' = unsaved \cup Ids(leases' \ leases)
         /\ released' \subseteq released \cup ack
  BY DEF Persist

\* A method that only removes leases renews none.
LEMMA PersistRemoved ==
  ASSUME NEW ok \in BOOLEAN, NEW ack, Persist(ok, ack), leases' \subseteq leases
  PROVE  disk' = leases' \/ (disk' = disk /\ unsaved' = unsaved)
  <1>1. leases' \ leases = {}
    OBVIOUS
  <1>2. Ids(leases' \ leases) = {}
    BY <1>1 DEF Ids
  <1>3. unsaved \cup {} = unsaved
    OBVIOUS
  <1>4. ok \/ (disk' = disk /\ unsaved' = unsaved \cup Ids(leases' \ leases))
    BY PersistFacts
  <1>5. ok => disk' = leases'
    BY PersistFacts
  <1> QED BY <1>2, <1>3, <1>4, <1>5

\* The unsaved ids are lease ids when the table is well typed.
LEMMA UnsavedType ==
  ASSUME IInv, leases' \subseteq Lease, NEW ok \in BOOLEAN, NEW ack, Persist(ok, ack)
  PROVE  unsaved' \subseteq LeaseId
  <1>1. Ids(leases' \ leases) \subseteq LeaseId
    BY DEF Ids, Lease
  <1> QED BY <1>1, PersistFacts DEF IInv, TypeOK

-------------------------------------------------------------------------------
(* The invariant is preserved *)

\* What a store method that returns has to establish.  Either the state file
\* was written and every promise is covered by the new table, or it was not,
\* nobody was promised anything new, and the new table is still backed by the
\* old file.
LEMMA MethodPreserves ==
  ASSUME IInv, up, up' = up, vms' \in [VM -> VMRecord],
         leases' \subseteq Lease, Exclusive(leases'),
         promised' \subseteq Lease, PromisesLive', released' \subseteq LeaseId,
         unsaved' \subseteq LeaseId,
         \A p \in promised' : Covers(leases', p),
         \/ disk' = leases'
         \/ /\ disk' = disk
            /\ promised' \subseteq promised
            /\ \A l \in leases' : BackedBy(l, disk, unsaved')
  PROVE  IInv'
  <1>1. CASE disk' = leases'
    <2>1. Durable'
      BY <1>1, LeftBound DEF Durable, BackedBy, SameReservation
    <2> QED
      BY <1>1, <2>1 DEF IInv, TypeOK, NoDoubleAssignment, PromiseKept
  <1>2. CASE /\ disk' = disk
             /\ promised' \subseteq promised
             /\ \A l \in leases' : BackedBy(l, disk, unsaved')
    BY <1>2 DEF IInv, TypeOK, NoDoubleAssignment, Durable, PromiseKept
  <1> QED BY <1>1, <1>2

\* The facts about a reachable state that every method starts from: the
\* reaped table is exclusive, backed by the file and still covers every
\* promise.
LEMMA AfterReap ==
  ASSUME IInv
  PROVE  LET kept == reapLocked(leases) IN
         /\ kept \subseteq leases /\ kept \subseteq Lease /\ Exclusive(kept)
         /\ \A l \in kept : BackedBy(l, disk, unsaved)
         /\ up => \A p \in promised : Covers(kept, p)
  <1>1. reapLocked(leases) \subseteq leases
    BY ReapFacts
  <1>2. Exclusive(reapLocked(leases))
    BY <1>1, SubsetExclusive DEF IInv, NoDoubleAssignment
  <1>3. \A l \in reapLocked(leases) : BackedBy(l, disk, unsaved)
    BY <1>1 DEF IInv, Durable
  <1>4. up => \A p \in promised : Covers(reapLocked(leases), p)
    BY ReapCovers DEF IInv, PromiseKept, PromisesLive, TypeOK
  <1> QED
    BY <1>1, <1>2, <1>3, <1>4 DEF IInv, TypeOK

\* What renewing lease l of the reaped table establishes, whether the file is
\* written or not (Recover and Heartbeat share this tail).
LEMMA RenewPreserves ==
  ASSUME IInv, up, UNCHANGED <<up, vms>>,
         NEW l \in reapLocked(leases), NEW ok \in BOOLEAN,
         leases' = (reapLocked(leases) \ {l}) \cup {Renewed(l)},
         Persist(ok, {}),
         IF ok THEN Tell(Renewed(l)) ELSE TellNobody
  PROVE  IInv'
  <1> DEFINE kept == reapLocked(leases)
  <1>1. /\ kept \subseteq Lease /\ Exclusive(kept)
        /\ \A k \in kept : BackedBy(k, disk, unsaved)
        /\ \A p \in promised : Covers(kept, p)
    BY AfterReap
  <1>2. l \in Lease
    BY <1>1
  <1>3. leases' \subseteq Lease /\ Exclusive(leases')
    BY <1>1, <1>2, RenewedFacts, RenewExclusive
  <1>4. \A p \in promised : Covers(leases', p)
    BY <1>1, RenewCovers DEF IInv, TypeOK
  <1>5. Covers(leases', Renewed(l)) /\ Renewed(l).left > 0
    <2>1. TTL \in Nat /\ TTL > 0 /\ TTL <= TTL
      BY TTLFacts
    <2>2. Renewed(l) \in leases' /\ Renewed(l).left = TTL
      BY <1>2, RenewedFacts
    <2> QED BY <2>1, <2>2 DEF Covers, SameReservation
  <1>6. ~ok => \A k \in leases' : BackedBy(k, disk, unsaved')
    <2> SUFFICES ASSUME ~ok PROVE \A k \in leases' : BackedBy(k, disk, unsaved')
      OBVIOUS
    <2>1. PICK m \in disk : SameReservation(l, m) /\ (l.id \in unsaved \/ m.left = l.left)
      BY <1>1 DEF BackedBy
    <2>2. SameReservation(Renewed(l), m)
      BY <2>1, <1>2, RenewedFacts DEF SameReservation
    <2>3. m.left <= TTL
      BY LeftBound DEF IInv, TypeOK
    <2>4. m.left <= Renewed(l).left
      BY <1>2, <2>3, RenewedFacts
    <2>5. unsaved' = unsaved \cup Ids(leases' \ leases)
      BY PersistFacts
    <2>6. Renewed(l).id \in unsaved' \/ m.left = Renewed(l).left
      <3>1. Renewed(l).id = l.id
        BY <1>2, RenewedFacts DEF SameReservation
      <3>2. CASE Renewed(l) \in leases
        \* the renewal came in the tick of the last one: nothing has changed
        <4>1. l \in leases
          BY AfterReap
        <4>2. Renewed(l) = l
          BY <3>1, <3>2, <4>1 DEF IInv, NoDoubleAssignment, Exclusive
        <4> QED BY <2>1, <2>5, <4>2
      <3>3. CASE Renewed(l) \notin leases
        BY <2>5, <3>3 DEF Ids
      <3> QED BY <3>2, <3>3
    <2>7. BackedBy(Renewed(l), disk, unsaved')
      BY <2>2, <2>4, <2>6 DEF BackedBy
    <2>8. \A k \in kept : BackedBy(k, disk, unsaved')
      BY <1>1, <2>5, BackedMore
    <2> QED BY <2>7, <2>8
  <1>7. released' \subseteq LeaseId /\ unsaved' \subseteq LeaseId
    BY <1>3, PersistFacts, UnsavedType DEF IInv, TypeOK
  <1>8. vms' \in [VM -> VMRecord]
    BY DEF IInv, TypeOK
  <1>9. CASE ok
    <2>1. promised' \subseteq promised \cup {Renewed(l)} /\ disk' = leases'
      BY <1>9 DEF Tell, Persist
    <2>2. promised' \subseteq Lease /\ PromisesLive' /\ \A p \in promised' : Covers(leases', p)
      BY <2>1, <1>2, <1>4, <1>5, RenewedFacts DEF PromisesLive, IInv, TypeOK
    <2> QED BY <1>3, <1>7, <1>8, <2>1, <2>2, MethodPreserves
  <1>10. CASE ~ok
    <2>1. promised' = promised /\ disk' = disk
      BY <1>10 DEF TellNobody, Persist
    <2>2. promised' \subseteq Lease /\ PromisesLive'
      BY <2>1 DEF PromisesLive, IInv, TypeOK
    <2> QED BY <1>10, <1>3, <1>4, <1>6, <1>7, <1>8, <2>1, <2>2, MethodPreserves
  <1> QED BY <1>9, <1>10

\* What reserving a free VM for a client without a lease establishes; ls is the
\* table the method searched (Grant and AdminAssign share this tail).
LEMMA InsertPreserves ==
  ASSUME IInv, up, UNCHANGED <<up, vms>>,
         NEW ls \in SUBSET reapLocked(leases),
         NEW v \in VM, NEW o \in Owner, NEW d \in Device, NEW id \in FreshId,
         NEW new, new = [id |-> id, vm |-> v, owner |-> o, device |-> d, left |-> TTL],
         OnVM(ls, v) = {}, OfClient(ls, o, d) = {},
         NEW ok \in BOOLEAN,
         leases' = Inserted(ls, new, ok), Persist(ok, {}),
         NEW rest \in SUBSET promised, \A p \in rest : Covers(ls, p),
         promised' = rest \cup (IF ok THEN {new} ELSE {})
  PROVE  IInv'
  <1>1. /\ ls \subseteq Lease /\ Exclusive(ls)
        /\ \A k \in ls : BackedBy(k, disk, unsaved)
    BY AfterReap, SubsetExclusive
  <1>2. new \in Lease /\ new.left > 0
    <2>1. TTL \in 0..TTL /\ TTL > 0
      BY TTLFacts
    <2>2. id \in LeaseId
      BY DEF FreshId
    <2> QED BY <2>1, <2>2 DEF Lease
  <1>3. id \notin Ids(ls)
    BY AfterReap DEF FreshId, Ids
  <1>4. released' \subseteq LeaseId /\ unsaved' \subseteq LeaseId /\ vms' \in [VM -> VMRecord]
    <2>1. leases' \subseteq Lease
      BY <1>1, <1>2 DEF Inserted
    <2> QED BY <2>1, PersistFacts, UnsavedType DEF IInv, TypeOK
  <1>5. rest \subseteq Lease /\ \A p \in rest : p.left > 0
    BY DEF IInv, TypeOK, PromisesLive
  <1>6. CASE ok
    <2>1. leases' = ls \cup {new} /\ disk' = leases' /\ promised' = rest \cup {new}
      BY <1>6 DEF Inserted, Persist
    <2>2. Exclusive(leases')
      BY <1>1, <1>3, <2>1, InsertExclusive
    <2>3. \A p \in promised' : Covers(leases', p)
      BY <1>2, <2>1 DEF Covers, SameReservation, Lease
    <2>4. promised' \subseteq Lease /\ PromisesLive' /\ leases' \subseteq Lease
      BY <1>1, <1>2, <1>5, <2>1 DEF PromisesLive
    <2> QED BY <1>4, <2>1, <2>2, <2>3, <2>4, MethodPreserves
  <1>7. CASE ~ok
    <2>1. leases' = ls /\ disk' = disk /\ promised' = rest
      BY <1>7 DEF Inserted, Persist
    <2>2. PromisesLive'
      BY <1>5, <2>1 DEF PromisesLive
    <2>3. \A k \in leases' : BackedBy(k, disk, unsaved')
      BY <1>1, <1>7, <2>1, PersistFacts, BackedMore
    <2> QED BY <1>1, <1>4, <1>5, <2>1, <2>2, <2>3, MethodPreserves
  <1> QED BY <1>6, <1>7

\* A method that only removes leases from the table, and the promises that go
\* with them, whether or not it writes the file (a reap that found nothing to
\* do, Release, AdminRelease, AdminSnapshot, errPoolExhausted).
LEMMA RemovePreserves ==
  ASSUME IInv, up, UNCHANGED <<up, vms>>,
         leases' \subseteq leases,
         promised' \subseteq promised, \A p \in promised' : Covers(leases', p),
         released' \subseteq LeaseId, unsaved' \subseteq LeaseId,
         disk' = leases' \/ (disk' = disk /\ unsaved' = unsaved)
  PROVE  IInv'
  <1>1. leases' \subseteq Lease /\ promised' \subseteq Lease /\ vms' \in [VM -> VMRecord]
    BY DEF IInv, TypeOK
  <1>2. Exclusive(leases')
    BY SubsetExclusive DEF IInv, NoDoubleAssignment
  <1>3. PromisesLive'
    BY DEF IInv, PromisesLive
  <1>4. \A l \in leases' : BackedBy(l, disk, unsaved)
    BY DEF IInv, Durable
  <1> QED BY <1>1, <1>2, <1>3, <1>4, MethodPreserves

\* A promise whose lease a method does not remove is covered after it.
LEMMA KeepCovers ==
  ASSUME NEW ls, NEW gone, NEW p, Covers(ls, p), p.id \notin Ids(gone)
  PROVE  Covers(ls \ gone, p)
  BY DEF Covers, SameReservation, Ids

\* Ageing takes the same time from a lease and from every copy of it.
LEMMA AgedFacts ==
  ASSUME NEW ls \in SUBSET Lease
  PROVE  /\ Aged(ls) \subseteq Lease
         /\ \A a \in Aged(ls) : \E l \in ls :
               SameReservation(a, l) /\ a.left = IF l.left > 0 THEN l.left - 1 ELSE 0
         /\ \A l \in ls : \E a \in Aged(ls) :
               SameReservation(a, l) /\ a.left = IF l.left > 0 THEN l.left - 1 ELSE 0
  <1> DEFINE age(l) == [l EXCEPT !.left = IF @ > 0 THEN @ - 1 ELSE 0]
  <1>1. ASSUME NEW l \in Lease
        PROVE  /\ age(l) \in Lease
               /\ SameReservation(age(l), l)
               /\ age(l).left = IF l.left > 0 THEN l.left - 1 ELSE 0
    <2>1. l.left \in Nat /\ l.left <= TTL /\ TTL \in Nat
      BY LeftBound, TTLFacts
    <2>2. (IF l.left > 0 THEN l.left - 1 ELSE 0) \in 0..TTL
      BY <2>1
    <2> QED BY <2>2 DEF Lease, SameReservation
  <1>2. Aged(ls) = {age(l) : l \in ls}
    BY DEF Aged
  <1> HIDE DEF age
  <1> QED BY <1>1, <1>2

LEMMA CreateOrRecoverPreserves ==
  ASSUME IInv, NEW o \in Owner, NEW d \in Device, CreateOrRecover(o, d)
  PROVE  IInv'
  <1> DEFINE kept == reapLocked(leases)
             searched == Searched(o, d)
             gone == Unrecoverable(o, d)
  <1>1. up /\ UNCHANGED <<up, vms>>
    BY DEF CreateOrRecover
  <1>2. CASE Recover(o, d)
    BY <1>1, <1>2, RenewPreserves DEF Recover, OfClient
  <1>3. searched = kept \ gone /\ searched \subseteq kept /\ gone \subseteq kept
    BY DEF Searched, Unrecoverable, OfClient
  <1>4. \A p \in promised : p.id \notin Ids(gone) => Covers(searched, p)
    BY <1>1, <1>3, AfterReap, KeepCovers
  <1>5. CASE Grant(o, d)
    <2>1. PICK v \in FreeVMs(searched), id \in FreshId, ok \in BOOLEAN :
            LET new == [id |-> id, vm |-> v, owner |-> o, device |-> d, left |-> TTL] IN
            /\ leases' = Inserted(searched, new, ok)
            /\ Persist(ok, {})
            /\ promised' = {p \in promised : p.id \notin Ids(gone)}
                              \cup (IF ok THEN {new} ELSE {})
      BY <1>5 DEF Grant
    <2>2. v \in VM /\ OnVM(searched, v) = {}
      BY DEF FreeVMs
    <2>3. OfClient(searched, o, d) = {}
      BY <1>5 DEF Grant, NothingToRecover
    <2> DEFINE rest == {p \in promised : p.id \notin Ids(gone)}
               new == [id |-> id, vm |-> v, owner |-> o, device |-> d, left |-> TTL]
    <2>4. rest \subseteq promised /\ \A p \in rest : Covers(searched, p)
      BY <1>4
    <2>5. /\ leases' = Inserted(searched, new, ok)
          /\ Persist(ok, {})
          /\ promised' = rest \cup (IF ok THEN {new} ELSE {})
      BY <2>1
    <2>6. searched \subseteq reapLocked(leases)
      BY <1>3
    <2>7. new = [id |-> id, vm |-> v, owner |-> o, device |-> d, left |-> TTL]
      OBVIOUS
    <2> HIDE DEF searched, rest, new
    <2> QED
      BY <1>1, <2>2, <2>3, <2>4, <2>5, <2>6, <2>7, InsertPreserves
  <1>6. CASE PoolExhausted(o, d)
    <2>1. leases' = searched /\ disk' = disk /\ UNCHANGED <<released, unsaved>>
          /\ promised' = {p \in promised : p.id \notin Ids(gone)}
      BY <1>6 DEF PoolExhausted, GiveUp
    <2>2. leases' \subseteq leases
      BY <1>3, <2>1, AfterReap
    <2>3. released' \subseteq LeaseId /\ unsaved' \subseteq LeaseId
      BY <2>1 DEF IInv, TypeOK
    <2> QED BY <1>1, <1>4, <2>1, <2>2, <2>3, RemovePreserves
  <1> QED BY <1>2, <1>5, <1>6 DEF CreateOrRecover

\* A method that reaps and does nothing else.
LEMMA ReapPreserves ==
  ASSUME IInv, up, UNCHANGED <<up, vms, promised>>, leases' = reapLocked(leases),
         released' \subseteq LeaseId, unsaved' \subseteq LeaseId,
         disk' = leases' \/ (disk' = disk /\ unsaved' = unsaved)
  PROVE  IInv'
  BY AfterReap, RemovePreserves

LEMMA HeartbeatPreserves ==
  ASSUME IInv, NEW id \in LeaseId, NEW o \in Owner, Heartbeat(id, o)
  PROVE  IInv'
  <1>1. up /\ UNCHANGED <<up, vms>>
    BY DEF Heartbeat
  <1>2. CASE leases' = reapLocked(leases) /\ UNCHANGED <<disk, promised, released, unsaved>>
    BY <1>1, <1>2, ReapPreserves DEF IInv, TypeOK
  <1>3. CASE \E l \in ById(reapLocked(leases), id), ok \in BOOLEAN :
               /\ leases' = (reapLocked(leases) \ {l}) \cup {Renewed(l)}
               /\ Persist(ok, {})
               /\ IF ok THEN Tell(Renewed(l)) ELSE TellNobody
    BY <1>1, <1>3, RenewPreserves DEF ById
  <1> QED BY <1>2, <1>3 DEF Heartbeat

\* Taking lease l out of the table (Release and AdminRelease).
LEMMA DeletePreserves ==
  ASSUME IInv, up, UNCHANGED <<up, vms>>, NEW l \in leases, NEW ok \in BOOLEAN,
         leases' = leases \ {l}, GiveUp({l}),
         NEW ack \in SUBSET LeaseId, Persist(ok, ack)
  PROVE  IInv'
  <1>1. promised' \subseteq promised /\ \A p \in promised' : Covers(leases', p)
    BY KeepCovers DEF GiveUp, IInv, PromiseKept
  <1>2. leases' \subseteq Lease
    BY DEF IInv, TypeOK
  <1>3. released' \subseteq LeaseId /\ unsaved' \subseteq LeaseId
    BY <1>2, PersistFacts, UnsavedType DEF IInv, TypeOK
  <1>4. disk' = leases' \/ (disk' = disk /\ unsaved' = unsaved)
    BY PersistRemoved
  <1> QED BY <1>1, <1>3, <1>4, RemovePreserves

LEMMA ReleasePreserves ==
  ASSUME IInv, NEW id \in LeaseId, NEW o \in Owner, Release(id, o)
  PROVE  IInv'
  <1>1. up /\ UNCHANGED <<up, vms>>
    BY DEF Release
  <1>2. CASE \E l \in ById(leases, id), ok \in BOOLEAN :
               /\ leases' = leases \ {l}
               /\ Persist(ok, IF ok THEN {id} ELSE {})
               /\ GiveUp({l})
    BY <1>1, <1>2, DeletePreserves DEF ById
  <1>3. CASE UNCHANGED <<leases, disk, promised, unsaved>> /\ released' \subseteq LeaseId
    <2>1. \A p \in promised : Covers(leases', p)
      BY <1>1, <1>3 DEF IInv, PromiseKept
    <2>2. unsaved' \subseteq LeaseId
      BY <1>3 DEF IInv, TypeOK
    <2> QED BY <1>1, <1>3, <2>1, <2>2, RemovePreserves
  <1>4. Ids({l \in ById(disk, id) : l.owner = o}) \subseteq LeaseId
    BY DEF Ids, ById
  <1> QED BY <1>2, <1>3, <1>4 DEF Release, IInv, TypeOK

LEMMA AdminPreserves ==
  ASSUME IInv, \/ LeaseVM \/ AdminSnapshot \/ \E id \in LeaseId : AdminRelease(id)
  PROVE  IInv'
  <1>1. CASE LeaseVM
    BY <1>1, ReapPreserves DEF LeaseVM, IInv, TypeOK
  <1>2. CASE AdminSnapshot
    <2>1. leases' = reapLocked(leases) /\ leases' \subseteq Lease /\ leases' \subseteq leases
      BY <1>2, AfterReap DEF AdminSnapshot
    <2>2. CASE UNCHANGED <<disk, released, unsaved>>
      BY <1>2, <2>2, ReapPreserves DEF AdminSnapshot, IInv, TypeOK
    <2>3. ASSUME NEW ok \in BOOLEAN, Persist(ok, {}) PROVE IInv'
      <3>1. released' \subseteq LeaseId /\ unsaved' \subseteq LeaseId
        BY <2>1, <2>3, PersistFacts, UnsavedType DEF IInv, TypeOK
      <3>2. disk' = leases' \/ (disk' = disk /\ unsaved' = unsaved)
        BY <2>1, <2>3, PersistRemoved
      <3> QED BY <1>2, <3>1, <3>2, ReapPreserves DEF AdminSnapshot
    <2> QED BY <1>2, <2>2, <2>3 DEF AdminSnapshot
  <1>3. ASSUME NEW id \in LeaseId, AdminRelease(id) PROVE IInv'
    BY <1>3, DeletePreserves DEF AdminRelease, ById
  <1> QED BY <1>1, <1>2, <1>3

LEMMA AdminAssignPreserves ==
  ASSUME IInv, NEW v \in VM, NEW o \in Owner, NEW d \in Device, AdminAssign(v, o, d)
  PROVE  IInv'
  <1> DEFINE kept == reapLocked(leases)
  <1>1. up /\ UNCHANGED <<up, vms>>
    BY DEF AdminAssign
  <1>2. CASE leases' = kept /\ UNCHANGED <<disk, promised, released, unsaved>>
    BY <1>1, <1>2, ReapPreserves DEF IInv, TypeOK
  <1>3. CASE /\ ~AssignConflict(kept, v, o, d)
             /\ \E id \in FreshId, ok \in BOOLEAN :
                  LET new == [id |-> id, vm |-> v, owner |-> o, device |-> d, left |-> TTL] IN
                  /\ leases' = Inserted(kept, new, ok)
                  /\ Persist(ok, {})
                  /\ IF ok THEN Tell(new) ELSE TellNobody
    <2>1. PICK id \in FreshId, ok \in BOOLEAN :
            LET new == [id |-> id, vm |-> v, owner |-> o, device |-> d, left |-> TTL] IN
            /\ leases' = Inserted(kept, new, ok)
            /\ Persist(ok, {})
            /\ IF ok THEN Tell(new) ELSE TellNobody
      BY <1>3
    <2> DEFINE new == [id |-> id, vm |-> v, owner |-> o, device |-> d, left |-> TTL]
    <2>2. OnVM(kept, v) = {} /\ OfClient(kept, o, d) = {}
      BY <1>3 DEF AssignConflict
    <2>3. new.id = id
      OBVIOUS
    <2>4. new = [id |-> id, vm |-> v, owner |-> o, device |-> d, left |-> TTL]
      OBVIOUS
    <2>5. leases' = Inserted(kept, new, ok) /\ Persist(ok, {})
          /\ IF ok THEN Tell(new) ELSE TellNobody
      BY <2>1
    <2> HIDE DEF new
    <2>6. promised' = promised \cup (IF ok THEN {new} ELSE {})
      <3>1. ById(promised, new.id) = {}
        BY <2>3 DEF ById, FreshId, Ids
      <3> QED BY <2>5, <3>1 DEF Tell, TellNobody
    <2>7. \A p \in promised : Covers(kept, p)
      BY <1>1, AfterReap
    <2> QED
      BY <1>1, <2>2, <2>4, <2>5, <2>6, <2>7, InsertPreserves
  <1> QED BY <1>2, <1>3 DEF AdminAssign

LEMMA UpdateVMsPreserves ==
  ASSUME IInv, NEW S \in SUBSET VM, NEW f \in [S -> Discovered], UpdateVMs(S, f)
  PROVE  IInv'
  <1> DEFINE found(v) == [vms[v] EXCEPT !.addr = f[v].addr,
                                        !.port = IF f[v].port > 0 THEN f[v].port ELSE @]
  <1>1. vms' \in [VM -> VMRecord]
    <2>1. vms \in [VM -> VMRecord]
      BY DEF IInv, TypeOK
    <2>2. ASSUME NEW v \in S PROVE found(v) \in VMRecord
      <3>1. vms[v] \in VMRecord /\ f[v].addr \in Addr /\ f[v].port \in Port \cup {0}
        BY <2>1 DEF Discovered
      <3> QED BY <3>1 DEF VMRecord
    <2>3. vms' = [v \in VM |-> IF v \in S THEN found(v) ELSE vms[v]]
      BY DEF UpdateVMs
    <2> HIDE DEF found
    <2> QED BY <2>1, <2>2, <2>3
  <1>2. UNCHANGED <<up, leases, disk, promised, released, unsaved>>
    BY DEF UpdateVMs
  <1> QED
    BY <1>1, <1>2 DEF IInv, TypeOK, NoDoubleAssignment, Durable, PromiseKept, PromisesLive

LEMMA CrashPreserves ==
  ASSUME IInv, Crash
  PROVE  IInv'
  BY DEF Crash, IInv, TypeOK, NoDoubleAssignment, Durable, PromiseKept, PromisesLive,
         Exclusive

LEMMA RestartPreserves ==
  ASSUME IInv, NEW c \in Configs, Restart(c)
  PROVE  IInv'
  <1>1. leases' \subseteq disk /\ disk \subseteq Lease
    BY ReapFacts DEF Restart, IInv, TypeOK
  <1>2. TypeOK'
    BY <1>1, ConfigType DEF Restart, IInv, TypeOK
  <1>3. NoDoubleAssignment'
    BY <1>1, SubsetExclusive DEF Restart, IInv, NoDoubleAssignment
  <1>4. Durable'
    BY <1>1, LeftBound DEF Restart, Durable, BackedBy, SameReservation
  <1>5. PromiseKept'
    BY ReapCovers DEF Restart, IInv, TypeOK, PromiseKept, PromisesLive
  <1>6. PromisesLive'
    BY DEF Restart, IInv, PromisesLive
  <1> QED BY <1>2, <1>3, <1>4, <1>5, <1>6 DEF IInv

\* Ageing keeps a table exclusive: an old lease determines the aged one.
LEMMA AgedExclusive ==
  ASSUME NEW ls \in SUBSET Lease, Exclusive(ls)
  PROVE  Exclusive(Aged(ls))
  <1> SUFFICES ASSUME NEW a \in Aged(ls), NEW b \in Aged(ls),
                      \/ a.vm = b.vm
                      \/ a.owner = b.owner /\ a.device = b.device
                      \/ a.id = b.id
               PROVE  a = b
    BY DEF Exclusive
  <1> DEFINE age(l) == [l EXCEPT !.left = IF @ > 0 THEN @ - 1 ELSE 0]
  <1>1. PICK k \in ls, l \in ls : a = age(k) /\ b = age(l)
    BY DEF Aged
  <1>2. k.vm = a.vm /\ k.owner = a.owner /\ k.device = a.device /\ k.id = a.id
    BY <1>1 DEF Lease
  <1>3. l.vm = b.vm /\ l.owner = b.owner /\ l.device = b.device /\ l.id = b.id
    BY <1>1 DEF Lease
  <1>4. k = l
    BY <1>2, <1>3 DEF Exclusive
  <1> QED BY <1>1, <1>4

\* An aged promise is covered by the aged table.
LEMMA AgedCovers ==
  ASSUME NEW ls \in SUBSET Lease, NEW ps \in SUBSET Lease,
         \A p \in ps : Covers(ls, p), NEW a \in Aged(ps)
  PROVE  Covers(Aged(ls), a)
  <1>1. PICK p \in ps : SameReservation(a, p) /\ a.left = IF p.left > 0 THEN p.left - 1 ELSE 0
    BY AgedFacts
  <1>2. PICK l \in ls : SameReservation(p, l) /\ p.left <= l.left
    BY DEF Covers
  <1>3. PICK b \in Aged(ls) : SameReservation(b, l) /\ b.left = IF l.left > 0 THEN l.left - 1 ELSE 0
    BY AgedFacts
  <1>4. a.left <= b.left
    BY <1>1, <1>2, <1>3, LeftBound
  <1>5. SameReservation(a, b)
    BY <1>1, <1>2, <1>3 DEF SameReservation
  <1> QED BY <1>4, <1>5 DEF Covers

LEMMA TickPreserves ==
  ASSUME IInv, Tick
  PROVE  IInv'
  <1>1. TypeOK'
    <2>1. Aged(leases) \subseteq Lease /\ Aged(disk) \subseteq Lease /\ Aged(promised) \subseteq Lease
      BY AgedFacts DEF IInv, TypeOK
    <2> QED BY <2>1 DEF Tick, IInv, TypeOK
  <1>2. NoDoubleAssignment'
    BY AgedExclusive DEF Tick, IInv, TypeOK, NoDoubleAssignment
  <1>3. Durable'
    <2> SUFFICES ASSUME NEW a \in Aged(leases)
                 PROVE  BackedBy(a, Aged(disk), unsaved)
      BY DEF Tick, Durable
    <2>1. leases \subseteq Lease /\ disk \subseteq Lease
      BY DEF IInv, TypeOK
    <2>2. PICK l \in leases : SameReservation(a, l) /\ a.left = IF l.left > 0 THEN l.left - 1 ELSE 0
      BY <2>1, AgedFacts
    <2>3. PICK m \in disk : /\ SameReservation(l, m) /\ m.left <= l.left
                            /\ l.id \in unsaved \/ m.left = l.left
      BY DEF IInv, Durable, BackedBy
    <2>4. PICK b \in Aged(disk) : SameReservation(b, m) /\ b.left = IF m.left > 0 THEN m.left - 1 ELSE 0
      BY <2>1, AgedFacts
    <2>5. b.left <= a.left
      BY <2>1, <2>2, <2>3, <2>4, LeftBound
    <2>6. a.id \in unsaved \/ b.left = a.left
      <3>1. CASE m.left = l.left
        BY <2>2, <2>4, <3>1
      <3>2. CASE l.id \in unsaved
        BY <2>2, <3>2 DEF SameReservation
      <3> QED BY <2>3, <3>1, <3>2
    <2> QED BY <2>2, <2>3, <2>4, <2>5, <2>6 DEF SameReservation, BackedBy
  <1>4. PromiseKept'
    <2> SUFFICES ASSUME NEW a \in Aged(promised)
                 PROVE  Covers(Aged(disk), a) /\ (up => Covers(Aged(leases), a))
      BY DEF Tick, PromiseKept
    <2>1. leases \subseteq Lease /\ disk \subseteq Lease /\ promised \subseteq Lease
      BY DEF IInv, TypeOK
    <2>2. \A p \in promised : Covers(disk, p)
      BY DEF IInv, PromiseKept
    <2>3. CASE up
      <3>1. \A p \in promised : Covers(leases, p)
        BY <2>3 DEF IInv, PromiseKept
      <3> QED BY <2>1, <2>2, <3>1, AgedCovers
    <2>4. CASE ~up
      BY <2>1, <2>2, <2>4, AgedCovers
    <2> QED BY <2>3, <2>4
  <1>5. PromisesLive'
    BY DEF Tick, PromisesLive
  <1> QED BY <1>1, <1>2, <1>3, <1>4, <1>5 DEF IInv

-------------------------------------------------------------------------------
(* Theorems *)

LEMMA InitIInv == Init => IInv
  <1> SUFFICES ASSUME Init PROVE IInv
    OBVIOUS
  <1>1. TypeOK
    BY ConfigType DEF Init, TypeOK
  <1> QED
    BY <1>1 DEF Init, IInv, NoDoubleAssignment, Exclusive, Durable, PromiseKept, PromisesLive

LEMMA NextIInv == IInv /\ [Next]_vars => IInv'
  <1> SUFFICES ASSUME IInv, [Next]_vars PROVE IInv'
    OBVIOUS
  <1>1. CASE UNCHANGED vars
    BY <1>1 DEF vars, IInv, TypeOK, NoDoubleAssignment, Durable, PromiseKept, PromisesLive
  <1>2. CASE \E o \in Owner, d \in Device : CreateOrRecover(o, d)
    BY <1>2, CreateOrRecoverPreserves
  <1>3. CASE \E id \in LeaseId, o \in Owner : Heartbeat(id, o)
    BY <1>3, HeartbeatPreserves
  <1>4. CASE \E id \in LeaseId, o \in Owner : Release(id, o)
    BY <1>4, ReleasePreserves
  <1>5. CASE LeaseVM \/ AdminSnapshot \/ AdminLease \/ \E id \in LeaseId : AdminRelease(id)
    BY <1>5, AdminPreserves DEF AdminLease
  <1>6. CASE \E v \in VM, o \in Owner, d \in Device : AdminAssign(v, o, d)
    BY <1>6, AdminAssignPreserves
  <1>7. CASE \E S \in SUBSET VM : \E f \in [S -> Discovered] : UpdateVMs(S, f)
    BY <1>7, UpdateVMsPreserves
  <1>8. CASE Crash
    BY <1>8, CrashPreserves
  <1>9. CASE \E c \in Configs : Restart(c)
    BY <1>9, RestartPreserves
  <1>10. CASE Tick
    BY <1>10, TickPreserves
  <1> QED
    BY <1>1, <1>2, <1>3, <1>4, <1>5, <1>6, <1>7, <1>8, <1>9, <1>10 DEF Next

\* The inductive invariant holds in every reachable state of the store.
THEOREM Invariance == Spec => []IInv
  BY InitIInv, NextIInv, PTL DEF Spec

\* Every reachable state of the store is well typed: in particular no lease
\* ever has more than the configured TTL to live.
THEOREM TypeCorrect == Spec => []TypeOK
  <1>1. IInv => TypeOK
    BY DEF IInv
  <1> QED BY <1>1, Invariance, PTL

\* Neither the lease table nor the state file ever assigns a VM twice or gives
\* a client two VMs, whatever fails, crashes or is reconfigured.
THEOREM NeverDoubleAssigned == Spec => []NoDoubleAssignment
  <1>1. IInv => NoDoubleAssignment
    BY DEF IInv
  <1> QED BY <1>1, Invariance, PTL

\* A crash never makes up or lengthens a lease, and takes from one only a
\* renewal that could not be saved.
THEOREM AlwaysDurable == Spec => []Durable
  <1>1. IInv => Durable
    BY DEF IInv
  <1> QED BY <1>1, Invariance, PTL

\* A VM promised until a given time stays reserved until then, across failed
\* writes, crashes and restarts.
THEOREM PromisesAreKept == Spec => []PromiseKept
  <1>1. IInv => PromiseKept
    BY DEF IInv
  <1> QED BY <1>1, Invariance, PTL

\* Two clients never hold an unexpired promise for the same VM.
THEOREM NoSharedVM == Spec => []OneClientPerVM
  <1>1. IInv => OneClientPerVM
    BY DEF IInv, PromiseKept, NoDoubleAssignment, OneClientPerVM, Covers,
           SameReservation, Exclusive
  <1> QED BY <1>1, Invariance, PTL

\* The store is well typed and gives a VM to one client, in its tables and in
\* what it has told its clients.
THEOREM StoreIsExclusive == Spec => []StoreInv
  BY TypeCorrect, NeverDoubleAssigned, NoSharedVM, PTL DEF StoreInv

-----------------------------------------------------------------------------
(* The lease store implements the abstract pool of timed exclusive claims: *)
(* every step of the store is, seen through Claims, an assignment, a       *)
(* withdrawal, the passing of time or nothing.                             *)

Claimant(p) == <<p.owner, p.device>>
ClaimOf(p) == [vm |-> p.vm, client |-> Claimant(p), left |-> p.left]

LEMMA ClaimsFact == Claims = {ClaimOf(p) : p \in promised}
  BY DEF Claims, ClaimOf, Claimant

\* Dropping every promise of one client is a withdrawal.
LEMMA WithdrawStep ==
  ASSUME NEW c \in Owner \X Device,
         promised' = {p \in promised : Claimant(p) # c}
  PROVE  Pool!Next
  <1>1. Claims' = {ClaimOf(p) : p \in promised'}
    BY DEF Claims, ClaimOf, Claimant
  <1>2. \A p : ClaimOf(p).client = Claimant(p)
    BY DEF ClaimOf
  <1>3. Claims' = {h \in Claims : h.client # c}
    BY <1>1, <1>2, ClaimsFact
  <1>4. Pool!Withdraw(c)
    BY <1>3 DEF Pool!Withdraw, Pool!Others
  <1> QED BY <1>4 DEF Pool!Next

\* Replacing the promises of one client by a full one for a VM on which nobody
\* else holds a promise is an assignment.
LEMMA AssignStep ==
  ASSUME NEW c \in Owner \X Device, NEW new, new.vm \in VM, new.left = TTL,
         Claimant(new) = c,
         promised' = {p \in promised : Claimant(p) # c} \cup {new},
         \A p \in promised : Claimant(p) # c => p.vm # new.vm
  PROVE  Pool!Next
  <1>1. Claims' = {ClaimOf(p) : p \in promised'}
    BY DEF Claims, ClaimOf, Claimant
  <1>2. \A p : ClaimOf(p).client = Claimant(p) /\ ClaimOf(p).vm = p.vm
    BY DEF ClaimOf
  <1>3. Claims' = {h \in Claims : h.client # c} \cup {ClaimOf(new)}
    BY <1>1, <1>2, ClaimsFact
  <1>4. ClaimOf(new) = [vm |-> new.vm, client |-> c, left |-> TTL]
    BY DEF ClaimOf
  <1>5. \A h \in Claims : h.client # c => h.vm # new.vm
    BY <1>2, ClaimsFact
  <1>6. Pool!Assign(new.vm, c)
    BY <1>3, <1>4, <1>5 DEF Pool!Assign, Pool!Others
  <1> QED BY <1>6 DEF Pool!Next

\* While the coordinator is up, a promise and a lease that agree on the client,
\* on the VM or on the id agree on all three.
LEMMA SameLease ==
  ASSUME IInv, up, NEW p \in promised, NEW l \in leases
  PROVE  /\ (p.id = l.id) <=> (Claimant(p) = Claimant(l))
         /\ (p.id = l.id) <=> (p.vm = l.vm)
  <1>1. PICK m \in leases : SameReservation(p, m)
    BY DEF IInv, PromiseKept, Covers
  <1>2. (l.id = m.id \/ Claimant(l) = Claimant(m) \/ l.vm = m.vm) => l = m
    BY DEF IInv, NoDoubleAssignment, Exclusive, Claimant
  <1>3. p.id = m.id /\ p.vm = m.vm /\ Claimant(p) = Claimant(m)
    BY <1>1 DEF SameReservation, Claimant
  <1> QED BY <1>2, <1>3

\* Recover and Heartbeat: a renewal is an assignment of the same VM to the
\* same client, or nothing when the file could not be written.
LEMMA RenewStep ==
  ASSUME IInv, up, NEW l \in reapLocked(leases), NEW ok \in BOOLEAN,
         IF ok THEN Tell(Renewed(l)) ELSE TellNobody
  PROVE  Pool!Next \/ UNCHANGED Claims
  <1>1. CASE ok
    <2>1. l \in leases /\ l \in Lease
      BY AfterReap
    <2>2. /\ Renewed(l).vm = l.vm /\ Renewed(l).id = l.id /\ Renewed(l).left = TTL
          /\ Claimant(Renewed(l)) = Claimant(l)
      BY <2>1, RenewedFacts DEF SameReservation, Claimant
    <2>3. l.vm \in VM /\ Claimant(l) \in Owner \X Device
      BY <2>1 DEF Lease, Claimant
    <2>4. promised' = {p \in promised : p.id # l.id} \cup {Renewed(l)}
      BY <1>1, <2>2 DEF Tell, ById
    <2>5. \A p \in promised : /\ (p.id = l.id) <=> (Claimant(p) = Claimant(l))
                              /\ (p.id = l.id) <=> (p.vm = l.vm)
      BY <2>1, SameLease
    <2>6. promised' = {p \in promised : Claimant(p) # Claimant(l)} \cup {Renewed(l)}
      BY <2>4, <2>5
    <2>7. \A p \in promised : Claimant(p) # Claimant(l) => p.vm # Renewed(l).vm
      BY <2>2, <2>5
    <2> QED BY <2>2, <2>3, <2>6, <2>7, AssignStep
  <1>2. CASE ~ok
    BY <1>2 DEF TellNobody, Claims
  <1> QED BY <1>1, <1>2

\* Release and AdminRelease withdraw the claim of the lease's client.
LEMMA GiveUpStep ==
  ASSUME IInv, up, NEW l \in leases, GiveUp({l})
  PROVE  Pool!Next
  <1>1. l \in Lease
    BY DEF IInv, TypeOK
  <1>2. Claimant(l) \in Owner \X Device
    BY <1>1 DEF Lease, Claimant
  <1>3. promised' = {p \in promised : p.id # l.id}
    BY DEF GiveUp, Ids
  <1>4. promised' = {p \in promised : Claimant(p) # Claimant(l)}
    BY <1>3, SameLease
  <1> QED BY <1>2, <1>4, WithdrawStep

LEMMA CreateOrRecoverStep ==
  ASSUME IInv, NEW o \in Owner, NEW d \in Device, CreateOrRecover(o, d)
  PROVE  Pool!Next \/ UNCHANGED Claims
  <1> DEFINE kept == reapLocked(leases)
             gone == Unrecoverable(o, d)
             rest == {p \in promised : p.id \notin Ids(gone)}
  <1>1. up
    BY DEF CreateOrRecover
  <1>2. CASE Recover(o, d)
    BY <1>1, <1>2, RenewStep DEF Recover, OfClient
  <1>3. Searched(o, d) = kept \ gone /\ gone \subseteq leases
        /\ \A l \in gone : Claimant(l) = <<o, d>>
    BY AfterReap DEF Searched, Unrecoverable, OfClient, Claimant
  <1>4. ASSUME NothingToRecover(o, d)
        PROVE  rest = {p \in promised : Claimant(p) # <<o, d>>}
    <2>1. ASSUME NEW p \in promised, Claimant(p) = <<o, d>>
          PROVE  p.id \in Ids(gone)
      <3>1. PICK l \in kept : SameReservation(p, l)
        BY <1>1, AfterReap DEF Covers
      <3>2. l.owner = o /\ l.device = d /\ l.id = p.id
        BY <2>1, <3>1 DEF SameReservation, Claimant
      <3>3. l \notin Searched(o, d)
        BY <1>4, <3>2 DEF NothingToRecover, OfClient
      <3> QED BY <1>3, <3>2, <3>3 DEF Ids
    <2>2. ASSUME NEW p \in promised, p.id \in Ids(gone)
          PROVE  Claimant(p) = <<o, d>>
      <3>1. PICK l \in gone : l.id = p.id
        BY <2>2 DEF Ids
      <3>2. Claimant(p) = Claimant(l)
        BY <1>1, <1>3, <3>1, SameLease
      <3> QED BY <1>3, <3>2
    <2> QED BY <2>1, <2>2
  <1>5. <<o, d>> \in Owner \X Device
    OBVIOUS
  <1>6. CASE Grant(o, d)
    <2>1. PICK v \in FreeVMs(Searched(o, d)), id \in FreshId, ok \in BOOLEAN :
            promised' = rest \cup
              (IF ok THEN {[id |-> id, vm |-> v, owner |-> o, device |-> d, left |-> TTL]} ELSE {})
      BY <1>6 DEF Grant
    <2>2. v \in VM /\ OnVM(Searched(o, d), v) = {}
      BY DEF FreeVMs
    <2>3. rest = {p \in promised : Claimant(p) # <<o, d>>}
      BY <1>4, <1>6 DEF Grant
    <2>4. ASSUME NEW p \in promised, Claimant(p) # <<o, d>>
          PROVE  p.vm # v
      <3>1. PICK l \in kept : SameReservation(p, l)
        BY <1>1, AfterReap DEF Covers
      <3>2. Claimant(l) = Claimant(p) /\ l.vm = p.vm
        BY <3>1 DEF SameReservation, Claimant
      <3>3. l \in Searched(o, d)
        BY <1>3, <2>4, <3>2
      <3> QED BY <2>2, <3>2, <3>3 DEF OnVM
    <2> DEFINE new == [id |-> id, vm |-> v, owner |-> o, device |-> d, left |-> TTL]
    <2>5. new.vm = v /\ new.left = TTL /\ Claimant(new) = <<o, d>>
      BY DEF Claimant
    <2>6. CASE ok
      <3>1. promised' = {p \in promised : Claimant(p) # <<o, d>>} \cup {new}
        BY <2>1, <2>3, <2>6
      <3> HIDE DEF new
      <3> QED BY <1>5, <2>2, <2>4, <2>5, <3>1, AssignStep
    <2>7. CASE ~ok
      <3>1. promised' = {p \in promised : Claimant(p) # <<o, d>>}
        BY <2>1, <2>3, <2>7
      <3> QED BY <1>5, <3>1, WithdrawStep
    <2> QED BY <2>6, <2>7
  <1>7. CASE PoolExhausted(o, d)
    <2>1. promised' = {p \in promised : Claimant(p) # <<o, d>>}
      BY <1>4, <1>7 DEF PoolExhausted, GiveUp
    <2> QED BY <1>5, <2>1, WithdrawStep
  <1> QED BY <1>2, <1>6, <1>7 DEF CreateOrRecover

LEMMA AdminAssignStep ==
  ASSUME IInv, NEW v \in VM, NEW o \in Owner, NEW d \in Device, AdminAssign(v, o, d)
  PROVE  Pool!Next \/ UNCHANGED Claims
  <1> DEFINE kept == reapLocked(leases)
  <1>1. CASE promised' = promised
    BY <1>1 DEF Claims
  <1>2. ASSUME ~AssignConflict(kept, v, o, d), NEW id \in FreshId,
               Tell([id |-> id, vm |-> v, owner |-> o, device |-> d, left |-> TTL])
        PROVE  Pool!Next
    <2> DEFINE new == [id |-> id, vm |-> v, owner |-> o, device |-> d, left |-> TTL]
    <2>1. new.id = id /\ new.vm = v /\ new.left = TTL /\ Claimant(new) = <<o, d>>
      BY DEF Claimant
    <2>2. Tell(new)
      BY <1>2
    <2>3. OnVM(kept, v) = {} /\ OfClient(kept, o, d) = {}
      BY <1>2 DEF AssignConflict
    <2>4. ASSUME NEW p \in promised
          PROVE  Claimant(p) # <<o, d>> /\ p.vm # v
      <3>1. PICK l \in kept : SameReservation(p, l)
        BY AfterReap DEF AdminAssign, Covers
      <3> QED BY <2>3, <3>1 DEF SameReservation, Claimant, OnVM, OfClient
    <2> HIDE DEF new
    <2>5. promised' = {p \in promised : Claimant(p) # <<o, d>>} \cup {new}
      <3>1. ById(promised, new.id) = {}
        BY <2>1 DEF ById, FreshId, Ids
      <3> QED BY <2>2, <2>4, <3>1 DEF Tell
    <2>6. <<o, d>> \in Owner \X Device
      OBVIOUS
    <2> QED BY <2>1, <2>4, <2>5, <2>6, AssignStep
  <1> QED BY <1>1, <1>2 DEF AdminAssign, TellNobody

LEMMA HeartbeatStep ==
  ASSUME IInv, NEW id \in LeaseId, NEW o \in Owner, Heartbeat(id, o)
  PROVE  Pool!Next \/ UNCHANGED Claims
  <1>1. CASE promised' = promised
    BY <1>1 DEF Claims
  <1>2. ASSUME NEW l \in reapLocked(leases), NEW ok \in BOOLEAN,
               IF ok THEN Tell(Renewed(l)) ELSE TellNobody
        PROVE  Pool!Next \/ UNCHANGED Claims
    BY <1>2, RenewStep DEF Heartbeat
  <1> QED BY <1>1, <1>2 DEF Heartbeat, ById

LEMMA ReleaseStep ==
  ASSUME IInv, NEW id \in LeaseId, (\E o \in Owner : Release(id, o)) \/ AdminRelease(id)
  PROVE  Pool!Next \/ UNCHANGED Claims
  <1>1. CASE promised' = promised
    BY <1>1 DEF Claims
  <1>2. ASSUME NEW l \in leases, GiveUp({l}) PROVE Pool!Next
    BY <1>2, GiveUpStep DEF Release, AdminRelease
  <1> QED BY <1>1, <1>2 DEF Release, AdminRelease, ById

\* Time takes the same from a promise and from its claim, and drops both when
\* nothing is left.
LEMMA TickStep ==
  ASSUME IInv, Tick
  PROVE  Pool!Next
  <1> DEFINE age(l) == [l EXCEPT !.left = IF @ > 0 THEN @ - 1 ELSE 0]
             older(h) == [h EXCEPT !.left = @ - 1]
  <1>1. promised' = {a \in {age(p) : p \in promised} : a.left > 0}
    BY DEF Tick, Aged
  <1>2. ASSUME NEW p \in promised
        PROVE  /\ (age(p).left > 0) <=> (ClaimOf(p).left > 1)
               /\ ClaimOf(p).left > 1 => ClaimOf(age(p)) = older(ClaimOf(p))
    <2>1. p \in Lease /\ p.left > 0 /\ p.left \in Nat
      BY LeftBound DEF IInv, TypeOK, PromisesLive
    <2>2. age(p).left = p.left - 1
      BY <2>1 DEF Lease
    <2>3. age(p).vm = p.vm /\ age(p).owner = p.owner /\ age(p).device = p.device
      BY <2>1 DEF Lease
    <2>4. ClaimOf(p).left = p.left
      BY DEF ClaimOf
    <2>5. ClaimOf(age(p)) = older(ClaimOf(p))
      BY <2>2, <2>3 DEF ClaimOf, Claimant
    <2> QED BY <2>1, <2>2, <2>4, <2>5
  <1>3. Claims' = {ClaimOf(p) : p \in promised'}
    BY DEF Claims, ClaimOf, Claimant
  <1> HIDE DEF age, older
  <1>4. Claims' = {older(h) : h \in {g \in Claims : g.left > 1}}
    BY <1>1, <1>2, <1>3, ClaimsFact
  <1>5. Pool!Tick
    BY <1>4 DEF Pool!Tick, older
  <1> QED BY <1>5 DEF Pool!Next

LEMMA NextStep == IInv /\ [Next]_vars => [Pool!Next]_Claims
  <1> SUFFICES ASSUME IInv, [Next]_vars PROVE Pool!Next \/ UNCHANGED Claims
    OBVIOUS
  <1>1. CASE promised' = promised
    BY <1>1 DEF Claims
  <1>2. CASE \E o \in Owner, d \in Device : CreateOrRecover(o, d)
    BY <1>2, CreateOrRecoverStep
  <1>3. CASE \E id \in LeaseId, o \in Owner : Heartbeat(id, o)
    BY <1>3, HeartbeatStep
  <1>4. CASE \E id \in LeaseId : (\E o \in Owner : Release(id, o)) \/ AdminRelease(id)
    BY <1>4, ReleaseStep
  <1>5. CASE \E v \in VM, o \in Owner, d \in Device : AdminAssign(v, o, d)
    BY <1>5, AdminAssignStep
  <1>6. CASE Tick
    BY <1>6, TickStep
  <1> QED
    BY <1>1, <1>2, <1>3, <1>4, <1>5, <1>6
    DEF Next, vars, LeaseVM, AdminLease, AdminSnapshot, UpdateVMs, Crash, Restart

\* The coordinator's lease store implements the abstract pool: seen from the
\* clients, a VM is only ever given to somebody while nobody else has an
\* unexpired claim on it, and a claim lasts its full time.
THEOREM StoreImplementsPool == Spec => ImplementsPool
  <1>1. Init => Pool!Init
    BY DEF Init, Pool!Init, Claims
  <1> QED BY <1>1, NextStep, Invariance, PTL DEF Spec, ImplementsPool, Pool!Spec

-------------------------------------------------------------------------------
(* The coordinator                                                         *)

\* The store's inductive invariant, and well-formed tasks.
CInv == IInv /\ task \in [Slot -> Task]

LEMMA ZeroTicks == 0 \in 0..MaxTicks
  BY TicksAssumption DEF MaxTicks

LEMMA StoreInit == CInit => Init
  BY DEF CInit

LEMMA StoreNext == CInv /\ [CNext]_cvars => [Next]_vars
  <1> SUFFICES ASSUME CInv, [CNext]_cvars PROVE Next \/ UNCHANGED vars
    OBVIOUS
  <1>1. CASE UNCHANGED cvars
    BY <1>1 DEF cvars
  <1>2. ASSUME NEW s \in Slot, NEW o \in Owner, NEW d \in Device, createLease(s, o, d)
        PROVE  UNCHANGED vars
    BY <1>2 DEF createLease
  <1>3. ASSUME NEW s \in Slot, NEW id \in LeaseId, NEW o \in Owner,
               pairLease(s, id, o) \/ relay(s, id, o) \/ release(s, id, o)
        PROVE  Next
    BY <1>3 DEF pairLease, relay, release, CheckThenWait, Next
  <1>4. ASSUME NEW s \in Slot, adminStatus(s) \/ RelayEnds(s)
        PROVE  UNCHANGED vars
    BY <1>4 DEF adminStatus, RelayEnds
  <1>5. ASSUME NEW s \in Slot, NEW id \in LeaseId, adminKick(s, id)
        PROVE  Next
    BY <1>5 DEF adminKick, Next
  <1>6. ASSUME NEW s \in Slot, Work(s)
        PROVE  Next \/ UNCHANGED vars
    <2>1. task[s] \in Task
      BY DEF CInv
    <2>2. CASE \E S \in SUBSET VM : \E f \in [S -> Discovered] : Refresh(s, S, f)
      BY <2>2 DEF Refresh, Next
    <2>3. CASE createLeaseAllocate(s)
      <3>1. task[s].owner \in Owner /\ task[s].device \in Device
        BY <2>1, <2>3 DEF createLeaseAllocate, Task, Idle
      <3> QED BY <2>3, <3>1 DEF createLeaseAllocate, Next
    <2>4. CASE adminStatusSnapshot(s)
      BY <2>4 DEF adminStatusSnapshot, Next
    <2>5. CASE watchRelayLease(s)
      BY <2>5 DEF watchRelayLease, Next
    <2>6. CASE releaseDelete(s)
      <3>1. task[s].id \in LeaseId /\ task[s].owner \in Owner
        BY <2>1, <2>6 DEF releaseDelete, Task, Idle
      <3> QED BY <2>6, <3>1 DEF releaseDelete, Next
    <2>7. CASE adminKickRelease(s)
      <3>1. \A l \in KickTarget(task[s].lease) : l.id \in LeaseId
        BY DEF CInv, IInv, TypeOK, KickTarget, ById, Lease
      <3> QED BY <2>7, <3>1 DEF adminKickRelease, Next
    <2> QED
      BY <1>6, <2>2, <2>3, <2>4, <2>5, <2>6, <2>7
      DEF Work, RefreshFailed, removeStaleClients, tryPair, PairFails, DialRelay, CloseApp
  <1>7. CASE SingleStep
    BY <1>7 DEF SingleStep, Next
  <1>8. CASE (\E p \in promised : StartSession(p)) \/ (\E v \in VM : EndSession(v))
    BY <1>8 DEF StartSession, EndSession
  <1>9. CASE CCrash \/ CTick
    BY <1>9 DEF CCrash, CTick, Next
  <1> QED
    BY <1>1, <1>2, <1>3, <1>4, <1>5, <1>6, <1>7, <1>8, <1>9 DEF CNext

\* What a handler does next is again something a handler does.
LEMMA TaskNext == CInv /\ [CNext]_cvars => task' \in [Slot -> Task]
  <1> SUFFICES ASSUME CInv, [CNext]_cvars PROVE task' \in [Slot -> Task]
    OBVIOUS
  <1>0. task \in [Slot -> Task] /\ Idle \in Task
    BY DEF CInv, Task
  <1>1. CASE UNCHANGED task
    BY <1>0, <1>1
  <1>2. ASSUME NEW s \in Slot, NEW t \in Task, Become(s, t)
        PROVE  task' \in [Slot -> Task]
    BY <1>0, <1>2 DEF Become
  <1>3. ASSUME NEW s \in Slot, NEW o \in Owner, NEW d \in Device, createLease(s, o, d)
        PROVE  task' \in [Slot -> Task]
    <2>1. [op |-> "browse", owner |-> o, device |-> d] \in Task
      BY DEF Task
    <2> QED BY <1>2, <1>3, <2>1 DEF createLease
  <1>4. ASSUME NEW op \in {"close", "pair", "pin", "dial", "relay"}, NEW l \in Lease
        PROVE  Waiting(op, l) \in Task
    <2>1. 0 \in 0..MaxTicks
      BY ZeroTicks
    <2>2. Res(l) \in Reservation
      BY DEF Res, Reservation, Lease
    <2> QED BY <2>1, <2>2 DEF Waiting, Task
  <1>5. reapLocked(leases) \subseteq Lease
    BY AfterReap DEF CInv
  <1>6. ASSUME NEW s \in Slot, NEW id \in LeaseId, NEW o \in Owner,
               pairLease(s, id, o) \/ relay(s, id, o) \/ release(s, id, o)
        PROVE  task' \in [Slot -> Task]
    <2>1. [op |-> "delete", id |-> id, owner |-> o] \in Task
      BY DEF Task
    <2>2. CASE release(s, id, o)
      BY <1>1, <1>2, <2>1, <2>2 DEF release
    <2>3. \A l \in Checked(id, o) : l \in Lease
      BY <1>5 DEF Checked, ById
    <2>4. ASSUME NEW op \in {"pair", "dial"}, CheckThenWait(s, op, id, o)
          PROVE  task' \in [Slot -> Task]
      BY <1>1, <1>2, <1>4, <2>3, <2>4 DEF CheckThenWait
    <2> QED BY <1>6, <2>2, <2>4 DEF pairLease, relay
  <1>7. ASSUME NEW s \in Slot, adminStatus(s) PROVE task' \in [Slot -> Task]
    <2>1. \A op \in {"browseStatus", "snapshot"} : [op |-> op] \in Task
      BY DEF Task
    <2> QED BY <1>2, <1>7, <2>1 DEF adminStatus
  <1>8. ASSUME NEW s \in Slot, NEW id \in LeaseId, adminKick(s, id)
        PROVE  task' \in [Slot -> Task]
    <2>1. \A l \in ById(reapLocked(leases), id) : l \in Lease
      BY <1>5 DEF ById
    <2>2. \A l \in Lease : [op |-> "kick", lease |-> Res(l)] \in Task
      BY DEF Task, Res, Reservation, Lease
    <2> QED BY <1>1, <1>2, <1>4, <1>8, <2>1, <2>2 DEF adminKick
  <1>9. ASSUME NEW s \in Slot, Work(s) \/ RelayEnds(s) PROVE task' \in [Slot -> Task]
    <2>1. task[s] \in Task
      BY <1>0
    <2>2. ASSUME task[s].op \in {"browse", "browseStatus"}
          PROVE  /\ task[s].op = "browse" => [task[s] EXCEPT !.op = "allocate"] \in Task
                 /\ task[s].op = "browseStatus" => [task[s] EXCEPT !.op = "snapshot"] \in Task
      <3>1. CASE task[s].op = "browse"
        <4>1. task[s] \in [op : {"browse", "allocate"}, owner : Owner, device : Device]
          BY <2>1, <3>1 DEF Task, Idle
        <4> QED BY <3>1, <4>1 DEF Task
      <3>2. CASE task[s].op = "browseStatus"
        <4>1. task[s] \in [op : {"browseStatus", "snapshot"}]
          BY <2>1, <3>2 DEF Task, Idle
        <4> QED BY <3>2, <4>1 DEF Task
      <3> QED BY <2>2, <3>1, <3>2
    <2>3. task[s].op = "close" => [op |-> "kick", lease |-> task[s].lease] \in Task
      BY <2>1 DEF Task, Idle
    <2>4. task[s].op = "pair" => [task[s] EXCEPT !.op = "pin"] \in Task
      BY <2>1 DEF Task, Idle
    <2>5. 0 \in 0..MaxTicks
      BY ZeroTicks
    <2>6. ASSUME task[s].op \in {"dial", "relay"}
          PROVE  /\ [task[s] EXCEPT !.op = "relay", !.age = 0] \in Task
                 /\ [task[s] EXCEPT !.age = 0] \in Task
      <3>1. task[s] \in [op : {"close", "pair", "pin", "dial", "relay"}, lease : Reservation,
                          age : 0..MaxTicks, dead : Nat]
        BY <2>1, <2>6 DEF Task, Idle
      <3> QED BY <2>5, <3>1 DEF Task
    <2>8. CASE \E S \in SUBSET VM : \E f \in [S -> Discovered] : Refresh(s, S, f)
      BY <1>2, <2>2, <2>8 DEF Refresh
    <2>9. CASE RefreshFailed(s)
      BY <1>0, <1>2, <2>2, <2>9 DEF RefreshFailed
    <2>10. CASE createLeaseAllocate(s) \/ adminStatusSnapshot(s) \/ releaseDelete(s)
                \/ adminKickRelease(s) \/ tryPair(s) \/ PairFails(s) \/ RelayEnds(s)
      BY <1>0, <1>2, <2>10
      DEF createLeaseAllocate, adminStatusSnapshot, releaseDelete, adminKickRelease,
          tryPair, PairFails, RelayEnds
    <2>11. CASE removeStaleClients(s) \/ DialRelay(s) \/ watchRelayLease(s) \/ CloseApp(s)
      BY <1>0, <1>2, <2>3, <2>4, <2>6, <2>11
      DEF removeStaleClients, DialRelay, watchRelayLease, CloseApp
    <2> QED BY <1>9, <2>8, <2>9, <2>10, <2>11 DEF Work
  <1>10. CASE CTick
    <2>1. ASSUME NEW s \in Slot PROVE Older(task[s]) \in Task
      <3>1. task[s] \in Task
        BY <1>0
      <3>2. CASE ~Timed(task[s])
        BY <3>1, <3>2 DEF Older
      <3>3. CASE Timed(task[s])
        <4>1. task[s] \in [op : {"close", "pair", "pin", "dial", "relay"}, lease : Reservation,
                           age : 0..MaxTicks, dead : Nat]
          BY <3>1, <3>3 DEF Timed, Limit, Task, Idle
        <4>2. task[s].age < Limit[task[s].op]
          BY <1>10, <3>3 DEF CTick
        <4>3. Limit[task[s].op] \in {CloseTicks, PairTicks, DialTicks, CheckTicks}
          BY <4>1 DEF Limit
        <4>4. task[s].age + 1 \in 0..MaxTicks
          BY <4>1, <4>2, <4>3, TicksAssumption DEF MaxTicks
        <4>5. DeadFor(task[s]) \in Nat
          BY <4>1 DEF DeadFor
        <4>6. Older(task[s]) = [task[s] EXCEPT !.age = task[s].age + 1,
                 !.dead = DeadFor(task[s])]
          BY <3>3 DEF Older
        <4> QED BY <4>1, <4>4, <4>5, <4>6 DEF Task
      <3> QED BY <3>2, <3>3
    <2> QED BY <1>10, <2>1 DEF CTick
  <1>11. CASE CCrash
    BY <1>0, <1>11 DEF CCrash
  <1>12. CASE SingleStep \/ (\E p \in promised : StartSession(p)) \/ (\E v \in VM : EndSession(v))
    BY <1>1, <1>12 DEF SingleStep, StartSession, EndSession
  <1> QED
    BY <1>1, <1>3, <1>6, <1>7, <1>8, <1>9, <1>10, <1>11, <1>12 DEF CNext, cvars

LEMMA CInvInit == CInit => CInv
  <1>1. Idle \in Task
    BY DEF Task
  <1> QED BY <1>1, InitIInv DEF CInit, CInv

LEMMA CInvNext == CInv /\ [CNext]_cvars => CInv'
  <1> SUFFICES ASSUME CInv, [CNext]_cvars PROVE CInv'
    OBVIOUS
  <1>1. IInv'
    BY StoreNext, NextIInv DEF CInv
  <1> QED BY <1>1, TaskNext DEF CInv

LEMMA CInvariance == CSpec => []CInv
  BY CInvInit, CInvNext, PTL DEF CSpec

\* Whatever the handlers interleave, the coordinator behaves as a lease store:
\* the store's theorems hold of it.
THEOREM CoordinatorImplementsStore == CSpec => Spec
  BY StoreInit, StoreNext, CInvariance, PTL DEF CSpec, Spec

\* A VM promised to a client stays reserved for it, and only for it, with any
\* number of handlers in flight.
THEOREM CoordinatorKeepsPromises == CSpec => [](PromiseKept /\ OneClientPerVM)
  BY CoordinatorImplementsStore, PromisesAreKept, NoSharedVM, PTL

\* A kick never ends another client's lease, however late it takes effect.
THEOREM KickIsPrecise == CSpec => KickHitsOnlyItsLease
  <1> DEFINE Precise == \A s \in Slot :
               task[s].op = "kick" /\ task'[s] = Idle
               => \A p \in promised : p.id = task[s].lease.id \/ p \in promised'
  <1>1. CInv /\ [CNext]_cvars => [Precise]_cvars
    <2> SUFFICES ASSUME CInv, CNext, NEW s \in Slot, task[s].op = "kick", task'[s] = Idle,
                        NEW p \in promised, p.id # task[s].lease.id
                 PROVE  p \in promised'
      OBVIOUS
    <2>1. CASE promised' = promised
      BY <2>1
    <2>2. task \in [Slot -> Task] /\ task[s] # Idle
      BY DEF CInv, Idle
    <2>3. ASSUME NEW r \in Slot, createLeaseAllocate(r) \/ releaseDelete(r)
          PROVE  FALSE
      <3>1. r # s
        BY <2>3 DEF createLeaseAllocate, releaseDelete
      <3>2. task'[s] = task[s]
        BY <2>2, <2>3, <3>1 DEF createLeaseAllocate, releaseDelete, Become
      <3> QED BY <2>2, <3>2
    <2>4. ASSUME NEW r \in Slot, adminKickRelease(r) PROVE p \in promised'
      <3>1. r = s
        BY <2>2, <2>4 DEF adminKickRelease, Become
      <3>2. ASSUME NEW l \in KickTarget(task[s].lease), AdminRelease(l.id)
            PROVE  p \in promised'
        <4>1. l.id = task[s].lease.id
          BY DEF KickTarget, ById
        <4> QED BY <3>2, <4>1 DEF AdminRelease, GiveUp, Ids, ById
      <3> QED BY <2>1, <2>4, <3>1, <3>2 DEF adminKickRelease, vars
    <2>5. CASE SingleStep \/ CTick
      <3>1. task'[s].op = "kick"
        BY <2>2, <2>5 DEF SingleStep, CTick, Older, Timed, Limit
      <3> QED BY <3>1 DEF Idle
    <2> QED
      BY <2>1, <2>3, <2>4, <2>5
      DEF CNext, Work, createLease, pairLease, relay, release, CheckThenWait, adminStatus,
          adminKick, RelayEnds, Refresh, UpdateVMs, RefreshFailed, adminStatusSnapshot, AdminSnapshot,
          LeaseVM, AdminLease, removeStaleClients, tryPair, PairFails, DialRelay, watchRelayLease,
          CloseApp, StartSession, EndSession, CCrash, Crash, vars
  <1> QED BY <1>1, CInvariance, PTL DEF CSpec, KickHitsOnlyItsLease

-------------------------------------------------------------------------------
(* How long a relay outlives its lease *)

\* Handlers run in a process.
Down == ~up => \A s \in Slot : task[s] = Idle

\* Dialling and the relay's watch each add at most their own time limit to what
\* has passed since the lease ended, because a lease that is live when the watch
\* looks has never ended.
Wait(t) ==
  /\ t.op = "dial" => t.age <= DialTicks /\ t.dead <= t.age
  /\ t.op = "relay" => t.age <= CheckTicks /\ t.dead <= DialTicks + t.age
  /\ t.op \in {"dial", "relay"} /\ Live(t.lease) => t.dead = 0

SessionOK == session \in [VM -> Client \cup {NoClient}] /\ paired \in [VM -> SUBSET Client]

WaitInv == CInv /\ SessionOK /\ Down /\ \A s \in Slot : Wait(task[s])

\* The handlers that wait for a lease's VM.
WaitingTask ==
  [op : {"close", "pair", "pin", "dial", "relay"}, lease : Reservation, age : 0..MaxTicks, dead : Nat]

LEMMA TimedTask ==
  ASSUME NEW t \in Task, Timed(t)
  PROVE  t \in WaitingTask
BY DEF Task, Timed, Limit, Idle, WaitingTask

\* A lease that is not in the table, or has run out there, does not come back
\* while a handler works with it: every renewal reaps first, a new lease has an
\* id that is not in use, and a restart finds no handler.
LEMMA StaysDead ==
  ASSUME WaitInv, [CNext]_cvars, NEW s \in Slot, Timed(task[s]), NEW id, task[s].lease.id = id,
         NEW m \in leases', m.id = id, m.left > 0
  PROVE  \E l \in leases : l.id = id /\ l.left > 0
<1> DEFINE Alive == \E l \in leases : l.id = id /\ l.left > 0
<1>i. IInv /\ Down /\ task \in [Slot -> Task]
  BY DEF WaitInv, CInv
<1>0. leases \subseteq Lease /\ reapLocked(leases) \subseteq leases /\ \A l \in reapLocked(leases) : l.left > 0
  BY <1>i DEF IInv, TypeOK, reapLocked
<1>1. CASE leases' \subseteq leases
  BY <1>1
<1>2. ASSUME NEW l \in reapLocked(leases), leases' = (reapLocked(leases) \ {l}) \cup {Renewed(l)}
      PROVE  Alive
  BY <1>0, <1>2, RenewedFacts DEF SameReservation
<1>3. ASSUME NEW i \in FreshId, NEW v \in VM, NEW o \in Owner, NEW d \in Device, UnusedIds,
             leases' \subseteq leases \cup {[id |-> i, vm |-> v, owner |-> o, device |-> d, left |-> TTL]}
      PROVE  Alive
  <2>1. i \notin Ids(leases)
    BY DEF FreshId
  <2>2. CASE m \in leases
    BY <2>2
  <2>3. CASE m \notin leases
    <3>1. m.id = i
      BY <1>3, <2>3
    <3>2. \A k \in Slot : Timed(task[k]) => task[k].lease.id # i
      BY <1>3, <2>1, <3>1 DEF UnusedIds
    <3>3. QED
      BY <3>1, <3>2
  <2>4. QED
    BY <2>2, <2>3
<1>4. ASSUME NEW o \in Owner, NEW d \in Device, CreateOrRecover(o, d), UnusedIds
      PROVE  Alive
  <2>1. CASE Recover(o, d)
    BY <1>2, <2>1 DEF Recover, OfClient
  <2>2. Searched(o, d) \subseteq leases
    BY <1>0 DEF Searched
  <2>3. CASE Grant(o, d)
    <3> PICK v \in VM, i \in FreshId, ok \in BOOLEAN :
          leases' = Inserted(Searched(o, d), [id |-> i, vm |-> v, owner |-> o, device |-> d, left |-> TTL], ok)
      BY <2>3 DEF Grant, FreeVMs
    <3>1. QED
      BY <1>3, <1>4, <2>2 DEF Inserted
  <2>4. CASE PoolExhausted(o, d)
    BY <1>1, <2>2, <2>4 DEF PoolExhausted
  <2>5. QED
    BY <1>4, <2>1, <2>3, <2>4 DEF CreateOrRecover
<1>5. ASSUME NEW v \in VM, NEW o \in Owner, NEW d \in Device, AdminAssign(v, o, d), UnusedIds
      PROVE  Alive
  <2>1. CASE leases' = reapLocked(leases)
    BY <1>0, <1>1, <2>1
  <2>2. ASSUME NEW i \in FreshId, NEW ok \in BOOLEAN,
               leases' = Inserted(reapLocked(leases), [id |-> i, vm |-> v, owner |-> o, device |-> d, left |-> TTL], ok)
        PROVE  Alive
    BY <1>0, <1>3, <1>5, <2>2 DEF Inserted
  <2>3. QED
    BY <1>5, <2>1, <2>2 DEF AdminAssign
<1>6. ASSUME NEW i \in LeaseId, NEW o \in Owner, Heartbeat(i, o)
      PROVE  Alive
  BY <1>0, <1>1, <1>2, <1>6 DEF Heartbeat, ById
<1>7. CASE Tick
  <2>1. PICK l \in leases : m = [l EXCEPT !.left = IF l.left > 0 THEN l.left - 1 ELSE 0]
    BY <1>7 DEF Tick, Aged
  <2>2. l \in Lease /\ l.left \in Nat
    BY <1>0, LeftBound
  <2>3. m.id = l.id /\ l.left > 0
    BY <2>1, <2>2 DEF Lease
  <2>4. QED
    BY <2>3
<1>8. CASE UNCHANGED leases \/ LeaseVM \/ AdminSnapshot \/ AdminLease \/ Crash
           \/ (\E i \in LeaseId : AdminRelease(i))
           \/ (\E i \in LeaseId, o \in Owner : Release(i, o))
  BY <1>0, <1>1, <1>8 DEF LeaseVM, AdminSnapshot, AdminLease, Crash, AdminRelease, Release
<1>9. up
  BY <1>i DEF Down, Timed, Limit, Idle
<1>10. CASE UNCHANGED cvars
  BY <1>8, <1>10 DEF cvars, vars
<1>11. ASSUME NEW r \in Slot, Work(r)
       PROVE  Alive
  <2>1. CASE createLeaseAllocate(r)
    <3>1. task[r].owner \in Owner /\ task[r].device \in Device
      BY <1>i, <2>1 DEF createLeaseAllocate, Task, Idle
    <3>2. QED
      BY <1>4, <2>1, <3>1 DEF createLeaseAllocate
  <2>2. CASE adminKickRelease(r)
    <3>1. \A l \in KickTarget(task[r].lease) : l.id \in LeaseId
      BY <1>0 DEF KickTarget, ById, Lease
    <3>2. QED
      BY <1>8, <2>2, <3>1 DEF adminKickRelease, vars
  <2>3. CASE releaseDelete(r)
    <3>1. task[r].id \in LeaseId /\ task[r].owner \in Owner
      BY <1>i, <2>3 DEF releaseDelete, Task, Idle
    <3>2. QED
      BY <1>8, <2>3, <3>1 DEF releaseDelete
  <2>4. CASE watchRelayLease(r) \/ adminStatusSnapshot(r)
    BY <1>8, <2>4 DEF watchRelayLease, adminStatusSnapshot
  <2>5. CASE \E S \in SUBSET VM : \E f \in [S -> Discovered] : Refresh(r, S, f)
    BY <1>8, <2>5 DEF Refresh, UpdateVMs
  <2>6. QED
    BY <1>8, <1>11, <2>1, <2>2, <2>3, <2>4, <2>5
       DEF Work, RefreshFailed, removeStaleClients, tryPair, PairFails, DialRelay, CloseApp, vars
<1>12. CASE SingleStep
  BY <1>5, <1>6, <1>9, <1>12 DEF SingleStep, Restart
<1>13. ASSUME NEW r \in Slot, NEW i \in LeaseId, NEW o \in Owner,
              pairLease(r, i, o) \/ relay(r, i, o) \/ release(r, i, o)
       PROVE  Alive
  BY <1>8, <1>13 DEF pairLease, relay, CheckThenWait, release
<1>14. ASSUME NEW r \in Slot,
              adminStatus(r) \/ RelayEnds(r) \/ (\E i \in LeaseId : adminKick(r, i))
              \/ (\E o \in Owner, d \in Device : createLease(r, o, d))
       PROVE  Alive
  BY <1>8, <1>14 DEF adminStatus, RelayEnds, adminKick, createLease, vars
<1>15. CASE (\E p \in promised : StartSession(p)) \/ (\E v \in VM : EndSession(v)) \/ CCrash \/ CTick
  BY <1>7, <1>8, <1>15 DEF StartSession, EndSession, CCrash, CTick, vars
<1>16. QED
  BY <1>10, <1>11, <1>12, <1>13, <1>14, <1>15 DEF CNext

\* What a step may do to a handler that then dials a VM or relays to it.
LEMMA RelaySteps ==
  ASSUME CInv, [CNext]_cvars, NEW s \in Slot, task'[s].op \in {"dial", "relay"}
  PROVE  \/ task'[s] = task[s]
         \/ \E l \in Lease : task'[s] = Waiting("dial", l)
         \/ task[s].op = "dial" /\ task'[s] = [task[s] EXCEPT !.op = "relay", !.age = 0]
         \/ /\ task[s].op = "relay" /\ LeaseHolds(task[s].lease)
            /\ task'[s] = [task[s] EXCEPT !.age = 0]
         \/ Timed(task[s]) /\ CTick /\ task'[s] = Older(task[s])
<1> DEFINE Goal ==
             \/ task'[s] = task[s]
             \/ \E l \in Lease : task'[s] = Waiting("dial", l)
             \/ task[s].op = "dial" /\ task'[s] = [task[s] EXCEPT !.op = "relay", !.age = 0]
             \/ /\ task[s].op = "relay" /\ LeaseHolds(task[s].lease)
                /\ task'[s] = [task[s] EXCEPT !.age = 0]
             \/ Timed(task[s]) /\ CTick /\ task'[s] = Older(task[s])
<1>1. task \in [Slot -> Task]
  BY DEF CInv
<1>2. CASE UNCHANGED task
  BY <1>2
<1>3. ASSUME NEW r \in Slot, NEW t, Become(r, t), r = s => t.op \notin {"dial", "relay"}
      PROVE  Goal
  <2>1. task'[r] = t /\ (r # s => task'[s] = task[s])
    BY <1>1, <1>3 DEF Become
  <2>2. QED
    BY <1>3, <2>1
<1>4. ASSUME NEW r \in Slot, Become(r, Idle)
      PROVE  Goal
  BY <1>3, <1>4 DEF Idle
<1>6. ASSUME NEW r \in Slot, NEW id \in LeaseId, NEW o \in Owner, NEW op \in {"pair", "dial"},
             CheckThenWait(r, op, id, o)
      PROVE  Goal
  <2>1. Checked(id, o) \subseteq Lease
    BY AfterReap DEF CInv, Checked, ById
  <2>2. CASE UNCHANGED task
    BY <1>2, <2>2
  <2>3. ASSUME NEW l \in Checked(id, o), Become(r, Waiting(op, l))
        PROVE  Goal
    <3>1. CASE r # s
      BY <1>1, <2>3, <3>1 DEF Become
    <3>2. CASE r = s
      <4>1. task'[s] = Waiting(op, l)
        BY <1>1, <2>3, <3>2 DEF Become
      <4>2. op = "dial"
        BY <4>1 DEF Waiting
      <4>3. QED
        BY <2>1, <4>1, <4>2
    <3>3. QED
      BY <3>1, <3>2
  <2>4. QED
    BY <1>6, <2>2, <2>3 DEF CheckThenWait
<1>7. ASSUME NEW r \in Slot, Work(r) \/ RelayEnds(r)
      PROVE  Goal
  <2>1. CASE DialRelay(r)
    <3>1. CASE Become(r, Idle)
      BY <1>4, <3>1
    <3>2. CASE Become(r, [task[r] EXCEPT !.op = "relay", !.age = 0])
      BY <1>1, <2>1, <3>2 DEF DialRelay, Become
    <3>3. QED
      BY <2>1, <3>1, <3>2 DEF DialRelay
  <2>2. CASE watchRelayLease(r)
    <3>1. CASE ~LeaseHolds(task[r].lease)
      BY <1>4, <2>2, <3>1 DEF watchRelayLease
    <3>2. CASE LeaseHolds(task[r].lease)
      BY <1>1, <2>2, <3>2 DEF watchRelayLease, Become
    <3>3. QED
      BY <3>1, <3>2
  <2>3. CASE removeStaleClients(r)
    <3>1. task[r] \in WaitingTask
      BY <1>1, <2>3, TimedTask DEF removeStaleClients, Timed, Limit
    <3>2. [task[r] EXCEPT !.op = "pin"].op = "pin"
      BY <3>1 DEF WaitingTask
    <3>3. QED
      BY <1>3, <2>3, <3>2 DEF removeStaleClients
  <2>4. CASE CloseApp(r)
    <3>1. [op |-> "kick", lease |-> task[r].lease].op = "kick"
      OBVIOUS
    <3>2. QED
      BY <1>3, <1>4, <2>4, <3>1 DEF CloseApp
  <2>5. CASE (\E S \in SUBSET VM : \E f \in [S -> Discovered] : Refresh(r, S, f)) \/ RefreshFailed(r)
    <3>1. CASE Become(r, Idle)
      BY <1>4, <3>1
    <3>2. CASE task[r].op = "browse" /\ Become(r, [task[r] EXCEPT !.op = "allocate"])
      <4>1. task[r] \in [op : {"browse", "allocate"}, owner : Owner, device : Device]
        BY <1>1, <3>2 DEF Task, Idle
      <4>2. [task[r] EXCEPT !.op = "allocate"].op = "allocate"
        BY <4>1
      <4>3. QED
        BY <1>3, <3>2, <4>2
    <3>3. CASE task[r].op = "browseStatus" /\ Become(r, [task[r] EXCEPT !.op = "snapshot"])
      <4>1. task[r] \in [op : {"browseStatus", "snapshot"}]
        BY <1>1, <3>3 DEF Task, Idle
      <4>2. [task[r] EXCEPT !.op = "snapshot"].op = "snapshot"
        BY <4>1
      <4>3. QED
        BY <1>3, <3>3, <4>2
    <3>4. QED
      BY <2>5, <3>1, <3>2, <3>3 DEF Refresh, RefreshFailed
  <2>6. CASE createLeaseAllocate(r) \/ adminStatusSnapshot(r) \/ releaseDelete(r)
             \/ adminKickRelease(r) \/ tryPair(r) \/ PairFails(r) \/ RelayEnds(r)
    BY <1>4, <2>6
       DEF createLeaseAllocate, adminStatusSnapshot, releaseDelete, adminKickRelease, tryPair,
           PairFails, RelayEnds
  <2>7. QED
    BY <1>7, <2>1, <2>2, <2>3, <2>4, <2>5, <2>6 DEF Work
<1>8. ASSUME NEW r \in Slot, NEW id \in LeaseId, NEW o \in Owner,
             pairLease(r, id, o) \/ relay(r, id, o) \/ release(r, id, o)
      PROVE  Goal
  <2>1. [op |-> "delete", id |-> id, owner |-> o].op = "delete"
    OBVIOUS
  <2>2. CASE release(r, id, o)
    BY <1>2, <1>3, <2>1, <2>2 DEF release
  <2>3. QED
    BY <1>6, <1>8, <2>2 DEF pairLease, relay
<1>9. ASSUME NEW r \in Slot, NEW o \in Owner, NEW d \in Device, createLease(r, o, d)
      PROVE  Goal
  <2>1. [op |-> "browse", owner |-> o, device |-> d].op = "browse"
    OBVIOUS
  <2>2. QED
    BY <1>3, <1>9, <2>1 DEF createLease
<1>10. ASSUME NEW r \in Slot, adminStatus(r)
       PROVE  Goal
  <2>1. \A op : [op |-> op].op = op
    OBVIOUS
  <2>2. QED
    BY <1>3, <1>10, <2>1 DEF adminStatus
<1>11. ASSUME NEW r \in Slot, NEW id \in LeaseId, adminKick(r, id)
       PROVE  Goal
  <2>1. \A l : Waiting("close", l).op = "close" /\ [op |-> "kick", lease |-> Res(l)].op = "kick"
    BY DEF Waiting
  <2>2. QED
    BY <1>2, <1>3, <1>11, <2>1 DEF adminKick
<1>12. CASE CTick
  <2>1. task'[s] = Older(task[s])
    BY <1>12 DEF CTick
  <2>2. ~Timed(task[s]) => task'[s] = task[s]
    BY <2>1 DEF Older
  <2>3. QED
    BY <1>12, <2>1, <2>2
<1>13. CASE CCrash
  BY <1>13 DEF CCrash, Idle
<1>14. CASE SingleStep \/ (\E p \in promised : StartSession(p)) \/ (\E v \in VM : EndSession(v))
            \/ UNCHANGED cvars
  BY <1>2, <1>14 DEF SingleStep, StartSession, EndSession, cvars
<1>15. QED
  BY <1>7, <1>8, <1>9, <1>10, <1>11, <1>12, <1>13, <1>14 DEF CNext

\* The tick keeps a wait within its limit, and counts for a lease that is not live.
LEMMA OlderWait ==
  ASSUME NEW t \in WaitingTask, Wait(t), t.op \in {"dial", "relay"}, t.age < Limit[t.op]
  PROVE  /\ Older(t).lease = t.lease /\ Older(t).op = t.op
         /\ t.op = "dial" => Older(t).age <= DialTicks /\ Older(t).dead <= Older(t).age
         /\ t.op = "relay" => /\ Older(t).age <= CheckTicks
                              /\ Older(t).dead <= DialTicks + Older(t).age
         /\ Live(t.lease) => Older(t).dead = 0
<1>1. Timed(t)
  BY DEF Timed, Limit
<1>2. Older(t) = [t EXCEPT !.age = t.age + 1, !.dead = DeadFor(t)]
  BY <1>1 DEF Older
<1>3. t.age \in Nat /\ t.dead \in Nat
  BY TicksAssumption DEF WaitingTask, MaxTicks
<1>4. /\ DeadFor(t) \in Nat /\ DeadFor(t) <= t.dead + 1
      /\ Live(t.lease) => DeadFor(t) = 0
  <2>1. CASE Live(t.lease)
    <3>1. DeadFor(t) = 0
      BY <2>1 DEF DeadFor
    <3>2. QED
      BY <1>3, <3>1
  <2>2. CASE ~Live(t.lease)
    <3>1. DeadFor(t) = t.dead \/ DeadFor(t) = t.dead + 1
      BY <1>3, <2>2 DEF DeadFor
    <3>2. QED
      BY <1>3, <2>2, <3>1
  <2>3. QED
    BY <2>1, <2>2
<1>5. /\ Older(t).age = t.age + 1 /\ Older(t).dead = DeadFor(t)
      /\ Older(t).lease = t.lease /\ Older(t).op = t.op
  BY <1>2 DEF WaitingTask
<1>6. (t.op = "dial" => t.age < DialTicks) /\ (t.op = "relay" => t.age < CheckTicks)
  BY DEF Limit
<1>7. DialTicks \in Nat /\ CheckTicks \in Nat
  BY TicksAssumption
<1>8. QED
  BY <1>3, <1>4, <1>5, <1>6, <1>7 DEF Wait

LEMMA WaitNext ==
  ASSUME WaitInv, [CNext]_cvars, NEW s \in Slot
  PROVE  Wait(task[s])'
<1> SUFFICES ASSUME task'[s].op \in {"dial", "relay"}
             PROVE  Wait(task[s])'
  BY DEF Wait
<1>0. CInv /\ task[s] \in Task /\ Wait(task[s]) /\ DialTicks \in Nat
  BY TicksAssumption DEF WaitInv, CInv
<1>1. ASSUME Timed(task[s]), NEW i \in LeaseId, task[s].lease.id = i,
             task'[s].lease = task[s].lease, Live(task[s].lease)'
      PROVE  Live(task[s].lease)
  <2>1. task'[s].lease.id = i
    BY <1>1
  <2>2. PICK m \in leases' : m.id = i /\ m.left > 0
    BY <1>1 DEF Live
  <2>3. QED
    BY <1>1, <2>2, StaysDead DEF Live
<1>2. ASSUME Timed(task[s]), task'[s].lease = task[s].lease, Live(task[s].lease)'
      PROVE  Live(task[s].lease)
  <2>1. task[s] \in WaitingTask
    BY <1>0, <1>2, TimedTask
  <2>2. task[s].lease.id \in LeaseId
    BY <2>1 DEF WaitingTask, Reservation
  <2>3. QED
    BY <1>1, <1>2, <2>2
<1>3. CASE task'[s] = task[s]
  <2>1. Timed(task[s])
    BY <1>3 DEF Timed, Limit
  <2>2. Live(task[s].lease)' => Live(task[s].lease)
    BY <1>2, <1>3, <2>1
  <2>3. QED
    BY <1>0, <1>3, <2>2 DEF Wait
<1>4. CASE \E l \in Lease : task'[s] = Waiting("dial", l)
  BY <1>0, <1>4 DEF Waiting, Wait
<1>5. CASE task[s].op = "dial" /\ task'[s] = [task[s] EXCEPT !.op = "relay", !.age = 0]
  <2>1. Timed(task[s]) /\ task[s] \in WaitingTask
    BY <1>0, <1>5, TimedTask DEF Timed, Limit
  <2>2. /\ task'[s].op = "relay" /\ task'[s].age = 0 /\ task'[s].dead = task[s].dead
        /\ task'[s].lease = task[s].lease /\ task[s].age \in Nat /\ task[s].dead \in Nat
    BY <1>5, <2>1, TicksAssumption DEF WaitingTask, MaxTicks
  <2>3. Live(task[s].lease)' => Live(task[s].lease)
    BY <1>2, <2>1, <2>2
  <2>4. QED
    BY <1>0, <1>5, <2>2, <2>3, TicksAssumption DEF Wait
<1>6. CASE task[s].op = "relay" /\ LeaseHolds(task[s].lease) /\ task'[s] = [task[s] EXCEPT !.age = 0]
  <2>1. Timed(task[s]) /\ task[s] \in WaitingTask
    BY <1>0, <1>6, TimedTask DEF Timed, Limit
  <2>2. /\ task'[s].op = "relay" /\ task'[s].age = 0 /\ task'[s].dead = task[s].dead
        /\ task'[s].lease = task[s].lease
    BY <1>6, <2>1 DEF WaitingTask
  <2>3. Live(task[s].lease)
    BY <1>6 DEF LeaseHolds, Checked, ById, reapLocked, Live
  <2>4. task[s].dead = 0
    BY <1>0, <1>6, <2>3 DEF Wait
  <2>5. QED
    BY <1>0, <2>2, <2>4, TicksAssumption DEF Wait
<1>7. CASE Timed(task[s]) /\ CTick /\ task'[s] = Older(task[s])
  <2>1. task[s] \in WaitingTask /\ task[s].age < Limit[task[s].op]
    BY <1>0, <1>7, TimedTask DEF CTick
  <2>2. task[s].op = task'[s].op
    BY <1>7, <2>1 DEF Older, WaitingTask
  <2>3. /\ Older(task[s]).lease = task[s].lease
        /\ task[s].op = "dial" => /\ Older(task[s]).age <= DialTicks
                                  /\ Older(task[s]).dead <= Older(task[s]).age
        /\ task[s].op = "relay" => /\ Older(task[s]).age <= CheckTicks
                                   /\ Older(task[s]).dead <= DialTicks + Older(task[s]).age
        /\ Live(task[s].lease) => Older(task[s]).dead = 0
    BY <1>0, <2>1, <2>2, OlderWait
  <2>4. Live(task[s].lease)' => Live(task[s].lease)
    BY <1>2, <1>7, <2>3
  <2>5. QED
    BY <1>7, <2>2, <2>3, <2>4 DEF Wait
<1>8. QED
  BY <1>0, <1>3, <1>4, <1>5, <1>6, <1>7, RelaySteps

LEMMA DownNext == CInv /\ Down /\ [CNext]_cvars => Down'
<1> SUFFICES ASSUME CInv, Down, [CNext]_cvars, ~up', NEW s \in Slot
             PROVE  task'[s] = Idle
  BY DEF Down
<1>1. CASE CCrash
  BY <1>1 DEF CCrash
<1>2. CASE ~up
  <2>1. \A r \in Slot : task[r] = Idle
    BY <1>2 DEF Down
  <2>2. CASE CTick
    BY <2>1, <2>2 DEF CTick, Older, Timed, Limit, Idle
  <2>3. CASE UNCHANGED task
    BY <2>1, <2>3
  <2>4. ASSUME NEW r \in Slot, Work(r) \/ RelayEnds(r)
        PROVE  FALSE
    <3>1. ~(\E S \in SUBSET VM : \E f \in [S -> Discovered] : Refresh(r, S, f))
      BY <1>2 DEF Refresh, UpdateVMs
    <3>2. ~(createLeaseAllocate(r) \/ adminStatusSnapshot(r) \/ watchRelayLease(r) \/ releaseDelete(r))
      BY <1>2
         DEF createLeaseAllocate, CreateOrRecover, adminStatusSnapshot, AdminSnapshot, watchRelayLease,
             LeaseVM, releaseDelete, Release
    <3>3. QED
      BY <1>2, <2>4, <3>1, <3>2
         DEF Work, RelayEnds, RefreshFailed, removeStaleClients, tryPair, PairFails, DialRelay, CloseApp,
             adminKickRelease
  <2>5. QED
    BY <1>1, <1>2, <2>2, <2>3, <2>4
       DEF CNext, createLease, pairLease, relay, release, CheckThenWait, LeaseVM, adminStatus,
           adminKick, AdminLease, SingleStep, StartSession, EndSession, cvars
<1>3. CASE up /\ ~CCrash
  <2>1. [Next]_vars
    BY StoreNext
  <2>2. up' = up
    BY <1>3
       DEF CNext, cvars, vars, Work, createLease, pairLease, relay, release, CheckThenWait, LeaseVM,
           adminStatus, adminKick, AdminLease, SingleStep, Heartbeat, AdminAssign, Restart,
           StartSession, EndSession, CTick, Tick,
           RelayEnds, Refresh, UpdateVMs, RefreshFailed, createLeaseAllocate, CreateOrRecover,
           adminStatusSnapshot, AdminSnapshot, removeStaleClients, tryPair, PairFails, DialRelay,
           watchRelayLease, releaseDelete, Release, CloseApp, adminKickRelease, AdminRelease
  <2>3. QED
    BY <1>3, <2>2
<1>4. QED
  BY <1>1, <1>2, <1>3

\* Sunshine's certificates and apps are clients'.
LEMMA SessionNext == CInv /\ SessionOK /\ [CNext]_cvars => SessionOK'
<1> SUFFICES ASSUME CInv, SessionOK, [CNext]_cvars
             PROVE  SessionOK'
  OBVIOUS
<1>1. promised \subseteq Lease /\ task \in [Slot -> Task]
  BY DEF CInv, IInv, TypeOK
<1>2. CASE UNCHANGED <<session, paired>>
  BY <1>2 DEF SessionOK
<1>3. ASSUME NEW p \in promised, StartSession(p)
      PROVE  SessionOK'
  <2>1. p.vm \in VM /\ ClientOf(p) \in Client
    BY <1>1 DEF Lease, ClientOf, Client
  <2>2. QED
    BY <1>3, <2>1 DEF StartSession, SessionOK
<1>4. ASSUME NEW v \in VM, EndSession(v)
      PROVE  SessionOK'
  BY <1>4 DEF EndSession, SessionOK
<1>5. ASSUME NEW s \in Slot, removeStaleClients(s) \/ tryPair(s) \/ CloseApp(s)
      PROVE  SessionOK'
  <2>1. task[s] \in WaitingTask
    BY <1>1, <1>5, TimedTask DEF removeStaleClients, tryPair, CloseApp, Timed, Limit
  <2>2. task[s].lease.vm \in VM /\ ClientOf(task[s].lease) \in Client
    BY <2>1 DEF WaitingTask, Reservation, ClientOf, Client
  <2>3. CASE removeStaleClients(s)
    BY <2>2, <2>3 DEF removeStaleClients, SessionOK
  <2>4. CASE tryPair(s)
    BY <2>2, <2>4 DEF tryPair, SessionOK
  <2>5. CASE CloseApp(s)
    BY <2>2, <2>5 DEF CloseApp, SessionOK
  <2>6. QED
    BY <1>5, <2>3, <2>4, <2>5
<1>6. QED
  BY <1>2, <1>3, <1>4, <1>5
     DEF CNext, cvars, Work, createLease, pairLease, relay, release, CheckThenWait, adminStatus, adminKick,
         SingleStep, CCrash, CTick, RelayEnds, Refresh, RefreshFailed, createLeaseAllocate,
         adminStatusSnapshot, PairFails, DialRelay, watchRelayLease, releaseDelete, adminKickRelease

LEMMA WaitInvInit == CInit => WaitInv
<1> SUFFICES ASSUME CInit
             PROVE  WaitInv
  OBVIOUS
<1>1. CInv
  BY CInvInit
<1>2. SessionOK /\ Down
  BY DEF CInit, SessionOK, Down
<1>3. \A s \in Slot : Wait(task[s])
  BY DEF CInit, Wait, Idle
<1>4. QED
  BY <1>1, <1>2, <1>3 DEF WaitInv

LEMMA WaitInvNext == WaitInv /\ [CNext]_cvars => WaitInv'
<1> SUFFICES ASSUME WaitInv, [CNext]_cvars
             PROVE  WaitInv'
  OBVIOUS
<1>1. CInv' /\ SessionOK' /\ Down'
  BY CInvNext, SessionNext, DownNext DEF WaitInv
<1>2. \A s \in Slot : Wait(task[s])'
  BY WaitNext
<1>3. QED
  BY <1>1, <1>2 DEF WaitInv

\* A relay is cut within the time to dial its VM and one lease check of the end
\* of its lease (watchRelayLease), however the lease ended and whatever other
\* handlers do; with the types of the handlers and of the VMs' state.
THEOREM RelaysAreCut == CSpec => []CoordinatorInv
<1>1. WaitInv => CoordinatorInv
  <2> SUFFICES ASSUME WaitInv
               PROVE  CoordinatorInv
    OBVIOUS
  <2>1. CTypeOK
    BY DEF WaitInv, CInv, IInv, SessionOK, CTypeOK
  <2>2. ASSUME NEW s \in Slot, task[s].op = "relay"
        PROVE  task[s].dead <= DialTicks + CheckTicks
    <3>1. task[s] \in WaitingTask /\ Wait(task[s])
      BY <2>2, TimedTask DEF WaitInv, CInv, Timed, Limit
    <3>2. task[s].dead \in Nat /\ task[s].age \in Nat /\ DialTicks \in Nat /\ CheckTicks \in Nat
      BY <3>1, TicksAssumption DEF WaitingTask, MaxTicks
    <3>3. QED
      BY <2>2, <3>1, <3>2 DEF Wait
  <2>3. QED
    BY <2>1, <2>2 DEF CoordinatorInv, RelayCut
<1>2. QED
  BY <1>1, WaitInvInit, WaitInvNext, PTL DEF CSpec
====
