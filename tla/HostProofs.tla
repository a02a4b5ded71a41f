----------------------------- MODULE HostProofs -----------------------------
(***************************************************************************)
(* Proofs about ComputerManager: the host list on disk, for any set of     *)
(* hosts and any number of changes and crashes (HostList), and the hosts   *)
(* the client polls, for any set of VMs, any leases of them and any number *)
(* of threads and tasks under way (HostPolling).                           *)
(***************************************************************************)
EXTENDS HostList, HostPolling, TLAPS

-----------------------------------------------------------------------------
(* HostList: facts about host maps.                                        *)

\* A host map is a function from some of the hosts to what is saved of them.
LEMMA HostMapIs ==
  \A f : f \in HostMap <=> \E S \in SUBSET Uuids : f \in [S -> Host]
  BY DEF HostMap

LEMMA HostMapFacts ==
  ASSUME NEW f \in HostMap
  PROVE  DOMAIN f \subseteq Uuids /\ f = [h \in DOMAIN f |-> f[h]] /\ \A h \in DOMAIN f : f[h] \in Host
  <1>1. PICK S \in SUBSET Uuids : f \in [S -> Host]
    BY HostMapIs
  <1> QED BY <1>1

LEMMA NoHostsMap == NoHosts \in HostMap /\ DOMAIN NoHosts = {}
  <1>1. NoHosts \in [{} -> Host]
    BY DEF NoHosts
  <1>2. {} \in SUBSET Uuids
    OBVIOUS
  <1>3. NoHosts \in HostMap
    BY <1>1, <1>2, HostMapIs
  <1> QED BY <1>3 DEF NoHosts

LEMMA ChangedMap ==
  ASSUME NEW f \in HostMap, NEW h \in DOMAIN f, NEW entry \in Host
  PROVE  [f EXCEPT ![h] = entry] \in HostMap /\ DOMAIN [f EXCEPT ![h] = entry] = DOMAIN f
  <1>1. PICK S \in SUBSET Uuids : f \in [S -> Host]
    BY HostMapIs
  <1>2. [f EXCEPT ![h] = entry] \in [S -> Host]
    BY <1>1
  <1> QED BY <1>1, <1>2, HostMapIs

LEMMA UnlistedMap ==
  ASSUME NEW f \in HostMap
  PROVE  /\ Unlisted(f) \in HostMap /\ DOMAIN Unlisted(f) = DOMAIN f
         /\ \A h \in DOMAIN Unlisted(f) : Unlisted(f)[h].apps = NoApps
  <1>1. PICK S \in SUBSET Uuids : f \in [S -> Host]
    BY HostMapIs
  <1>2. Unlisted(f) \in [S -> Host]
    BY <1>1, HostListAssumption DEF Unlisted, Host
  <1>3. \A h \in DOMAIN f : Unlisted(f)[h].apps = NoApps
    BY <1>1, HostListAssumption DEF Unlisted, Host
  <1> QED BY <1>1, <1>2, <1>3, HostMapIs

LEMMA StoredMap ==
  ASSUME ListTypeOK
  PROVE  Stored \in HostMap
  BY NoHostsMap DEF ListTypeOK, Stored, ReadArray

LEMMA StoredHosts ==
  DOMAIN Stored = IF backup.ok /\ DOMAIN backup.hosts # {} THEN DOMAIN backup.hosts
                  ELSE IF primary.ok THEN DOMAIN primary.hosts ELSE {}
  BY NoHostsMap DEF Stored, ReadArray

-----------------------------------------------------------------------------
(* Type correctness.                                                       *)

LEMMA ZeroBound == 0 \in 0..MaxChanges /\ 0 \in 0..MaxCrashes /\ \A n \in 0..MaxCrashes : 0 <= n
  BY HostListAssumption

\* A crash that cuts a flush is a crash.
TInv == ListTypeOK /\ torn <= crashes /\ (run = "down" => fl = "ended")

\* Every action keeps the types.
LEMMA TypesKept == TInv /\ [ListNext]_listVars => TInv'
  <1> SUFFICES ASSUME TInv, [ListNext]_listVars PROVE TInv'
    OBVIOUS
  <1> USE HostListAssumption DEF TInv, ListTypeOK, memVars, diskVars, boundVars
  <1>1. ASSUME NEW h \in Uuids, NEW n \in Names, AddHost(h, n) PROVE TInv'
    <2>1. PICK S \in SUBSET Uuids : knownHosts \in [S -> Host]
      BY HostMapIs
    <2>2. [name |-> n, apps |-> NoApps] \in Host
      BY DEF Host
    <2>3. knownHosts' \in [S \union {h} -> Host]
      BY <1>1, <2>1, <2>2 DEF AddHost
    <2>4. knownHosts' \in HostMap
      BY <2>3, HostMapIs
    <2> QED BY <1>1, <2>4 DEF AddHost
  <1>2. ASSUME NEW h \in Uuids, NEW entry \in Host, UpdateHost(h, entry) PROVE TInv'
    <2>1. knownHosts' \in HostMap
      BY <1>2, ChangedMap DEF UpdateHost, Changed
    <2> QED BY <1>2, <2>1 DEF UpdateHost
  <1>3. ASSUME NEW h \in Uuids, NEW entry \in Host, RenameHost(h, entry) PROVE TInv'
    <2>1. knownHosts' \in HostMap
      BY <1>3, ChangedMap DEF RenameHost, Changed
    <2>2. reverted' \in BOOLEAN
      BY <1>3 DEF RenameHost
    <2>3. (need' = need /\ fl' = fl) \/ (need' = TRUE /\ fl' \in {fl, "test"})
      BY <1>3 DEF RenameHost, saveHosts
    <2>4. fl' \in {"test", "sleep", "asleep", "begun", "backup", "backed", "primary", "written", "ended"}
      BY <2>3
    <2>5. need' \in BOOLEAN
      BY <2>3
    <2> QED BY <1>3, <2>1, <2>2, <2>4, <2>5 DEF RenameHost
  <1>4. ASSUME NEW h \in Uuids, RemoveHost(h) PROVE TInv'
    <2>1. PICK S \in SUBSET Uuids : knownHosts \in [S -> Host]
      BY HostMapIs
    <2>2. knownHosts' \in [S \ {h} -> Host]
      BY <1>4, <2>1 DEF RemoveHost
    <2>3. knownHosts' \in HostMap
      BY <2>2, HostMapIs
    <2> QED BY <1>4, <2>3 DEF RemoveHost
  <1>5. ASSUME NEW h \in Uuids, Saves(h) PROVE TInv'
    BY <1>5 DEF Saves, HandleComputerStateChanged, SaveRemoval, saveHosts
  <1>6. ASSUME FlushThread PROVE TInv'
    <2>1. ASSUME FlushTest \/ FlushSleep PROVE TInv'
      BY <2>1 DEF FlushTest, FlushSleep, flushOnly
    <2>2. ASSUME BackupBegin PROVE TInv'
      BY <2>2 DEF BackupBegin, flushOnly
    <2>3. ASSUME BackupEnd PROVE TInv'
      <3>1. backup' \in [ok : BOOLEAN, hosts : HostMap] /\ backup'.hosts = Unlisted(knownHosts)
        BY <2>3, UnlistedMap DEF BackupEnd
      <3>2. \A h \in DOMAIN backup'.hosts : backup'.hosts[h].apps = NoApps
        BY <3>1, UnlistedMap
      <3> QED BY <2>3, <3>1, <3>2 DEF BackupEnd, flushOnly
    <2>4. ASSUME PrimaryBegin PROVE TInv'
      BY <2>4 DEF PrimaryBegin, flushOnly
    <2>5. ASSUME PrimaryEnd PROVE TInv'
      BY <2>5 DEF PrimaryEnd, flushOnly
    <2>6. ASSUME BackupRemove PROVE TInv'
      <3>1. backup' \in [ok : BOOLEAN, hosts : HostMap] /\ backup'.hosts = backup.hosts
        BY <2>6 DEF BackupRemove
      <3>2. safe' \subseteq Uuids
        BY <2>6, HostMapFacts DEF BackupRemove, flushOnly
      <3>3. torn' = 0 /\ crashes' = crashes
        BY <2>6 DEF BackupRemove, flushOnly
      <3> QED BY <2>6, <3>1, <3>2, <3>3, ZeroBound DEF BackupRemove, flushOnly
    <2> QED BY <1>6, <2>1, <2>2, <2>3, <2>4, <2>5, <2>6 DEF FlushThread
  <1>7. ASSUME Quit PROVE TInv'
    BY <1>7 DEF Quit
  <1>8. ASSUME WakeFlush PROVE TInv'
    <2>1. missed' \in BOOLEAN
      BY <1>8 DEF WakeFlush
    <2> QED BY <1>8, <2>1 DEF WakeFlush
  <1>9. ASSUME Exit PROVE TInv'
    BY <1>9, NoHostsMap DEF Exit, Gone
  <1>10. ASSUME Crash PROVE TInv'
    <2>1. torn' \in 0..MaxCrashes /\ torn' <= crashes' /\ crashes' \in 0..MaxCrashes
      BY <1>10 DEF Crash
    <2> QED BY <1>10, <2>1, NoHostsMap DEF Crash, Gone
  <1>11. ASSUME Start PROVE TInv'
    BY <1>11, StoredMap DEF Start
  <1>12. ASSUME UNCHANGED listVars PROVE TInv'
    BY <1>12 DEF listVars
  <1> QED BY <1>1, <1>2, <1>3, <1>4, <1>5, <1>6, <1>7, <1>8, <1>9, <1>10, <1>11, <1>12 DEF ListNext, Changes

LEMMA TInvHolds == ListSpec => []TInv
  <1>1. ListInit => TInv
    <2> SUFFICES ASSUME ListInit PROVE TInv
      OBVIOUS
    <2>1. \A h \in DOMAIN backup.hosts : backup.hosts[h].apps = NoApps
      BY NoHostsMap DEF ListInit
    <2>2. primary \in [ok : BOOLEAN, hosts : HostMap] /\ backup \in [ok : BOOLEAN, hosts : HostMap]
      BY NoHostsMap DEF ListInit
    <2> QED BY <2>1, <2>2, NoHostsMap, ZeroBound DEF ListInit, TInv, ListTypeOK
  <1> QED BY <1>1, TypesKept, PTL DEF ListSpec

\* The host list keeps its types; in particular what the backup holds never
\* has an app list.
THEOREM ListTypesCorrect == ListSpec => []ListTypeOK
  <1>1. TInv => ListTypeOK
    BY DEF TInv
  <1> QED BY <1>1, TInvHolds, PTL

-----------------------------------------------------------------------------
(* What a crash leaves behind.                                             *)

\* The backup can be relied on.
Backed == fl \in {"backed", "primary", "written"}

\* While the program runs, it knows the hosts that are safe.
KnowsSafe == Up /\ torn <= 1 => safe \subseteq DOMAIN knownHosts

\* Before a flush the list holds them and no backup hides it; during one the
\* backup holds them; after one that was cut, a start finds them.
ListHolds == torn = 0 /\ ~Backed => ~backup.ok /\ safe \subseteq DOMAIN ReadArray(primary)
BackupHolds == Backed /\ torn <= 1 => backup.ok /\ safe \subseteq DOMAIN backup.hosts
StartFinds == torn = 1 /\ ~Flushing => safe \subseteq DOMAIN Stored
ListWritten == fl = "written" => primary.ok

CrashInv == KnowsSafe /\ ListHolds /\ BackupHolds /\ StartFinds /\ ListWritten

\* With the disk, the safe hosts and the flush's place the same, or the safe
\* hosts fewer, the disk keeps its part of the invariant.
LEMMA DiskSame ==
  ASSUME CrashInv, UNCHANGED <<backup, primary, torn>>, safe' \subseteq safe,
         Backed' <=> Backed, Flushing' <=> Flushing, fl' = "written" => fl = "written"
  PROVE  ListHolds' /\ BackupHolds' /\ StartFinds' /\ ListWritten'
  <1>1. Stored' = Stored /\ ReadArray(primary)' = ReadArray(primary)
    BY DEF Stored, ReadArray
  <1> QED BY <1>1 DEF CrashInv, ListHolds, BackupHolds, StartFinds, ListWritten

\* Every action keeps the invariant.
LEMMA CrashInvKept == TInv /\ CrashInv /\ [ListNext]_listVars => CrashInv'
  <1> SUFFICES ASSUME TInv, CrashInv, [ListNext]_listVars PROVE CrashInv'
    OBVIOUS
  <1>t. torn \in Nat
    BY HostListAssumption DEF TInv, ListTypeOK
  <1>d. (ListHolds' /\ BackupHolds' /\ StartFinds' /\ ListWritten') /\ KnowsSafe' => CrashInv'
    BY DEF CrashInv
  <1>1. ASSUME NEW h \in Uuids, Changes(h) \/ Saves(h) PROVE CrashInv'
    <2>1. UNCHANGED <<backup, primary, torn, run>> /\ safe' \subseteq safe
      BY <1>1 DEF Changes, Saves, AddHost, UpdateHost, RenameHost, RemoveHost,
                  HandleComputerStateChanged, SaveRemoval, diskVars
    <2>2. fl' = fl \/ (fl = "asleep" /\ fl' = "test")
      BY <1>1 DEF Changes, Saves, AddHost, UpdateHost, RenameHost, RemoveHost,
                  HandleComputerStateChanged, SaveRemoval, saveHosts
    <2>3. ListHolds' /\ BackupHolds' /\ StartFinds' /\ ListWritten'
      BY <2>1, <2>2, DiskSame DEF Backed, Flushing
    <2>4. KnowsSafe'
      <3>1. ASSUME NEW n \in Names, AddHost(h, n) PROVE KnowsSafe'
        BY <3>1, <2>1 DEF AddHost, KnowsSafe, CrashInv, Up, diskVars
      <3>2. ASSUME NEW entry \in Host, UpdateHost(h, entry) \/ RenameHost(h, entry) PROVE KnowsSafe'
        BY <3>2, <2>1 DEF UpdateHost, RenameHost, KnowsSafe, CrashInv, Up, diskVars
      <3>3. ASSUME RemoveHost(h) PROVE KnowsSafe'
        BY <3>3, <2>1 DEF RemoveHost, KnowsSafe, CrashInv, Up
      <3>4. ASSUME Saves(h) PROVE KnowsSafe'
        BY <3>4, <2>1 DEF Saves, HandleComputerStateChanged, SaveRemoval, KnowsSafe, CrashInv, Up, diskVars
      <3> QED BY <1>1, <3>1, <3>2, <3>3, <3>4 DEF Changes
    <2> QED BY <1>d, <2>3, <2>4
  <1>2. ASSUME FlushTest \/ FlushSleep PROVE CrashInv'
    <2>1. UNCHANGED <<backup, primary, torn, safe, run, knownHosts>>
      BY <1>2 DEF FlushTest, FlushSleep, flushOnly, diskVars
    <2>2. fl \in {"test", "sleep"} /\ fl' \in {"begun", "ended", "sleep", "asleep"}
      BY <1>2 DEF FlushTest, FlushSleep
    <2>3. ListHolds' /\ BackupHolds' /\ StartFinds' /\ ListWritten'
      BY <2>1, <2>2, DiskSame DEF Backed, Flushing
    <2>4. KnowsSafe'
      BY <2>1 DEF KnowsSafe, CrashInv, Up
    <2> QED BY <1>d, <2>3, <2>4
  <1>3. ASSUME BackupBegin PROVE CrashInv'
    <2>1. /\ UNCHANGED <<primary, torn, safe, run, knownHosts>> /\ fl = "begun" /\ fl' = "backup"
          /\ backup' = [ok |-> FALSE, hosts |-> backup.hosts]
      BY <1>3 DEF BackupBegin, flushOnly, TInv, ListTypeOK
    <2>2. ReadArray(primary)' = ReadArray(primary)
      BY <2>1 DEF ReadArray
    <2> QED BY <2>1, <2>2 DEF CrashInv, KnowsSafe, Up, ListHolds, BackupHolds, StartFinds, ListWritten,
                             Backed, Flushing
  <1>4. ASSUME BackupEnd PROVE CrashInv'
    <2>1. /\ UNCHANGED <<primary, torn, safe, run, knownHosts>> /\ fl = "backup" /\ fl' = "backed"
          /\ backup'.ok = TRUE /\ DOMAIN backup'.hosts = DOMAIN knownHosts
      BY <1>4, UnlistedMap DEF BackupEnd, flushOnly, TInv, ListTypeOK
    <2>2. Up
      BY <2>1 DEF TInv, Up
    <2> QED BY <2>1, <2>2 DEF CrashInv, KnowsSafe, Up, ListHolds, BackupHolds, StartFinds, ListWritten,
                             Backed, Flushing
  <1>5. ASSUME PrimaryBegin \/ PrimaryEnd PROVE CrashInv'
    <2>1. /\ UNCHANGED <<backup, torn, safe, run, knownHosts>>
          /\ \/ fl = "backed" /\ fl' = "primary"
             \/ fl = "primary" /\ fl' = "written" /\ primary'.ok = TRUE
      BY <1>5 DEF PrimaryBegin, PrimaryEnd, flushOnly
    <2> QED BY <2>1 DEF CrashInv, KnowsSafe, Up, ListHolds, BackupHolds, StartFinds, ListWritten,
                       Backed, Flushing
  <1>6. ASSUME BackupRemove PROVE CrashInv'
    <2>1. /\ UNCHANGED <<primary, run, knownHosts>> /\ fl = "written" /\ fl' = "test" /\ torn' = 0
          /\ backup' = [ok |-> FALSE, hosts |-> backup.hosts]
          /\ safe' = DOMAIN primary.hosts \intersect DOMAIN knownHosts
      BY <1>6 DEF BackupRemove, flushOnly, TInv, ListTypeOK
    <2>2. primary.ok /\ ReadArray(primary)' = primary.hosts
      BY <2>1 DEF CrashInv, ListWritten, ReadArray
    <2> QED BY <2>1, <2>2 DEF CrashInv, KnowsSafe, Up, ListHolds, BackupHolds, StartFinds, ListWritten,
                             Backed, Flushing
  <1>7. ASSUME Quit \/ WakeFlush PROVE CrashInv'
    <2>1. UNCHANGED <<backup, primary, torn, safe, knownHosts>> /\ Up
      BY <1>7 DEF Quit, WakeFlush, memVars, diskVars, Up
    <2>2. fl' = fl \/ (fl = "asleep" /\ fl' = "test")
      BY <1>7 DEF Quit, WakeFlush
    <2>3. ListHolds' /\ BackupHolds' /\ StartFinds' /\ ListWritten'
      BY <2>1, <2>2, DiskSame DEF Backed, Flushing
    <2>4. KnowsSafe'
      BY <2>1 DEF KnowsSafe, CrashInv
    <2> QED BY <1>d, <2>3, <2>4
  <1>8. ASSUME Exit PROVE CrashInv'
    <2>1. UNCHANGED <<backup, primary, torn, safe>> /\ fl = "ended" /\ fl' = "ended" /\ ~Up'
      BY <1>8 DEF Exit, Gone, diskVars, Up
    <2>2. ListHolds' /\ BackupHolds' /\ StartFinds' /\ ListWritten'
      BY <2>1, DiskSame DEF Backed, Flushing
    <2> QED BY <1>d, <2>1, <2>2 DEF KnowsSafe
  <1>9. ASSUME Crash PROVE CrashInv'
    <2>1. UNCHANGED <<backup, primary, safe>> /\ fl' = "ended" /\ ~Up'
      BY <1>9 DEF Crash, Gone, diskVars, Up
    <2>2. torn' = IF Flushing THEN torn + 1 ELSE torn
      BY <1>9 DEF Crash
    <2>3. Stored' = Stored /\ ReadArray(primary)' = ReadArray(primary)
      BY <2>1 DEF Stored, ReadArray
    <2>4. CASE ~Flushing
      BY <2>1, <2>2, <2>3, <2>4 DEF CrashInv, KnowsSafe, ListHolds, BackupHolds, StartFinds, ListWritten,
                                    Backed, Flushing
    <2>5. CASE Flushing
      <3>1. torn = 0 => safe \subseteq DOMAIN Stored
        BY <1>t, <2>5, StoredHosts, NoHostsMap
           DEF CrashInv, ListHolds, BackupHolds, Backed, Flushing, ReadArray
      <3>2. torn' = torn + 1
        BY <2>2, <2>5
      <3> QED BY <1>t, <2>1, <2>3, <3>1, <3>2
              DEF CrashInv, KnowsSafe, ListHolds, BackupHolds, StartFinds, ListWritten, Backed, Flushing
    <2> QED BY <2>4, <2>5
  <1>10. ASSUME Start PROVE CrashInv'
    <2>1. UNCHANGED <<backup, primary, torn, safe>> /\ fl = "ended" /\ fl' = "test" /\ knownHosts' = Stored
      BY <1>10 DEF Start, diskVars, TInv
    <2>2. ListHolds' /\ BackupHolds' /\ StartFinds' /\ ListWritten'
      BY <2>1, DiskSame DEF Backed, Flushing
    <2>3. torn <= 1 => safe \subseteq DOMAIN Stored
      BY <1>t, <2>1, StoredHosts, NoHostsMap
         DEF CrashInv, ListHolds, StartFinds, Backed, Flushing, ReadArray
    <2> QED BY <1>d, <2>1, <2>2, <2>3 DEF KnowsSafe
  <1>11. ASSUME UNCHANGED listVars PROVE CrashInv'
    <2>1. UNCHANGED <<backup, primary, torn, safe, fl, knownHosts, run>>
      BY <1>11 DEF listVars, memVars, diskVars
    <2>2. ListHolds' /\ BackupHolds' /\ StartFinds' /\ ListWritten'
      BY <2>1, DiskSame DEF Backed, Flushing
    <2> QED BY <1>d, <2>1, <2>2 DEF KnowsSafe, CrashInv, Up
  <1> QED BY <1>1, <1>2, <1>3, <1>4, <1>5, <1>6, <1>7, <1>8, <1>9, <1>10, <1>11 DEF ListNext, FlushThread

\* The invariant says what a start would find in each phase of a flush.
LEMMA CrashInvSurvive == TInv /\ CrashInv => HostsSurvive
  <1> SUFFICES ASSUME TInv, CrashInv PROVE HostsSurvive
    OBVIOUS
  <1>1. torn \in Nat
    BY HostListAssumption DEF TInv, ListTypeOK
  <1>2. CASE Flushing
    <2>1. torn + 1 <= 1 => torn = 0
      BY <1>1
    <2>2. torn = 0 => safe \subseteq DOMAIN Stored
      BY <1>1, <1>2, StoredHosts, NoHostsMap
         DEF CrashInv, ListHolds, BackupHolds, Backed, Flushing, ReadArray
    <2> QED BY <1>2, <2>1, <2>2 DEF HostsSurvive
  <1>3. CASE ~Flushing
    <2>1. torn + 0 <= 1 => torn = 0 \/ torn = 1
      BY <1>1
    <2>2. torn = 0 => safe \subseteq DOMAIN Stored
      BY <1>3, StoredHosts, NoHostsMap DEF CrashInv, ListHolds, Backed, Flushing, ReadArray
    <2> QED BY <1>3, <2>1, <2>2 DEF HostsSurvive, CrashInv, StartFinds
  <1> QED BY <1>2, <1>3

\* DelayedFlushThread::run() and the constructor: whenever the program dies,
\* the next start finds every host the last completed flush has written and
\* nobody has deleted, unless the flush before was cut as well.
THEOREM HostsSurviveCrash == ListSpec => []HostsSurvive
  <1>1. ListInit => CrashInv
    BY NoHostsMap DEF ListInit, CrashInv, KnowsSafe, ListHolds, BackupHolds, StartFinds, ListWritten,
       Backed, Flushing, ReadArray
  <1> QED BY <1>1, TInvHolds, CrashInvKept, CrashInvSurvive, PTL DEF ListSpec

-----------------------------------------------------------------------------
(* What an exit leaves behind.                                             *)

\* A flush has begun and the list is not written yet.
Unwritten == fl \in {"begun", "backup", "backed", "primary"}

\* What the disk holds once the flush that writes the list is over.
OnDisk == IF fl = "written" THEN ReadArray(primary) ELSE Stored

\* The flush thread ends when the destructor asks for it and no flush is due.
EndsLast ==
  /\ run \in {"up", "down"} => ~intr
  /\ run # "up" => removing = {}
  /\ Up /\ fl = "ended" => intr /\ ~need

\* A host that is not as it was last saved has a listener to hear of it or a
\* flush to come, and one that was deleted is to be saved without.
HeardOf ==
  /\ \A h \in DOMAIN knownHosts : Differs(h) => h \in unheard \/ need
  /\ \A h \in DOMAIN last \ DOMAIN knownHosts : h \in removing \/ need

\* A host that is as it was last saved is so on the disk, but for a change that
\* the flush wrote and that was taken back since.
Written ==
  ~need /\ ~Unwritten =>
    /\ ~reverted => \A h \in DOMAIN knownHosts \ removing : ~Differs(h) =>
                      h \in DOMAIN OnDisk /\ OnDisk[h] = knownHosts[h]
    /\ \A h \in DOMAIN OnDisk \ removing : h \in DOMAIN knownHosts

ExitInv == EndsLast /\ (Up => HeardOf /\ Written)

\* Steps that do not write keep what the disk holds.
LEMMA DiskKept ==
  ASSUME UNCHANGED <<backup, primary>>,
         fl' = fl \/ (fl = "asleep" /\ fl' = "test") \/ (fl = "test" /\ fl' \in {"sleep", "ended"})
           \/ (fl = "sleep" /\ fl' = "asleep")
  PROVE  OnDisk' = OnDisk /\ (Unwritten' <=> Unwritten)
  BY DEF OnDisk, Stored, ReadArray, Unwritten

LEMMA ChangesExit ==
  ASSUME TInv, ExitInv, NEW h \in Uuids, Changes(h)
  PROVE  ExitInv'
  <1>1. /\ ListTypeOK /\ knownHosts \in HostMap /\ last \in HostMap /\ EndsLast /\ HeardOf /\ Written
        /\ run' = run /\ Up /\ UNCHANGED <<last, intr, backup, primary>>
    BY DEF TInv, ListTypeOK, ExitInv, Changes, AddHost, UpdateHost, RenameHost, RemoveHost, Up, diskVars
  <1>2. /\ fl' = fl \/ (fl = "asleep" /\ fl' = "test" /\ need')
        /\ need => need'
    BY DEF Changes, AddHost, UpdateHost, RenameHost, RemoveHost, saveHosts
  <1>3. OnDisk' = OnDisk /\ (Unwritten' <=> Unwritten)
    BY <1>1, <1>2, DiskKept
  <1>4. ASSUME NEW n \in Names, AddHost(h, n)
        PROVE  ExitInv'
    <2>1. /\ run = "up" /\ h \notin DOMAIN knownHosts /\ DOMAIN knownHosts' = DOMAIN knownHosts \union {h}
          /\ \A k \in DOMAIN knownHosts : knownHosts'[k] = knownHosts[k]
          /\ unheard' = unheard \union {h} /\ UNCHANGED <<removing, need, last, fl, reverted>>
      BY <1>4 DEF AddHost
    <2>2. EndsLast'
      BY <1>1, <2>1 DEF EndsLast, Up
    <2>3. HeardOf'
      BY <1>1, <2>1 DEF HeardOf, Differs
    <2>4. Written'
      <3>1. h \in DOMAIN last => h \in removing \/ need
        BY <1>1, <2>1 DEF HeardOf
      <3>2. QED
        BY <1>1, <1>3, <2>1, <3>1 DEF Written, Differs
    <2>5. QED
      BY <2>2, <2>3, <2>4 DEF ExitInv
  <1>5. ASSUME NEW entry \in Host, UpdateHost(h, entry) \/ RenameHost(h, entry)
        PROVE  ExitInv'
    <2>1. /\ h \in DOMAIN knownHosts /\ entry # knownHosts[h]
          /\ DOMAIN knownHosts' = DOMAIN knownHosts /\ knownHosts'[h] = entry
          /\ \A k \in DOMAIN knownHosts : k # h => knownHosts'[k] = knownHosts[k]
          /\ removing' = removing /\ unheard \subseteq unheard'
          /\ reverted' = (reverted \/ (h \in unheard /\ h \in DOMAIN last /\ last[h] = entry))
      BY <1>1, <1>5, HostMapFacts DEF UpdateHost, RenameHost, Changed
    <2>2. h \in unheard' \/ need' \/ (h \in DOMAIN last /\ last[h] = entry)
      BY <1>5 DEF UpdateHost, RenameHost, saveHosts
    <2>3. EndsLast'
      BY <1>1, <1>2, <1>5 DEF EndsLast, Up, UpdateHost, RenameHost, saveHosts
    <2>4. HeardOf'
      BY <1>1, <1>2, <2>1, <2>2 DEF HeardOf, Differs
    <2>5. Written'
      <3>1. h \in DOMAIN last /\ last[h] = entry => h \in unheard \/ need
        BY <1>1, <2>1 DEF HeardOf, Differs
      <3>2. QED
        BY <1>1, <1>2, <1>3, <2>1, <3>1 DEF Written, Differs
    <2>6. QED
      BY <2>3, <2>4, <2>5 DEF ExitInv
  <1>6. ASSUME RemoveHost(h)
        PROVE  ExitInv'
    <2>1. /\ run = "up" /\ DOMAIN knownHosts' = DOMAIN knownHosts \ {h}
          /\ \A k \in DOMAIN knownHosts' : knownHosts'[k] = knownHosts[k]
          /\ removing' = removing \union {h} /\ UNCHANGED <<unheard, need, last, fl, reverted>>
      BY <1>6 DEF RemoveHost
    <2>2. EndsLast'
      BY <1>1, <2>1 DEF EndsLast, Up
    <2>3. HeardOf'
      BY <1>1, <2>1 DEF HeardOf, Differs
    <2>4. Written'
      BY <1>1, <1>3, <2>1 DEF Written, Differs
    <2>5. QED
      BY <2>2, <2>3, <2>4 DEF ExitInv
  <1>7. QED
    BY <1>4, <1>5, <1>6 DEF Changes

LEMMA SavesExit ==
  ASSUME TInv, ExitInv, NEW h \in Uuids, Saves(h)
  PROVE  ExitInv'
  <1>1. /\ EndsLast /\ HeardOf /\ Written
        /\ run = "up" /\ run' = "up" /\ UNCHANGED <<knownHosts, last, intr, backup, primary, reverted>>
    BY DEF ExitInv, Saves, HandleComputerStateChanged, SaveRemoval, Up, diskVars
  <1>2. /\ fl' = fl \/ (fl = "asleep" /\ fl' = "test" /\ need')
        /\ need => need'
    BY DEF Saves, HandleComputerStateChanged, SaveRemoval, saveHosts
  <1>3. OnDisk' = OnDisk /\ (Unwritten' <=> Unwritten)
    BY <1>1, <1>2, DiskKept
  <1>4. fl # "ended" /\ EndsLast'
    BY <1>1, <1>2 DEF EndsLast, Up
  <1>5. /\ unheard' = unheard \/ (unheard' = unheard \ {h} /\ (h \in DOMAIN knownHosts /\ Differs(h) => need'))
        /\ removing' = removing \/ need'
    BY DEF Saves, HandleComputerStateChanged, SaveRemoval, saveHosts
  <1>6. HeardOf'
    BY <1>1, <1>2, <1>5 DEF HeardOf, Differs
  <1>7. Written'
    BY <1>1, <1>2, <1>3, <1>5 DEF Written, Differs
  <1>8. QED
    BY <1>4, <1>6, <1>7 DEF ExitInv

LEMMA FlushExit ==
  ASSUME TInv, ExitInv, FlushThread
  PROVE  ExitInv'
  <1>1. /\ UNCHANGED <<run, knownHosts, unheard, removing, intr, reverted>> /\ (Up' <=> Up) /\ EndsLast
        /\ fl # "ended"
    BY DEF ExitInv, FlushThread, FlushTest, FlushSleep, BackupBegin, BackupEnd, PrimaryBegin,
           PrimaryEnd, BackupRemove, flushOnly, Up
  <1>2. fl' = "ended" => intr /\ ~need'
    BY DEF FlushThread, FlushTest, FlushSleep, BackupBegin, BackupEnd, PrimaryBegin,
           PrimaryEnd, BackupRemove
  <1>3. EndsLast'
    BY <1>1, <1>2 DEF EndsLast
  <1>4. SUFFICES ASSUME Up, HeardOf, Written
                 PROVE  HeardOf' /\ Written'
    BY <1>1, <1>3 DEF ExitInv
  <1>5. CASE FlushTest \/ FlushSleep
    <2>1. CASE need'= FALSE /\ need /\ last' = knownHosts /\ fl' = "begun"
      BY <1>1, <2>1 DEF HeardOf, Differs, Written, Unwritten
    <2>2. CASE /\ UNCHANGED <<need, last, backup, primary>>
               /\ (fl = "test" /\ fl' \in {"sleep", "ended"}) \/ (fl = "sleep" /\ fl' = "asleep")
      <3>1. OnDisk' = OnDisk /\ (Unwritten' <=> Unwritten)
        BY <2>2, DiskKept
      <3>2. QED
        BY <1>1, <1>4, <2>2, <3>1 DEF HeardOf, Differs, Written
    <2>3. QED
      BY <1>5, <2>1, <2>2 DEF FlushTest, FlushSleep, diskVars
  <1>6. CASE BackupBegin \/ BackupEnd \/ PrimaryBegin
    BY <1>1, <1>4, <1>6 DEF BackupBegin, BackupEnd, PrimaryBegin, HeardOf, Differs, Written, Unwritten
  <1>7. CASE PrimaryEnd
    <2>1. OnDisk' = knownHosts /\ UNCHANGED <<need, last>>
      BY <1>7 DEF PrimaryEnd, OnDisk, ReadArray
    <2>2. QED
      BY <1>1, <1>4, <2>1 DEF HeardOf, Differs, Written
  <1>8. CASE BackupRemove
    <2>1. /\ UNCHANGED <<primary, need, last>> /\ fl = "written" /\ fl' = "test"
          /\ backup' = [ok |-> FALSE, hosts |-> backup.hosts]
      BY <1>8 DEF BackupRemove, TInv, ListTypeOK
    <2>2. OnDisk' = OnDisk
      BY <2>1, NoHostsMap DEF OnDisk, Stored, ReadArray
    <2>3. QED
      BY <1>1, <1>4, <2>1, <2>2 DEF HeardOf, Differs, Written, Unwritten
  <1>9. QED
    BY <1>5, <1>6, <1>7, <1>8 DEF FlushThread

\* A start knows what the disk holds, and an end or a crash leaves nothing to save.
LEMMA RestartExit ==
  ASSUME TInv, ExitInv, Exit \/ Crash \/ Start
  PROVE  ExitInv'
  <1>1. CASE Exit \/ Crash
    <2>1. run' = "down" /\ removing' = {} /\ intr' = FALSE
      BY <1>1 DEF Exit, Crash, Gone
    <2>2. QED
      BY <2>1 DEF ExitInv, EndsLast, Up
  <1>2. CASE Start
    <2>1. /\ run' = "up" /\ fl' = "test" /\ knownHosts' = Stored /\ last' = Stored
          /\ UNCHANGED <<intr, removing, backup, primary>>
      BY <1>2 DEF Start, diskVars
    <2>2. OnDisk' = Stored
      BY <2>1 DEF OnDisk, Stored, ReadArray
    <2>3. EndsLast'
      BY <1>2, <2>1 DEF ExitInv, EndsLast, Up, Start
    <2>4. HeardOf' /\ Written'
      BY <2>1, <2>2 DEF HeardOf, Differs, Written
    <2>5. QED
      BY <2>3, <2>4 DEF ExitInv
  <1>3. QED
    BY <1>1, <1>2

LEMMA ExitInvKept == TInv /\ ExitInv /\ [ListNext]_listVars => ExitInv'
  <1> SUFFICES ASSUME TInv, ExitInv, [ListNext]_listVars
               PROVE  ExitInv'
    OBVIOUS
  <1>1. CASE Quit \/ WakeFlush
    <2>1. /\ Up /\ Up' /\ run' # "up" /\ removing = {}
          /\ UNCHANGED <<memVars, backup, primary, reverted>>
      BY <1>1 DEF ExitInv, EndsLast, Quit, WakeFlush, Up, diskVars
    <2>2. (fl' = fl \/ (fl = "asleep" /\ fl' = "test")) /\ (intr => intr')
      BY <1>1 DEF Quit, WakeFlush
    <2>3. OnDisk' = OnDisk /\ (Unwritten' <=> Unwritten)
      BY <2>1, <2>2, DiskKept
    <2>4. EndsLast'
      BY <2>1, <2>2 DEF ExitInv, EndsLast, Up, memVars
    <2>5. HeardOf' /\ Written'
      BY <2>1, <2>3 DEF ExitInv, HeardOf, Differs, Written, memVars
    <2>6. QED
      BY <2>4, <2>5 DEF ExitInv
  <1>2. CASE UNCHANGED listVars
    <2>1. UNCHANGED <<run, intr, fl, knownHosts, unheard, removing, need, last, backup, primary, reverted>>
      BY <1>2 DEF listVars, memVars, diskVars
    <2>2. OnDisk' = OnDisk /\ (Unwritten' <=> Unwritten)
      BY <2>1, DiskKept
    <2>3. QED
      BY <2>1, <2>2 DEF ExitInv, EndsLast, Up, HeardOf, Differs, Written
  <1>3. QED
    BY <1>1, <1>2, ChangesExit, SavesExit, FlushExit, RestartExit DEF ListNext

\* The host maps are equal when every entry of either is so.
LEMMA ExitInvSaves == TInv /\ ExitInv => ExitSaves
  <1> SUFFICES ASSUME TInv, ExitInv, run = "join", fl = "ended"
               PROVE  ~need /\ (unheard = {} /\ ~reverted => Stored = knownHosts)
    BY DEF ExitSaves
  <1>1. ~need /\ removing = {} /\ HeardOf /\ Written
    BY DEF ExitInv, EndsLast, Up
  <1>2. SUFFICES ASSUME unheard = {}, ~reverted
                 PROVE  Stored = knownHosts
    BY <1>1
  <1>3. OnDisk = Stored /\ ~Unwritten
    BY DEF OnDisk, Unwritten
  <1>4. \A h \in DOMAIN knownHosts : h \in DOMAIN Stored /\ Stored[h] = knownHosts[h]
    BY <1>1, <1>2, <1>3 DEF HeardOf, Written
  <1>5. DOMAIN Stored = DOMAIN knownHosts
    BY <1>1, <1>3, <1>4 DEF Written
  <1>6. Stored \in HostMap /\ knownHosts \in HostMap
    BY StoredMap DEF TInv, ListTypeOK
  <1>7. Stored = [h \in DOMAIN Stored |-> Stored[h]] /\ knownHosts = [h \in DOMAIN knownHosts |-> knownHosts[h]]
    BY <1>6, HostMapFacts
  <1>8. QED
    BY <1>4, <1>5, <1>7

\* ~ComputerManager and DelayedFlushThread::run(): when the destructor has
\* joined the flush thread, every change the main thread has heard of is on the
\* disk, whatever changed while the last flush was under way.
THEOREM ExitKeepsList == ListSpec => []ListInv
  <1>1. ListInit => ExitInv
    BY NoHostsMap DEF ListInit, ExitInv, EndsLast, Up, HeardOf, Differs, Written, OnDisk, Stored, ReadArray
  <1>2. TInv /\ ExitInv => ListInv
    BY ExitInvSaves DEF TInv, ListInv
  <1>3. QED
    BY <1>1, <1>2, TInvHolds, ExitInvKept, PTL DEF ListSpec


-----------------------------------------------------------------------------
(* HostPolling.                                                            *)

\* What is remembered of a host.
HostRecord == [manual : Addresses \union {NoAddress}, online : BOOLEAN, game : BOOLEAN,
               pendingQuit : BOOLEAN, paired : BOOLEAN]

\* A thread was started for an address, and is nowhere taken for its absence.
Polls(t) == t.addr \in Addresses

\* The threads poll somewhere, and what a task has read is a VM's answer.
ThreadInv ==
  /\ \A h \in Hosts : active[h] # NoThread => Polls(active[h])
  /\ \A h \in Hosts : \A t \in old[h] : Polls(t)
  /\ \A t \in adds : t.info.read => t.info.uuid \in Hosts

IInv == TypeOK /\ ThreadInv /\ PolledIsGranted

-----------------------------------------------------------------------------
(* What is read, and what is made of it.                                   *)

LEMMA Readings ==
  /\ Unread \in Info /\ ~Unread.read
  /\ NoAnswer \in Info
  /\ NoThread \in ThreadSet
  /\ \A a \in Addresses : Thread(a) \in ThreadSet /\ Polls(Thread(a)) /\ Thread(a) # NoThread
  <1>1. Unread \in Info /\ ~Unread.read /\ NoAnswer \in Info
    BY DEF Unread, NoAnswer, Info
  <1>2. QED
    BY <1>1, PollingAssumption DEF NoThread, Thread, ThreadSet, Polls

LEMMA Answers ==
  ASSUME TypeOK, NEW a \in Addresses
  PROVE  ServerInfo(a) \in Info /\ ServerInfo(a).uuid \in Hosts
  BY DEF TypeOK, ServerInfo, Info

\* A reading changes neither where a host is nor what its kind of record is.
LEMMA Pollings ==
  ASSUME TypeOK, NEW h \in Hosts, NEW info \in Info
  PROVE  /\ Polled(h, info) \in HostRecord /\ Polled(h, info).manual = host[h].manual
         /\ Updated(h, info) \in HostRecord /\ Updated(h, info).manual = host[h].manual
  <1>1. host[h] \in HostRecord /\ info.game \in BOOLEAN /\ info.paired \in BOOLEAN
    BY DEF TypeOK, HostRecord, Info
  <1>2. Updated(h, info) \in HostRecord /\ Updated(h, info).manual = host[h].manual
    BY <1>1 DEF Updated, HostRecord
  <1>3. /\ [host[h] EXCEPT !.online = FALSE] \in HostRecord
        /\ [host[h] EXCEPT !.online = FALSE].manual = host[h].manual
    BY <1>1 DEF HostRecord
  <1>4. QED
    BY <1>2, <1>3 DEF Polled

\* A step that moves no host and no thread keeps who is polled.
LEMMA Unmoved ==
  ASSUME PolledIsGranted, UNCHANGED <<polling, auth, known, lateAdd>>,
         \A h \in Hosts : host'[h].manual = host[h].manual,
         \A h \in Hosts : active'[h] = active[h]
  PROVE  PolledIsGranted'
  BY DEF PolledIsGranted, Shown, isAuthorized

-----------------------------------------------------------------------------
(* Polling threads.                                                        *)

LEMMA FetchStep ==
  ASSUME IInv, NEW h \in Hosts, Fetch(h)
  PROVE  IInv'
  <1>1. /\ TypeOK /\ ThreadInv /\ PolledIsGranted /\ active[h] # NoThread
        /\ active[h] \in ThreadSet /\ active[h].addr \in Addresses
        /\ UNCHANGED <<polling, auth, known, host, old, taskVars, posted, who, vm, histVars>>
    BY DEF IInv, Fetch, TypeOK, ThreadInv, Polls
  <1>2. work' \in 0..MaxWork
    BY <1>1, PollingAssumption DEF Fetch, Event, TypeOK
  <1>3. PICK info \in Info : active' = [active EXCEPT ![h].info = info]
    BY <1>1, Answers, Readings DEF Fetch
  <1>4. /\ active'[h] \in ThreadSet /\ active'[h].addr = active[h].addr
        /\ \A g \in Hosts : g # h => active'[g] = active[g]
        /\ active' \in [Hosts -> ThreadSet]
    BY <1>1, <1>3 DEF TypeOK, ThreadSet
  <1>5. active'[h] # NoThread
    BY <1>1, <1>4, PollingAssumption DEF NoThread
  <1>6. TypeOK'
    BY <1>1, <1>2, <1>4 DEF TypeOK, taskVars, histVars
  <1>7. ThreadInv'
    BY <1>1, <1>4 DEF ThreadInv, Polls, taskVars
  <1>8. PolledIsGranted'
    BY <1>1, <1>4, <1>5 DEF PolledIsGranted, Shown, isAuthorized, histVars
  <1>9. QED
    BY <1>6, <1>7, <1>8 DEF IInv

LEMMA PollStepDone ==
  ASSUME IInv, NEW h \in Hosts, Poll(h)
  PROVE  IInv'
  <1>1. /\ TypeOK /\ ThreadInv /\ PolledIsGranted /\ active[h] # NoThread
        /\ active[h] \in ThreadSet /\ active[h].addr \in Addresses /\ active[h].info \in Info
        /\ UNCHANGED <<polling, auth, known, old, taskVars, who, vm, work, histVars>>
    BY DEF IInv, Poll, TypeOK, ThreadInv, Polls, ThreadSet
  <1>2. /\ active'[h] \in ThreadSet /\ active'[h].addr = active[h].addr
        /\ \A g \in Hosts : g # h => active'[g] = active[g]
        /\ active' \in [Hosts -> ThreadSet]
    BY <1>1, Readings DEF Poll, TypeOK, ThreadSet
  <1>3. active'[h] # NoThread
    BY <1>1, <1>2, PollingAssumption DEF NoThread
  <1>4. host' \in [Hosts -> HostRecord] /\ \A g \in Hosts : host'[g].manual = host[g].manual
    BY <1>1, Pollings DEF Poll, TypeOK, HostRecord
  <1>5. posted' \subseteq Hosts
    BY <1>1 DEF Poll, TypeOK
  <1>6. TypeOK'
    BY <1>1, <1>2, <1>4, <1>5 DEF TypeOK, taskVars, histVars, HostRecord
  <1>7. ThreadInv'
    BY <1>1, <1>2 DEF ThreadInv, Polls, taskVars
  <1>8. PolledIsGranted'
    BY <1>1, <1>2, <1>3, <1>4 DEF PolledIsGranted, Shown, isAuthorized, histVars
  <1>9. QED
    BY <1>6, <1>7, <1>8 DEF IInv

LEMMA OldEndsStep ==
  ASSUME IInv, NEW h \in Hosts, NEW t \in old[h], OldEnds(h, t)
  PROVE  IInv'
  <1>1. /\ TypeOK /\ ThreadInv /\ PolledIsGranted /\ t \in ThreadSet /\ t.addr \in Addresses
        /\ UNCHANGED <<polling, auth, known, active, taskVars, who, vm, work, histVars>>
    BY DEF IInv, OldEnds, TypeOK, ThreadInv, Polls
  <1>2. old' \in [Hosts -> SUBSET ThreadSet] /\ \A g \in Hosts : old'[g] \subseteq old[g]
    BY <1>1 DEF OldEnds, TypeOK
  <1>3. ServerInfo(t.addr) \in Info /\ t.info \in Info
    BY <1>1, Answers DEF ThreadSet
  <1>4. host' \in [Hosts -> HostRecord] /\ \A g \in Hosts : host'[g].manual = host[g].manual
    <2>1. host \in [Hosts -> HostRecord]
      BY <1>1 DEF TypeOK, HostRecord
    <2>2. host' = host \/ \E info \in Info : host' = [host EXCEPT ![h] = Polled(h, info)]
      BY <1>3 DEF OldEnds
    <2>3. ASSUME NEW info \in Info, host' = [host EXCEPT ![h] = Polled(h, info)]
          PROVE  host' \in [Hosts -> HostRecord] /\ \A g \in Hosts : host'[g].manual = host[g].manual
      BY <1>1, <2>1, <2>3, Pollings
    <2>4. QED
      BY <2>1, <2>2, <2>3
  <1>5. posted' \subseteq Hosts
    BY <1>1 DEF OldEnds, TypeOK
  <1>6. TypeOK'
    BY <1>1, <1>2, <1>4, <1>5 DEF TypeOK, taskVars, histVars, HostRecord
  <1>7. ThreadInv'
    BY <1>1, <1>2 DEF ThreadInv, taskVars
  <1>8. PolledIsGranted'
    BY <1>1, <1>4, Unmoved DEF histVars
  <1>9. QED
    BY <1>6, <1>7, <1>8 DEF IInv

-----------------------------------------------------------------------------
(* The main thread.                                                        *)

LEMMA InterruptedThreads ==
  ASSUME IInv, NEW h \in Hosts
  PROVE  Interrupted(h) \in SUBSET ThreadSet /\ \A t \in Interrupted(h) : Polls(t)
  BY DEF IInv, TypeOK, ThreadInv, Interrupted

LEMMA StartPollingStep ==
  ASSUME IInv, startPolling
  PROVE  IInv'
  <1>1. /\ TypeOK /\ ThreadInv /\ PolledIsGranted /\ ~polling /\ polling' = TRUE
        /\ UNCHANGED <<auth, known, host, old, taskVars, posted, who, vm, work, histVars>>
    BY DEF IInv, startPolling
  <1>2. \A h \in Hosts :
          /\ active'[h] = IF Shown(h) /\ active[h] = NoThread THEN Thread(host[h].manual) ELSE active[h]
          /\ Shown(h) => host[h].manual = auth /\ auth \in Addresses
    BY <1>1 DEF startPolling, Shown, isAuthorized, TypeOK
  <1>3. active' \in [Hosts -> ThreadSet]
    <2>1. \A h \in Hosts : active'[h] \in ThreadSet
      BY <1>1, <1>2, Readings DEF TypeOK
    <2>2. QED
      BY <2>1 DEF startPolling
  <1>4. TypeOK'
    BY <1>1, <1>3 DEF TypeOK, taskVars, histVars
  <1>5. ThreadInv'
    BY <1>1, <1>2, Readings DEF ThreadInv, taskVars
  <1>6. \A h \in Hosts : Shown(h)' <=> Shown(h)
    BY <1>1 DEF Shown
  <1>7. PolledIsGranted'
    <2>1. \A h \in Hosts : Shown(h) => Thread(host[h].manual) # NoThread
                                      /\ Thread(host[h].manual).addr = auth
      BY <1>2, Readings DEF Thread
    <2>2. QED
      BY <1>1, <1>2, <1>6, <2>1 DEF PolledIsGranted, histVars
  <1>8. QED
    BY <1>4, <1>5, <1>7 DEF IInv

LEMMA StopPollingStep ==
  ASSUME IInv, stopPollingAsync \/ clearAssignedHosts
  PROVE  IInv'
  <1>1. /\ TypeOK /\ ThreadInv /\ work' \in 0..MaxWork
        /\ active' = [h \in Hosts |-> NoThread] /\ old' = [h \in Hosts |-> Interrupted(h)]
        /\ UNCHANGED <<known, host, taskVars, posted, who, vm, histVars>>
        /\ polling' \in BOOLEAN /\ auth' \in Addresses \union {NoAddress}
        /\ ~polling' \/ auth' = NoAddress
    <2>1. CASE stopPollingAsync
      <3>1. TypeOK /\ ThreadInv /\ work' \in 0..MaxWork
        BY <2>1, PollingAssumption DEF IInv, TypeOK, stopPollingAsync, Event
      <3>2. QED
        BY <2>1, <3>1 DEF TypeOK, stopPollingAsync
    <2>2. CASE clearAssignedHosts
      BY <2>2, PollingAssumption DEF IInv, TypeOK, clearAssignedHosts, Event
    <2>3. QED
      BY <2>1, <2>2
  <1>2. active' \in [Hosts -> ThreadSet] /\ old' \in [Hosts -> SUBSET ThreadSet]
    BY <1>1, Readings, InterruptedThreads
  <1>3. TypeOK'
    BY <1>1, <1>2 DEF TypeOK, taskVars, histVars
  <1>4. ThreadInv'
    BY <1>1, InterruptedThreads DEF ThreadInv, taskVars
  <1>5. PolledIsGranted'
    BY <1>1 DEF PolledIsGranted, Shown, isAuthorized
  <1>6. QED
    BY <1>3, <1>4, <1>5 DEF IInv

\* What is done with the thread of a host when a lease is granted.
LEMMA AssignStep ==
  ASSUME IInv, NEW l \in Leases, addAssignedHost(l[1], l[2])
  PROVE  IInv'
  <1> DEFINE a == l[1]
  <1>1. /\ TypeOK /\ ThreadInv /\ PolledIsGranted
        /\ a \in Addresses /\ a # NoAddress /\ l[2] \in Hosts /\ work \in 0..MaxWork
        /\ auth' = a /\ UNCHANGED <<polling, known, host, quits, pairs, posted, vm, lateAdd, unseen>>
    BY PollingAssumption DEF IInv, TypeOK, addAssignedHost
  <1>2. \A h \in Hosts :
          active'[h] = IF h \in known
                       THEN IF host[h].manual = a THEN StartPolling(h, a, a, active[h]) ELSE NoThread
                       ELSE active[h]
    BY DEF addAssignedHost
  <1>3. \A h \in Hosts : old'[h] = IF h \in known /\ host[h].manual # a THEN Interrupted(h) ELSE old[h]
    BY DEF addAssignedHost
  <1>4. \A h \in Hosts : StartPolling(h, a, a, active[h]) =
                           IF polling /\ active[h] = NoThread THEN Thread(a) ELSE active[h]
    BY <1>1 DEF StartPolling, isAuthorized
  <1>5. \A h \in Hosts : active'[h] \in ThreadSet /\ (active'[h] # NoThread => Polls(active'[h]))
    BY <1>1, <1>2, <1>4, Readings DEF TypeOK, ThreadInv
  <1>6. \A h \in Hosts : old'[h] \in SUBSET ThreadSet /\ \A t \in old'[h] : Polls(t)
    BY <1>1, <1>3, InterruptedThreads DEF TypeOK, ThreadInv
  <1>7. active' \in [Hosts -> ThreadSet] /\ old' \in [Hosts -> SUBSET ThreadSet]
    BY <1>5, <1>6 DEF addAssignedHost
  <1>8. adds' \subseteq [n : 0..MaxWork, addr : Addresses, info : Info]
        /\ \A t \in adds' : t.info.read => t.info.uuid \in Hosts
    BY <1>1, Readings DEF addAssignedHost, TypeOK, ThreadInv
  <1>9. TypeOK'
    <2>1. work' \in 0..MaxWork /\ failed' = FALSE /\ who' \in [Addresses -> Hosts]
      BY <1>1, PollingAssumption DEF addAssignedHost, TypeOK
    <2>2. QED
      BY <1>1, <1>7, <1>8, <2>1 DEF TypeOK
  <1>10. ThreadInv'
    BY <1>5, <1>6, <1>8 DEF ThreadInv
  <1>11. PolledIsGranted'
    <2>1. SUFFICES ASSUME ~lateAdd, NEW h \in Hosts
                   PROVE  /\ active'[h] # NoThread => h \in known /\ host[h].manual = a /\ polling
                                                      /\ active'[h].addr = a
                          /\ h \in known /\ host[h].manual = a /\ polling => active'[h] # NoThread
      BY <1>1 DEF PolledIsGranted, Shown, isAuthorized
    <2>2. active[h] # NoThread => h \in known /\ polling /\ active[h].addr = host[h].manual
      BY <1>1, <2>1 DEF PolledIsGranted, Shown, isAuthorized
    <2>3. Thread(a) # NoThread /\ Thread(a).addr = a
      BY <1>1, Readings DEF Thread
    <2>4. QED
      BY <1>2, <1>4, <2>2, <2>3
  <1>12. QED
    BY <1>9, <1>10, <1>11 DEF IInv

-----------------------------------------------------------------------------
(* Steps that leave the threads alone.                                     *)

\* The actions that change what is remembered of hosts, but not where they are.
Elsewhere(h) ==
  \/ HandleStateChanged(h) \/ quitRunningApp(h) \/ RunQuit(h) \/ RunPair(h) \/ Pair(h) \/ Game(h)

LEMMA ElsewhereStep ==
  ASSUME IInv, NEW h \in Hosts, Elsewhere(h)
  PROVE  IInv'
  <1>1. /\ TypeOK /\ ThreadInv /\ PolledIsGranted
        /\ UNCHANGED <<polling, auth, known, active, old, adds, who, lateAdd, failed>>
    BY DEF IInv, Elsewhere, HandleStateChanged, quitRunningApp, RunQuit, RunPair, Pair, Game,
           NoGameSeen, taskVars, histVars
  <1>2. host[h] \in HostRecord
    BY <1>1 DEF TypeOK, HostRecord
  <1>3. \/ host' = host
        \/ \E b \in BOOLEAN : host' = [host EXCEPT ![h].pendingQuit = b]
        \/ host' = [host EXCEPT ![h].paired = TRUE]
    <2>1. (host[h].pendingQuit /\ host[h].game) \in BOOLEAN
      BY <1>2 DEF HostRecord
    <2>2. ASSUME HandleStateChanged(h)
          PROVE  host' = [host EXCEPT ![h].pendingQuit = host[h].pendingQuit /\ host[h].game]
      BY <2>2, <1>1 DEF HandleStateChanged, TypeOK
    <2>3. QED
      BY <2>1, <2>2 DEF Elsewhere, quitRunningApp, RunQuit, RunPair, Pair, Game, NoGameSeen
  <1>4. host' \in [Hosts -> HostRecord] /\ \A g \in Hosts : host'[g].manual = host[g].manual
    <2>1. host \in [Hosts -> HostRecord]
      BY <1>1 DEF TypeOK, HostRecord
    <2>2. ASSUME NEW new \in HostRecord, new.manual = host[h].manual, host' = [host EXCEPT ![h] = new]
          PROVE  host' \in [Hosts -> HostRecord] /\ \A g \in Hosts : host'[g].manual = host[g].manual
      BY <2>1, <2>2
    <2>3. \A b \in BOOLEAN : /\ [host[h] EXCEPT !.pendingQuit = b] \in HostRecord
                             /\ [host[h] EXCEPT !.pendingQuit = b].manual = host[h].manual
      BY <1>2 DEF HostRecord
    <2>4. /\ [host[h] EXCEPT !.paired = TRUE] \in HostRecord
          /\ [host[h] EXCEPT !.paired = TRUE].manual = host[h].manual
      BY <1>2 DEF HostRecord
    <2>5. QED
      BY <1>3, <2>1, <2>2, <2>3, <2>4
  <1>5. vm' \in [Hosts -> [game : BOOLEAN, paired : BOOLEAN]]
    <2>1. \/ vm' = vm \/ vm' = [vm EXCEPT ![h].paired = TRUE]
          \/ \E b \in BOOLEAN : vm' = [vm EXCEPT ![h].game = b]
      <3>1. ASSUME Game(h)
            PROVE  vm' = [vm EXCEPT ![h].game = ~vm[h].game]
        BY <3>1, <1>1 DEF Game, TypeOK
      <3>2. (~vm[h].game) \in BOOLEAN
        OBVIOUS
      <3>3. QED
        BY <3>1, <3>2 DEF Elsewhere, HandleStateChanged, quitRunningApp, RunQuit, RunPair, Pair,
                          NoGameSeen
    <2>2. vm \in [Hosts -> [game : BOOLEAN, paired : BOOLEAN]]
      BY <1>1 DEF TypeOK
    <2>3. \A b \in BOOLEAN :
            [vm EXCEPT ![h].game = b] \in [Hosts -> [game : BOOLEAN, paired : BOOLEAN]]
      BY <2>2
    <2>4. [vm EXCEPT ![h].paired = TRUE] \in [Hosts -> [game : BOOLEAN, paired : BOOLEAN]]
      BY <2>2
    <2>5. QED
      BY <2>1, <2>2, <2>3, <2>4
  <1>6. work' \in 0..MaxWork
    BY <1>1, PollingAssumption
       DEF TypeOK, Elsewhere, HandleStateChanged, quitRunningApp, RunQuit, RunPair, Pair, Game,
           NoGameSeen, Event
  <1>7. quits' \subseteq Hosts /\ pairs' \subseteq Hosts /\ posted' \subseteq Hosts /\ unseen' \subseteq Hosts
    BY <1>1 DEF TypeOK, Elsewhere, HandleStateChanged, quitRunningApp, RunQuit, RunPair, Pair, Game,
                NoGameSeen, taskVars, histVars
  <1>8. TypeOK'
    BY <1>1, <1>4, <1>5, <1>6, <1>7 DEF TypeOK, HostRecord
  <1>9. ThreadInv'
    BY <1>1 DEF ThreadInv
  <1>10. PolledIsGranted'
    BY <1>1, <1>4, Unmoved
  <1>11. QED
    BY <1>8, <1>9, <1>10 DEF IInv

-----------------------------------------------------------------------------
(* The task that adds a host.                                              *)

LEMMA AddFetchStep ==
  ASSUME IInv, NEW t \in adds, AddFetch(t)
  PROVE  IInv'
  <1>1. /\ TypeOK /\ ThreadInv /\ PolledIsGranted
        /\ t \in [n : 0..MaxWork, addr : Addresses, info : Info]
        /\ UNCHANGED <<polling, auth, known, host, active, old, quits, pairs, posted, who, vm,
                       lateAdd, unseen>>
    BY DEF IInv, TypeOK, AddFetch
  <1>2. ServerInfo(t.addr) \in Info /\ ServerInfo(t.addr).uuid \in Hosts
    BY <1>1, Answers
  <1>3. PICK new : /\ new \in [n : 0..MaxWork, addr : Addresses, info : Info]
                   /\ new.info.read => new.info.uuid \in Hosts
                   /\ adds' \subseteq adds \union {new}
    <2>1. /\ [t EXCEPT !.info = ServerInfo(t.addr)] \in [n : 0..MaxWork, addr : Addresses, info : Info]
          /\ [t EXCEPT !.info = ServerInfo(t.addr)].info.uuid \in Hosts
      BY <1>1, <1>2
    <2>2. adds' \subseteq adds \union {[t EXCEPT !.info = ServerInfo(t.addr)]}
      BY DEF AddFetch
    <2>3. QED
      BY <2>1, <2>2
  <1>4. work' \in 0..MaxWork /\ failed' \in BOOLEAN
    <2>1. work' \in 0..MaxWork
      BY <1>1, PollingAssumption DEF AddFetch, Event, TypeOK
    <2>2. failed' = failed \/ failed' = (failed \/ t.addr = auth)
      BY DEF AddFetch
    <2>3. failed' \in BOOLEAN
      BY <1>1, <2>2 DEF TypeOK
    <2>4. QED
      BY <2>1, <2>3
  <1>5. TypeOK'
    BY <1>1, <1>3, <1>4 DEF TypeOK
  <1>6. ThreadInv'
    BY <1>1, <1>3 DEF ThreadInv
  <1>7. PolledIsGranted'
    BY <1>1, Unmoved
  <1>8. QED
    BY <1>5, <1>6, <1>7 DEF IInv

\* The host that answered is polled where it was found, if that is still granted.
LEMMA AddStoreStep ==
  ASSUME IInv, NEW t \in adds, AddStore(t)
  PROVE  IInv'
  <1> DEFINE h == t.info.uuid
             new == [Updated(h, t.info) EXCEPT !.manual = t.addr]
  <1>1. /\ TypeOK /\ ThreadInv /\ PolledIsGranted
        /\ t.addr \in Addresses /\ t.addr # NoAddress /\ t.info \in Info /\ h \in Hosts
        /\ UNCHANGED <<polling, auth, old, quits, pairs, who, vm, work, failed, unseen>>
    BY PollingAssumption DEF IInv, TypeOK, ThreadInv, AddStore
  <1>2. new \in HostRecord /\ new.manual = t.addr
    BY <1>1, Pollings DEF HostRecord
  <1>3. /\ known' = known \union {h} /\ adds' \subseteq adds
        /\ host' = [host EXCEPT ![h] = new]
        /\ active' = [active EXCEPT ![h] = StartPolling(h, t.addr, auth, active[h])]
        /\ posted' \subseteq posted \union {h}
        /\ lateAdd' = (lateAdd \/ t.addr # auth)
    BY <1>1 DEF AddStore, TypeOK
  <1>4. host' \in [Hosts -> HostRecord] /\ host'[h] = new /\ \A g \in Hosts : g # h => host'[g] = host[g]
    BY <1>1, <1>2, <1>3 DEF TypeOK, HostRecord
  <1>5. /\ StartPolling(h, t.addr, auth, active[h]) =
             IF polling /\ t.addr = auth /\ active[h] = NoThread THEN Thread(t.addr) ELSE active[h]
        /\ StartPolling(h, t.addr, auth, active[h]) \in ThreadSet
    BY <1>1, Readings DEF StartPolling, isAuthorized, TypeOK
  <1>6. /\ active' \in [Hosts -> ThreadSet] /\ \A g \in Hosts : g # h => active'[g] = active[g]
        /\ active'[h] = StartPolling(h, t.addr, auth, active[h])
    BY <1>1, <1>3, <1>5 DEF TypeOK
  <1>7. TypeOK'
    BY <1>1, <1>3, <1>4, <1>6 DEF TypeOK, HostRecord
  <1>8. ThreadInv'
    <2>1. \A g \in Hosts : active'[g] # NoThread => Polls(active'[g])
      BY <1>1, <1>5, <1>6, Readings DEF ThreadInv
    <2>2. QED
      BY <1>1, <1>3, <2>1 DEF ThreadInv
  <1>9. PolledIsGranted'
    <2>1. SUFFICES ASSUME ~lateAdd, t.addr = auth, NEW g \in Hosts
                   PROVE  /\ active'[g] # NoThread => Shown(g)' /\ polling /\ active'[g].addr = auth
                          /\ Shown(g)' /\ polling => active'[g] # NoThread
      BY <1>1, <1>3 DEF PolledIsGranted
    <2>2. /\ active[g] # NoThread => Shown(g) /\ polling /\ active[g].addr = auth
          /\ Shown(g) /\ polling => active[g] # NoThread
      BY <1>1, <2>1 DEF PolledIsGranted
    <2>3. CASE g = h
      <3>1. Thread(t.addr) # NoThread /\ Thread(t.addr).addr = auth
        BY <1>1, <2>1, Readings DEF Thread
      <3>2. Shown(g)'
        BY <1>1, <1>2, <1>3, <1>4, <2>1, <2>3 DEF Shown, isAuthorized
      <3>3. QED
        BY <1>5, <1>6, <2>1, <2>2, <2>3, <3>1, <3>2
    <2>4. CASE g # h
      <3>1. Shown(g)' <=> Shown(g)
        BY <1>1, <1>3, <1>4, <2>4 DEF Shown, isAuthorized
      <3>2. QED
        BY <1>6, <2>2, <2>4, <3>1
    <2>5. QED
      BY <2>3, <2>4
  <1>10. QED
    BY <1>7, <1>8, <1>9 DEF IInv

-----------------------------------------------------------------------------
(* The whole.                                                              *)

LEMMA IInvInit == Init => IInv
  <1> SUFFICES ASSUME Init
               PROVE  IInv
    OBVIOUS
  <1>1. PICK saved \in {{}} \union {{l} : l \in Leases} :
          /\ known = {l[2] : l \in saved}
          /\ host = [h \in Hosts |->
               [manual |-> IF \E l \in saved : l[2] = h
                           THEN (CHOOSE l \in saved : l[2] = h)[1] ELSE NoAddress,
                online |-> FALSE, game |-> FALSE, pendingQuit |-> FALSE, paired |-> FALSE]]
    BY DEF Init
  <1>2. saved \subseteq Leases /\ \A l \in Leases : l[1] \in Addresses /\ l[2] \in Hosts
    BY PollingAssumption
  <1>3. known \subseteq Hosts
    BY <1>1, <1>2
  <1>4. host \in [Hosts -> HostRecord]
    <2>1. \A h \in Hosts : (\E l \in saved : l[2] = h) =>
                             (CHOOSE l \in saved : l[2] = h)[1] \in Addresses
      BY <1>2
    <2>2. QED
      BY <1>1, <2>1 DEF HostRecord
  <1>5. who \in [Addresses -> Hosts]
    <2>1. \A a \in Addresses : \E h \in Hosts : <<a, h>> \in Leases
      <3>1. TAKE a \in Addresses
      <3>2. PICK l \in Leases : l[1] = a
        BY PollingAssumption
      <3>3. l = <<a, l[2]>> /\ l[2] \in Hosts
        BY <3>2, PollingAssumption
      <3>4. QED
        BY <3>3
    <2>2. QED
      BY <2>1 DEF Init
  <1>6. active \in [Hosts -> ThreadSet] /\ old \in [Hosts -> SUBSET ThreadSet]
    BY Readings DEF Init
  <1>7. TypeOK
    <2>1. /\ polling \in BOOLEAN /\ auth \in Addresses \union {NoAddress} /\ work \in 0..MaxWork
          /\ adds = {} /\ quits = {} /\ pairs = {} /\ posted = {} /\ unseen = {}
          /\ lateAdd = FALSE /\ failed = FALSE
      BY PollingAssumption DEF Init
    <2>2. vm \in [Hosts -> [game : BOOLEAN, paired : BOOLEAN]]
      BY DEF Init
    <2>3. QED
      BY <1>3, <1>4, <1>5, <1>6, <2>1, <2>2 DEF TypeOK, HostRecord
  <1>8. ThreadInv /\ PolledIsGranted
    BY DEF Init, ThreadInv, PolledIsGranted, Shown, isAuthorized
  <1>9. QED
    BY <1>7, <1>8 DEF IInv

LEMMA IInvNext == IInv /\ [Next]_vars => IInv'
  <1> SUFFICES ASSUME IInv, [Next]_vars
               PROVE  IInv'
    OBVIOUS
  <1>1. CASE Users
    BY <1>1, StopPollingStep, AssignStep, ElsewhereStep DEF Users, Elsewhere
  <1>2. CASE Tasks
    BY <1>2, OldEndsStep, AddFetchStep, AddStoreStep, ElsewhereStep DEF Tasks, Elsewhere
  <1>3. CASE \E h \in Hosts : PollStep(h)
    BY <1>3, FetchStep, PollStepDone DEF PollStep
  <1>4. CASE UNCHANGED vars
    <2>1. /\ UNCHANGED <<polling, auth, known, host, active, old, adds, quits, pairs, posted, who, vm,
                         work, lateAdd, failed, unseen>>
      BY <1>4 DEF vars, taskVars, histVars
    <2>2. TypeOK'
      BY <2>1 DEF IInv, TypeOK
    <2>3. QED
      BY <2>1, <2>2, Unmoved DEF IInv, ThreadInv
  <1>5. QED
    BY <1>1, <1>2, <1>3, <1>4, StartPollingStep DEF Next

\* addAssignedHost(), clearAssignedHosts(), startPollingComputer() and
\* PendingAddTask: however threads, tasks and users interleave, no thread but
\* those about to end contacts a VM where none is granted, and a host shown is
\* polled; unless an add that was slow to end moved a host back.
THEOREM GrantedIsPolled == Spec => []PollingInv
  <1>1. IInv => PollingInv
    BY DEF IInv, PollingInv
  <1>2. QED
    BY <1>1, IInvInit, IInvNext, PTL DEF Spec
=============================================================================
