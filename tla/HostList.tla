------------------------------ MODULE HostList ------------------------------
(***************************************************************************)
(* The client's host list on disk (ComputerManager): the threads that      *)
(* change a host, the main thread that asks for a flush when it hears of a *)
(* change, the flush thread that writes a backup, the list and removes the *)
(* backup, the destructor that stops it, and the constructor that reads    *)
(* the list again after an exit or a crash.                                *)
(*                                                                         *)
(* QSettings is external: a write array is readable from its endArray() on *)
(* (which stores its size) until the next beginWriteArray() or remove().   *)
(***************************************************************************)
EXTENDS Naturals, FiniteSets

CONSTANTS
  Uuids,      \* of hosts
  Names,      \* what serialize() writes of a host, but its apps
  AppLists,   \* its app list with the hidden and direct-launch marks
  NoApps,     \* the empty app list
  MaxChanges, \* bound: changes of hosts by the user, polls, adds and deletions
  MaxCrashes  \* bound: crashes

ASSUME HostListAssumption ==
  NoApps \in AppLists /\ MaxChanges \in Nat /\ MaxCrashes \in Nat

VARIABLES
  run,      \* "up", or the steps of ~ComputerManager: "intr", "join"; "down"
  knownHosts, \* m_KnownHosts
  unheard,  \* changed hosts whose computerStateChanged the main thread has not handled
  removing, \* hosts a DeferredHostDeletionTask has removed and not yet saved
  need,     \* m_NeedsDelayedFlush
  intr,     \* the flush thread's interruption was requested
  last,     \* m_LastSerializedHosts
  fl,       \* where the flush thread is
  backup, primary, \* SER_HOSTS_BACKUP and SER_HOSTS
  changes, crashes,
  safe,     \* history: hosts the last completed flush has written, but those deleted since
  torn,     \* history: crashes that cut a flush, since one was completed
  reverted, \* history: a host took back a change its listeners had not heard of
  missed    \* history: the wake-up of the destructor came before the wait

memVars == <<knownHosts, unheard, removing, need, last>>
diskVars == <<backup, primary, safe>>
boundVars == <<changes, crashes>>
listVars == <<run, memVars, intr, fl, diskVars, boundVars, torn, reverted, missed>>

Host == [name : Names, apps : AppLists]
HostMap == UNION {[S -> Host] : S \in SUBSET Uuids}
NoHosts == [h \in {} |-> [name |-> 0, apps |-> 0]]

ListInit ==
  /\ run = "up" /\ knownHosts = NoHosts /\ unheard = {} /\ removing = {}
  /\ need = FALSE /\ intr = FALSE /\ last = NoHosts /\ fl = "test"
  /\ backup = [ok |-> FALSE, hosts |-> NoHosts] /\ primary = [ok |-> FALSE, hosts |-> NoHosts]
  /\ changes = 0 /\ crashes = 0
  /\ safe = {} /\ torn = 0 /\ reverted = FALSE /\ missed = FALSE

-----------------------------------------------------------------------------
\* m_DelayedFlushMutex: the flush thread keeps it from its test to its wait.
MutexFree == fl # "sleep"

\* The polling threads run, which the destructor joins last.
Up == run # "down"

\* Mutant: the flag is set and nobody woken.
saveHosts_noWake ==
  need' = TRUE /\ UNCHANGED fl

saveHosts ==
  /\ need' = TRUE
  /\ fl' = IF fl = "asleep" THEN "test" ELSE fl

\* A change of a host: an app list is never replaced by an empty one.
Changed(h, host) ==
  h \in DOMAIN knownHosts /\ host # knownHosts[h] /\ (host.apps = NoApps => knownHosts[h].apps = NoApps)

\* A poll, a pairing or an added endpoint changes what is saved of a host; the
\* main thread will be told.
UpdateHost(h, host) ==
  /\ Up /\ changes < MaxChanges /\ Changed(h, host)
  /\ knownHosts' = [knownHosts EXCEPT ![h] = host]
  /\ unheard' = unheard \union {h}
  /\ reverted' = (reverted \/ (h \in unheard /\ h \in DOMAIN last /\ last[h] = host))
  /\ changes' = changes + 1
  /\ UNCHANGED <<run, removing, need, last, intr, fl, diskVars, crashes, torn, missed>>

\* PendingAddTask stores a new host, which has no app list yet.
AddHost(h, n) ==
  /\ run = "up" /\ changes < MaxChanges /\ h \notin DOMAIN knownHosts
  /\ knownHosts' = [k \in DOMAIN knownHosts \union {h} |->
                 IF k = h THEN [name |-> n, apps |-> NoApps] ELSE knownHosts[k]]
  /\ unheard' = unheard \union {h}
  /\ changes' = changes + 1
  /\ UNCHANGED <<run, removing, need, last, intr, fl, diskVars, crashes, torn, reverted, missed>>

\* saveHost(): does the host differ from what was last saved of it?
Differs(h) == h \notin DOMAIN last \/ last[h] # knownHosts[h]

\* handleComputerStateChanged() on the main thread.  What it would do with a
\* host that has been deleted is undefined; here it does nothing.
HandleComputerStateChanged(h) ==
  /\ run = "up" /\ h \in unheard /\ MutexFree
  /\ unheard' = unheard \ {h}
  /\ IF h \in DOMAIN knownHosts /\ Differs(h)
     THEN saveHosts
     ELSE UNCHANGED <<need, fl>>
  /\ UNCHANGED <<run, knownHosts, removing, last, intr, diskVars, boundVars, torn, reverted, missed>>

\* renameHost(), setAppHidden() and setAppDirectLaunch(): the main thread
\* changes a host and saves it at once.
RenameHost(h, host) ==
  /\ run = "up" /\ MutexFree /\ changes < MaxChanges /\ Changed(h, host)
  /\ knownHosts' = [knownHosts EXCEPT ![h] = host]
  /\ changes' = changes + 1
  /\ IF h \in DOMAIN last /\ last[h] = host THEN UNCHANGED <<need, fl>> ELSE saveHosts
  /\ reverted' = (reverted \/ (h \in unheard /\ h \in DOMAIN last /\ last[h] = host))
  /\ UNCHANGED <<run, unheard, removing, last, intr, diskVars, crashes, torn, missed>>

\* DeferredHostDeletionTask takes the host out of the map.
RemoveHost(h) ==
  /\ run = "up" /\ changes < MaxChanges /\ h \in DOMAIN knownHosts
  /\ knownHosts' = [k \in DOMAIN knownHosts \ {h} |-> knownHosts[k]]
  /\ removing' = removing \union {h} /\ safe' = safe \ {h}
  /\ changes' = changes + 1
  /\ UNCHANGED <<run, unheard, need, last, intr, fl, backup, primary, crashes, torn, reverted, missed>>

\* It then saves the list, whatever was saved before.
SaveRemoval(h) ==
  /\ run = "up" /\ h \in removing /\ MutexFree
  /\ removing' = removing \ {h}
  /\ saveHosts
  /\ UNCHANGED <<run, knownHosts, unheard, last, intr, diskVars, boundVars, torn, reverted, missed>>

-----------------------------------------------------------------------------
(* DelayedFlushThread::run().                                              *)

flushOnly == <<run, knownHosts, unheard, removing, intr, boundVars, reverted, missed>>

\* Mutant: an interruption ends the thread although a flush was asked for.
FlushTest_interruptFirst ==
  /\ fl = "test"
  /\ \/ intr /\ fl' = "ended" /\ UNCHANGED <<need, last>>
     \/ ~intr /\ need /\ need' = FALSE /\ last' = knownHosts /\ fl' = "begun"
     \/ ~intr /\ ~need /\ fl' = "sleep" /\ UNCHANGED <<need, last>>
  /\ UNCHANGED <<flushOnly, diskVars, torn>>

\* The critical section: end, begin a flush, or go to sleep.
FlushTest ==
  /\ fl = "test"
  /\ \/ need /\ need' = FALSE /\ last' = knownHosts /\ fl' = "begun"
     \/ ~need /\ intr /\ fl' = "ended" /\ UNCHANGED <<need, last>>
     \/ ~need /\ ~intr /\ fl' = "sleep" /\ UNCHANGED <<need, last>>
  /\ UNCHANGED <<flushOnly, diskVars, torn>>

\* m_DelayedFlushCondition.wait() gives the mutex back.
FlushSleep ==
  /\ fl = "sleep"
  /\ fl' = "asleep"
  /\ UNCHANGED <<flushOnly, need, last, diskVars, torn>>

\* serialize(settings, false) leaves the apps out.
Unlisted(hosts) == [h \in DOMAIN hosts |-> [hosts[h] EXCEPT !.apps = NoApps]]

\* beginWriteArray(SER_HOSTS_BACKUP).
BackupBegin ==
  /\ fl = "begun"
  /\ fl' = "backup" /\ backup' = [backup EXCEPT !.ok = FALSE]
  /\ UNCHANGED <<flushOnly, need, last, primary, safe, torn>>

BackupEnd ==
  /\ fl = "backup"
  /\ fl' = "backed" /\ backup' = [ok |-> TRUE, hosts |-> Unlisted(knownHosts)]
  /\ UNCHANGED <<flushOnly, need, last, primary, safe, torn>>

\* Mutant: the backup is given up before the list is written.
PrimaryBegin_noBackup ==
  /\ fl = "backed"
  /\ fl' = "primary" /\ primary' = [primary EXCEPT !.ok = FALSE]
  /\ backup' = [backup EXCEPT !.ok = FALSE]
  /\ UNCHANGED <<flushOnly, need, last, safe, torn>>

\* remove(SER_HOSTS) and beginWriteArray(SER_HOSTS).
PrimaryBegin ==
  /\ fl = "backed"
  /\ fl' = "primary" /\ primary' = [primary EXCEPT !.ok = FALSE]
  /\ UNCHANGED <<flushOnly, need, last, backup, safe, torn>>

PrimaryEnd ==
  /\ fl = "primary"
  /\ fl' = "written" /\ primary' = [ok |-> TRUE, hosts |-> knownHosts]
  /\ UNCHANGED <<flushOnly, need, last, backup, safe, torn>>

\* remove(SER_HOSTS_BACKUP).
BackupRemove ==
  /\ fl = "written"
  /\ fl' = "test" /\ backup' = [backup EXCEPT !.ok = FALSE]
  /\ safe' = DOMAIN primary.hosts \intersect DOMAIN knownHosts /\ torn' = 0
  /\ UNCHANGED <<flushOnly, need, last, primary>>

\* A crash now would leave a flush half done.
Flushing == fl \in {"backup", "backed", "primary", "written"}

-----------------------------------------------------------------------------
(* Exit, crash and start.                                                  *)

\* ~ComputerManager interrupts the flush thread; the thread pool has been
\* waited for.
Quit ==
  /\ run = "up" /\ removing = {}
  /\ run' = "intr" /\ intr' = TRUE
  /\ UNCHANGED <<memVars, fl, diskVars, boundVars, torn, reverted, missed>>

\* Mutant: the thread is not woken.
WakeFlush_none ==
  /\ run = "intr"
  /\ run' = "join" /\ missed' = (fl = "sleep")
  /\ UNCHANGED <<memVars, intr, fl, diskVars, boundVars, torn, reverted>>

\* It wakes the thread, without the mutex.
WakeFlush ==
  /\ run = "intr"
  /\ run' = "join" /\ missed' = (fl = "sleep")
  /\ fl' = IF fl = "asleep" THEN "test" ELSE fl
  /\ UNCHANGED <<memVars, intr, diskVars, boundVars, torn, reverted>>

\* The process is gone and with it its memory.
Gone ==
  /\ run' = "down" /\ knownHosts' = NoHosts /\ unheard' = {} /\ removing' = {}
  /\ need' = FALSE /\ last' = NoHosts /\ fl' = "ended" /\ intr' = FALSE
  /\ reverted' = FALSE /\ missed' = FALSE

\* The flush thread has been joined and the program ends.
Exit ==
  /\ run = "join" /\ fl = "ended"
  /\ Gone
  /\ UNCHANGED <<diskVars, boundVars, torn>>

Crash ==
  /\ Up /\ crashes < MaxCrashes
  /\ crashes' = crashes + 1
  /\ torn' = IF Flushing THEN torn + 1 ELSE torn
  /\ Gone
  /\ UNCHANGED <<diskVars, changes>>

\* beginReadArray(): an array without a size has none.
ReadArray(array) == IF array.ok THEN array.hosts ELSE NoHosts

\* What the constructor finds: the backup, or else the list.
Stored == IF DOMAIN ReadArray(backup) # {} THEN ReadArray(backup) ELSE ReadArray(primary)

Start ==
  /\ run = "down"
  /\ run' = "up" /\ knownHosts' = Stored /\ last' = Stored
  /\ fl' = "test"
  /\ UNCHANGED <<unheard, removing, need, intr, diskVars, boundVars, torn, reverted, missed>>

-----------------------------------------------------------------------------
FlushThread == FlushTest \/ FlushSleep \/ BackupBegin \/ BackupEnd \/ PrimaryBegin
               \/ PrimaryEnd \/ BackupRemove

Changes(h) ==
  \/ \E n \in Names : AddHost(h, n)
  \/ \E host \in Host : UpdateHost(h, host) \/ RenameHost(h, host)
  \/ RemoveHost(h)

Saves(h) == HandleComputerStateChanged(h) \/ SaveRemoval(h)

ListNext ==
  \/ FlushThread
  \/ \E h \in Uuids : Changes(h) \/ Saves(h)
  \/ Quit \/ WakeFlush \/ Exit \/ Crash \/ Start
  \* Nothing is left to do within the bounds.
  \/ fl = "asleep" /\ UNCHANGED listVars

ListSpec == ListInit /\ [][ListNext]_listVars

\* The threads run; the user owes nothing.
Fairness ==
  /\ WF_listVars(FlushThread)
  /\ WF_listVars(WakeFlush \/ Exit)
  /\ \A h \in Uuids : WF_listVars(HandleComputerStateChanged(h)) /\ WF_listVars(SaveRemoval(h))

FairSpec == ListSpec /\ Fairness

-----------------------------------------------------------------------------
ListTypeOK ==
  /\ run \in {"up", "intr", "join", "down"}
  /\ knownHosts \in HostMap /\ last \in HostMap
  /\ unheard \subseteq Uuids /\ removing \subseteq Uuids /\ safe \subseteq Uuids
  /\ need \in BOOLEAN /\ intr \in BOOLEAN /\ reverted \in BOOLEAN /\ missed \in BOOLEAN
  /\ fl \in {"test", "sleep", "asleep", "begun", "backup", "backed", "primary", "written", "ended"}
  /\ primary \in [ok : BOOLEAN, hosts : HostMap] /\ backup \in [ok : BOOLEAN, hosts : HostMap]
  /\ \A h \in DOMAIN backup.hosts : backup.hosts[h].apps = NoApps
  /\ changes \in 0..MaxChanges /\ crashes \in 0..MaxCrashes /\ torn \in 0..MaxCrashes

\* "If there's a hosts backup copy, we must have failed to commit a previous
\* update before exiting.  Restore the backup now": whenever the program dies,
\* the next start finds every host that the last completed flush has written
\* and nobody has deleted, unless the flush before was cut as well.
HostsSurvive == torn + (IF Flushing THEN 1 ELSE 0) <= 1 => safe \subseteq DOMAIN Stored

\* "Delayed flushes should have completed by now": when the destructor has
\* joined the flush thread, the disk holds the list as the main thread last
\* heard of it.
ExitSaves ==
  run = "join" /\ fl = "ended" => ~need /\ (unheard = {} /\ ~reverted => Stored = knownHosts)

\* The types, and the list that an exit leaves behind.
ListInv == ListTypeOK /\ ExitSaves

\* While the program runs, every change reaches the disk: a flush that begins
\* while another change arrives does not swallow it.
SavedEventually == run = "up" /\ Stored # knownHosts ~> Stored = knownHosts \/ run # "up" \/ reverted

\* The destructor does not wait for ever, but for a wake-up between the
\* thread's test and its wait.
ExitEnds == run = "intr" ~> run = "down" \/ missed
=============================================================================
