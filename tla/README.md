# Verification of GilStreaming

GilStreaming lends pooled streaming VMs to signed-in users. It has two programs:

- the **coordinator** (`src/coordinator`, Go): an HTTP service that signs users
  in through GILid, keeps a pool of Sunshine VMs, leases a VM to one client at a
  time, submits pairing PINs and relays streams;
- the **client** (`src/app`, C++/Qt/QML): a Moonlight fork whose start page signs
  in to the coordinator, asks it for a VM, keeps the lease alive and streams from
  the VM, directly or through a local relay bridge.

This directory holds TLA+ models of the parts that decide *who may use which VM
and when*, of the relay between client and VM, of the life of a streaming session and
of the way of its video frames, and of what the client believes about its hosts,
TLC configurations that check them on small instances, and TLAPS proofs for every
size of the pool.

## 1. Inventory

### Coordinator

| Part | State | Operations | Talks to |
|---|---|---|---|
| `store.go` Store | VM list, lease table, JSON state file, one mutex | CreateOrRecover, Heartbeat, Release, LeaseVM, AdminSnapshot, AdminLease, AdminRelease, AdminAssign, UpdateVMs, Load | called by every handler; writes the state file by rename |
| `main.go` handlers | none between requests | createLease, heartbeat, pairLease, release, login endpoints | Store, Discovery, Sunshine, AuthBroker |
| `discovery.go` | none | Refresh: browse mDNS up to 3 s, then UpdateVMs | Store |
| `admin.go` | none | adminStatus, adminAssign, adminKick | Store, Sunshine |
| `auth.go` AuthBroker | pending logins, OAuth states, sessions, one mutex | Start, Status, Callback, DevLogin, Authenticate | GILid, by HTTP between two critical sections |
| `admin_auth.go` AdminAuth | pending logins, cookie sessions | Start, Callback, Authenticate, Logout | GILid; shares the OAuth callback with AuthBroker |
| `sunshine.go` | none | Pair (retries for 8 s), CloseApp, removal of stale clients | a VM's Sunshine |
| `relay.go` | one goroutine group per relay | relay, watchRelayLease, relayTCP, relayUDP | Store, the VM, the client |
| `turn.go` | cached TURN credentials | refresh loop, Credentials | Cloudflare |
| `cmd/gilstreaming-turn-relay` | a TURN allocation | copy loops | started by the client's RelayBridge |

What is hard here: a handler that waits for the network between two store calls
acts on a lease it looked up earlier; a failed write must not leave memory and
file in disagreement; expiry is only noticed when somebody calls the store; two
OAuth callbacks for one login may overlap; nothing of AuthBroker survives a
restart while the leases do.

What makes it correct: one client per VM, in memory and in the file; what a
client was told it holds stays its own until then; every lease is on disk as it is in
memory, but for a renewal that could not be saved; an operator's kick hits only its lease; a
relay is cut when its lease ends; a login is exchanged once and its token handed
out once; what a VM sent reaches the client before the end of the stream does, and a
relay leaves no goroutine or socket behind; TURN credentials handed out have their
minimum validity left.

### Client

| Part | State | Operations | Talks to |
|---|---|---|---|
| `gilcoordinator.cpp` | token, lease id, busy flag, login poll timer, heartbeat timer, endpoint | startLogin, pollLogin, requestVm, completeAssignment with the route probe, sendHeartbeat, logout, setUseLanCoordinator | coordinator, RelayBridge, QML |
| `LoginView.qml`, `main.qml`, `SettingsView.qml` | the view stack, the authorized host | button guards, assignedHost, assignmentRevoked | GilCoordinator, ComputerManager |
| `relaybridge.cpp` | local TCP and UDP ports, tunnels, pending buffers, TURN helper process | start, stop, tunnels, fallback | coordinator's relay, TURN helper |
| `computermanager.cpp`, `nvcomputer.cpp` | host list, polling threads, delayed save | addHost, poll, delete, pair, quit | VM over HTTP, mDNS |
| `nvhttp.cpp`, `nvpairingmanager.cpp`, `identitymanager.cpp` | certificate, pairing state | pair, launch, resume, quit | VM |
| `session.cpp` | the one active session, its threads | start, event loop, decoder restart, clean-up | moonlight-common-c, SDL |
| `audio/`, `input/`, `video/` | renderers, key and gamepad state, frame queues | callbacks of the stream threads | session |
| `cli/` | launcher state machines | startstream, quitstream, pair, listapps | ComputerManager, Session |

What is hard here: the client has one thread but many things in flight. A reply,
a timer or a probe result may arrive after a logout, a new login, a switch of
endpoint or the loss of the lease, and the handlers share `m_LeaseId`, `m_Busy`
and two timers.

A streaming session is concurrent in earnest. The main thread leaves Qt's event
loop for SDL's and comes back; a thread connects; moonlight-common-c calls back
from its own threads; a thread-pool task stops the connection after the window is
gone; on Unix a signal thread interrupts. They meet in the SDL event queue, in the
signals posted to the main thread, in the decoder lock and in a semaphore. Below
that, three threads hand video frames on through two short queues, and the main
thread stops them one after the other when it deletes the decoder.

What makes it correct: a host on the screen has a lease that is kept alive, a
relay bridge has a lease behind it, the start page does not stay busy; one
session is active at a time and a launch or an interrupted session ends; the
decoder comes back after every reset, once, and with the host's HDR mode; a frame has
one owner at a time, is freed once and shown in order, and its threads end; the
host list reaches the disk and survives a crash; only hosts at the granted address are polled
and the leased one appears with its real state, whichever thread finishes last; the relay bridge has one
way for UDP and nothing of one lease is left for the next.

## 2. Modules

| Module | Stands for | Uses |
|---|---|---|
| `VMPool` | what a pool promises: timed, exclusive claims | |
| `LeaseStore` | `store.go`, with the state file, crashes and time | `VMPool` (refinement) |
| `Coordinator` | the handlers of `main.go`, `admin.go`, `relay.go`, cut where they wait | extends `LeaseStore` |
| `AuthBroker` | `auth.go`, `admin_auth.go`, the OAuth callback | |
| `RelayTunnel` | one relayed TCP connection: `relayTCP`, `watchRelayLease` and the `TcpTunnel` of `relaybridge.cpp` | |
| `RelayBridge` | the UDP side of `relaybridge.cpp`, with the TURN helper's process and `relayUDP` | |
| `TurnProvider` | `turn.go` | |
| `GilCoordinator` | `gilcoordinator.cpp` and the QML around it | |
| `HostPolling` | `computermanager.cpp` while the client runs: the granted address, polling threads and tasks | |
| `HostList` | the delayed save of the host list in `computermanager.cpp`, with crashes | |
| `Session` | `session.cpp` with `StreamSegue.qml`, the gamepad polling of the GUI and the signal thread of `main.cpp` | |
| `Pacer` | `pacer.cpp` and the decoder thread of `ffmpeg.cpp` | |
| `CoordinatorProofs` (with the store), `AuthBrokerProofs`, `GilCoordinatorProofs`, `HostProofs` (`HostList` and `HostPolling`), `RelayProofs` (`RelayTunnel` and `TurnProvider`), `RelayBridgeProofs`, `SessionProofs`, `PacerProofs` | proofs | |
| `MCLeaseStore`, `MCCoordinator`, `MCSession`, `MCPacer`, `MCHostPolling` | configurations and symmetry sets for TLC | |

`PROJECT.json` gives, for every definition, the source lines it stands for.

### LeaseStore and VMPool

Each exported method of `Store` holds one mutex from entry to return, so each is
one action. `leases` is `s.leases` as a set of records, `disk` the leases of the
state file, `vms` the VM list in order, `up` whether the process runs.
`persistLocked` writes a temporary file and renames it: an action that calls it
has two outcomes, written and failed, and in the second one it does what the code
does with the table it has already changed (`Inserted` rolls a new lease back,
`Release` does not).

`promised` is a history variable: the copies of leases that replies have carried
(`cloneLease`) and that were not released, kicked, or dropped because the VM had
become unusable when the client asked again. It is how the properties can speak
of what a client *believes*. `released` records the acknowledged releases,
`unsaved` the leases renewed since the file was last written, for which a failed
write leaves memory ahead of the file.

The code compares `ExpiresAt` only with the current time, so a lease carries the
time it has *left*, and `Tick` ages every copy of it: memory, file and promise.
This keeps the state finite without bounding time. `ExpiresAt.After(now)` is
`left > 0`, so a lease that ends now has ended, in `reapLocked` and in `Load`.

`Crash` forgets memory, `Restart(c)` is `Load` with any configuration `loadConfig`
accepts: VMs may have been disabled or taken off the list in between.

`VMPool` is the abstract specification: `Assign` gives a client an unclaimed VM or
renews its claim, `Withdraw` ends one, `Tick` ages them. The refinement mapping
takes the unexpired promises and forgets the lease id (`Claims`).

Left out: device names, creation times, JSON, log lines.

### Coordinator

A handler that waits for the network between two store calls is several actions
on a `Slot` (a goroutine): `createLease` browses, then allocates; `pairLease`
checks the lease, then removes stale certificates, then submits the PIN; `relay`
checks, dials, relays and is watched; `release` checks, then deletes; `adminKick`
looks up, closes the app, then releases. The others are single steps.

Waits are bounded by the code's timeouts: `task[s].age` counts ticks since the
last store call, and time does not pass beyond the limit (`Limit`) before the
handler has moved. `session` (whose app runs on a VM) and `paired` (Sunshine's
certificates) are external state, changed as `sunshine.go` uses them.

Merged: `Refresh` calls `store.VMs()` (`discovery.go:48`) and later `UpdateVMs` (`:67`), one
step here: only `UpdateVMs` replaces the list, and of two that overlap the last one wins either way.

### AuthBroker

A login attempt stands for its request id and its OAuth state. `open` is
`stateToRequest`; a callback consumes the state in one critical section
(`CallbackBegin`), exchanges the code with GILid, and stores the result in another
(`CallbackDone`, `CallbackFails`); the admin flow does the same with its own
tables. Every entry point cleans expired entries first, as in the code. `Restart`
forgets everything. `started`, `signed` and `delivered` are history.

### GilCoordinator

Everything runs on the Qt main thread: a handler is one step. `work` holds what is
in flight: a request, later with its reply, or the route probe a lease reply turns
into. The coordinator (`srv`, `valid`, `opened`, `logins`) is external and does,
for the one device this client runs on, what the two models above do; a request
may fail before or after it acted. The views matter because QML decides who
listens: `assignedHost` is heard only by a LoginView, buttons are guarded by
`busy`, the account and the view on top.

The heartbeat timer has a period of 30 s; a request ends within 20 s and a probe
within 1.8 s. `earlier` records what was in flight when the timer was started or
fired, and the timer does not fire again before that is over.

Left out: the login that only debug builds offer, status texts, profile, PIN texts (`approvePairing` changes only these),
and the branches for a lease reply without an id or a login reply without a token,
which the coordinator never sends.

### Session

`main` says where the main thread is: in Qt's loop (`ui`, `launching`, `connecting`,
`returning`), waiting for the semaphore (`acquire`), in the SDL loop (`loop`), inside
it with the decoder lock held (`recreate`, `unlock`), or gone (`exited`). `async` is the
connecting thread, `cleanup` the task that ends a session, `conn` the connection,
`posted` what other threads have queued for Qt's loop, `queue` the SDL events. `ses` holds
the fields of each `Session` object that more than one thread touches.

An event handler of the SDL loop is one action, except the recreation of the
decoder: callbacks run meanwhile and find the lock taken, so it is cut into
`DestroyDecoder`, `ChooseDecoder` (which ends by reading the host's HDR mode) and
`UnlockDecoder`. An event `STALE` is a reset request whose decoder has been deleted.
The SDL queue lives as long as some subsystem that needs events is initialized:
`Pushed` drops an event when there is none, `AfterVideoQuit` empties the queue, and
the Windows build keeps it for the program's life (`KeepsVideo`).

External: moonlight-common-c, whose callbacks come between `LiStartConnection` and
`LiStopConnection` only and which terminates once; and the window system, which
reports a size after a restore or a change of full screen. `hdrRace` is history.

Merged: `exec()` from its beginning (1804) to its loop (2020) is one step, `EnterLoop`, though
it pumps Qt events (1815). A termination in between comes before it in the model, which for
line 1971 makes no difference; a window that starts minimized (1848) is started as shown.

Left out: the choice of codecs and the warnings of `initialize` and `validateLaunch`
(any outcome is possible), window geometry, overlays, input and audio.

### Pacer

A step is what a thread does from taking `m_FrameQueueLock` to giving it back. The
wake-ups, which the code sends without the lock, are steps of their own (`notify`).
Between its test and its wait the render thread holds the lock (`rt = "sleep"`),
which is why `LockFree` guards what the other threads do to the queues. `pacing` and
`render` are the queues, `vsHand`, `rtHand` and `deferred` the frames outside them, `live` the
frames not freed. `mode` is what the renderer and the display decide: a V-sync
source or none, a render thread or the main thread, buffering or not, a stream
faster than the display or not. A history is kept as the sequence of the answers to
the one question the code asks of it: was the queue short?

The codec, the host and the display are external: a codec may keep frames back,
fail, or lose one. `missed` and `crashed` record two places where the model must stop
being a pacer: the render thread sleeping through the wake-up of the destructor,
and a dequeue from an empty queue (see the observations in section 3).

Left out: colour metadata, cropping, statistics, time stamps, running out of memory.

### HostList

`knownHosts` is `m_KnownHosts`, `last` is `m_LastSerializedHosts`, `need` the flush flag; a host is
what `serialize` writes of it, with its app list apart because the backup leaves app
lists out. `unheard` holds the hosts that polls, adds and pairings have changed and the
main thread has not heard of. `fl` says where `DelayedFlushThread::run` is; it is cut at
every write to QSettings, and between its test and its wait it holds the mutex
(`MutexFree`). `run` follows the destructor: interruption requested, woken, joined.

QSettings is external: an array can be read from `endArray()`, which stores its size,
until the next `beginWriteArray()` or `remove()`. Writes are taken to reach the disk one
by one, as in the Windows registry; a settings file is written as a whole when the
`QSettings` object goes, which is the case of a crash that comes before or after. A
`Crash` forgets memory, `Start` is the constructor: the backup if it has hosts, or else
the list. `safe` (what the last completed flush wrote), `torn`, `reverted` and `missed` are
history.

Merged: the primary list's snapshot and its `endArray()` (295-310) are one step, `PrimaryEnd`.

Left out: the copying of `m_LastSerializedHosts`, which walks `m_KnownHosts` without
`m_Lock`, is one step; what a queued signal does with a deleted host is undefined in
the code and nothing in the model.

### RelayTunnel

One connection from the streaming code's socket to the VM's. Each stretch of it is a
queue of chunks with an end: `lreq`, `lrsp` on the loopback side, `up`, `down` between the
client's WebSocket and the coordinator's, `ureq`, `ursp` between the coordinator and the
VM. What a closing socket leaves undelivered is any prefix (`Cut`). The handlers
and timers of the tunnel are `Bridge`; the two goroutines of `relayTCP` (`creader`, `ureader`, with the
chunk each has read and not written), the handler that waits for their `results` and the
lease watcher are `Coordinator`. A write waits for room (`Window`), which is what a hung
VM or a lost network makes it do for ever. The handshake at the end of a response is
cut at its waits: result, close frame, acknowledgement or timeout, close.

External: the application, the VM, the lease, the network. `late`, `slow` and `aborted`
are history: sent to a VM that had closed, cut by a timer, closed by the client itself.

Merged: the lease watcher's close frame (`relay.go:128`) and its close of the client's connection.

### RelayBridge

`start()` waits for the TURN helper with the main thread, so `main = "turn"` shuts every
handler out while the helper's process goes on: it opens its ports one after the other,
prints READY, and may die at any point. `attached` says that `m_TurnProcess` is set and
its `finished` signal connected. The fallback binds the same ports; `other` are ports of
other programs, `selfBlocked` records a port that was busy by the bridge's own doing. Of
the WebSocket endpoints, which are alike, one is followed: its socket, its `pending` queue,
its WebSocket, the retry timer. A datagram carries its number and the lease it was sent under.

Left out: datagrams from the VM, keepalive pings, the TCP side (`RelayTunnel`).

### TurnProvider

One goroutine that sleeps or is in a request. Cloudflare counts the life of credentials
from when it issues them (`end`), the code from when the reply arrives (`cached`); a failure is
a reply that never comes, an error or an unusable one, at any time up to the timeout.

### HostPolling

`polling`, `auth`, `known` and `host` are `m_PollingRef`, `m_AuthorizedAddresses`, `m_KnownHosts`
and the fields of each `NvComputer` that several threads write. `active[h]` is the running
thread of a `ComputerPollingEntry`, `old[h]` those that were interrupted and may still finish the
poll they are in. A request and the use of its reply are two steps, for polls (`Fetch`,
`Poll`) and for the task that adds an assigned host (`AddFetch`, `AddStore`). A task that quits
reads `currentGameId` when it runs, not when it was asked. `posted` are queued signals. VMs are
external: `who` answers at an address, and behind the relay's one loopback address this
changes with the lease. A VM reports a pairing only to a client that has pinned its
certificate (`nvhttp.cpp:146`), which is when the pairing task is done (`ServerInfo`).

Merged: a quit task's look at `currentGameId` and what its request does to the VM
(`RunQuit`); there is one such task per host.

Left out: mDNS (disabled in this client), the apps of a host, reachability, and what the tasks and
queued signals do with a host deleted meanwhile: they use its pointer, which is undefined.

## 3. Runs

| Run | Instance | Checks |
|---|---|---|
| `lease` | 2 VMs, 2 users, 3 lease ids, TTL 2, 3 configurations | `StoreInv` (types, `NoDoubleAssignment`, `OneClientPerVM`), `Durable`, `PromiseKept`, `ImplementsPool`, `NoStarvation` |
| `coordinator_safety` | 1 VM, 2 users, 3 lease ids, 2 handlers | `CoordinatorInv` (types, `RelayCut`), `KickHitsOnlyItsLease` |
| `auth` | 2 logins, 2 tokens, 2 users (one an administrator), 2 callbacks | `AuthInv` (types, `StateSingleUse`), `TokenGood` (`TokenWorks`, `TokenOnce`), `AdminOnly`, `LoginEnds` |
| `client` | 2 leases, 2 things in flight, 2 views | `ClientInv` (types, `HostIsKeptAlive`, `BridgeIsBacked`), `BusyEndsOutsideRace` |
| `relay_tcp` | 2 chunks each way, a buffer of 1, a window of 1 | `TunnelInv` (types and buffers, `InOrder`), `EofIsComplete`, `TunnelEnds` |
| `relay_udp` | 2 leases, 2 local ports, 2 TURN ports, 4 datagrams, a queue of 2, 2 faults | `BridgeInv` (types, `OnePath`), `QueueInv` (`PendingIsNewest`, `OwnLeaseOnly`), `UdpFlows` |
| `turn` | TTL 12, advance 6, minimum validity 2, delays and timeout 1, 40 units of time | `CredentialsInv` (types, `HandedOutLives`), `LapseNeedsFailures` |
| `hosts` | 2 VMs, both at the relay's address and one at its own, 5 events | `PollingInv` (types, `PolledIsGranted`), `LeasedHostAppears`, `QuitEnds` |
| `host_list` | 2 hosts, 2 names, 2 app lists, 3 changes, 2 crashes | `ListInv` (types, `ExitSaves`), `HostsSurvive`, `SavedEventually`, `ExitEnds` |
| `session` | Windows and Linux builds; 2 sessions with an input and a signal, or 1 session with 2 inputs and an HDR change | `SessionInv` (types, `OneStream`), `NoStaleReset`, `DecoderComesBack`, `HdrIsApplied`, `SessionEnds`, `LaunchEnds` |
| `pacer` | 6 kinds of renderer; up to 6 frames without a V-sync source, 3 or 4 with one | `PacerInv` (types, `OwnedOnce`), `InOrder`, `FramesBounded`, `QueuesDrain`, `DecoderGoes` |

One run shows where the documents and the code disagree; TLC must find the violation.
`PROJECT.json` quotes the lines.

| Run | Says | Happens |
|---|---|---|
| `lease_release` | release is idempotent, state is crash-safe | the write of a release fails (500), the retry is answered 204 without a write, and a restart brings the lease back |

Some observations, found with the models, have no run of their own.

Leases and sign-in:

- `docs/coordinator-api.md` and `docs/architecture.md` describe a `cleaning` state and
  a background reaper: the code has neither, expiry is noticed by the next call
  (`NoStarvation` shows that this is enough).
- A renewal whose write fails is answered with an error and still kept in memory
  (`store.go:132`, `184`). Until the next write the coordinator answers requests with it, and a
  crash takes it back, with it the lease if its old end has passed (`unsaved`).
- A kick can close the app of the VM's next holder: the lease may end and the VM be leased
  again while `CloseApp` is on its way (`admin.go:188`). The next *lease* is safe
  (`KickHitsOnlyItsLease`).
- The lease may end during the retries of `Pair`: the VM is then somebody else's when
  the PIN is submitted.
- `coordinator/README.md` says that an undiscovered VM is not assigned; an address
  found once is never forgotten, so a VM that is gone is given out with its old one.
- A heartbeat that fails while the route of a new assignment is probed clears `m_LeaseId`;
  `completeAssignment` then returns early (`gilcoordinator.cpp:244`) and nothing clears
  `m_Busy`. `BusyEndsOutsideRace` excludes it.
- When two lease requests of a client are in flight at once (overlapping login
  polls, or a logout and a new login) and their replies carry different leases,
  the second `assignedHost` is heard by nobody: the client renews the second lease
  and keeps showing the host of the first.
- A route probe of the public endpoint outlives a switch to the LAN endpoint and
  then starts the relay bridge.

Relay:

- A TURN helper that ends after READY while `start()` still reads its output is reaped there,
  before its `finished` handler is connected (`relaybridge.cpp:265`, `287`): the bridge keeps the
  dead helper and never falls back. `UdpFlows` excludes it (`reaped`).
- What the local socket sends to a tunnel that drains is put in `pending` and never sent.

Hosts:

- A quit task that runs after an older poll or add wrote `currentGameId = 0` sends nothing, and
  the quit stays pending until a game has been seen to run and to end. The same holds when the
  game ended by itself before the user asked, or started again before a poll saw it gone.
  `QuitEnds` excludes these (`unseen`).
- An add task that ends after its address was given up moves its host to that address, and with
  it hides the host or leaves a thread polling it (`lateAdd`).
- All relayed VMs have the same loopback address, so a saved host of an earlier lease is
  authorized, polled and shown, offline, when another VM is leased there; the comment at
  `computermanager.cpp:489` says that only the current lease's host is shown.
- Two crashes in successive flushes lose the whole host list: the restored backup is
  not written back to the list, and the next flush gives the backup up while the
  list is still missing. `HostsSurvive` excludes it (`torn`). A start from the backup
  also has no app lists, and with them no hidden or direct-launch marks.
- A host that is changed, flushed and changed back before its signal is handled equals
  `m_LastSerializedHosts` and is not saved again (`reverted`).
- `~ComputerManager` wakes the flush thread without its mutex and can miss it, like
  `~Pacer` (`missed`).

Streaming:

- A connection that breaks off after the first frame, before `exec()` sets `m_UnexpectedTermination`
  to false (`session.cpp:1971`), counts as one that ended gracefully: the `SDL_QUIT` of the callback
  ends the loop, and with `quitAppAfter` the host's app is quit, against the comments at
  `session.cpp:1276` and `1968`. The model takes these steps (`ConnectionTerminated`, `EnterLoop`,
  `HandleQuit`, `Cleanup`); no property forbids them.
- A connection that ends before its first frame never enters the SDL loop. The `SDL_QUIT` of
  the callback stays queued; on Windows the GUI's gamepad polling takes it and quits the
  program with the error dialog unread (`session.cpp:1804`).
- An HDR change between the read of the host's mode and the unlock of the decoder
  is lost until the next one; `HdrIsApplied` excludes it (`hdrRace`).
- `~Pacer` sets `m_Stopping` and wakes the render thread without the lock. When that
  thread has tested `m_Stopping` and not begun its wait, it sleeps through the
  wake-up and the main thread joins it for ever; `DecoderGoes` excludes it (`missed`).
- With a V-sync source there are two queues of 3, a frame in each thread's hand and
  the one on the screen: the pacer may hold more than the 5 frames that `pacer.h` calls
  the maximum and that `ffmpeg.cpp` sizes the codec's pool with. `FramesBounded` is
  about renderers without one.
- The wake-up of `submitFrame` is sent after the unlock. The V-sync thread may have
  taken that frame by then and wait for the next: woken, it dequeues from an empty
  queue (`crashed`).

### Why these bounds

Exclusivity, promises and kicks are about pairs: two clients competing for one
VM, two leases on it one after the other, two handlers of which one waits while
the other acts. A third of either adds no new kind of interference, and for the
store and for `KickHitsOnlyItsLease` the proofs remove the bounds altogether. TTL 2
gives a lease that is fresh, one about to end and one that has ended; a TTL of 1
would not tell a renewed lease from an old one. The `lease` run has three
configurations because a restart may find a VM disabled or no longer listed.
Lease ids are reused once nothing refers to them any more, so three of them do
not limit the length of a run. The ticks of the coordinator are 1 or 2 so that
every order of "the lease ends" and "the wait ends" occurs.

For the client two requests in flight are needed for every race of late replies; two leases
let a late reply carry another lease than the current one; two views let Settings
lie over LoginView (`MaxViews`). Login ids are used once (`logins`), lease ids
once (`used`), which bounds the number of sign-ins and leases of one run.

Two chunks each way let one be read and not written while the next is on its way, with every
buffer full at one (`MaxPending`, `Window`); `MaxReq` and `MaxRsp` are these bounds. For UDP, `MaxData` is twice what the
queue takes, so a full queue drops, drains and fills again; two leases (`MaxStarts`) show what
one leaves to the next, two TURN ports (`MaxPorts`) a helper that is given up and another that is
tried, and two faults (`MaxFaults`) a dead helper followed by a busy port or a lost WebSocket. The 40
units of time of `turn` (`MaxTime`) are six refreshes or a lapse and its end; its proofs remove
the bound and the values. Five events of users and VMs (`MaxWork`, of which a lease takes two) let one lease follow
another while a quit, a pairing or a game meets it; threads and tasks are not bounded.

A session needs a second one only to see what the first left behind: its
semaphore, its clean-up task, its events. Two inputs let a reset meet a window
event, a change of full screen or a minimized window. `Budgets` names these bounds;
they limit what the user, the host and the operator do, never what the program
does in answer. The Mac build destroys the decoder on a toggle like the Windows
one and drops the SDL queue like the Linux one.

Six frames without a V-sync source are one more than the pacer is meant to hold, so
every drop rule is reached. With two queues four frames fill one of them and let
the other have a frame waiting. `HistoryLen` 1 lets each of
the two drop targets follow the other at once. `MaxUnits` bounds what the host sends,
`CodecDepth` what the codec keeps back.

Three changes (`MaxChanges`) let one host be saved, a second change meet the flush of
the first, and a third follow a restart; two crashes (`MaxCrashes`) are what the
recovery can be cut by. `HostsSurviveCrash` and `ExitKeepsList` remove both bounds, `GrantedIsPolled` that of
`hosts`, `OnePathOnly` and `QueueIsNewest` those of `relay_udp`, and the theorems of `AuthBrokerProofs`
those of `auth`.

### Fairness

- `LeaseStore`: time passes (`Tick`) and a crashed service is started again.
  `NoStarvation` also assumes, as part of its statement, that the client keeps
  asking (strong fairness of a request that can succeed) and that the others are
  silent from some time on.
- `AuthBroker`: time passes, and the client polls its login, as its 2 s timer
  does until it is answered.
- `GilCoordinator`: a request ends (`setTransferTimeout`), a probe ends (its timer),
  a running timer keeps firing, and the coordinator forgets a login after its
  lifetime. A running timer gets strong fairness because its handler is disabled
  for a moment while both slots are in use. `BusyEndsOutsideRace` excludes a user who
  restarts the program or switches the endpoint for ever.
- `Session`: the threads go on, and while the client waits for the first frame the
  host sends one or moonlight-common-c's timeout ends the connection. The user, the
  host and the window system owe nothing else.
- `Pacer`: the threads go on, a V-sync or its 100 ms timeout comes, and the main
  thread handles the frames and the reset it was sent. The host owes no frames.
- `HostList`: the flush thread goes on, the main thread handles the signals it was
  sent while its loop runs, a deletion task ends, and a started exit goes on. Nobody
  has to exit, crash or change a host.
- `RelayTunnel`: one of the steps that can be taken by the bridge, the coordinator or a VM that
  reads is taken. Each uses something up, so this is enough: event loop, goroutines and timers
  go on. The application, the network and a hung VM owe nothing.
- `RelayBridge`: the main thread goes on (its waits for the helper are bounded by 10 s) and the
  coordinator answers a WebSocket request of a lease that has not ended.
- `HostPolling`: polling threads, tasks and queued signals go on, and a hidden window is shown again.
- `TurnProvider` needs none: its properties are invariants.

Deadlock is checked, except in the four runs where the system comes to rest: a tunnel ends
(`relay_tcp`), the clock has its bound (`turn`), and users and faults stop when their budget is
used (`relay_udp`, `hosts`), which leaves a bridge or a client that was stopped nothing to do.

## 4. Proofs

All theorems hold for any number of VMs, users, devices and lease ids, any TTL,
any set of configurations and any timeouts, from these assumptions only:
`TTLAssumption` (the TTL is at least one tick; `loadConfig` enforces it),
`PoolAssumption` (at least one VM, the empty address is no address, ports are
1..65535), `ConfigAssumption` (a configuration is one that `loadConfig` accepts),
`TicksAssumption` (timeouts are natural numbers), for the host list
`HostListAssumption` (the empty app list is an app list, the bounds are natural numbers), for the
polled hosts `PollingAssumption` (a lease is of a VM at an address, every address is leased to some VM,
the null address is none), for the relay bridge `BridgeAssumption` (the followed port is one of the
ports, a queue takes at least one datagram, the bounds are natural numbers), for sign-in `AuthAssumption`
and `NoneAssumption` (the absence of a record is no record; it only says that a placeholder is
chosen well), for the client `ClientAssumption` (the same of `None`; the view stack has room for one
view), for the pacer `PacerAssumption` (at least one frame in a history, one failure to a reset and
one frame in the codec), for the tunnel `TunnelAssumption` (the bounds are natural numbers, and a socket takes
at least one chunk), for the session `SessionAssumption` (the builds are the three the code
distinguishes, the bounds are natural numbers and a budget's sessions are within theirs), and for the credentials `TurnAssumption` (delays are natural numbers, and the refresh is ahead of the expiry by at
most the TTL less the minimal delay, as in `turn.go`'s constants).

**`CoordinatorProofs`, the store.** The inductive invariant is

    IInv == TypeOK /\ NoDoubleAssignment /\ Durable /\ PromiseKept /\ PromisesLive

`PromiseKept` alone is not inductive. A reap must not remove the lease behind a
promise, which needs that promises have time left (`PromisesLive`) and that the
lease has at least as much; a restart reads the file, so the promise must be
covered by the file as well as by memory; a renewal or a grant writes the whole
table, so every lease in memory must be in the file already (`Durable`) for a
*failed* write to do no harm, with the same end unless the lease is `unsaved`; and that the record removed by a release is not one
that covers another client's promise needs exclusivity of both tables
(`NoDoubleAssignment`). One lemma per operation shows that it preserves `IInv`;
`StoreInvariant` combines them. `OneClientPerVM` follows: both promises are
covered by records of an exclusive file. `StoreIsExclusive` puts these together as the
`StoreInv` that the run checks.

`StoreImplementsPool` is the refinement: every initial state maps to the
empty pool and every step to an `Assign`, `Withdraw` or `Tick` of `VMPool`, or to no
change. A grant is an `Assign` because no other client's promise can name a VM
that is free in the table; a request that drops the lease of an unusable VM and
then finds no other is a `Withdraw`.

**`CoordinatorProofs`, the handlers.** `CoordinatorImplementsStore`: a step of the interleaved
handlers is a step of the store or leaves it alone, so everything proved of the
store holds of the coordinator; `CoordinatorKeepsPromises` states it for
`PromiseKept`. `KickIsPrecise` is the action property `KickHitsOnlyItsLease`: the
release at the end of a kick is by lease id, and by exclusivity no other promise
is covered by the lease it removes.

`RelaysAreCut` is `CoordinatorInv`, that a relay outlives its lease by no more than the dial and one
period of the lease check. `RelayCut` speaks of relays only, and a relay may have been dialled on a
lease that had ended. `WaitInv` therefore bounds a dialling handler too: its lease has been dead no
longer than the handler has waited, an open relay's no longer than `DialTicks` plus the time since
its last check, and while the lease lives neither has counted anything. The step that matters is
`StaysDead`: a lease that is not in the table, or has run out there, does not come back under its
id while a handler works with it. That needs the store's invariant (every renewal reaps first), that a
new lease takes an id nobody holds, and that a restart finds no handler (`Down`). The
proof found an error in the model: the counter of dead ticks (`DeadFor`) was a CASE with overlapping
guards, which leaves open which arm is meant; it is an IF now.

**`AuthBrokerProofs`.** `StatesUsedOnce` (`AuthInv`), `TokensGood` (`TokenGood`) and `AdminsOnly`
(`AdminOnly`) from one invariant. A login goes through phases, and the tables that are touched in two
critical sections must agree on the phase: unused (`UnusedInv`), a client's with its state
unused (`OpenInv`), an operator's (`AdminInv`), in an exchange (`CallbackInv`), with a token
(`DoneInv`). `Exchanging` is why a late callback cannot hand out a second token: while one is between
its critical sections, the login has no state left in either table, no account, no token and no
other callback. `HasToken` needs that a session lives at least as long as the login that waits for its
token, because clean-up drops the two separately. `Forgetting` is the one lemma about every clean-up
and expiry: what only forgets keeps the invariant.

**`HostProofs`, the list.** `ListTypesCorrect`, and `HostsSurviveCrash` for any hosts, names, app
lists and numbers of changes and crashes. `HostsSurvive` speaks of what a start would
find now; the invariant `CrashInv` says why, phase by phase. Outside a flush, and until
the backup is complete, the list holds the safe hosts and no backup hides it
(`ListHolds`); from then until the backup is removed the backup holds them
(`BackupHolds`), because the flush writes what is known and the program knows the safe
hosts (`KnowsSafe`), which a start restores; after a flush that was cut, a start finds
them in one or the other (`StartFinds`); and the backup is removed only when the list
has been written (`ListWritten`).

`ExitKeepsList` is `ListInv`, with `ExitSaves`: after the destructor's join the disk holds the list as
the main thread has last heard of it. `ExitInv` has three parts. A host that differs from what was last
saved is known to somebody who will save it, a queued signal or a flush that is due (`HeardOf`),
and likewise a host that was deleted and is still saved. A host that does not differ is on the disk as it
is, once no flush is due or has its writing still to do (`Written`); this is where a change
during a flush matters, since the flush writes what is known and not what it remembered (`last`), and
where a host that took a change back escapes (`reverted`). And the thread ends only when asked to and
with no flush due (`EndsLast`). At the join nothing is posted or to be removed, so `HeardOf` leaves no
difference and `Written` makes the two maps equal.

**`HostProofs`, the polling.** `GrantedIsPolled` is `PollingInv`: the types, and that under any interleaving of
threads, tasks and users a host is polled when it is shown and only where the lease is.
`PolledIsGranted` is inductive once threads are known to have been started for an address and
tasks to have read a VM's answer (`ThreadInv`). The step that uses it most is `addAssignedHost`:
that a thread already at the new address may go on follows from where it was before, and that a host not
in the list has no thread from there as well.

**`RelayBridgeProofs`.** `OnePathOnly` (`BridgeInv`) from `PathInv`: what `start()` has stopped while
it waits (`Starting`), what an idle bridge has (`Idle`), that a helper that is gone holds no port and none
runs beside endpoints (`HelperInv`), and that endpoints come and go together (`EndsInv`). The fallback
is never blocked by the bridge itself because both of its callers have waited for the helper's end.
`QueueIsNewest` (`QueueInv`) from `DataInv`. That the queue holds the newest datagrams in order is not
inductive by neighbours; `Numbered` gives each place of queue and socket its number, counted back from
the last datagram sent, and `EnqueueFacts` shows that a full queue moves up by one. A datagram is
relayed once because everything relayed is older than all that waits (`Relayed`), for which a
connected WebSocket must have an empty queue (`EndsInv`).

**`GilCoordinatorProofs`.** `HostIsBacked` (`ClientInv`). `HostIsKeptAlive` speaks of what the view
stack shows, which clicks change at any time; `Kept` drops the view: the client *has* a host only while
it renews a lease. Every path that gives up the lease or the token takes the host back in the same
handler, and the one that gives a host out, `completeAssignment`, has just compared the lease and the
token. For the late reply that it refuses, the proof needs the converse: no host and no bridge were
there when the lease it came for is not the client's.

**`PacerProofs`.** `FramesHaveOneOwner` (`PacerInv`), `FramesStayInOrder` (`InOrder`) and
`FramesAreBounded` (`FramesBounded`), for every renderer and any number of frames. One fact carries all
three: seen from the screen to the codec, the places a frame can be in (`m_DeferredFreeFrame`, the
renderer's hand, the render queue, the V-sync thread's hand, the pacing queue) hold ever newer frames
(`Chain`), the queues each in order (`Increasing`). Frames in different places are then different, so
that freeing one leaves no other place with it, and the places can be counted. A step of any thread
moves the oldest frame of a place to the next or drops one, for which `QueueAppend`, `QueueTake` and
`QueueEnqueued` say what a queue holds afterwards. That the destructor frees all that is left needs
that no thread has a frame in its hands when it has ended (`Hands`, `Joined`).

**`RelayProofs`, the credentials.** `HandedOutAlwaysLives` and `LapseAlwaysNeedsFailures`, for any delays.
`LapseNeedsFailures` looks at one moment, so the invariant has to say how the goroutine got there:
its timer lies ahead and a request began at most a timeout ago (`Clock`); the refresh that
follows the cached credentials was due `Advance` before their end, and each failure since has
moved it by at most one `Round`, a timeout and a delay (`Ahead`). Credentials lapse `MinValidity`
before `cached`; when that is past, `Clock` and `Ahead` leave only failures to account for the time.
`Dated` bounds the difference between the coordinator's and Cloudflare's idea of the end. The
product of failures and delay is beyond the solver, so `RoundStep` states the one fact about it
that is needed.

**`RelayProofs`, the tunnel.** `BytesStayInOrder` (`TunnelInv`) and `EofComesLast` (`EofIsComplete`), for
any number of chunks, any window and any limit on what waits for the WebSocket. `InOrder` speaks of what the
ends have read; inductive is where every chunk on the way is. `AtVm`, `AtWrite`, `AtUp`, `AtPending` count the chunks that
are ahead of each place on the way to the VM, and `UpChain` says that each buffer goes on from there: the connection
to the VM after what it has read, the goroutine's hand next, then the WebSocket, `pending`, the loopback
socket. What is cut, aborted or lost cuts the chain at one place, and `UpChain` keeps the part between there
and the VM: all of it while the tunnel is listed and the network lives, down to the VM's own buffer once the
coordinator has closed. `DownChain` is the same for the response. That no goroutine blocks on `results` is
`Room`: there are no more results than goroutines that have ended, one of which the handler has taken when it
waits for the acknowledgement.

`EofIsComplete` needs the order in which an undisturbed exchange ends, `CleanOrder`: the VM has closed before
the goroutine that reads it ends, that goroutine before the close frame, the frame before the tunnel leaves
the list, the tunnel before the other goroutine ends and the sockets close. At each of these steps
`CleanCount` hands on that nothing of the response is missing, until the application has read all of it. The proof takes
the steps by outcome: every disjunct of an action is named (`ClientReads`, `ClientReadEnds`, ...), one lemma
shows that the action has no other (`ClientReadCases`) and one that the outcome keeps the invariant.

**`SessionProofs`.** `OneStreamAtATime` (`SessionInv`), `ResetsAreFlushed` (`NoStaleReset`),
`PictureComesBack` (`DecoderComesBack`) and `HdrModeIsApplied` (`HdrIsApplied`) from one invariant, for any number of sessions, builds, inputs, signals and HDR
changes. `Owner` says which thread has the active session: the main thread up to the end of `exec()`, the clean-up
task from there on, and that a session which is neither is as it was made. `Lives` puts the connection inside
the session and the decoder inside the connection. That no session is finished twice or run before its
connection is announced needs `Announced`: the two signals are posted once each, to a main thread that waits for
them. `Requests` and `ComesBack` are about the SDL queue: no reset of a deleted decoder survives the flush in
`DestroyDecoder`, no more barriers are waited for than are queued, and without a decoder some event behind
which too few barriers lie will bring it back. `Applied` carries the HDR mode over the
unlock.

What `SDL_FlushEvent` leaves of a queue (`Flushed`) and how many barriers a prefix holds (`Barriers`) are
recursive and counted: that flushing keeps the order and the barriers holds for every length of the queue, and
is shown from a least counterexample (`Least`, from the well-foundedness of the naturals), since
the induction theorems of the library cannot be instantiated here.

Every safety property of the passing runs, the refinement of the pool and the one action property are
proved. Only model-checked is liveness (`NoStarvation`, `LoginEnds`,
`BusyEndsOutsideRace`, `SessionEnds`, `LaunchEnds`, `QueuesDrain`, `DecoderGoes`,
`SavedEventually`, `ExitEnds`, `TunnelEnds`, `UdpFlows`, `LeasedHostAppears`, `QuitEnds`), which is out of
the prover's reach.

## 5. Not modelled

- `src/app/languages/*.ts` are translation catalogues of Qt Linguist (XML), despite their suffix:
  they hold no code and nothing in these models stands for them. The program is Go, C++ and QML.
- `nvhttp.cpp`, `nvpairingmanager.cpp`, `identitymanager.cpp`: sequences of requests with XML and cryptography.
  Their failures are exceptions to the caller, which `HostPolling` has as outcomes of its tasks.
- `cli/`: `main.cpp` refuses every command-line operation on a host, so its launchers never run.
- Input: SDL events on the main thread, translated into library calls; its timers (mouse emulation, taps,
  drags, long presses) run on SDL's timer thread and are planned. Audio: one thread of the
  library, with thresholds of latency. The choice of codecs, decoder and renderer: answers of drivers and
  libraries, any of which `Session` allows.
- Box art, update check, presence, system properties, settings, models and views: I/O and
  presentation around a few flags.
- The login that only debug builds offer; deletion of a host against tasks that hold its pointer.
- Renderers and platform code, parsing, installers, vendored libraries.

## 6. Plan

Done: 1 `LeaseStore` and `VMPool` with proofs; 2 `Coordinator` with the first
proofs; 3 `AuthBroker`; 4 `GilCoordinator`; 5 `Session`; 6 `Pacer`; 7 `HostList` with its proof;
8 `HostPolling`; 9 `RelayTunnel`, `RelayBridge` and `TurnProvider` with its proofs; 10 the proofs of every
safety property the runs check. What would come next:

11. The composition of `GilCoordinator` with `Coordinator` in place of its external
    coordinator.
12. `Input`: the timers of mouse emulation, taps, drags and long presses against the main thread's
    handlers and the removal of a gamepad.
