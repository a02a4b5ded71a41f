---------------------------- MODULE RelayBridge ----------------------------
(***************************************************************************)
(* The UDP side of the client's relay bridge: start() and stop() on the    *)
(* main thread, the TURN helper process that start() waits for and the     *)
(* event loop hears the end of, the WebSocket fallback that takes over its *)
(* local ports, and the datagrams of one of those ports (the endpoints are *)
(* alike and independent).                                                 *)
(*                                                                         *)
(* start() blocks the main thread, so none of its handlers runs before it  *)
(* returns.  The streaming code that sends the datagrams, other programs   *)
(* that hold ports, and the operating system are external.  What is on its *)
(* way may be lost or overtaken, as UDP allows.                            *)
(***************************************************************************)
EXTENDS Naturals, Sequences, FiniteSets

CONSTANTS
  Offsets,    \* UDP_OFFSETS: the local ports, relative to the base port
  Watched,    \* the port whose datagrams are followed
  MaxPorts,   \* bound: TURN ports offered to the helper
  MaxPending, \* MAX_PENDING_UDP_DATAGRAMS
  MaxStarts,  \* bound: leases
  MaxData,    \* bound: datagrams
  MaxFaults   \* bound: deaths of a helper, lost WebSockets, ports other programs take

ASSUME BridgeAssumption ==
  /\ Watched \in Offsets
  /\ MaxPorts \in Nat /\ MaxPending \in Nat \ {0}
  /\ MaxStarts \in Nat /\ MaxData \in Nat /\ MaxFaults \in Nat

VARIABLES
  main,     \* "idle" (the event loop), or "turn": start() is in startTurnHelper()
  running,  \* m_Running
  leaseId,  \* m_LeaseId: the number of the lease, 0 for none
  cand,     \* candidate ports startTurnHelper() has still to try
  helper,   \* the helper process: "none", "opening", "ready", "dead"
  printed,  \* it has written its READY line
  attached, \* m_TurnProcess is set and its finished signal connected
  reaped,   \* its end was handled before that, while start() read its output
  hports,   \* local ports the helper holds
  ends,     \* m_UdpEndpoints, by their ports
  other,    \* ports other programs hold
  sockq,    \* datagrams in the socket of the followed endpoint
  pending,  \* UdpEndpoint::pending
  ws,       \* UdpEndpoint::websocket: "none", "connecting", "connected"
  wsLease,  \* the lease its request named
  retry,    \* the 500 ms timer that opens it again
  wire,     \* datagrams between the WebSocket and the VM
  got,      \* datagrams the VMs have received, each with the VM's lease
  expired,  \* leases the coordinator has ended
  starts, sent, faults,
  selfBlocked \* history: a port was busy that no other program held

pathVars == <<helper, printed, attached, hports, reaped>>
endVars == <<ends, sockq, pending, ws, wsLease, retry>>
netVars == <<wire, got, expired>>
vars == <<main, running, leaseId, cand, pathVars, endVars, other, netVars, starts, sent,
          faults, selfBlocked>>

Datagram == [n : 1..MaxData, from : 0..MaxStarts]

Init ==
  /\ main = "idle" /\ running = FALSE /\ leaseId = 0 /\ cand = 0
  /\ helper = "none" /\ printed = FALSE /\ attached = FALSE /\ hports = {} /\ reaped = FALSE
  /\ ends = {} /\ sockq = <<>> /\ pending = <<>> /\ ws = "none" /\ wsLease = 0
  /\ retry = FALSE /\ other = {} /\ wire = {} /\ got = {} /\ expired = {}
  /\ starts = 0 /\ sent = 0 /\ faults = 0 /\ selfBlocked = FALSE

-----------------------------------------------------------------------------
(* Helpers of the main thread.                                             *)

NoHelper ==
  /\ helper' = "none" /\ printed' = FALSE /\ attached' = FALSE /\ hports' = {}
  /\ reaped' = FALSE

\* Mutant: the endpoints keep what they had queued.
NoEndpoints_keep ==
  /\ ends' = {} /\ sockq' = <<>> /\ ws' = "none" /\ wsLease' = 0 /\ retry' = FALSE
  /\ UNCHANGED pending

\* The endpoints are deleted with their queues, WebSockets and timers.
NoEndpoints ==
  /\ ends' = {} /\ sockq' = <<>> /\ pending' = <<>>
  /\ ws' = "none" /\ wsLease' = 0 /\ retry' = FALSE

stop == running' = FALSE /\ leaseId' = 0 /\ NoHelper /\ NoEndpoints

\* startWebSocketUdpFallback(), when no helper is left: the ports are bound one
\* after the other; if one is busy, those that were bound are closed and the
\* bridge stops.
startWebSocketUdpFallback ==
  \/ /\ Offsets \intersect (other \union hports) = {}
     /\ ends' = Offsets
     /\ UNCHANGED <<running, leaseId, sockq, pending, ws, wsLease, retry, selfBlocked>>
     /\ NoHelper
  \/ /\ Offsets \intersect (other \union hports) # {}
     /\ selfBlocked' = (selfBlocked \/ Offsets \intersect other = {})
     /\ stop

openUdpTunnel ==
  IF running /\ ws = "none"
  THEN ws' = "connecting" /\ wsLease' = leaseId
  ELSE UNCHANGED <<ws, wsLease>>

-----------------------------------------------------------------------------
(* start() and the helper process.                                         *)

\* start() stops what runs, then fails on a bad configuration or a busy TCP
\* port, or goes on to the candidate ports of the TURN server it was given, if any.
Start(c) ==
  /\ main = "idle" /\ starts < MaxStarts /\ starts' = starts + 1
  /\ NoHelper /\ NoEndpoints
  /\ \/ running' = FALSE /\ leaseId' = 0 /\ UNCHANGED <<main, cand>>
     \/ running' = TRUE /\ leaseId' = starts + 1 /\ main' = "turn" /\ cand' = c
  /\ UNCHANGED <<other, netVars, sent, faults, selfBlocked>>

Stop ==
  /\ main = "idle" /\ running /\ stop
  /\ UNCHANGED <<main, cand, other, netVars, starts, sent, faults, selfBlocked>>

\* A helper is started for a candidate, which may fail.
TryHelper ==
  /\ main = "turn" /\ helper = "none" /\ cand > 0
  /\ \/ helper' = "opening" /\ UNCHANGED cand
     \/ cand' = cand - 1 /\ UNCHANGED helper
  /\ UNCHANGED <<main, running, leaseId, printed, attached, hports, reaped, endVars, other, netVars,
                 starts, sent, faults, selfBlocked>>

\* The helper opens an endpoint: it binds the port, and gives up if it is busy.
HelperOpens(o) ==
  /\ helper = "opening" /\ o \notin hports
  /\ IF o \in other \union ends
     THEN helper' = "dead" /\ hports' = {}
     ELSE hports' = hports \union {o} /\ UNCHANGED helper
  /\ UNCHANGED <<main, running, leaseId, cand, printed, attached, reaped, endVars, other, netVars,
                 starts, sent, faults, selfBlocked>>

HelperReady ==
  /\ helper = "opening" /\ hports = Offsets
  /\ helper' = "ready" /\ printed' = TRUE
  /\ UNCHANGED <<main, running, leaseId, cand, attached, hports, reaped, endVars, other, netVars,
                 starts, sent, faults, selfBlocked>>

\* An allocation fails, or later a relay socket: the helper exits, which frees its ports.
HelperExits ==
  /\ helper \in {"opening", "ready"}
  /\ helper = "ready" => faults < MaxFaults
  /\ faults' = IF helper = "ready" THEN faults + 1 ELSE faults
  /\ helper' = "dead" /\ hports' = {}
  /\ UNCHANGED <<main, running, leaseId, cand, printed, attached, reaped, endVars, other, netVars,
                 starts, sent, selfBlocked>>

\* start() reads the READY line, also of a helper that has ended since: the
\* wait for its output may have handled its end, which then has no handler yet.
SeeReady ==
  /\ main = "turn" /\ printed
  /\ attached' = TRUE /\ main' = "idle" /\ cand' = 0
  /\ \/ reaped' = FALSE
     \/ helper = "dead" /\ reaped' = TRUE
  /\ UNCHANGED <<running, leaseId, helper, printed, hports, endVars, other, netVars, starts,
                 sent, faults, selfBlocked>>

\* Mutant: the helper that is given up is not waited for.
SeeFailure_noWait ==
  /\ main = "turn" /\ helper # "none"
  /\ cand' = cand - 1
  /\ helper' = "none" /\ printed' = FALSE /\ UNCHANGED <<attached, hports, reaped>>
  /\ UNCHANGED <<main, running, leaseId, endVars, other, netVars, starts, sent, faults,
                 selfBlocked>>

\* It exited, or 10 s passed: it is killed and waited for, and the next candidate tried.
SeeFailure ==
  /\ main = "turn" /\ helper # "none"
  /\ cand' = cand - 1
  /\ NoHelper
  /\ UNCHANGED <<main, running, leaseId, endVars, other, netVars, starts, sent, faults,
                 selfBlocked>>

\* No candidate is left.
TurnFails ==
  /\ main = "turn" /\ helper = "none" /\ cand = 0
  /\ main' = "idle"
  /\ startWebSocketUdpFallback
  /\ UNCHANGED <<cand, other, netVars, starts, sent, faults>>

\* The finished signal of m_TurnProcess.
HelperFinished ==
  /\ main = "idle" /\ attached /\ helper = "dead" /\ ~reaped
  /\ startWebSocketUdpFallback
  /\ UNCHANGED <<main, cand, other, netVars, starts, sent, faults>>

-----------------------------------------------------------------------------
(* Datagrams.                                                              *)

\* The streaming code sends to the local port: to the helper, which passes the
\* datagram on with its credentials for this VM, to the endpoint or to nobody.
AppSends ==
  /\ sent < MaxData /\ sent' = sent + 1
  /\ LET d == [n |-> sent + 1, from |-> leaseId] IN
     /\ sockq' = IF Watched \in ends THEN Append(sockq, d) ELSE sockq
     /\ wire' = IF helper = "ready" THEN wire \union {[d |-> d, to |-> leaseId]} ELSE wire
  /\ UNCHANGED <<main, running, leaseId, cand, pathVars, ends, pending, ws, wsLease, retry,
                 other, got, expired, starts, faults, selfBlocked>>

\* Mutant: a full queue refuses the datagram and keeps the old ones.
Enqueue_dropNewest(q, d) == IF Len(q) = MaxPending THEN q ELSE Append(q, d)

\* A full queue loses its oldest datagram.
Enqueue(q, d) == Append(IF Len(q) = MaxPending THEN Tail(q) ELSE q, d)

\* readyRead of the endpoint's socket, for one datagram of its loop.
ReadDatagram ==
  /\ main = "idle" /\ sockq # <<>> /\ sockq' = Tail(sockq)
  /\ \/ /\ ws = "connected"
        /\ wire' = wire \union {[d |-> Head(sockq), to |-> wsLease]}
        /\ UNCHANGED <<pending, ws, wsLease>>
     \/ /\ ws # "connected"
        /\ pending' = Enqueue(pending, Head(sockq))
        /\ openUdpTunnel
        /\ UNCHANGED wire
  /\ UNCHANGED <<main, running, leaseId, cand, pathVars, ends, retry, other, got, expired,
                 starts, sent, faults, selfBlocked>>

\* The coordinator accepts the WebSocket; connected sends what is queued.
WsConnected ==
  /\ main = "idle" /\ ws = "connecting" /\ wsLease \notin expired
  /\ ws' = "connected" /\ pending' = <<>>
  /\ wire' = wire \union {[d |-> pending[i], to |-> wsLease] : i \in DOMAIN pending}
  /\ UNCHANGED <<main, running, leaseId, cand, pathVars, ends, sockq, wsLease, retry, other,
                 got, expired, starts, sent, faults, selfBlocked>>

\* Mutant: a WebSocket that could not connect is not opened again.
WsDisconnected_noRetry ==
  /\ main = "idle" /\ ws # "none"
  /\ wsLease \in expired \/ faults < MaxFaults
  /\ faults' = IF wsLease \in expired THEN faults ELSE faults + 1
  /\ ws' = "none" /\ wsLease' = 0 /\ UNCHANGED retry
  /\ UNCHANGED <<main, running, leaseId, cand, pathVars, ends, sockq, pending, other, netVars,
                 starts, sent, selfBlocked>>

\* It is refused or lost: because the lease ended, or by a fault.
WsDisconnected ==
  /\ main = "idle" /\ ws # "none"
  /\ wsLease \in expired \/ faults < MaxFaults
  /\ faults' = IF wsLease \in expired THEN faults ELSE faults + 1
  /\ ws' = "none" /\ wsLease' = 0
  /\ retry' = (retry \/ (running /\ pending # <<>>))
  /\ UNCHANGED <<main, running, leaseId, cand, pathVars, ends, sockq, pending, other, netVars,
                 starts, sent, selfBlocked>>

RetryTimer ==
  /\ main = "idle" /\ retry /\ retry' = FALSE
  /\ openUdpTunnel
  /\ UNCHANGED <<main, running, leaseId, cand, pathVars, ends, sockq, pending, other, netVars,
                 starts, sent, faults, selfBlocked>>

\* The relay of a lease hands a datagram to that lease's VM.
Deliver(p) ==
  /\ p \in wire /\ wire' = wire \ {p}
  /\ got' = got \union {p}
  /\ UNCHANGED <<main, running, leaseId, cand, pathVars, endVars, other, expired, starts, sent,
                 faults, selfBlocked>>

EndLease(l) ==
  /\ l \in 1..starts /\ l \notin expired /\ expired' = expired \union {l}
  /\ UNCHANGED <<main, running, leaseId, cand, pathVars, endVars, other, wire, got, starts,
                 sent, faults, selfBlocked>>

\* Another program binds a free port, or lets it go.
OtherProgram(o) ==
  /\ \/ o \notin other \union hports \union ends /\ faults < MaxFaults
        /\ other' = other \union {o} /\ faults' = faults + 1
     \/ o \in other /\ other' = other \ {o} /\ UNCHANGED faults
  /\ UNCHANGED <<main, running, leaseId, cand, pathVars, endVars, netVars, starts, sent,
                 selfBlocked>>

-----------------------------------------------------------------------------
MainThread ==
  \/ TryHelper \/ SeeReady \/ SeeFailure \/ TurnFails \/ HelperFinished
  \/ ReadDatagram \/ WsConnected \/ RetryTimer

Environment ==
  \/ \E o \in Offsets : HelperOpens(o) \/ OtherProgram(o)
  \/ HelperReady \/ HelperExits \/ WsDisconnected \/ AppSends
  \/ \E p \in wire : Deliver(p)
  \/ \E l \in 1..MaxStarts : EndLease(l)

Next == Stop \/ (\E c \in 0..MaxPorts : Start(c)) \/ MainThread \/ Environment

\* The event loop goes on; the coordinator answers a request to open a WebSocket.
Spec == Init /\ [][Next]_vars /\ WF_vars(MainThread)

-----------------------------------------------------------------------------
TypeOK ==
  /\ main \in {"idle", "turn"} /\ running \in BOOLEAN /\ leaseId \in 0..MaxStarts
  /\ cand \in 0..MaxPorts /\ helper \in {"none", "opening", "ready", "dead"}
  /\ printed \in BOOLEAN /\ attached \in BOOLEAN /\ reaped \in BOOLEAN
  /\ hports \subseteq Offsets /\ ends \subseteq Offsets /\ other \subseteq Offsets
  /\ sockq \in Seq(Datagram) /\ pending \in Seq(Datagram)
  /\ ws \in {"none", "connecting", "connected"} /\ wsLease \in 0..MaxStarts
  /\ retry \in BOOLEAN
  /\ wire \subseteq [d : Datagram, to : 0..MaxStarts]
  /\ got \subseteq [d : Datagram, to : 0..MaxStarts]
  /\ expired \subseteq 1..MaxStarts
  /\ starts \in 0..MaxStarts /\ sent \in 0..MaxData /\ faults \in 0..MaxFaults
  /\ selfBlocked \in BOOLEAN

\* A bridge that runs has one UDP path, the helper or the endpoints, also while
\* the end of the helper is not handled yet; one that does not has none and has
\* left no process, port or WebSocket behind (relaybridge.cpp:292, 331).  A
\* helper that was given up never keeps the fallback from its ports (271).
OnePath ==
  /\ ~selfBlocked
  /\ main = "idle" =>
       IF running
       THEN attached = (ends = {}) /\ (~attached => ends = Offsets /\ helper = "none")
       ELSE ~attached /\ ends = {} /\ helper = "none" /\ leaseId = 0
  /\ ends = {} => sockq = <<>> /\ pending = <<>> /\ ws = "none" /\ ~retry
  /\ ws # "none" => wsLease = leaseId

\* The types, and one path that leaves nothing behind.
BridgeInv == TypeOK /\ OnePath

\* What waits for a WebSocket are the newest datagrams read from the socket, in
\* their order and at most MaxPending of them (relaybridge.cpp:178).
PendingIsNewest ==
  /\ Len(pending) <= MaxPending
  /\ \A i \in 1..(Len(pending) - 1) : pending[i + 1].n = pending[i].n + 1
  /\ pending # <<>> /\ sockq # <<>> => Head(sockq).n = pending[Len(pending)].n + 1
  /\ pending # <<>> /\ sockq = <<>> => pending[Len(pending)].n = sent

\* A VM receives a datagram at most once and only what was sent to it: what
\* one lease left in a queue is not relayed under the next (relaybridge.cpp:349, 360).
OwnLeaseOnly ==
  /\ \A p \in got : p.to = p.d.from
  /\ \A p \in got, q \in got : p.d.n = q.d.n => p = q

\* The queue of an endpoint and what comes of it.
QueueInv == PendingIsNewest /\ OwnLeaseOnly

\* UDP comes back: start() returns, the bridge does not keep a dead helper (by
\* OnePath, it then has the fallback or has stopped), but for one whose end came
\* before its handler; and queued datagrams leave once the lease's relay can be
\* reached (relaybridge.cpp:287, 499).
UdpFlows ==
  /\ main = "turn" ~> main = "idle"
  /\ (attached /\ helper = "dead") ~> (~attached \/ helper = "ready" \/ reaped)
  /\ (pending # <<>>) ~> (pending = <<>> \/ leaseId \in expired)
=============================================================================
