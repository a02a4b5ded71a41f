---------------------------- MODULE RelayTunnel ----------------------------
(***************************************************************************)
(* One relayed TCP connection, end to end: the application's loopback      *)
(* socket, the client's TcpTunnel, its WebSocket, the coordinator's two    *)
(* copying goroutines with the handler and the lease watcher, and the      *)
(* connection to the VM.  Sunshine delimits an RTSP response by closing,   *)
(* so the order of the bytes and of the end of the stream both matter.     *)
(*                                                                         *)
(* The application, the VM and the sockets between them are external.  A   *)
(* chunk is what one read returns; the i-th chunk is the number i.  A      *)
(* socket closed without waiting for its peer may lose the end of what is  *)
(* still on its way.                                                       *)
(***************************************************************************)
EXTENDS Naturals, Sequences, SequencesExt

CONSTANTS
  MaxReq,     \* bound: chunks the application sends
  MaxRsp,     \* bound: chunks the VM sends
  MaxPending, \* MAX_PENDING_TCP_BYTES, in chunks
  Window      \* chunks a socket takes before a write to it blocks

ASSUME TunnelAssumption ==
  MaxReq \in Nat /\ MaxRsp \in Nat /\ MaxPending \in Nat /\ Window \in Nat \ {0}

VARIABLES
  app,      \* the application's socket: "open", "closed" by it, "eof" or "reset" when it read that
  appSent,  \* chunks it has sent
  appGot,   \* chunks it has read
  lreq, lrsp, lend, \* the loopback connection, and how the bridge ended it ("open": not yet)
  tunnel,   \* the TcpTunnel: "listed", "draining" (closing is set), "gone"
  ws,       \* its WebSocket: "connecting", "connected", "closed"
  pending,  \* TcpTunnel::pending
  up, upEnd,     \* the WebSocket to the coordinator, and whether it ends there
  down, downEnd, \* the WebSocket to the client, which is "open" or ends: "close", "fin"
  handler,  \* the relay handler: "auth", "upgrade", "wait", "ack", "close", "ended"
  client,   \* its WebSocket: "none", "open", "closed"
  upstream, \* its connection to the VM: "none", "open", "closed"
  creader, chold, \* the goroutine that reads the client, and the chunk it writes (0: none)
  ureader, uhold, \* the goroutine that reads the VM, and the chunk it writes
  results,  \* channel of tcpRelayResult: "client", "eof" and "upstream" (another error)
  watcher,  \* watchRelayLease: "none", "run", "done"
  vm,       \* the VM's socket: "open", "hung" (it will not react any more), "closed"
  vmGot, vmSent, \* chunks it has read and sent
  ureq, ursp,    \* the connection between coordinator and VM
  lease,    \* "held" or "ended"
  lost,     \* the path between client and coordinator delivers nothing any more
  late,     \* history: the application was still sending when the VM had closed
  slow,     \* history: a timer cut an exchange short
  aborted   \* history: closeTcpTunnel() ran

appVars == <<app, appSent, appGot>>
loopVars == <<lreq, lrsp, lend>>
bridgeVars == <<tunnel, ws, pending, aborted>>
netVars == <<up, upEnd, down, downEnd>>
goVars == <<handler, creader, chold, ureader, uhold, results, watcher>>
sockVars == <<client, upstream>>
vmVars == <<vm, vmGot, vmSent, ureq, ursp>>
vars == <<appVars, loopVars, bridgeVars, netVars, goVars, sockVars, vmVars,
          lease, lost, late, slow>>

\* openTcpTunnel() has accepted a local connection and opened its WebSocket.
Init ==
  /\ app = "open" /\ appSent = 0 /\ appGot = <<>>
  /\ lreq = <<>> /\ lrsp = <<>> /\ lend = "open"
  /\ tunnel = "listed" /\ ws = "connecting" /\ pending = <<>>
  /\ up = <<>> /\ upEnd = FALSE /\ down = <<>> /\ downEnd = "open"
  /\ handler = "auth" /\ client = "none" /\ upstream = "none" /\ watcher = "none"
  /\ creader = "none" /\ chold = 0 /\ ureader = "none" /\ uhold = 0 /\ results = <<>>
  /\ vm = "open" /\ vmGot = <<>> /\ vmSent = 0 /\ ureq = <<>> /\ ursp = <<>>
  /\ lease = "held" /\ lost = FALSE /\ late = FALSE /\ slow = FALSE /\ aborted = FALSE

UpTo(n) == [i \in 1..n |-> i]

\* What is left on its way when a socket closes without waiting for its peer.
Cut(s) == {SubSeq(s, 1, n) : n \in 0..Len(s)}

\* Nothing reaches the other end of a dead path.
Sent(q, s) == IF lost THEN q ELSE q \o s

-----------------------------------------------------------------------------
(* The application, the VM, the lease and the network: external.           *)

AppSend ==
  /\ app = "open" /\ appSent < MaxReq
  /\ appSent' = appSent + 1
  /\ lreq' = IF lend = "open" THEN Append(lreq, appSent + 1) ELSE lreq
  /\ late' = (late \/ vm = "closed")
  /\ UNCHANGED <<app, appGot, lrsp, lend, bridgeVars, netVars, goVars, sockVars, vmVars,
                 lease, lost, slow>>

AppRead ==
  /\ app = "open" /\ lrsp # <<>>
  /\ appGot' = Append(appGot, Head(lrsp)) /\ lrsp' = Tail(lrsp)
  /\ UNCHANGED <<app, appSent, lreq, lend, bridgeVars, netVars, goVars, sockVars, vmVars,
                 lease, lost, late, slow>>

AppReadEnd ==
  /\ app = "open" /\ lrsp = <<>> /\ lend # "open"
  /\ app' = lend
  /\ UNCHANGED <<appSent, appGot, loopVars, bridgeVars, netVars, goVars, sockVars, vmVars,
                 lease, lost, late, slow>>

AppClose ==
  /\ app = "open" /\ app' = "closed"
  /\ UNCHANGED <<appSent, appGot, loopVars, bridgeVars, netVars, goVars, sockVars, vmVars,
                 lease, lost, late, slow>>

VmRead ==
  /\ vm = "open" /\ ureq # <<>>
  /\ vmGot' = Append(vmGot, Head(ureq)) /\ ureq' = Tail(ureq)
  /\ UNCHANGED <<appVars, loopVars, bridgeVars, netVars, goVars, sockVars, vm, vmSent, ursp,
                 lease, lost, late, slow>>

VmSend ==
  /\ vm = "open" /\ upstream = "open" /\ vmSent < MaxRsp
  /\ vmSent' = vmSent + 1 /\ ursp' = Append(ursp, vmSent + 1)
  /\ UNCHANGED <<appVars, loopVars, bridgeVars, netVars, goVars, sockVars, vm, vmGot, ureq,
                 lease, lost, late, slow>>

VmClose ==
  /\ vm = "open" /\ upstream # "none"
  /\ vm' = "closed" /\ late' = (late \/ Len(vmGot) < appSent)
  /\ UNCHANGED <<appVars, loopVars, bridgeVars, netVars, goVars, sockVars, vmGot, vmSent, ureq,
                 ursp, lease, lost, slow>>

VmHang ==
  /\ vm = "open" /\ vm' = "hung"
  /\ UNCHANGED <<appVars, loopVars, bridgeVars, netVars, goVars, sockVars, vmGot, vmSent, ureq,
                 ursp, lease, lost, late, slow>>

EndLease ==
  /\ lease = "held" /\ lease' = "ended"
  /\ UNCHANGED <<appVars, loopVars, bridgeVars, netVars, goVars, sockVars, vmVars, lost, late,
                 slow>>

LoseNetwork ==
  /\ ~lost /\ lost' = TRUE /\ up' = <<>> /\ down' = <<>>
  /\ UNCHANGED <<appVars, loopVars, bridgeVars, upEnd, downEnd, goVars, sockVars, vmVars,
                 lease, late, slow>>

-----------------------------------------------------------------------------
(* The client's TcpTunnel, on the main thread.                             *)

\* The local socket is reset and the WebSocket dropped with what is under way.
closeTcpTunnel ==
  /\ tunnel' = "gone" /\ ws' = "closed" /\ aborted' = TRUE
  /\ lend' = "reset" /\ lrsp' \in Cut(lrsp)
  /\ upEnd' = TRUE /\ up' \in Cut(up)

\* Mutant: a chunk goes straight out, past those that wait for the connection.
LocalReadyRead_bypass ==
  /\ tunnel # "gone" /\ lend = "open" /\ lreq # <<>>
  /\ lreq' = Tail(lreq)
  /\ IF tunnel = "listed" /\ client = "open"
     THEN up' = Sent(up, <<Head(lreq)>>) /\ UNCHANGED pending
     ELSE pending' = Append(pending, Head(lreq)) /\ UNCHANGED up
  /\ UNCHANGED <<tunnel, ws, aborted, lrsp, lend, upEnd>>
  /\ UNCHANGED <<appVars, down, downEnd, goVars, sockVars, vmVars, lease, lost, late, slow>>

\* What is read while the tunnel drains is kept and never sent.
LocalReadyRead ==
  /\ tunnel # "gone" /\ lend = "open" /\ lreq # <<>>
  /\ lreq' = Tail(lreq)
  /\ \/ /\ ws = "connected"
        /\ up' = Sent(up, <<Head(lreq)>>)
        /\ UNCHANGED <<pending, tunnel, ws, aborted, lrsp, lend, upEnd>>
     \/ /\ ws # "connected" /\ Len(pending) < MaxPending
        /\ pending' = Append(pending, Head(lreq))
        /\ UNCHANGED <<up, tunnel, ws, aborted, lrsp, lend, upEnd>>
     \/ /\ ws # "connected" /\ Len(pending) = MaxPending
        /\ IF tunnel = "listed"
           THEN closeTcpTunnel
           ELSE UNCHANGED <<up, tunnel, ws, aborted, lrsp, lend, upEnd>>
        /\ UNCHANGED pending
  /\ UNCHANGED <<appVars, down, downEnd, goVars, sockVars, vmVars, lease, lost, late, slow>>

\* Qt reports the end of the local connection after its last bytes.
LocalDisconnected ==
  /\ app = "closed" /\ lreq = <<>> /\ lend = "open"
  /\ \/ tunnel = "listed" /\ closeTcpTunnel
     \/ tunnel = "draining" /\ tunnel' = "gone" /\ lend' = "eof"
        /\ UNCHANGED <<ws, aborted, lrsp, upEnd, up>>
  /\ UNCHANGED <<appVars, lreq, pending, down, downEnd, goVars, sockVars, vmVars, lease, lost,
                 late, slow>>

\* RelayBridge::stop() closes the tunnels of its list; those that drain are not in it.
StopBridge ==
  /\ tunnel = "listed" /\ closeTcpTunnel
  /\ UNCHANGED <<appVars, lreq, pending, down, downEnd, goVars, sockVars, vmVars, lease, lost,
                 late, slow>>

WsConnected ==
  /\ tunnel = "listed" /\ ws = "connecting" /\ client # "none" /\ ~lost
  /\ ws' = "connected" /\ up' = Sent(up, pending) /\ pending' = <<>>
  /\ UNCHANGED <<appVars, loopVars, tunnel, aborted, upEnd, down, downEnd, goVars, sockVars,
                 vmVars, lease, lost, late, slow>>

WsBinaryMessage ==
  /\ tunnel = "listed" /\ ws = "connected" /\ down # <<>>
  /\ down' = Tail(down)
  /\ lrsp' = IF app = "open" THEN Append(lrsp, Head(down)) ELSE lrsp
  /\ UNCHANGED <<appVars, lreq, lend, bridgeVars, up, upEnd, downEnd, goVars, sockVars, vmVars,
                 lease, lost, late, slow>>

\* Mutant: the loopback socket is aborted at the end of the WebSocket.
WsDisconnected_abort ==
  /\ tunnel = "listed" /\ ~lost /\ down = <<>> /\ downEnd # "open"
  /\ ws' = "closed" /\ upEnd' = TRUE /\ tunnel' = "draining"
  /\ lend' = "eof" /\ lrsp' \in Cut(lrsp)
  /\ UNCHANGED <<appVars, lreq, aborted, pending, up, down, downEnd, goVars, sockVars,
                 vmVars, lease, lost, late, slow>>

\* Qt answers a close frame.  disconnectFromHost() keeps what is still to be
\* written; if all of it is already, the local socket is closed at once.
WsDisconnected ==
  /\ tunnel = "listed" /\ ~lost /\ down = <<>> /\ downEnd # "open"
  /\ ws' = "closed" /\ upEnd' = TRUE /\ tunnel' = "draining"
  /\ UNCHANGED <<appVars, loopVars, aborted, pending, up, down, downEnd, goVars, sockVars,
                 vmVars, lease, lost, late, slow>>

\* All is written: the socket closes, which is a reset if it left bytes unread.
DrainDone ==
  /\ tunnel = "draining" /\ lend = "open"
  /\ tunnel' = "gone"
  /\ IF lreq = <<>>
     THEN lend' = "eof" /\ UNCHANGED lrsp
     ELSE lend' = "reset" /\ lrsp' \in Cut(lrsp)
  /\ UNCHANGED <<appVars, lreq, ws, pending, aborted, netVars, goVars, sockVars, vmVars, lease,
                 lost, late, slow>>

\* The 2000 ms timer of a tunnel that has not drained.
DrainTimeout ==
  /\ tunnel = "draining" /\ lend = "open"
  /\ tunnel' = "gone" /\ lend' = "reset" /\ lrsp' \in Cut(lrsp) /\ slow' = TRUE
  /\ UNCHANGED <<appVars, lreq, ws, pending, aborted, netVars, goVars, sockVars, vmVars, lease,
                 lost, late>>

-----------------------------------------------------------------------------
(* The coordinator's relay handler, its goroutines and the lease watcher.  *)

CloseClient ==
  IF client = "open"
  THEN /\ client' = "closed"
       /\ down' \in Cut(down)
       /\ downEnd' = IF down' = down /\ downEnd # "open" THEN downEnd ELSE "fin"
  ELSE UNCHANGED <<client, down, downEnd>>

CloseUpstream ==
  IF upstream = "open"
  THEN upstream' = "closed" /\ ureq' \in Cut(ureq)
  ELSE UNCHANGED <<upstream, ureq>>

\* LeaseVM() and the dial of the VM.
Authorize ==
  /\ handler = "auth"
  /\ \/ /\ lease = "held" /\ vm = "open"
        /\ handler' = "upgrade" /\ upstream' = "open"
        /\ UNCHANGED downEnd
     \/ /\ handler' = "ended" /\ downEnd' = "fin"
        /\ UNCHANGED upstream
  /\ UNCHANGED <<appVars, loopVars, bridgeVars, up, upEnd, down, creader, chold, ureader, uhold,
                 results, watcher, client, vmVars, lease, lost, late, slow>>

\* The upgrade to a WebSocket may fail once the client has gone.
Upgrade ==
  /\ handler = "upgrade"
  /\ \/ /\ client' = "open" /\ handler' = "wait"
        /\ creader' = "read" /\ ureader' = "read" /\ watcher' = "run"
        /\ UNCHANGED <<upstream, ureq>>
     \/ /\ upEnd \/ lost
        /\ handler' = "ended" /\ CloseUpstream
        /\ UNCHANGED <<client, creader, ureader, watcher>>
  /\ UNCHANGED <<appVars, loopVars, bridgeVars, netVars, chold, uhold, results, vm, vmGot,
                 vmSent, ursp, lease, lost, late, slow>>

ClientRead ==
  /\ creader = "read" /\ chold = 0
  /\ \/ /\ client = "open" /\ up # <<>>
        /\ chold' = Head(up) /\ up' = Tail(up)
        /\ UNCHANGED <<creader, results>>
     \/ /\ client = "closed" \/ (up = <<>> /\ upEnd /\ ~lost)
        /\ creader' = "done" /\ results' = Append(results, "client")
        /\ UNCHANGED <<chold, up>>
  /\ UNCHANGED <<appVars, loopVars, bridgeVars, upEnd, down, downEnd, handler, ureader, uhold,
                 watcher, sockVars, vmVars, lease, lost, late, slow>>

\* writeAll() to the VM: it waits for room, with no deadline; the VM's host
\* takes the first bytes for a closed socket and refuses the next ones.
ClientWrite ==
  /\ creader = "read" /\ chold # 0 /\ chold' = 0
  /\ \/ /\ upstream = "open" /\ vm # "closed" /\ Len(ureq) < Window
        /\ ureq' = Append(ureq, chold)
        /\ UNCHANGED <<creader, results>>
     \/ /\ upstream = "open" /\ vm = "closed"
        /\ UNCHANGED <<creader, results, ureq>>
     \/ /\ upstream = "closed" \/ vm = "closed"
        /\ creader' = "done" /\ results' = Append(results, "client")
        /\ UNCHANGED ureq
  /\ UNCHANGED <<appVars, loopVars, bridgeVars, netVars, handler, ureader, uhold, watcher,
                 sockVars, vm, vmGot, vmSent, ursp, lease, lost, late, slow>>

\* A read of the VM; bytes sent to its closed socket turn EOF into a reset.
UpstreamRead ==
  /\ ureader = "read" /\ uhold = 0
  /\ \/ /\ upstream = "open" /\ ursp # <<>>
        /\ uhold' = Head(ursp) /\ ursp' = Tail(ursp)
        /\ UNCHANGED <<ureader, results>>
     \/ /\ upstream = "open" /\ ursp = <<>> /\ vm = "closed"
        /\ \E r \in {"eof"} \union (IF late THEN {"upstream"} ELSE {}) :
             results' = Append(results, r)
        /\ ureader' = "done" /\ UNCHANGED <<uhold, ursp>>
     \/ /\ upstream = "closed"
        /\ ureader' = "done" /\ results' = Append(results, "upstream")
        /\ UNCHANGED <<uhold, ursp>>
  /\ UNCHANGED <<appVars, loopVars, bridgeVars, netVars, handler, creader, chold, watcher,
                 sockVars, vm, vmGot, vmSent, ureq, lease, lost, late, slow>>

\* WriteMessage() to the client waits for room up to relayWriteTimeout.
UpstreamWrite ==
  /\ ureader = "read" /\ uhold # 0 /\ uhold' = 0
  /\ \/ /\ client = "open" /\ Len(down) < Window
        /\ down' = Sent(down, <<uhold>>)
        /\ UNCHANGED <<ureader, results, slow>>
     \/ /\ client = "closed" \/ upEnd \/ Len(down) = Window
        /\ ureader' = "done" /\ results' = Append(results, "upstream")
        /\ slow' = (slow \/ Len(down) = Window)
        /\ UNCHANGED down
  /\ UNCHANGED <<appVars, loopVars, bridgeVars, up, upEnd, downEnd, handler, creader, chold,
                 watcher, sockVars, vmVars, lease, lost, late>>

\* The first result.  After EOF a close frame follows the data, and its
\* acknowledgement, the end of the other goroutine, is waited for.
HandlerResult ==
  /\ handler = "wait" /\ results # <<>>
  /\ results' = Tail(results)
  /\ IF Head(results) = "eof" /\ client = "open"
     THEN handler' = "ack" /\ downEnd' = "close"
     ELSE handler' = "close" /\ UNCHANGED downEnd
  /\ UNCHANGED <<appVars, loopVars, bridgeVars, up, upEnd, down, creader, chold, ureader, uhold,
                 watcher, sockVars, vmVars, lease, lost, late, slow>>

HandlerAck ==
  /\ handler = "ack" /\ results # <<>>
  /\ results' = Tail(results) /\ handler' = "close"
  /\ UNCHANGED <<appVars, loopVars, bridgeVars, netVars, creader, chold, ureader, uhold,
                 watcher, sockVars, vmVars, lease, lost, late, slow>>

\* relayCloseWait
HandlerAckTimeout ==
  /\ handler = "ack" /\ results = <<>>
  /\ handler' = "close" /\ slow' = TRUE
  /\ UNCHANGED <<appVars, loopVars, bridgeVars, netVars, creader, chold, ureader, uhold, results,
                 watcher, sockVars, vmVars, lease, lost, late>>

\* Mutant: the connection to the VM is left to its peer.
HandlerClose_leak ==
  /\ handler = "close" /\ handler' = "ended" /\ CloseClient /\ UNCHANGED <<upstream, ureq>>
  /\ UNCHANGED <<appVars, loopVars, bridgeVars, up, upEnd, creader, chold, ureader, uhold,
                 results, watcher, vm, vmGot, vmSent, ursp, lease, lost, late, slow>>

\* close(done), client.Close() and upstream.Close().
HandlerClose ==
  /\ handler = "close" /\ handler' = "ended" /\ CloseClient /\ CloseUpstream
  /\ UNCHANGED <<appVars, loopVars, bridgeVars, up, upEnd, creader, chold, ureader, uhold,
                 results, watcher, vm, vmGot, vmSent, ursp, lease, lost, late, slow>>

\* A tick of watchRelayLease(), or the end of done.
WatcherStep ==
  /\ watcher = "run" /\ watcher' = "done"
  /\ \/ handler = "ended" /\ UNCHANGED <<sockVars, down, downEnd, ureq>>
     \/ lease = "ended" /\ CloseClient /\ CloseUpstream
  /\ UNCHANGED <<appVars, loopVars, bridgeVars, up, upEnd, handler, creader, chold, ureader,
                 uhold, results, vm, vmGot, vmSent, ursp, lease, lost, late, slow>>

-----------------------------------------------------------------------------
Bridge ==
  \/ LocalReadyRead \/ LocalDisconnected \/ WsConnected \/ WsBinaryMessage
  \/ WsDisconnected \/ DrainDone \/ DrainTimeout

Coordinator ==
  \/ Authorize \/ Upgrade \/ ClientRead \/ ClientWrite \/ UpstreamRead \/ UpstreamWrite
  \/ HandlerResult \/ HandlerAck \/ HandlerAckTimeout \/ HandlerClose \/ WatcherStep

External ==
  \/ AppSend \/ AppRead \/ AppReadEnd \/ AppClose
  \/ VmRead \/ VmSend \/ VmClose \/ VmHang \/ EndLease \/ LoseNetwork

Next == External \/ StopBridge \/ Bridge \/ Coordinator

\* Each step of the program uses up something, so it is enough that one of the
\* steps that can be taken is taken: Qt's event loop and Go's scheduler go on,
\* timers fire, and a VM that does not hang reads.
Spec == Init /\ [][Next]_vars /\ WF_vars(Bridge \/ Coordinator \/ VmRead)

-----------------------------------------------------------------------------
Chunks == 0..(MaxReq + MaxRsp)

TypeOK ==
  /\ app \in {"open", "closed", "eof", "reset"}
  /\ appSent \in 0..MaxReq /\ appGot \in Seq(Chunks)
  /\ lreq \in Seq(Chunks) /\ lrsp \in Seq(Chunks) /\ lend \in {"open", "eof", "reset"}
  /\ tunnel \in {"listed", "draining", "gone"} /\ ws \in {"connecting", "connected", "closed"}
  /\ pending \in Seq(Chunks) /\ Len(pending) <= MaxPending
  /\ up \in Seq(Chunks) /\ upEnd \in BOOLEAN
  /\ down \in Seq(Chunks) /\ Len(down) <= Window /\ downEnd \in {"open", "close", "fin"}
  /\ handler \in {"auth", "upgrade", "wait", "ack", "close", "ended"}
  /\ client \in {"none", "open", "closed"} /\ upstream \in {"none", "open", "closed"}
  /\ creader \in {"none", "read", "done"} /\ chold \in Chunks
  /\ ureader \in {"none", "read", "done"} /\ uhold \in Chunks
  /\ results \in Seq({"client", "eof", "upstream"}) /\ Len(results) <= 2
  /\ watcher \in {"none", "run", "done"} /\ vm \in {"open", "hung", "closed"}
  /\ vmGot \in Seq(Chunks) /\ vmSent \in 0..MaxRsp
  /\ ureq \in Seq(Chunks) /\ Len(ureq) <= Window /\ ursp \in Seq(Chunks)
  /\ lease \in {"held", "ended"}
  /\ lost \in BOOLEAN /\ late \in BOOLEAN /\ slow \in BOOLEAN /\ aborted \in BOOLEAN

\* Whatever is cut, aborted or lost, the VM has read a prefix of what the
\* application sent and the application a prefix of what the VM sent: the
\* bytes buffered before the WebSocket connects (relaybridge.cpp:411) go
\* first, and nothing is doubled or skipped.  The bounds of TypeOK include
\* that a goroutine never blocks on results (relay.go:145).
InOrder ==
  /\ IsPrefix(vmGot, UpTo(appSent))
  /\ IsPrefix(appGot, UpTo(vmSent))

\* The types, with the bounds of every buffer, and the order of the bytes.
TunnelInv == TypeOK /\ InOrder

Excused == late \/ slow \/ lost \/ aborted \/ lease = "ended"

\* The end of the response is not mistaken: an application reads EOF only when
\* the VM closed or the relay was refused, and after all the VM sent, through the handshake of
\* relay.go:186 and the graceful close of relaybridge.cpp:437; unless the
\* lease ended, the tunnel was closed locally, a timer fired or the
\* application was still sending when the VM closed.
EofIsComplete ==
  app = "eof" /\ ~Excused =>
    appGot = UpTo(vmSent) /\ (vm = "closed" \/ client = "none")

CoordinatorOver ==
  /\ handler = "ended" /\ client # "open" /\ upstream # "open"
  /\ creader # "read" /\ ureader # "read" /\ watcher # "run"

\* No relay outlives its reason: in the end its handler, goroutines, watcher
\* and sockets are gone if the VM closed or the lease ended, even if the VM or
\* the network is silent, and if the client's end is gone, unless one is; and
\* the client's tunnel is gone if the relay is (relay.go:101, 119, 198;
\* relaybridge.cpp:436).
TunnelEnds ==
  <>[](/\ vm = "closed" \/ lease = "ended" => CoordinatorOver
       /\ tunnel = "gone" => CoordinatorOver \/ vm = "hung" \/ lost
       /\ CoordinatorOver => tunnel = "gone" \/ lost)
=============================================================================
