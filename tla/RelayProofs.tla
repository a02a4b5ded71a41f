----------------------------- MODULE RelayProofs -----------------------------
(***************************************************************************)
(* Proofs about the coordinator's two ways of relaying: the bytes of a     *)
(* WebSocket tunnel and their end, for any amounts and any sizes of the    *)
(* buffers (RelayTunnel), and the TURN credentials, for every value of     *)
(* their constants (TurnProvider).                                         *)
(***************************************************************************)
EXTENDS RelayTunnel, TurnProvider, TLAPS

-----------------------------------------------------------------------------
(* Sequences of chunks.                                                    *)

\* The chunks of q are those that follow the n-th.
Run(q, n) == \A i \in 1..Len(q) : q[i] = n + i

\* The chunks of q are among the first n.
In(q, n) == \A i \in 1..Len(q) : q[i] \in 1..n

Held(x) == IF x = 0 THEN 0 ELSE 1

Done(x) == IF x = "done" THEN 1 ELSE 0

LEMMA EmptyRun ==
  ASSUME NEW n \in Nat
  PROVE  Len(<<>>) = 0 /\ Run(<<>>, n) /\ In(<<>>, n)
  <1>1. Len(<<>>) = 0
    OBVIOUS
  <1>2. QED
    BY <1>1 DEF Run, In

LEMMA AppendFacts ==
  ASSUME NEW S, NEW q \in Seq(S), NEW x \in S
  PROVE  /\ Append(q, x) \in Seq(S) /\ Len(Append(q, x)) = Len(q) + 1
         /\ Len(q) \in Nat
         /\ \A i \in 1..Len(q) : Append(q, x)[i] = q[i]
         /\ Append(q, x)[Len(q) + 1] = x
  OBVIOUS

LEMMA TailFacts ==
  ASSUME NEW S, NEW q \in Seq(S), q # <<>>
  PROVE  /\ Tail(q) \in Seq(S) /\ Len(Tail(q)) = Len(q) - 1
         /\ Len(q) \in Nat \ {0}
         /\ Head(q) \in S /\ Head(q) = q[1]
         /\ \A i \in 1..Len(Tail(q)) : Tail(q)[i] = q[i + 1]
  OBVIOUS

LEMMA CutFacts ==
  ASSUME NEW q \in Seq(Chunks), NEW p \in Cut(q)
  PROVE  /\ p \in Seq(Chunks) /\ Len(p) \in Nat /\ Len(p) <= Len(q)
         /\ \A i \in 1..Len(p) : p[i] = q[i]
  <1>1. PICK n \in 0..Len(q) : p = SubSeq(q, 1, n)
    BY DEF Cut
  <1>2. n \in Nat /\ n <= Len(q) /\ Len(q) \in Nat
    OBVIOUS
  <1>3. Len(p) = n
    BY <1>1, <1>2
  <1>4. p \in Seq(Chunks)
    BY <1>1, <1>2
  <1>5. \A i \in 1..n : p[i] = q[i]
    BY <1>1, <1>2
  <1>6. QED
    BY <1>2, <1>3, <1>4, <1>5

LEMMA ConcatFacts ==
  ASSUME NEW S, NEW q \in Seq(S), NEW p \in Seq(S)
  PROVE  /\ q \o p \in Seq(S) /\ Len(q \o p) = Len(q) + Len(p)
         /\ Len(q) \in Nat /\ Len(p) \in Nat
         /\ \A i \in 1..Len(q \o p) : (q \o p)[i] = IF i <= Len(q) THEN q[i] ELSE p[i - Len(q)]
  OBVIOUS

LEMMA CutSelf ==
  ASSUME NEW q \in Seq(Chunks)
  PROVE  q \in Cut(q)
  <1>1. Len(q) \in 0..Len(q) /\ q = SubSeq(q, 1, Len(q))
    OBVIOUS
  <1>2. \E n \in 0..Len(q) : q = SubSeq(q, 1, n)
    BY <1>1
  <1>3. QED
    BY <1>2 DEF Cut

LEMMA RunAppend ==
  ASSUME NEW q \in Seq(Chunks), NEW n \in Nat, NEW x \in Chunks
  PROVE  /\ Run(q, n) /\ x = n + Len(q) + 1 => Run(Append(q, x), n)
         /\ In(q, n) /\ x \in 1..n => In(Append(q, x), n)
  <1>1. \A i \in 1..Len(Append(q, x)) : i \in 1..Len(q) \/ i = Len(q) + 1
    BY AppendFacts
  <1>2. QED
    BY <1>1, AppendFacts DEF Run, In

LEMMA RunTail ==
  ASSUME NEW q \in Seq(Chunks), NEW n \in Nat, q # <<>>
  PROVE  /\ Run(q, n) => Head(q) = n + 1 /\ Run(Tail(q), n + 1)
         /\ In(q, n) => Head(q) \in 1..n /\ In(Tail(q), n)
  <1>1. 1 \in 1..Len(q) /\ \A i \in 1..Len(Tail(q)) : i \in Nat /\ i + 1 \in 1..Len(q)
    BY TailFacts
  <1>2. QED
    BY <1>1, TailFacts DEF Run, In

LEMMA RunCut ==
  ASSUME NEW q \in Seq(Chunks), NEW p \in Cut(q), NEW n \in Nat
  PROVE  /\ Run(q, n) => Run(p, n)
         /\ In(q, n) => In(p, n)
  <1>1. \A i \in 1..Len(p) : i \in 1..Len(q)
    BY CutFacts
  <1>2. QED
    BY <1>1, CutFacts DEF Run, In

LEMMA RunConcat ==
  ASSUME NEW q \in Seq(Chunks), NEW p \in Seq(Chunks), NEW n \in Nat
  PROVE  /\ Run(q, n) /\ Run(p, n + Len(q)) => Run(q \o p, n)
         /\ In(q, n) /\ In(p, n) => In(q \o p, n)
  <1>1. \A i \in 1..Len(q \o p) :
          \/ i \in 1..Len(q)
          \/ ~(i <= Len(q)) /\ i - Len(q) \in 1..Len(p) /\ n + Len(q) + (i - Len(q)) = n + i
    BY ConcatFacts
  <1>2. QED
    BY <1>1, ConcatFacts DEF Run, In

LEMMA InMore ==
  ASSUME NEW q \in Seq(Chunks), NEW n \in Nat, In(q, n)
  PROVE  In(q, n + 1)
  <1>1. \A x \in 1..n : x \in 1..(n + 1)
    OBVIOUS
  <1>2. QED
    BY <1>1 DEF In

LEMMA EmptyIs ==
  ASSUME NEW S, NEW q \in Seq(S)
  PROVE  Len(q) \in Nat /\ (q = <<>> <=> Len(q) = 0)
  OBVIOUS

\* A run from the start is a prefix of all that was sent.
LEMMA RunIsPrefix ==
  ASSUME NEW q \in Seq(Chunks), NEW n \in Nat, Run(q, 0), Len(q) <= n
  PROVE  /\ IsPrefix(q, UpTo(n))
         /\ Len(q) = n => q = UpTo(n)
  <1>1. UpTo(n) \in Seq(Nat) /\ Len(UpTo(n)) = n /\ \A i \in 1..n : UpTo(n)[i] = i
    BY DEF UpTo
  <1>2. Len(q) \in Nat /\ \A i \in 1..Len(q) : q[i] = i
    BY DEF Run
  <1>3. SubSeq(q, 1, Len(q)) = SubSeq(UpTo(n), 1, Len(q))
    <2>1. \A i \in 1..Len(q) : i \in 1..n /\ q[i] = UpTo(n)[i]
      BY <1>1, <1>2
    <2>2. QED
      BY <1>1, <1>2, <2>1
  <1>4. QED
    BY <1>1, <1>2, <1>3 DEF IsPrefix


LEMMA SumIsZero ==
  ASSUME NEW a \in Nat, NEW b \in Nat, NEW c \in Nat, NEW d \in Nat, NEW e \in Nat,
         NEW f \in Nat, a = a + b + c + d + e + f
  PROVE  b = 0 /\ c = 0 /\ d = 0 /\ e = 0 /\ f = 0
  OBVIOUS

LEMMA SentFacts ==
  ASSUME lost \in BOOLEAN, NEW S, NEW q \in Seq(S), NEW x \in S
  PROVE  /\ lost = TRUE => \A p : Sent(q, p) = q
         /\ lost = FALSE => \A p : Sent(q, p) = q \o p
         /\ lost = FALSE => Sent(q, <<x>>) = Append(q, x)
  <1>1. q \o <<x>> = Append(q, x)
    OBVIOUS
  <1>2. QED
    BY <1>1 DEF Sent

-----------------------------------------------------------------------------
(* The inductive invariant of the tunnel.                                  *)

LocalScalars ==
  /\ app \in {"open", "closed", "eof", "reset"} /\ lend \in {"open", "eof", "reset"}
  /\ tunnel \in {"listed", "draining", "gone"} /\ ws \in {"connecting", "connected", "closed"}

HandlerScalars ==
  /\ downEnd \in {"open", "close", "fin"}
  /\ handler \in {"auth", "upgrade", "wait", "ack", "close", "ended"}
  /\ watcher \in {"none", "run", "done"} /\ lease \in {"held", "ended"}

SocketScalars ==
  /\ client \in {"none", "open", "closed"} /\ upstream \in {"none", "open", "closed"}
  /\ vm \in {"open", "hung", "closed"}

GoScalars == creader \in {"none", "read", "done"} /\ ureader \in {"none", "read", "done"}

Flags ==
  /\ upEnd \in BOOLEAN /\ lost \in BOOLEAN /\ late \in BOOLEAN /\ slow \in BOOLEAN
  /\ aborted \in BOOLEAN

Numbers ==
  appSent \in 0..MaxReq /\ vmSent \in 0..MaxRsp /\ chold \in Chunks /\ uhold \in Chunks

UpBuffers ==
  /\ lreq \in Seq(Chunks) /\ up \in Seq(Chunks) /\ vmGot \in Seq(Chunks)
  /\ pending \in Seq(Chunks) /\ Len(pending) <= MaxPending
  /\ ureq \in Seq(Chunks) /\ Len(ureq) <= Window

DownBuffers ==
  /\ appGot \in Seq(Chunks) /\ lrsp \in Seq(Chunks) /\ ursp \in Seq(Chunks)
  /\ down \in Seq(Chunks) /\ Len(down) <= Window

\* Both goroutines have room for their result.
Room ==
  /\ results \in Seq({"client", "eof", "upstream"})
  /\ Len(results) + (IF handler = "ack" THEN 1 ELSE 0) <= Done(creader) + Done(ureader)

\* The tunnel leaves the list with its WebSocket, and goes with its local socket.
Ends ==
  /\ tunnel = "listed" <=> ws # "closed"
  /\ lend = "open" <=> tunnel # "gone"
  /\ upEnd = TRUE => tunnel # "listed"
  /\ ws = "connected" => pending = <<>>
  /\ app = "eof" => lend = "eof"

\* The handler starts the goroutines with both sockets.
Handling ==
  /\ creader # "read" => chold = 0
  /\ ureader # "read" => uhold = 0
  /\ client = "none" <=> creader = "none"
  /\ client = "none" <=> ureader = "none"
  /\ client = "none" => watcher = "none"
  /\ handler = "auth" => upstream = "none"
  /\ handler \in {"auth", "upgrade"} => client = "none"
  /\ handler \in {"wait", "ack", "close"} => client # "none"
  /\ handler = "upgrade" => upstream = "open"
  /\ upstream = "none" =>
       vmSent = 0 /\ ursp = <<>> /\ client = "none" /\ handler \in {"auth", "ended"}

\* Only chunks that were sent are under way, and the ends have read the first ones.
UpValues ==
  /\ In(ureq, appSent) /\ In(up, appSent) /\ In(pending, appSent) /\ In(lreq, appSent)
  /\ chold \in 0..appSent
  /\ Run(vmGot, 0) /\ Len(vmGot) <= appSent

DownValues ==
  /\ In(lrsp, vmSent) /\ In(down, vmSent) /\ In(ursp, vmSent)
  /\ uhold \in 0..vmSent
  /\ Run(appGot, 0) /\ Len(appGot) <= vmSent

\* How many chunks are on the way before each place.
AtVm == Len(vmGot) + Len(ureq)
AtWrite == AtVm + Held(chold)
AtUp == AtWrite + Len(up)
AtPending == AtUp + Len(pending)
AtApp == Len(appGot) + Len(lrsp)
AtDown == AtApp + Len(down)
AtRead == AtDown + Held(uhold)

\* Each buffer on the way to a VM that reads continues the one after it, from
\* the VM up to the place where the chain is cut.
UpChain ==
  vm = "open" =>
   /\ Run(ureq, Len(vmGot))
   /\ upstream # "closed" =>
      /\ chold # 0 => chold = AtVm + 1
      /\ Run(up, AtWrite)
      /\ lost = FALSE /\ tunnel = "listed" =>
           Run(pending, AtUp) /\ Run(lreq, AtPending) /\ appSent = AtPending + Len(lreq)

\* The same on the way to an application that reads.
DownChain ==
  app = "open" =>
   /\ Run(lrsp, Len(appGot))
   /\ tunnel = "listed" =>
      /\ Run(down, AtApp)
      /\ lost = FALSE /\ client # "closed" =>
          /\ uhold # 0 => uhold = AtDown + 1
          /\ ureader # "done" => Run(ursp, AtRead) /\ vmSent = AtRead + Len(ursp)

Clean == late = FALSE /\ slow = FALSE /\ lost = FALSE /\ aborted = FALSE /\ lease = "held"

\* The order in which an exchange ends that nothing cuts short: the VM, the
\* goroutine that reads it, the close frame, the tunnel, the other goroutine,
\* the sockets.
CleanOrder ==
  Clean =>
   /\ tunnel # "listed" => downEnd # "open"
   /\ client = "closed" \/ upstream = "closed" \/ creader = "done" =>
        downEnd # "open" /\ tunnel # "listed"
   /\ ureader = "done" => vm = "closed" /\ ursp = <<>> /\ uhold = 0
   /\ downEnd # "open" => ureader = "done" \/ (handler = "ended" /\ upstream = "none")
   /\ handler \in {"auth", "upgrade", "wait"} => downEnd = "open"
   /\ handler = "wait" => \A i \in 1..Len(results) : results[i] = "eof"
   /\ handler \in {"ack", "close"} => ureader = "done"
   /\ handler = "close" => creader = "done"
   /\ handler = "ended" => upstream = "none" \/ client = "closed"
   /\ vm = "closed" => chold = 0 /\ up = <<>> /\ pending = <<>> /\ lreq = <<>>

\* Nothing the VM sent is lost in such an exchange.
CleanCount ==
  Clean =>
   /\ tunnel = "listed" /\ app = "open" =>
        vmSent = AtRead + Len(ursp)
   /\ tunnel # "listed" /\ app = "open" /\ lend # "reset" => vmSent = AtApp
   /\ app = "eof" => vmSent = Len(appGot)

TunnelIInv ==
  /\ LocalScalars /\ HandlerScalars /\ SocketScalars /\ GoScalars /\ Flags /\ Numbers
  /\ UpBuffers /\ DownBuffers /\ Room /\ Ends /\ Handling
  /\ UpValues /\ DownValues /\ UpChain /\ DownChain /\ CleanOrder /\ CleanCount


-----------------------------------------------------------------------------
(* The steps of the tunnel, one per outcome.                               *)

AppSends ==
  /\ app = "open" /\ appSent < MaxReq /\ lend = "open" /\ appSent' = appSent + 1
  /\ lreq' = Append(lreq, appSent + 1) /\ late' = (late \/ vm = "closed")
  /\ UNCHANGED <<app, appGot, lrsp, lend, tunnel, ws, pending, aborted, up, upEnd, down,
                 downEnd, handler, creader, chold, ureader, uhold, results, watcher,
                 client, upstream, vm, vmGot, vmSent, ureq, ursp, lease, lost, slow>>

AppSendsInVain ==
  /\ app = "open" /\ appSent < MaxReq /\ lend # "open" /\ appSent' = appSent + 1
  /\ late' = (late \/ vm = "closed")
  /\ UNCHANGED <<app, appGot, lreq, lrsp, lend, tunnel, ws, pending, aborted, up, upEnd,
                 down, downEnd, handler, creader, chold, ureader, uhold, results,
                 watcher, client, upstream, vm, vmGot, vmSent, ureq, ursp, lease, lost,
                 slow>>

AppReads ==
  /\ app = "open" /\ lrsp # <<>> /\ appGot' = Append(appGot, Head(lrsp))
  /\ lrsp' = Tail(lrsp)
  /\ UNCHANGED <<app, appSent, lreq, lend, tunnel, ws, pending, aborted, up, upEnd,
                 down, downEnd, handler, creader, chold, ureader, uhold, results,
                 watcher, client, upstream, vm, vmGot, vmSent, ureq, ursp, lease, lost,
                 late, slow>>

AppReadsEnd ==
  /\ app = "open" /\ lrsp = <<>> /\ lend # "open" /\ app' = lend
  /\ UNCHANGED <<appSent, appGot, lreq, lrsp, lend, tunnel, ws, pending, aborted, up,
                 upEnd, down, downEnd, handler, creader, chold, ureader, uhold, results,
                 watcher, client, upstream, vm, vmGot, vmSent, ureq, ursp, lease, lost,
                 late, slow>>

AppCloses ==
  /\ app = "open" /\ app' = "closed"
  /\ UNCHANGED <<appSent, appGot, lreq, lrsp, lend, tunnel, ws, pending, aborted, up,
                 upEnd, down, downEnd, handler, creader, chold, ureader, uhold, results,
                 watcher, client, upstream, vm, vmGot, vmSent, ureq, ursp, lease, lost,
                 late, slow>>

VmReads ==
  /\ vm = "open" /\ ureq # <<>> /\ vmGot' = Append(vmGot, Head(ureq))
  /\ ureq' = Tail(ureq)
  /\ UNCHANGED <<app, appSent, appGot, lreq, lrsp, lend, tunnel, ws, pending, aborted,
                 up, upEnd, down, downEnd, handler, creader, chold, ureader, uhold,
                 results, watcher, client, upstream, vm, vmSent, ursp, lease, lost,
                 late, slow>>

VmSends ==
  /\ vm = "open" /\ upstream = "open" /\ vmSent < MaxRsp /\ vmSent' = vmSent + 1
  /\ ursp' = Append(ursp, vmSent + 1)
  /\ UNCHANGED <<app, appSent, appGot, lreq, lrsp, lend, tunnel, ws, pending, aborted,
                 up, upEnd, down, downEnd, handler, creader, chold, ureader, uhold,
                 results, watcher, client, upstream, vm, vmGot, ureq, lease, lost, late,
                 slow>>

VmCloses ==
  /\ vm = "open" /\ upstream # "none" /\ vm' = "closed"
  /\ late' = (late \/ Len(vmGot) < appSent)
  /\ UNCHANGED <<app, appSent, appGot, lreq, lrsp, lend, tunnel, ws, pending, aborted,
                 up, upEnd, down, downEnd, handler, creader, chold, ureader, uhold,
                 results, watcher, client, upstream, vmGot, vmSent, ureq, ursp, lease,
                 lost, slow>>

VmHangs ==
  /\ vm = "open" /\ vm' = "hung"
  /\ UNCHANGED <<app, appSent, appGot, lreq, lrsp, lend, tunnel, ws, pending, aborted,
                 up, upEnd, down, downEnd, handler, creader, chold, ureader, uhold,
                 results, watcher, client, upstream, vmGot, vmSent, ureq, ursp, lease,
                 lost, late, slow>>

LeaseEnds ==
  /\ lease = "held" /\ lease' = "ended"
  /\ UNCHANGED <<app, appSent, appGot, lreq, lrsp, lend, tunnel, ws, pending, aborted,
                 up, upEnd, down, downEnd, handler, creader, chold, ureader, uhold,
                 results, watcher, client, upstream, vm, vmGot, vmSent, ureq, ursp,
                 lost, late, slow>>

NetworkLost ==
  /\ lost' = TRUE /\ up' = <<>> /\ down' = <<>>
  /\ UNCHANGED <<app, appSent, appGot, lreq, lrsp, lend, tunnel, ws, pending, aborted,
                 upEnd, downEnd, handler, creader, chold, ureader, uhold, results,
                 watcher, client, upstream, vm, vmGot, vmSent, ureq, ursp, lease, late,
                 slow>>

LocalSent ==
  /\ tunnel # "gone" /\ lend = "open" /\ lreq # <<>> /\ lreq' = Tail(lreq)
  /\ ws = "connected" /\ up' = Sent(up, <<Head(lreq)>>)
  /\ UNCHANGED <<app, appSent, appGot, lrsp, lend, tunnel, ws, pending, aborted, upEnd,
                 down, downEnd, handler, creader, chold, ureader, uhold, results,
                 watcher, client, upstream, vm, vmGot, vmSent, ureq, ursp, lease, lost,
                 late, slow>>

LocalKept ==
  /\ tunnel # "gone" /\ lend = "open" /\ lreq # <<>> /\ lreq' = Tail(lreq)
  /\ ws # "connected" /\ Len(pending) < MaxPending
  /\ pending' = Append(pending, Head(lreq))
  /\ UNCHANGED <<app, appSent, appGot, lrsp, lend, tunnel, ws, aborted, up, upEnd, down,
                 downEnd, handler, creader, chold, ureader, uhold, results, watcher,
                 client, upstream, vm, vmGot, vmSent, ureq, ursp, lease, lost, late,
                 slow>>

LocalDropped ==
  /\ tunnel # "gone" /\ lend = "open" /\ lreq # <<>> /\ lreq' = Tail(lreq)
  /\ tunnel # "listed"
  /\ UNCHANGED <<app, appSent, appGot, lrsp, lend, tunnel, ws, pending, aborted, up,
                 upEnd, down, downEnd, handler, creader, chold, ureader, uhold, results,
                 watcher, client, upstream, vm, vmGot, vmSent, ureq, ursp, lease, lost,
                 late, slow>>

LocalAborts ==
  /\ tunnel # "gone" /\ lend = "open" /\ lreq # <<>> /\ lreq' = Tail(lreq)
  /\ tunnel = "listed" /\ tunnel' = "gone" /\ ws' = "closed" /\ aborted' = TRUE
  /\ lend' = "reset" /\ lrsp' \in Cut(lrsp) /\ upEnd' = TRUE /\ up' \in Cut(up)
  /\ UNCHANGED <<app, appSent, appGot, pending, down, downEnd, handler, creader, chold,
                 ureader, uhold, results, watcher, client, upstream, vm, vmGot, vmSent,
                 ureq, ursp, lease, lost, late, slow>>

Aborted ==
  /\ tunnel = "listed" /\ tunnel' = "gone" /\ ws' = "closed" /\ aborted' = TRUE
  /\ lend' = "reset" /\ lrsp' \in Cut(lrsp) /\ upEnd' = TRUE /\ up' \in Cut(up)
  /\ UNCHANGED <<app, appSent, appGot, lreq, pending, down, downEnd, handler, creader,
                 chold, ureader, uhold, results, watcher, client, upstream, vm, vmGot,
                 vmSent, ureq, ursp, lease, lost, late, slow>>

Drained ==
  /\ app = "closed" /\ lreq = <<>> /\ lend = "open" /\ tunnel = "draining"
  /\ tunnel' = "gone" /\ lend' = "eof"
  /\ UNCHANGED <<app, appSent, appGot, lreq, lrsp, ws, pending, aborted, up, upEnd,
                 down, downEnd, handler, creader, chold, ureader, uhold, results,
                 watcher, client, upstream, vm, vmGot, vmSent, ureq, ursp, lease, lost,
                 late, slow>>

Connects ==
  /\ tunnel = "listed" /\ ws = "connecting" /\ client # "none" /\ lost = FALSE
  /\ ws' = "connected" /\ up' = Sent(up, pending) /\ pending' = <<>>
  /\ UNCHANGED <<app, appSent, appGot, lreq, lrsp, lend, tunnel, aborted, upEnd, down,
                 downEnd, handler, creader, chold, ureader, uhold, results, watcher,
                 client, upstream, vm, vmGot, vmSent, ureq, ursp, lease, lost, late,
                 slow>>

Delivers ==
  /\ tunnel = "listed" /\ ws = "connected" /\ down # <<>> /\ app = "open"
  /\ down' = Tail(down) /\ lrsp' = Append(lrsp, Head(down))
  /\ UNCHANGED <<app, appSent, appGot, lreq, lend, tunnel, ws, pending, aborted, up,
                 upEnd, downEnd, handler, creader, chold, ureader, uhold, results,
                 watcher, client, upstream, vm, vmGot, vmSent, ureq, ursp, lease, lost,
                 late, slow>>

DeliversInVain ==
  /\ tunnel = "listed" /\ ws = "connected" /\ down # <<>> /\ app # "open"
  /\ down' = Tail(down)
  /\ UNCHANGED <<app, appSent, appGot, lreq, lrsp, lend, tunnel, ws, pending, aborted,
                 up, upEnd, downEnd, handler, creader, chold, ureader, uhold, results,
                 watcher, client, upstream, vm, vmGot, vmSent, ureq, ursp, lease, lost,
                 late, slow>>

Disconnects ==
  /\ tunnel = "listed" /\ lost = FALSE /\ down = <<>> /\ downEnd # "open"
  /\ ws' = "closed" /\ upEnd' = TRUE /\ tunnel' = "draining"
  /\ UNCHANGED <<app, appSent, appGot, lreq, lrsp, lend, pending, aborted, up, down,
                 downEnd, handler, creader, chold, ureader, uhold, results, watcher,
                 client, upstream, vm, vmGot, vmSent, ureq, ursp, lease, lost, late,
                 slow>>

DrainsClean ==
  /\ tunnel = "draining" /\ lend = "open" /\ lreq = <<>> /\ tunnel' = "gone"
  /\ lend' = "eof"
  /\ UNCHANGED <<app, appSent, appGot, lreq, lrsp, ws, pending, aborted, up, upEnd,
                 down, downEnd, handler, creader, chold, ureader, uhold, results,
                 watcher, client, upstream, vm, vmGot, vmSent, ureq, ursp, lease, lost,
                 late, slow>>

DrainsReset ==
  /\ tunnel = "draining" /\ lend = "open" /\ lreq # <<>> /\ tunnel' = "gone"
  /\ lend' = "reset" /\ lrsp' \in Cut(lrsp)
  /\ UNCHANGED <<app, appSent, appGot, lreq, ws, pending, aborted, up, upEnd, down,
                 downEnd, handler, creader, chold, ureader, uhold, results, watcher,
                 client, upstream, vm, vmGot, vmSent, ureq, ursp, lease, lost, late,
                 slow>>

DrainTimesOut ==
  /\ tunnel = "draining" /\ lend = "open" /\ tunnel' = "gone" /\ lend' = "reset"
  /\ lrsp' \in Cut(lrsp) /\ slow' = TRUE
  /\ UNCHANGED <<app, appSent, appGot, lreq, ws, pending, aborted, up, upEnd, down,
                 downEnd, handler, creader, chold, ureader, uhold, results, watcher,
                 client, upstream, vm, vmGot, vmSent, ureq, ursp, lease, lost, late>>

Authorizes ==
  /\ handler = "auth" /\ lease = "held" /\ vm = "open" /\ handler' = "upgrade"
  /\ upstream' = "open"
  /\ UNCHANGED <<app, appSent, appGot, lreq, lrsp, lend, tunnel, ws, pending, aborted,
                 up, upEnd, down, downEnd, creader, chold, ureader, uhold, results,
                 watcher, client, vm, vmGot, vmSent, ureq, ursp, lease, lost, late, slow>>

Refuses ==
  /\ handler = "auth" /\ handler' = "ended" /\ downEnd' = "fin"
  /\ UNCHANGED <<app, appSent, appGot, lreq, lrsp, lend, tunnel, ws, pending, aborted,
                 up, upEnd, down, creader, chold, ureader, uhold, results, watcher,
                 client, upstream, vm, vmGot, vmSent, ureq, ursp, lease, lost, late,
                 slow>>

Upgrades ==
  /\ handler = "upgrade" /\ client' = "open" /\ handler' = "wait" /\ creader' = "read"
  /\ ureader' = "read" /\ watcher' = "run"
  /\ UNCHANGED <<app, appSent, appGot, lreq, lrsp, lend, tunnel, ws, pending, aborted,
                 up, upEnd, down, downEnd, chold, uhold, results, upstream, vm, vmGot,
                 vmSent, ureq, ursp, lease, lost, late, slow>>

UpgradeFails ==
  /\ handler = "upgrade" /\ (upEnd = TRUE \/ lost = TRUE) /\ handler' = "ended"
  /\ CloseUpstream
  /\ UNCHANGED <<app, appSent, appGot, lreq, lrsp, lend, tunnel, ws, pending, aborted,
                 up, upEnd, down, downEnd, creader, chold, ureader, uhold, results,
                 watcher, client, vm, vmGot, vmSent, ursp, lease, lost, late, slow>>

ClientReads ==
  /\ creader = "read" /\ chold = 0 /\ client = "open" /\ up # <<>> /\ chold' = Head(up)
  /\ up' = Tail(up)
  /\ UNCHANGED <<app, appSent, appGot, lreq, lrsp, lend, tunnel, ws, pending, aborted,
                 upEnd, down, downEnd, handler, creader, ureader, uhold, results,
                 watcher, client, upstream, vm, vmGot, vmSent, ureq, ursp, lease, lost,
                 late, slow>>

ClientReadEnds ==
  /\ creader = "read" /\ chold = 0
  /\ client = "closed" \/ (up = <<>> /\ upEnd = TRUE /\ lost = FALSE)
  /\ creader' = "done" /\ results' = Append(results, "client")
  /\ UNCHANGED <<app, appSent, appGot, lreq, lrsp, lend, tunnel, ws, pending, aborted,
                 up, upEnd, down, downEnd, handler, chold, ureader, uhold, watcher,
                 client, upstream, vm, vmGot, vmSent, ureq, ursp, lease, lost, late,
                 slow>>

ClientWrites ==
  /\ creader = "read" /\ chold # 0 /\ chold' = 0 /\ upstream = "open" /\ vm # "closed"
  /\ Len(ureq) < Window /\ ureq' = Append(ureq, chold)
  /\ UNCHANGED <<app, appSent, appGot, lreq, lrsp, lend, tunnel, ws, pending, aborted,
                 up, upEnd, down, downEnd, handler, creader, ureader, uhold, results,
                 watcher, client, upstream, vm, vmGot, vmSent, ursp, lease, lost, late,
                 slow>>

ClientWriteLost ==
  /\ creader = "read" /\ chold # 0 /\ chold' = 0 /\ vm = "closed"
  /\ UNCHANGED <<app, appSent, appGot, lreq, lrsp, lend, tunnel, ws, pending, aborted,
                 up, upEnd, down, downEnd, handler, creader, ureader, uhold, results,
                 watcher, client, upstream, vm, vmGot, vmSent, ureq, ursp, lease, lost,
                 late, slow>>

ClientWriteFails ==
  /\ creader = "read" /\ chold # 0 /\ chold' = 0
  /\ (upstream = "closed" \/ vm = "closed") /\ creader' = "done"
  /\ results' = Append(results, "client")
  /\ UNCHANGED <<app, appSent, appGot, lreq, lrsp, lend, tunnel, ws, pending, aborted,
                 up, upEnd, down, downEnd, handler, ureader, uhold, watcher, client,
                 upstream, vm, vmGot, vmSent, ureq, ursp, lease, lost, late, slow>>

UpstreamReads ==
  /\ ureader = "read" /\ uhold = 0 /\ upstream = "open" /\ ursp # <<>>
  /\ uhold' = Head(ursp) /\ ursp' = Tail(ursp)
  /\ UNCHANGED <<app, appSent, appGot, lreq, lrsp, lend, tunnel, ws, pending, aborted,
                 up, upEnd, down, downEnd, handler, creader, chold, ureader, results,
                 watcher, client, upstream, vm, vmGot, vmSent, ureq, lease, lost, late,
                 slow>>

UpstreamEnds ==
  /\ ureader = "read" /\ uhold = 0 /\ upstream = "open" /\ ursp = <<>> /\ vm = "closed"
  /\ \E r \in {"eof"} \union (IF late THEN {"upstream"} ELSE {}) : results' = Append(results, r)
  /\ ureader' = "done"
  /\ UNCHANGED <<app, appSent, appGot, lreq, lrsp, lend, tunnel, ws, pending, aborted,
                 up, upEnd, down, downEnd, handler, creader, chold, uhold, watcher,
                 client, upstream, vm, vmGot, vmSent, ureq, ursp, lease, lost, late,
                 slow>>

UpstreamBreaks ==
  /\ ureader = "read" /\ uhold = 0 /\ upstream = "closed" /\ ureader' = "done"
  /\ results' = Append(results, "upstream")
  /\ UNCHANGED <<app, appSent, appGot, lreq, lrsp, lend, tunnel, ws, pending, aborted,
                 up, upEnd, down, downEnd, handler, creader, chold, uhold, watcher,
                 client, upstream, vm, vmGot, vmSent, ureq, ursp, lease, lost, late,
                 slow>>

UpstreamWrites ==
  /\ ureader = "read" /\ uhold # 0 /\ uhold' = 0 /\ client = "open"
  /\ Len(down) < Window /\ down' = Sent(down, <<uhold>>)
  /\ UNCHANGED <<app, appSent, appGot, lreq, lrsp, lend, tunnel, ws, pending, aborted,
                 up, upEnd, downEnd, handler, creader, chold, ureader, results, watcher,
                 client, upstream, vm, vmGot, vmSent, ureq, ursp, lease, lost, late,
                 slow>>

UpstreamWriteFails ==
  /\ ureader = "read" /\ uhold # 0 /\ uhold' = 0
  /\ (client = "closed" \/ upEnd = TRUE \/ Len(down) = Window) /\ ureader' = "done"
  /\ results' = Append(results, "upstream") /\ slow' = (slow \/ Len(down) = Window)
  /\ UNCHANGED <<app, appSent, appGot, lreq, lrsp, lend, tunnel, ws, pending, aborted,
                 up, upEnd, down, downEnd, handler, creader, chold, watcher, client,
                 upstream, vm, vmGot, vmSent, ureq, ursp, lease, lost, late>>

SendsClose ==
  /\ handler = "wait" /\ results # <<>> /\ Head(results) = "eof" /\ client = "open"
  /\ results' = Tail(results) /\ handler' = "ack" /\ downEnd' = "close"
  /\ UNCHANGED <<app, appSent, appGot, lreq, lrsp, lend, tunnel, ws, pending, aborted,
                 up, upEnd, down, creader, chold, ureader, uhold, watcher, client,
                 upstream, vm, vmGot, vmSent, ureq, ursp, lease, lost, late, slow>>

GivesUp ==
  /\ handler = "wait" /\ results # <<>> /\ (Head(results) # "eof" \/ client # "open")
  /\ results' = Tail(results) /\ handler' = "close"
  /\ UNCHANGED <<app, appSent, appGot, lreq, lrsp, lend, tunnel, ws, pending, aborted,
                 up, upEnd, down, downEnd, creader, chold, ureader, uhold, watcher,
                 client, upstream, vm, vmGot, vmSent, ureq, ursp, lease, lost, late,
                 slow>>

Acknowledged ==
  /\ handler = "ack" /\ results # <<>> /\ results' = Tail(results) /\ handler' = "close"
  /\ UNCHANGED <<app, appSent, appGot, lreq, lrsp, lend, tunnel, ws, pending, aborted,
                 up, upEnd, down, downEnd, creader, chold, ureader, uhold, watcher,
                 client, upstream, vm, vmGot, vmSent, ureq, ursp, lease, lost, late,
                 slow>>

AckTimesOut ==
  /\ handler = "ack" /\ results = <<>> /\ handler' = "close" /\ slow' = TRUE
  /\ UNCHANGED <<app, appSent, appGot, lreq, lrsp, lend, tunnel, ws, pending, aborted,
                 up, upEnd, down, downEnd, creader, chold, ureader, uhold, results,
                 watcher, client, upstream, vm, vmGot, vmSent, ureq, ursp, lease, lost,
                 late>>

HandlerCloses ==
  /\ handler = "close" /\ handler' = "ended" /\ CloseClient /\ CloseUpstream
  /\ UNCHANGED <<app, appSent, appGot, lreq, lrsp, lend, tunnel, ws, pending, aborted,
                 up, upEnd, creader, chold, ureader, uhold, results, watcher, vm, vmGot,
                 vmSent, ursp, lease, lost, late, slow>>

WatcherEnds ==
  /\ watcher = "run" /\ watcher' = "done"
  /\ UNCHANGED <<app, appSent, appGot, lreq, lrsp, lend, tunnel, ws, pending, aborted,
                 up, upEnd, down, downEnd, handler, creader, chold, ureader, uhold,
                 results, client, upstream, vm, vmGot, vmSent, ureq, ursp, lease, lost,
                 late, slow>>

WatcherCloses ==
  /\ watcher = "run" /\ lease = "ended" /\ watcher' = "done" /\ CloseClient
  /\ CloseUpstream
  /\ UNCHANGED <<app, appSent, appGot, lreq, lrsp, lend, tunnel, ws, pending, aborted,
                 up, upEnd, handler, creader, chold, ureader, uhold, results, vm, vmGot,
                 vmSent, ursp, lease, lost, late, slow>>

LEMMA AppSendCases ==
  ASSUME AppSend
  PROVE  AppSends \/ AppSendsInVain
  BY DEF AppSend, AppSends, AppSendsInVain, appVars, loopVars, bridgeVars, netVars, goVars,
     sockVars, vmVars

LEMMA AppReadCases ==
  ASSUME AppRead
  PROVE  AppReads
  BY DEF AppRead, AppReads, appVars, loopVars, bridgeVars, netVars, goVars, sockVars, vmVars

LEMMA AppReadEndCases ==
  ASSUME AppReadEnd
  PROVE  AppReadsEnd
  BY DEF AppReadEnd, AppReadsEnd, appVars, loopVars, bridgeVars, netVars, goVars, sockVars,
     vmVars

LEMMA AppCloseCases ==
  ASSUME AppClose
  PROVE  AppCloses
  BY DEF AppClose, AppCloses, appVars, loopVars, bridgeVars, netVars, goVars, sockVars,
     vmVars

LEMMA VmReadCases ==
  ASSUME VmRead
  PROVE  VmReads
  BY DEF VmRead, VmReads, appVars, loopVars, bridgeVars, netVars, goVars, sockVars, vmVars

LEMMA VmSendCases ==
  ASSUME VmSend
  PROVE  VmSends
  BY DEF VmSend, VmSends, appVars, loopVars, bridgeVars, netVars, goVars, sockVars, vmVars

LEMMA VmCloseCases ==
  ASSUME VmClose
  PROVE  VmCloses
  BY DEF VmClose, VmCloses, appVars, loopVars, bridgeVars, netVars, goVars, sockVars, vmVars

LEMMA VmHangCases ==
  ASSUME VmHang
  PROVE  VmHangs
  BY DEF VmHang, VmHangs, appVars, loopVars, bridgeVars, netVars, goVars, sockVars, vmVars

LEMMA EndLeaseCases ==
  ASSUME EndLease
  PROVE  LeaseEnds
  BY DEF EndLease, LeaseEnds, appVars, loopVars, bridgeVars, netVars, goVars, sockVars,
     vmVars

LEMMA LoseNetworkCases ==
  ASSUME TunnelIInv, LoseNetwork
  PROVE  NetworkLost
  BY DEF TunnelIInv, Flags, LoseNetwork, NetworkLost, appVars, loopVars, bridgeVars,
     netVars, goVars, sockVars, vmVars

LEMMA LocalReadyReadCases ==
  ASSUME LocalReadyRead
  PROVE  LocalSent \/ LocalKept \/ LocalDropped \/ LocalAborts
  BY DEF LocalReadyRead, LocalSent, LocalKept, LocalDropped, LocalAborts, closeTcpTunnel,
     appVars, loopVars, bridgeVars, netVars, goVars, sockVars, vmVars

LEMMA LocalDisconnectedCases ==
  ASSUME LocalDisconnected
  PROVE  Aborted \/ Drained
  BY DEF LocalDisconnected, Aborted, Drained, closeTcpTunnel, appVars, loopVars, bridgeVars,
     netVars, goVars, sockVars, vmVars

LEMMA WsConnectedCases ==
  ASSUME TunnelIInv, WsConnected
  PROVE  Connects
  BY DEF TunnelIInv, Flags, WsConnected, Connects, appVars, loopVars, bridgeVars, netVars,
     goVars, sockVars, vmVars

LEMMA WsBinaryMessageCases ==
  ASSUME WsBinaryMessage
  PROVE  Delivers \/ DeliversInVain
  BY DEF WsBinaryMessage, Delivers, DeliversInVain, appVars, loopVars, bridgeVars, netVars,
     goVars, sockVars, vmVars

LEMMA WsDisconnectedCases ==
  ASSUME TunnelIInv, WsDisconnected
  PROVE  Disconnects
  BY DEF TunnelIInv, Flags, WsDisconnected, Disconnects, appVars, loopVars, bridgeVars,
     netVars, goVars, sockVars, vmVars

LEMMA DrainDoneCases ==
  ASSUME DrainDone
  PROVE  DrainsClean \/ DrainsReset
  BY DEF DrainDone, DrainsClean, DrainsReset, appVars, loopVars, bridgeVars, netVars,
     goVars, sockVars, vmVars

LEMMA DrainTimeoutCases ==
  ASSUME DrainTimeout
  PROVE  DrainTimesOut
  BY DEF DrainTimeout, DrainTimesOut, appVars, loopVars, bridgeVars, netVars, goVars,
     sockVars, vmVars

LEMMA AuthorizeCases ==
  ASSUME Authorize
  PROVE  Authorizes \/ Refuses
  BY DEF Authorize, Authorizes, Refuses, appVars, loopVars, bridgeVars, netVars, goVars,
     sockVars, vmVars

LEMMA UpgradeCases ==
  ASSUME TunnelIInv, Upgrade
  PROVE  Upgrades \/ UpgradeFails
  BY DEF TunnelIInv, Flags, Upgrade, Upgrades, UpgradeFails, appVars, loopVars, bridgeVars,
     netVars, goVars, sockVars, vmVars

LEMMA ClientReadCases ==
  ASSUME TunnelIInv, ClientRead
  PROVE  ClientReads \/ ClientReadEnds
  BY DEF TunnelIInv, Flags, ClientRead, ClientReads, ClientReadEnds, appVars, loopVars,
     bridgeVars, netVars, goVars, sockVars, vmVars

LEMMA ClientWriteCases ==
  ASSUME ClientWrite
  PROVE  ClientWrites \/ ClientWriteLost \/ ClientWriteFails
  BY DEF ClientWrite, ClientWrites, ClientWriteLost, ClientWriteFails, appVars, loopVars,
     bridgeVars, netVars, goVars, sockVars, vmVars

LEMMA UpstreamReadCases ==
  ASSUME UpstreamRead
  PROVE  UpstreamReads \/ UpstreamEnds \/ UpstreamBreaks
  BY DEF UpstreamRead, UpstreamReads, UpstreamEnds, UpstreamBreaks, appVars, loopVars,
     bridgeVars, netVars, goVars, sockVars, vmVars

LEMMA UpstreamWriteCases ==
  ASSUME TunnelIInv, UpstreamWrite
  PROVE  UpstreamWrites \/ UpstreamWriteFails
  BY DEF TunnelIInv, Flags, UpstreamWrite, UpstreamWrites, UpstreamWriteFails, appVars,
     loopVars, bridgeVars, netVars, goVars, sockVars, vmVars

LEMMA HandlerResultCases ==
  ASSUME HandlerResult
  PROVE  SendsClose \/ GivesUp
  BY DEF HandlerResult, SendsClose, GivesUp, appVars, loopVars, bridgeVars, netVars, goVars,
     sockVars, vmVars

LEMMA HandlerAckCases ==
  ASSUME HandlerAck
  PROVE  Acknowledged
  BY DEF HandlerAck, Acknowledged, appVars, loopVars, bridgeVars, netVars, goVars, sockVars,
     vmVars

LEMMA HandlerAckTimeoutCases ==
  ASSUME HandlerAckTimeout
  PROVE  AckTimesOut
  BY DEF HandlerAckTimeout, AckTimesOut, appVars, loopVars, bridgeVars, netVars, goVars,
     sockVars, vmVars

LEMMA HandlerCloseCases ==
  ASSUME HandlerClose
  PROVE  HandlerCloses
  BY DEF HandlerClose, HandlerCloses, appVars, loopVars, bridgeVars, netVars, goVars,
     sockVars, vmVars

LEMMA WatcherStepCases ==
  ASSUME WatcherStep
  PROVE  WatcherEnds \/ WatcherCloses
  BY DEF WatcherStep, WatcherEnds, WatcherCloses, appVars, loopVars, bridgeVars, netVars,
     goVars, sockVars, vmVars

LEMMA StopBridgeCases ==
  ASSUME StopBridge
  PROVE  Aborted
  BY DEF StopBridge, Aborted, closeTcpTunnel, appVars, loopVars, bridgeVars, netVars,
     goVars, sockVars, vmVars


LEMMA CloseFacts ==
  ASSUME TunnelIInv
  PROVE  /\ CloseClient =>
              /\ client' = IF client = "open" THEN "closed" ELSE client
              /\ down' \in Cut(down)
              /\ downEnd' \in {"open", "close", "fin"}
              /\ client = "open" => downEnd' # "open"
              /\ client # "open" => downEnd' = downEnd
         /\ CloseUpstream =>
              /\ upstream' = IF upstream = "open" THEN "closed" ELSE upstream
              /\ ureq' \in Cut(ureq)
              /\ upstream # "open" => ureq' = ureq
  <1>1. down \in Cut(down) /\ ureq \in Cut(ureq)
    BY CutSelf DEF TunnelIInv, UpBuffers, DownBuffers
  <1>2. downEnd \in {"open", "close", "fin"}
    BY DEF TunnelIInv, HandlerScalars
  <1>3. QED
    BY <1>1, <1>2 DEF CloseClient, CloseUpstream

LEMMA Lengths ==
  ASSUME TunnelIInv
  PROVE  /\ Len(vmGot) \in Nat /\ Len(ureq) \in Nat /\ Len(up) \in Nat /\ Len(pending) \in Nat
         /\ Len(lreq) \in Nat /\ Held(chold) \in Nat /\ appSent \in Nat
         /\ Len(appGot) \in Nat /\ Len(lrsp) \in Nat /\ Len(down) \in Nat /\ Len(ursp) \in Nat
         /\ Held(uhold) \in Nat /\ vmSent \in Nat
         /\ AtVm = Len(vmGot) + Len(ureq) /\ AtWrite = AtVm + Held(chold)
         /\ AtUp = AtWrite + Len(up) /\ AtPending = AtUp + Len(pending)
         /\ AtApp = Len(appGot) + Len(lrsp) /\ AtDown = AtApp + Len(down)
         /\ AtRead = AtDown + Held(uhold)
         /\ AtVm \in Nat /\ AtWrite \in Nat /\ AtUp \in Nat /\ AtPending \in Nat
         /\ AtApp \in Nat /\ AtDown \in Nat /\ AtRead \in Nat
  <1>1. /\ Len(vmGot) \in Nat /\ Len(ureq) \in Nat /\ Len(up) \in Nat /\ Len(pending) \in Nat
        /\ Len(lreq) \in Nat
    BY EmptyIs DEF TunnelIInv, UpBuffers
  <1>2. Len(appGot) \in Nat /\ Len(lrsp) \in Nat /\ Len(down) \in Nat /\ Len(ursp) \in Nat
    BY EmptyIs DEF TunnelIInv, DownBuffers
  <1>3. Held(chold) \in Nat /\ Held(uhold) \in Nat
    BY DEF Held
  <1>4. appSent \in Nat /\ vmSent \in Nat
    BY TunnelAssumption DEF TunnelIInv, Numbers
  <1>5. AtVm = Len(vmGot) + Len(ureq) /\ AtWrite = AtVm + Held(chold)
    BY DEF AtVm, AtWrite
  <1>6. AtUp = AtWrite + Len(up) /\ AtPending = AtUp + Len(pending)
    BY DEF AtUp, AtPending
  <1>7. /\ AtApp = Len(appGot) + Len(lrsp) /\ AtDown = AtApp + Len(down)
        /\ AtRead = AtDown + Held(uhold)
    BY DEF AtApp, AtDown, AtRead
  <1>8. AtVm \in Nat /\ AtWrite \in Nat /\ AtUp \in Nat /\ AtPending \in Nat
    <2>1. Held(chold) \in Nat
      BY <1>3
    <2>2. AtWrite \in Nat
      BY <1>1, <1>5, <2>1
    <2>3. QED
      BY <1>1, <1>5, <1>6, <2>2
  <1>9. AtApp \in Nat /\ AtDown \in Nat /\ AtRead \in Nat
    BY <1>2, <1>3, <1>7
  <1>10. QED
    BY <1>1, <1>2, <1>3, <1>4, <1>5, <1>6, <1>7, <1>8, <1>9

LEMMA LocalScalarsFrame ==
  ASSUME LocalScalars, app' = app, lend' = lend, tunnel' = tunnel, ws' = ws
  PROVE  LocalScalars'
  BY DEF LocalScalars

LEMMA HandlerScalarsFrame ==
  ASSUME HandlerScalars, downEnd' = downEnd, handler' = handler, watcher' = watcher, lease' = lease
  PROVE  HandlerScalars'
  BY DEF HandlerScalars

LEMMA SocketScalarsFrame ==
  ASSUME SocketScalars, client' = client, upstream' = upstream, vm' = vm
  PROVE  SocketScalars'
  BY DEF SocketScalars

LEMMA GoScalarsFrame ==
  ASSUME GoScalars, creader' = creader, ureader' = ureader
  PROVE  GoScalars'
  BY DEF GoScalars

LEMMA FlagsFrame ==
  ASSUME Flags, upEnd' = upEnd, lost' = lost, late' = late, slow' = slow, aborted' = aborted
  PROVE  Flags'
  BY DEF Flags

LEMMA NumbersFrame ==
  ASSUME Numbers, appSent' = appSent, vmSent' = vmSent, chold' = chold, uhold' = uhold
  PROVE  Numbers'
  BY DEF Numbers

LEMMA UpBuffersFrame ==
  ASSUME UpBuffers, lreq' = lreq, up' = up, vmGot' = vmGot, pending' = pending, ureq' = ureq
  PROVE  UpBuffers'
  BY DEF UpBuffers

LEMMA DownBuffersFrame ==
  ASSUME DownBuffers, appGot' = appGot, lrsp' = lrsp, ursp' = ursp, down' = down
  PROVE  DownBuffers'
  BY DEF DownBuffers

LEMMA RoomFrame ==
  ASSUME Room, results' = results, handler' = handler, creader' = creader, ureader' = ureader
  PROVE  Room'
  BY DEF Room

LEMMA EndsFrame ==
  ASSUME Ends, tunnel' = tunnel, ws' = ws, lend' = lend, upEnd' = upEnd, pending' = pending,
         app' = app
  PROVE  Ends'
  BY DEF Ends

LEMMA HandlingFrame ==
  ASSUME Handling, creader' = creader, chold' = chold, ureader' = ureader, uhold' = uhold,
         client' = client, handler' = handler, upstream' = upstream, vmSent' = vmSent,
         ursp' = ursp, watcher' = watcher
  PROVE  Handling'
  BY DEF Handling

LEMMA UpValuesFrame ==
  ASSUME UpValues, ureq' = ureq, up' = up, pending' = pending, lreq' = lreq, chold' = chold,
         vmGot' = vmGot, appSent' = appSent
  PROVE  UpValues'
  BY DEF UpValues

LEMMA DownValuesFrame ==
  ASSUME DownValues, lrsp' = lrsp, down' = down, ursp' = ursp, uhold' = uhold, appGot' = appGot,
         vmSent' = vmSent
  PROVE  DownValues'
  BY DEF DownValues

LEMMA UpChainFrame ==
  ASSUME UpChain, vm' = vm, ureq' = ureq, vmGot' = vmGot, upstream' = upstream, chold' = chold,
         up' = up, lost' = lost, tunnel' = tunnel, pending' = pending, lreq' = lreq,
         appSent' = appSent
  PROVE  UpChain'
  BY DEF UpChain, AtVm, AtWrite, AtUp, AtPending

LEMMA DownChainFrame ==
  ASSUME DownChain, app' = app, lrsp' = lrsp, appGot' = appGot, tunnel' = tunnel, down' = down,
         lost' = lost, client' = client, uhold' = uhold, ureader' = ureader,
         ursp' = ursp, vmSent' = vmSent
  PROVE  DownChain'
  BY DEF DownChain, AtApp, AtDown, AtRead

LEMMA CleanOrderFrame ==
  ASSUME CleanOrder, late' = late, slow' = slow, lost' = lost, aborted' = aborted, lease' = lease,
         tunnel' = tunnel, downEnd' = downEnd, client' = client, upstream' = upstream,
         creader' = creader, ureader' = ureader, vm' = vm, ursp' = ursp, uhold' = uhold,
         handler' = handler, results' = results, chold' = chold, up' = up,
         pending' = pending, lreq' = lreq
  PROVE  CleanOrder'
  BY DEF CleanOrder, Clean

LEMMA CleanCountFrame ==
  ASSUME CleanCount, late' = late, slow' = slow, lost' = lost, aborted' = aborted, lease' = lease,
         tunnel' = tunnel, app' = app, vmSent' = vmSent, appGot' = appGot, lrsp' = lrsp,
         down' = down, uhold' = uhold, ursp' = ursp, lend' = lend
  PROVE  CleanCount'
  BY DEF CleanCount, Clean, AtApp, AtDown, AtRead

LEMMA AppSendsKeeps ==
  ASSUME TunnelIInv, AppSends
  PROVE  TunnelIInv'
  <1>1. /\ app = "open" /\ appSent < MaxReq /\ lend = "open" /\ appSent' = appSent + 1
        /\ lreq' = Append(lreq, appSent + 1) /\ late' = (late \/ vm = "closed")
    BY DEF AppSends
  <1>2. UNCHANGED <<app, appGot, lrsp, lend, tunnel, ws, pending, aborted, up, upEnd,
                    down, downEnd, handler, creader, chold, ureader, uhold, results,
                    watcher, client, upstream, vm, vmGot, vmSent, ureq, ursp, lease,
                    lost, slow>>
    BY DEF AppSends
  <1>3. /\ Len(vmGot) \in Nat /\ Len(ureq) \in Nat /\ Len(up) \in Nat /\ Len(pending) \in Nat
        /\ Len(lreq) \in Nat /\ Held(chold) \in Nat /\ appSent \in Nat
    BY Lengths
  <1>4. /\ AtVm = Len(vmGot) + Len(ureq) /\ AtWrite = AtVm + Held(chold)
        /\ AtUp = AtWrite + Len(up) /\ AtPending = AtUp + Len(pending)
        /\ AtVm \in Nat /\ AtWrite \in Nat /\ AtUp \in Nat /\ AtPending \in Nat
    BY Lengths
  <1>5. /\ Len(appGot) \in Nat /\ Len(lrsp) \in Nat /\ Len(down) \in Nat /\ Len(ursp) \in Nat
        /\ Held(uhold) \in Nat /\ vmSent \in Nat
    BY Lengths
  <1>6. /\ AtApp = Len(appGot) + Len(lrsp) /\ AtDown = AtApp + Len(down)
        /\ AtRead = AtDown + Held(uhold)
        /\ AtApp \in Nat /\ AtDown \in Nat /\ AtRead \in Nat
    BY Lengths
  <1>7. appSent + 1 \in Chunks /\ appSent + 1 \in 1..appSent'
    BY <1>1, <1>2, <1>3, TunnelAssumption DEF TunnelIInv, Numbers, UpValues, Chunks
  <1>8. /\ lreq \in Seq(Chunks) /\ Append(lreq, appSent + 1) \in Seq(Chunks)
        /\ Len(Append(lreq, appSent + 1)) = Len(lreq) + 1
        /\ \A n \in Nat : Run(lreq, n) /\ appSent + 1 = n + Len(lreq) + 1 => Run(Append(lreq, appSent + 1), n)
    BY <1>7, AppendFacts, RunAppend DEF TunnelIInv, UpBuffers
  <1>9. appSent' = appSent + 1 /\ appSent' \in Nat
    BY <1>1, <1>3
  <1>10. In(lreq, appSent')
    BY <1>9, <1>3, InMore DEF TunnelIInv, UpBuffers, UpValues
  <1>11. In(Append(lreq, appSent + 1), appSent')
    BY <1>7, <1>8, <1>10, <1>9, RunAppend
  <1>12. /\ lreq' \in Seq(Chunks) /\ Len(lreq') \in Nat /\ (Len(lreq') = Len(lreq) + 1) /\ In(lreq', appSent')
        /\ \A n \in Nat : (Run(lreq, n) /\ appSent + 1 = n + Len(lreq) + 1 => Run(lreq', n))
    BY <1>1, <1>8, <1>11, <1>3 DEF TunnelIInv, UpBuffers, UpValues
  <1>13. late' \in BOOLEAN /\ (late' = FALSE => late = FALSE /\ ~(vm = "closed"))
    BY <1>1 DEF TunnelIInv, Flags
  <1>14. /\ AtVm' = Len(vmGot') + Len(ureq') /\ AtWrite' = AtVm' + Held(chold')
        /\ AtUp' = AtWrite' + Len(up') /\ AtPending' = AtUp' + Len(pending')
    BY DEF AtVm, AtWrite, AtUp, AtPending
  <1>15. /\ AtVm' = AtVm /\ AtWrite' = AtWrite /\ AtUp' = AtUp /\ AtPending' = AtPending
    <2>1. AtVm' = AtVm
      BY <1>14, <1>4, <1>2, <1>3
    <2>2. AtWrite' = AtWrite
      BY <1>14, <1>4, <1>2, <1>3, <2>1
    <2>3. AtUp' = AtUp
      BY <1>14, <1>4, <1>2, <1>3, <2>1, <2>2
    <2>4. AtPending' = AtPending
      BY <1>14, <1>4, <1>2, <1>3, <2>1, <2>2, <2>3
    <2>5. QED
      BY <2>1, <2>2, <2>3, <2>4
  <1>16. /\ AtApp' = Len(appGot') + Len(lrsp') /\ AtDown' = AtApp' + Len(down')
        /\ AtRead' = AtDown' + Held(uhold')
    BY DEF AtApp, AtDown, AtRead
  <1>17. /\ AtApp' = AtApp /\ AtDown' = AtDown /\ AtRead' = AtRead
    <2>1. AtApp' = AtApp
      BY <1>16, <1>6, <1>2, <1>5
    <2>2. AtDown' = AtDown
      BY <1>16, <1>6, <1>2, <1>5, <2>1
    <2>3. AtRead' = AtRead
      BY <1>16, <1>6, <1>2, <1>5, <2>1, <2>2
    <2>4. QED
      BY <2>1, <2>2, <2>3
  <1>18. Flags'
    BY <1>1, <1>2, <1>13
       DEF TunnelIInv, Flags
  <1>19. Numbers'
    BY <1>1, <1>2, <1>13, <1>3, <1>5, <1>7, <1>12, TunnelAssumption
       DEF TunnelIInv, Numbers, Chunks
  <1>20. UpBuffers'
    BY <1>1, <1>2, <1>13, <1>3, <1>7, <1>12, TunnelAssumption
       DEF TunnelIInv, UpBuffers
  <1>21. UpValues'
    BY <1>1, <1>2, <1>13, <1>3, <1>7, <1>12, InMore
       DEF TunnelIInv, UpBuffers, UpValues
  <1>22. UpChain'
    <2>1. vm' = "open" => Run(ureq', Len(vmGot'))
      BY <1>1, <1>2, <1>13 DEF TunnelIInv, UpChain
    <2>2. ASSUME vm = "open", upstream # "closed"
          PROVE  (chold # 0 => chold = AtVm + 1) /\ Run(up, AtWrite)
      BY <2>2 DEF TunnelIInv, UpChain
    <2>3. ASSUME vm = "open", upstream # "closed", lost = FALSE, tunnel = "listed"
          PROVE  Run(pending, AtUp) /\ Run(lreq, AtPending) /\ appSent = AtPending + Len(lreq)
      BY <2>3 DEF TunnelIInv, UpChain
    <2>4. AtVm \in Nat /\ AtWrite \in Nat /\ AtUp \in Nat /\ AtPending \in Nat
      BY <1>4
    <2>5. ASSUME vm' = "open", upstream' # "closed"
          PROVE  (chold' # 0 => chold' = AtVm' + 1) /\ Run(up', AtWrite')
      BY <2>5, <2>2, <1>2, <1>15, <1>17
    <2>6. ASSUME vm' = "open", upstream' # "closed", lost' = FALSE, tunnel' = "listed"
          PROVE  Run(pending', AtUp') /\ Run(lreq', AtPending') /\ appSent' = AtPending' + Len(lreq')
      <3>1. Run(pending, AtUp) /\ Run(lreq, AtPending) /\ appSent = AtPending + Len(lreq)
        BY <2>6, <2>3, <1>2
      <3>2. appSent + 1 = AtPending + Len(lreq) + 1 /\ Len(lreq) \in Nat
        BY <3>1, <1>3, <1>4
      <3>3. Run(lreq', AtPending)
        BY <3>1, <3>2, <2>4, <1>7, <1>12
      <3>4. Len(lreq') = Len(lreq) + 1
        BY <1>7, <1>12
      <3>5. appSent' = AtPending + Len(lreq')
        BY <3>2, <3>4, <2>4, <1>1
      <3>6. QED
        BY <3>1, <3>3, <3>5, <1>2, <1>15, <1>17
    <2>7. QED
      BY <2>1, <2>5, <2>6 DEF UpChain
  <1>23. CleanOrder'
    BY <1>1, <1>2, <1>13, <1>7, <1>12, EmptyIs
       DEF TunnelIInv, CleanOrder, Clean, Flags, Handling, Ends
  <1>24. CleanCount'
    BY <1>1, <1>2, <1>13, <1>5, <1>6, <1>17
       DEF TunnelIInv, CleanCount, CleanOrder, Clean, Flags, Handling, Ends
  <1>25. LocalScalars' /\ HandlerScalars' /\ SocketScalars' /\ GoScalars' /\
        DownBuffers' /\ Room' /\ Ends' /\ Handling' /\ DownValues' /\ DownChain'
    BY <1>2, LocalScalarsFrame, HandlerScalarsFrame, SocketScalarsFrame, GoScalarsFrame,
       DownBuffersFrame, RoomFrame, EndsFrame, HandlingFrame, DownValuesFrame,
       DownChainFrame DEF TunnelIInv
  <1>26. QED
    BY <1>18, <1>19, <1>20, <1>21, <1>22, <1>23, <1>24, <1>25 DEF TunnelIInv

LEMMA AppSendsInVainKeeps ==
  ASSUME TunnelIInv, AppSendsInVain
  PROVE  TunnelIInv'
  <1>1. /\ app = "open" /\ appSent < MaxReq /\ lend # "open" /\ appSent' = appSent + 1
        /\ late' = (late \/ vm = "closed")
    BY DEF AppSendsInVain
  <1>2. UNCHANGED <<app, appGot, lreq, lrsp, lend, tunnel, ws, pending, aborted, up,
                    upEnd, down, downEnd, handler, creader, chold, ureader, uhold,
                    results, watcher, client, upstream, vm, vmGot, vmSent, ureq, ursp,
                    lease, lost, slow>>
    BY DEF AppSendsInVain
  <1>3. /\ Len(vmGot) \in Nat /\ Len(ureq) \in Nat /\ Len(up) \in Nat /\ Len(pending) \in Nat
        /\ Len(lreq) \in Nat /\ Held(chold) \in Nat /\ appSent \in Nat
    BY Lengths
  <1>4. /\ AtVm = Len(vmGot) + Len(ureq) /\ AtWrite = AtVm + Held(chold)
        /\ AtUp = AtWrite + Len(up) /\ AtPending = AtUp + Len(pending)
        /\ AtVm \in Nat /\ AtWrite \in Nat /\ AtUp \in Nat /\ AtPending \in Nat
    BY Lengths
  <1>5. /\ Len(appGot) \in Nat /\ Len(lrsp) \in Nat /\ Len(down) \in Nat /\ Len(ursp) \in Nat
        /\ Held(uhold) \in Nat /\ vmSent \in Nat
    BY Lengths
  <1>6. /\ AtApp = Len(appGot) + Len(lrsp) /\ AtDown = AtApp + Len(down)
        /\ AtRead = AtDown + Held(uhold)
        /\ AtApp \in Nat /\ AtDown \in Nat /\ AtRead \in Nat
    BY Lengths
  <1>7. late' \in BOOLEAN /\ (late' = FALSE => late = FALSE /\ ~(vm = "closed"))
    BY <1>1 DEF TunnelIInv, Flags
  <1>8. /\ AtVm' = Len(vmGot') + Len(ureq') /\ AtWrite' = AtVm' + Held(chold')
        /\ AtUp' = AtWrite' + Len(up') /\ AtPending' = AtUp' + Len(pending')
    BY DEF AtVm, AtWrite, AtUp, AtPending
  <1>9. /\ AtVm' = AtVm /\ AtWrite' = AtWrite /\ AtUp' = AtUp /\ AtPending' = AtPending
    <2>1. AtVm' = AtVm
      BY <1>8, <1>4, <1>2, <1>3
    <2>2. AtWrite' = AtWrite
      BY <1>8, <1>4, <1>2, <1>3, <2>1
    <2>3. AtUp' = AtUp
      BY <1>8, <1>4, <1>2, <1>3, <2>1, <2>2
    <2>4. AtPending' = AtPending
      BY <1>8, <1>4, <1>2, <1>3, <2>1, <2>2, <2>3
    <2>5. QED
      BY <2>1, <2>2, <2>3, <2>4
  <1>10. /\ AtApp' = Len(appGot') + Len(lrsp') /\ AtDown' = AtApp' + Len(down')
        /\ AtRead' = AtDown' + Held(uhold')
    BY DEF AtApp, AtDown, AtRead
  <1>11. /\ AtApp' = AtApp /\ AtDown' = AtDown /\ AtRead' = AtRead
    <2>1. AtApp' = AtApp
      BY <1>10, <1>6, <1>2, <1>5
    <2>2. AtDown' = AtDown
      BY <1>10, <1>6, <1>2, <1>5, <2>1
    <2>3. AtRead' = AtRead
      BY <1>10, <1>6, <1>2, <1>5, <2>1, <2>2
    <2>4. QED
      BY <2>1, <2>2, <2>3
  <1>12. Flags'
    BY <1>1, <1>2, <1>7
       DEF TunnelIInv, Flags
  <1>13. Numbers'
    BY <1>1, <1>2, <1>7, <1>3, <1>5, TunnelAssumption
       DEF TunnelIInv, Numbers, Chunks
  <1>14. UpValues'
    BY <1>1, <1>2, <1>7, <1>3, InMore
       DEF TunnelIInv, UpBuffers, UpValues
  <1>15. UpChain'
    BY <1>1, <1>2, <1>7, <1>3, <1>4, <1>9
       DEF TunnelIInv, UpChain, Ends
  <1>16. CleanOrder'
    BY <1>1, <1>2, <1>7
       DEF TunnelIInv, CleanOrder, Clean, Flags, Handling, Ends
  <1>17. CleanCount'
    BY <1>1, <1>2, <1>7, <1>5, <1>6, <1>11
       DEF TunnelIInv, CleanCount, CleanOrder, Clean, Flags, Handling, Ends
  <1>18. LocalScalars' /\ HandlerScalars' /\ SocketScalars' /\ GoScalars' /\
        UpBuffers' /\ DownBuffers' /\ Room' /\ Ends' /\ Handling' /\ DownValues' /\
        DownChain'
    BY <1>2, LocalScalarsFrame, HandlerScalarsFrame, SocketScalarsFrame, GoScalarsFrame,
       UpBuffersFrame, DownBuffersFrame, RoomFrame, EndsFrame, HandlingFrame,
       DownValuesFrame, DownChainFrame DEF TunnelIInv
  <1>19. QED
    BY <1>12, <1>13, <1>14, <1>15, <1>16, <1>17, <1>18 DEF TunnelIInv

LEMMA AppReadsKeeps ==
  ASSUME TunnelIInv, AppReads
  PROVE  TunnelIInv'
  <1>1. /\ app = "open" /\ lrsp # <<>> /\ appGot' = Append(appGot, Head(lrsp))
        /\ lrsp' = Tail(lrsp)
    BY DEF AppReads
  <1>2. UNCHANGED <<app, appSent, lreq, lend, tunnel, ws, pending, aborted, up, upEnd,
                    down, downEnd, handler, creader, chold, ureader, uhold, results,
                    watcher, client, upstream, vm, vmGot, vmSent, ureq, ursp, lease,
                    lost, late, slow>>
    BY DEF AppReads
  <1>3. /\ Len(appGot) \in Nat /\ Len(lrsp) \in Nat /\ Len(down) \in Nat /\ Len(ursp) \in Nat
        /\ Held(uhold) \in Nat /\ vmSent \in Nat
    BY Lengths
  <1>4. /\ AtApp = Len(appGot) + Len(lrsp) /\ AtDown = AtApp + Len(down)
        /\ AtRead = AtDown + Held(uhold)
        /\ AtApp \in Nat /\ AtDown \in Nat /\ AtRead \in Nat
    BY Lengths
  <1>5. lrsp \in Seq(Chunks) /\ lrsp # <<>> /\ lrsp' = Tail(lrsp) /\ In(lrsp, vmSent) /\ vmSent \in Nat
    BY <1>1, <1>3 DEF TunnelIInv, DownBuffers, DownValues
  <1>6. /\ lrsp' \in Seq(Chunks) /\ Len(lrsp') = Len(lrsp) - 1 /\ Len(lrsp) \in Nat \ {0}
        /\ Head(lrsp) \in Chunks /\ Head(lrsp) \in 1..vmSent /\ In(lrsp', vmSent)
        /\ \A n \in Nat : Run(lrsp, n) => Head(lrsp) = n + 1 /\ Run(lrsp', n + 1)
    BY <1>5, TailFacts, RunTail
  <1>7. Head(lrsp) \in Chunks
    BY <1>1, <1>2, <1>3, TunnelAssumption, <1>6 DEF TunnelIInv, Numbers, DownValues, Chunks
  <1>8. /\ appGot \in Seq(Chunks) /\ Append(appGot, Head(lrsp)) \in Seq(Chunks)
        /\ Len(Append(appGot, Head(lrsp))) = Len(appGot) + 1
        /\ \A n \in Nat : Run(appGot, n) /\ Head(lrsp) = n + Len(appGot) + 1 => Run(Append(appGot, Head(lrsp)), n)
    BY <1>7, AppendFacts, RunAppend DEF TunnelIInv, DownBuffers
  <1>9. /\ appGot' \in Seq(Chunks) /\ Len(appGot') \in Nat /\ (Len(appGot') = Len(appGot) + 1)
        /\ \A n \in Nat : (Run(appGot, n) /\ Head(lrsp) = n + Len(appGot) + 1 => Run(appGot', n))
    BY <1>1, <1>8, <1>3 DEF TunnelIInv, DownBuffers, DownValues
  <1>10. /\ AtApp' = Len(appGot') + Len(lrsp') /\ AtDown' = AtApp' + Len(down')
        /\ AtRead' = AtDown' + Held(uhold')
    BY DEF AtApp, AtDown, AtRead
  <1>11. /\ AtApp' = AtApp /\ AtDown' = AtDown /\ AtRead' = AtRead
    <2>1. AtApp' = AtApp
      BY <1>10, <1>4, <1>2, <1>7, <1>9, <1>6, <1>3
    <2>2. AtDown' = AtDown
      BY <1>10, <1>4, <1>2, <1>3, <2>1
    <2>3. AtRead' = AtRead
      BY <1>10, <1>4, <1>2, <1>3, <2>1, <2>2
    <2>4. QED
      BY <2>1, <2>2, <2>3
  <1>12. DownBuffers'
    BY <1>1, <1>2, <1>3, <1>6, <1>7, <1>9, TunnelAssumption
       DEF TunnelIInv, DownBuffers
  <1>13. DownValues'
    <2>1. Run(lrsp, Len(appGot)) /\ Run(appGot, 0)
      BY <1>1, <1>2 DEF TunnelIInv, DownChain, DownValues
    <2>2. Head(lrsp) = Len(appGot) + 1
      BY <2>1, <1>3, <1>4, <1>6, <1>7, <1>9
    <2>3. Run(appGot', 0) /\ Len(appGot') <= vmSent
      BY <2>1, <2>2, <1>3, <1>4, <1>6, <1>7, <1>9
    <2>4. QED
      BY <2>3, <1>1, <1>2, <1>6, <1>7, <1>9 DEF TunnelIInv, DownValues
  <1>14. DownChain'
    BY <1>1, <1>2, <1>3, <1>4, <1>6, <1>7, <1>9, <1>11
       DEF TunnelIInv, DownChain, Ends, Handling
  <1>15. CleanCount'
    BY <1>1, <1>2, <1>3, <1>4, <1>6, <1>7, <1>9, <1>11
       DEF TunnelIInv, CleanCount, CleanOrder, Clean, Flags, Handling, Ends
  <1>16. LocalScalars' /\ HandlerScalars' /\ SocketScalars' /\ GoScalars' /\ Flags' /\
        Numbers' /\ UpBuffers' /\ Room' /\ Ends' /\ Handling' /\ UpValues' /\
        UpChain' /\ CleanOrder'
    BY <1>2, LocalScalarsFrame, HandlerScalarsFrame, SocketScalarsFrame, GoScalarsFrame,
       FlagsFrame, NumbersFrame, UpBuffersFrame, RoomFrame, EndsFrame, HandlingFrame,
       UpValuesFrame, UpChainFrame, CleanOrderFrame DEF TunnelIInv
  <1>17. QED
    BY <1>12, <1>13, <1>14, <1>15, <1>16 DEF TunnelIInv

LEMMA AppReadsEndKeeps ==
  ASSUME TunnelIInv, AppReadsEnd
  PROVE  TunnelIInv'
  <1>1. /\ app = "open" /\ lrsp = <<>> /\ lend # "open" /\ app' = lend
    BY DEF AppReadsEnd
  <1>2. UNCHANGED <<appSent, appGot, lreq, lrsp, lend, tunnel, ws, pending, aborted, up,
                    upEnd, down, downEnd, handler, creader, chold, ureader, uhold,
                    results, watcher, client, upstream, vm, vmGot, vmSent, ureq, ursp,
                    lease, lost, late, slow>>
    BY DEF AppReadsEnd
  <1>3. /\ Len(appGot) \in Nat /\ Len(lrsp) \in Nat /\ Len(down) \in Nat /\ Len(ursp) \in Nat
        /\ Held(uhold) \in Nat /\ vmSent \in Nat
    BY Lengths
  <1>4. /\ AtApp = Len(appGot) + Len(lrsp) /\ AtDown = AtApp + Len(down)
        /\ AtRead = AtDown + Held(uhold)
        /\ AtApp \in Nat /\ AtDown \in Nat /\ AtRead \in Nat
    BY Lengths
  <1>5. /\ AtApp' = Len(appGot') + Len(lrsp') /\ AtDown' = AtApp' + Len(down')
        /\ AtRead' = AtDown' + Held(uhold')
    BY DEF AtApp, AtDown, AtRead
  <1>6. /\ AtApp' = AtApp /\ AtDown' = AtDown /\ AtRead' = AtRead
    <2>1. AtApp' = AtApp
      BY <1>5, <1>4, <1>2, <1>3
    <2>2. AtDown' = AtDown
      BY <1>5, <1>4, <1>2, <1>3, <2>1
    <2>3. AtRead' = AtRead
      BY <1>5, <1>4, <1>2, <1>3, <2>1, <2>2
    <2>4. QED
      BY <2>1, <2>2, <2>3
  <1>7. LocalScalars'
    BY <1>1, <1>2
       DEF TunnelIInv, LocalScalars
  <1>8. Ends'
    BY <1>1, <1>2
       DEF TunnelIInv, LocalScalars, Flags, Ends
  <1>9. DownChain'
    BY <1>1, <1>2, <1>3, <1>4, <1>6
       DEF TunnelIInv, DownChain, Ends, Handling
  <1>10. CleanCount'
    BY <1>1, <1>2, <1>3, <1>4, <1>6
       DEF TunnelIInv, CleanCount, CleanOrder, Clean, Flags, Handling, Ends
  <1>11. HandlerScalars' /\ SocketScalars' /\ GoScalars' /\ Flags' /\ Numbers' /\
        UpBuffers' /\ DownBuffers' /\ Room' /\ Handling' /\ UpValues' /\ DownValues' /\
        UpChain' /\ CleanOrder'
    BY <1>2, HandlerScalarsFrame, SocketScalarsFrame, GoScalarsFrame, FlagsFrame,
       NumbersFrame, UpBuffersFrame, DownBuffersFrame, RoomFrame, HandlingFrame,
       UpValuesFrame, DownValuesFrame, UpChainFrame, CleanOrderFrame DEF TunnelIInv
  <1>12. QED
    BY <1>7, <1>8, <1>9, <1>10, <1>11 DEF TunnelIInv

LEMMA AppClosesKeeps ==
  ASSUME TunnelIInv, AppCloses
  PROVE  TunnelIInv'
  <1>1. /\ app = "open" /\ app' = "closed"
    BY DEF AppCloses
  <1>2. UNCHANGED <<appSent, appGot, lreq, lrsp, lend, tunnel, ws, pending, aborted, up,
                    upEnd, down, downEnd, handler, creader, chold, ureader, uhold,
                    results, watcher, client, upstream, vm, vmGot, vmSent, ureq, ursp,
                    lease, lost, late, slow>>
    BY DEF AppCloses
  <1>3. /\ Len(appGot) \in Nat /\ Len(lrsp) \in Nat /\ Len(down) \in Nat /\ Len(ursp) \in Nat
        /\ Held(uhold) \in Nat /\ vmSent \in Nat
    BY Lengths
  <1>4. /\ AtApp = Len(appGot) + Len(lrsp) /\ AtDown = AtApp + Len(down)
        /\ AtRead = AtDown + Held(uhold)
        /\ AtApp \in Nat /\ AtDown \in Nat /\ AtRead \in Nat
    BY Lengths
  <1>5. /\ AtApp' = Len(appGot') + Len(lrsp') /\ AtDown' = AtApp' + Len(down')
        /\ AtRead' = AtDown' + Held(uhold')
    BY DEF AtApp, AtDown, AtRead
  <1>6. /\ AtApp' = AtApp /\ AtDown' = AtDown /\ AtRead' = AtRead
    <2>1. AtApp' = AtApp
      BY <1>5, <1>4, <1>2, <1>3
    <2>2. AtDown' = AtDown
      BY <1>5, <1>4, <1>2, <1>3, <2>1
    <2>3. AtRead' = AtRead
      BY <1>5, <1>4, <1>2, <1>3, <2>1, <2>2
    <2>4. QED
      BY <2>1, <2>2, <2>3
  <1>7. LocalScalars'
    BY <1>1, <1>2
       DEF TunnelIInv, LocalScalars
  <1>8. Ends'
    BY <1>1, <1>2
       DEF TunnelIInv, LocalScalars, Flags, Ends
  <1>9. DownChain'
    BY <1>1, <1>2, <1>3, <1>4, <1>6
       DEF TunnelIInv, DownChain, Ends, Handling
  <1>10. CleanCount'
    BY <1>1, <1>2, <1>3, <1>4, <1>6
       DEF TunnelIInv, CleanCount, CleanOrder, Clean, Flags, Handling, Ends
  <1>11. HandlerScalars' /\ SocketScalars' /\ GoScalars' /\ Flags' /\ Numbers' /\
        UpBuffers' /\ DownBuffers' /\ Room' /\ Handling' /\ UpValues' /\ DownValues' /\
        UpChain' /\ CleanOrder'
    BY <1>2, HandlerScalarsFrame, SocketScalarsFrame, GoScalarsFrame, FlagsFrame,
       NumbersFrame, UpBuffersFrame, DownBuffersFrame, RoomFrame, HandlingFrame,
       UpValuesFrame, DownValuesFrame, UpChainFrame, CleanOrderFrame DEF TunnelIInv
  <1>12. QED
    BY <1>7, <1>8, <1>9, <1>10, <1>11 DEF TunnelIInv

LEMMA VmReadsKeeps ==
  ASSUME TunnelIInv, VmReads
  PROVE  TunnelIInv'
  <1>1. /\ vm = "open" /\ ureq # <<>> /\ vmGot' = Append(vmGot, Head(ureq))
        /\ ureq' = Tail(ureq)
    BY DEF VmReads
  <1>2. UNCHANGED <<app, appSent, appGot, lreq, lrsp, lend, tunnel, ws, pending,
                    aborted, up, upEnd, down, downEnd, handler, creader, chold, ureader,
                    uhold, results, watcher, client, upstream, vm, vmSent, ursp, lease,
                    lost, late, slow>>
    BY DEF VmReads
  <1>3. /\ Len(vmGot) \in Nat /\ Len(ureq) \in Nat /\ Len(up) \in Nat /\ Len(pending) \in Nat
        /\ Len(lreq) \in Nat /\ Held(chold) \in Nat /\ appSent \in Nat
    BY Lengths
  <1>4. /\ AtVm = Len(vmGot) + Len(ureq) /\ AtWrite = AtVm + Held(chold)
        /\ AtUp = AtWrite + Len(up) /\ AtPending = AtUp + Len(pending)
        /\ AtVm \in Nat /\ AtWrite \in Nat /\ AtUp \in Nat /\ AtPending \in Nat
    BY Lengths
  <1>5. ureq \in Seq(Chunks) /\ ureq # <<>> /\ ureq' = Tail(ureq) /\ In(ureq, appSent) /\ appSent \in Nat
    BY <1>1, <1>3 DEF TunnelIInv, UpBuffers, UpValues
  <1>6. /\ ureq' \in Seq(Chunks) /\ Len(ureq') = Len(ureq) - 1 /\ Len(ureq) \in Nat \ {0}
        /\ Head(ureq) \in Chunks /\ Head(ureq) \in 1..appSent /\ In(ureq', appSent)
        /\ \A n \in Nat : Run(ureq, n) => Head(ureq) = n + 1 /\ Run(ureq', n + 1)
    BY <1>5, TailFacts, RunTail
  <1>7. Head(ureq) \in Chunks
    BY <1>1, <1>2, <1>3, TunnelAssumption, <1>6 DEF TunnelIInv, Numbers, UpValues, Chunks
  <1>8. /\ vmGot \in Seq(Chunks) /\ Append(vmGot, Head(ureq)) \in Seq(Chunks)
        /\ Len(Append(vmGot, Head(ureq))) = Len(vmGot) + 1
        /\ \A n \in Nat : Run(vmGot, n) /\ Head(ureq) = n + Len(vmGot) + 1 => Run(Append(vmGot, Head(ureq)), n)
    BY <1>7, AppendFacts, RunAppend DEF TunnelIInv, UpBuffers
  <1>9. /\ vmGot' \in Seq(Chunks) /\ Len(vmGot') \in Nat /\ (Len(vmGot') = Len(vmGot) + 1)
        /\ \A n \in Nat : (Run(vmGot, n) /\ Head(ureq) = n + Len(vmGot) + 1 => Run(vmGot', n))
    BY <1>1, <1>8, <1>3 DEF TunnelIInv, UpBuffers, UpValues
  <1>10. /\ AtVm' = Len(vmGot') + Len(ureq') /\ AtWrite' = AtVm' + Held(chold')
        /\ AtUp' = AtWrite' + Len(up') /\ AtPending' = AtUp' + Len(pending')
    BY DEF AtVm, AtWrite, AtUp, AtPending
  <1>11. /\ AtVm' = AtVm /\ AtWrite' = AtWrite /\ AtUp' = AtUp /\ AtPending' = AtPending
    <2>1. AtVm' = AtVm
      BY <1>10, <1>4, <1>2, <1>6, <1>7, <1>9, <1>3
    <2>2. AtWrite' = AtWrite
      BY <1>10, <1>4, <1>2, <1>3, <2>1
    <2>3. AtUp' = AtUp
      BY <1>10, <1>4, <1>2, <1>3, <2>1, <2>2
    <2>4. AtPending' = AtPending
      BY <1>10, <1>4, <1>2, <1>3, <2>1, <2>2, <2>3
    <2>5. QED
      BY <2>1, <2>2, <2>3, <2>4
  <1>12. UpBuffers'
    BY <1>1, <1>2, <1>3, <1>6, <1>7, <1>9, TunnelAssumption
       DEF TunnelIInv, UpBuffers
  <1>13. UpValues'
    <2>1. Run(ureq, Len(vmGot)) /\ Run(vmGot, 0)
      BY <1>1, <1>2 DEF TunnelIInv, UpChain, UpValues
    <2>2. Head(ureq) = Len(vmGot) + 1
      BY <2>1, <1>3, <1>4, <1>6, <1>7, <1>9
    <2>3. Run(vmGot', 0) /\ Len(vmGot') <= appSent
      BY <2>1, <2>2, <1>3, <1>4, <1>6, <1>7, <1>9
    <2>4. QED
      BY <2>3, <1>1, <1>2, <1>6, <1>7, <1>9 DEF TunnelIInv, UpValues
  <1>14. UpChain'
    BY <1>1, <1>2, <1>3, <1>4, <1>6, <1>7, <1>9, <1>11
       DEF TunnelIInv, UpChain, Ends
  <1>15. LocalScalars' /\ HandlerScalars' /\ SocketScalars' /\ GoScalars' /\ Flags' /\
        Numbers' /\ DownBuffers' /\ Room' /\ Ends' /\ Handling' /\ DownValues' /\
        DownChain' /\ CleanOrder' /\ CleanCount'
    BY <1>2, LocalScalarsFrame, HandlerScalarsFrame, SocketScalarsFrame, GoScalarsFrame,
       FlagsFrame, NumbersFrame, DownBuffersFrame, RoomFrame, EndsFrame, HandlingFrame,
       DownValuesFrame, DownChainFrame, CleanOrderFrame, CleanCountFrame DEF TunnelIInv
  <1>16. QED
    BY <1>12, <1>13, <1>14, <1>15 DEF TunnelIInv

LEMMA VmSendsKeeps ==
  ASSUME TunnelIInv, VmSends
  PROVE  TunnelIInv'
  <1>1. /\ vm = "open" /\ upstream = "open" /\ vmSent < MaxRsp /\ vmSent' = vmSent + 1
        /\ ursp' = Append(ursp, vmSent + 1)
    BY DEF VmSends
  <1>2. UNCHANGED <<app, appSent, appGot, lreq, lrsp, lend, tunnel, ws, pending,
                    aborted, up, upEnd, down, downEnd, handler, creader, chold, ureader,
                    uhold, results, watcher, client, upstream, vm, vmGot, ureq, lease,
                    lost, late, slow>>
    BY DEF VmSends
  <1>3. /\ Len(appGot) \in Nat /\ Len(lrsp) \in Nat /\ Len(down) \in Nat /\ Len(ursp) \in Nat
        /\ Held(uhold) \in Nat /\ vmSent \in Nat
    BY Lengths
  <1>4. /\ AtApp = Len(appGot) + Len(lrsp) /\ AtDown = AtApp + Len(down)
        /\ AtRead = AtDown + Held(uhold)
        /\ AtApp \in Nat /\ AtDown \in Nat /\ AtRead \in Nat
    BY Lengths
  <1>5. vmSent + 1 \in Chunks /\ vmSent + 1 \in 1..vmSent'
    BY <1>1, <1>2, <1>3, TunnelAssumption DEF TunnelIInv, Numbers, DownValues, Chunks
  <1>6. /\ ursp \in Seq(Chunks) /\ Append(ursp, vmSent + 1) \in Seq(Chunks)
        /\ Len(Append(ursp, vmSent + 1)) = Len(ursp) + 1
        /\ \A n \in Nat : Run(ursp, n) /\ vmSent + 1 = n + Len(ursp) + 1 => Run(Append(ursp, vmSent + 1), n)
    BY <1>5, AppendFacts, RunAppend DEF TunnelIInv, DownBuffers
  <1>7. vmSent' = vmSent + 1 /\ vmSent' \in Nat
    BY <1>1, <1>3
  <1>8. In(ursp, vmSent')
    BY <1>7, <1>3, InMore DEF TunnelIInv, DownBuffers, DownValues
  <1>9. In(Append(ursp, vmSent + 1), vmSent')
    BY <1>5, <1>6, <1>8, <1>7, RunAppend
  <1>10. /\ ursp' \in Seq(Chunks) /\ Len(ursp') \in Nat /\ (Len(ursp') = Len(ursp) + 1) /\ In(ursp', vmSent')
        /\ \A n \in Nat : (Run(ursp, n) /\ vmSent + 1 = n + Len(ursp) + 1 => Run(ursp', n))
    BY <1>1, <1>6, <1>9, <1>3 DEF TunnelIInv, DownBuffers, DownValues
  <1>11. /\ AtApp' = Len(appGot') + Len(lrsp') /\ AtDown' = AtApp' + Len(down')
        /\ AtRead' = AtDown' + Held(uhold')
    BY DEF AtApp, AtDown, AtRead
  <1>12. /\ AtApp' = AtApp /\ AtDown' = AtDown /\ AtRead' = AtRead
    <2>1. AtApp' = AtApp
      BY <1>11, <1>4, <1>2, <1>3
    <2>2. AtDown' = AtDown
      BY <1>11, <1>4, <1>2, <1>3, <2>1
    <2>3. AtRead' = AtRead
      BY <1>11, <1>4, <1>2, <1>3, <2>1, <2>2
    <2>4. QED
      BY <2>1, <2>2, <2>3
  <1>13. Numbers'
    BY <1>1, <1>2, <1>3, <1>5, <1>10, TunnelAssumption
       DEF TunnelIInv, Numbers, Chunks
  <1>14. DownBuffers'
    BY <1>1, <1>2, <1>3, <1>5, <1>10, TunnelAssumption
       DEF TunnelIInv, DownBuffers
  <1>15. Handling'
    BY <1>1, <1>2
       DEF TunnelIInv, HandlerScalars, SocketScalars, GoScalars, Handling
  <1>16. DownValues'
    BY <1>1, <1>2, <1>3, <1>5, <1>10, InMore
       DEF TunnelIInv, DownBuffers, DownValues
  <1>17. DownChain'
    <2>1. app' = "open" => Run(lrsp', Len(appGot'))
      BY <1>1, <1>2 DEF TunnelIInv, DownChain
    <2>2. ASSUME app = "open", tunnel = "listed"
          PROVE  Run(down, AtApp)
      BY <2>2 DEF TunnelIInv, DownChain
    <2>3. ASSUME app = "open", tunnel = "listed", lost = FALSE, client # "closed"
          PROVE  uhold # 0 => uhold = AtDown + 1
      BY <2>3 DEF TunnelIInv, DownChain
    <2>4. ASSUME app = "open", tunnel = "listed", lost = FALSE, client # "closed", ureader # "done"
          PROVE  Run(ursp, AtRead) /\ vmSent = AtRead + Len(ursp)
      BY <2>4 DEF TunnelIInv, DownChain
    <2>5. AtApp \in Nat /\ AtDown \in Nat /\ AtRead \in Nat
      BY <1>4
    <2>6. ASSUME app' = "open", tunnel' = "listed"
          PROVE  Run(down', AtApp')
      BY <2>6, <2>2, <1>2, <1>12
    <2>7. ASSUME app' = "open", tunnel' = "listed", lost' = FALSE, client' # "closed"
          PROVE  uhold' # 0 => uhold' = AtDown' + 1
      BY <2>7, <2>3, <1>2, <1>12
    <2>8. ASSUME app' = "open", tunnel' = "listed", lost' = FALSE, client' # "closed", ureader' # "done"
          PROVE  Run(ursp', AtRead') /\ vmSent' = AtRead' + Len(ursp')
      <3>1. Run(ursp, AtRead) /\ vmSent = AtRead + Len(ursp)
        BY <2>8, <2>4, <1>2
      <3>2. vmSent + 1 = AtRead + Len(ursp) + 1 /\ Len(ursp) \in Nat
        BY <3>1, <1>3, <1>4
      <3>3. Run(ursp', AtRead)
        BY <3>1, <3>2, <2>5, <1>5, <1>10
      <3>4. Len(ursp') = Len(ursp) + 1
        BY <1>5, <1>10
      <3>5. vmSent' = AtRead + Len(ursp')
        BY <3>2, <3>4, <2>5, <1>1
      <3>6. QED
        BY <3>3, <3>5, <1>2, <1>12
    <2>9. QED
      BY <2>1, <2>6, <2>7, <2>8 DEF DownChain
  <1>18. CleanOrder'
    BY <1>1, <1>2, EmptyIs
       DEF TunnelIInv, CleanOrder, Clean, Flags, Handling, Ends
  <1>19. CleanCount'
    <2>1. SUFFICES ASSUME Clean' PROVE CleanCount'
      BY DEF CleanCount
    <2>2. Clean
      BY <2>1, <1>1, <1>2 DEF Clean
    <2>3. tunnel = "listed"
      BY <2>2, <1>1 DEF TunnelIInv, CleanOrder
    <2>4. app # "eof"
      BY <2>3 DEF TunnelIInv, Ends
    <2>5. Len(ursp') = Len(ursp) + 1 /\ Len(ursp) \in Nat /\ AtRead \in Nat
      BY <1>5, <1>10, <1>3, <1>4
    <2>6. app = "open" => vmSent' = AtRead + Len(ursp')
      BY <2>2, <2>3, <2>5, <1>1 DEF TunnelIInv, CleanCount
    <2>7. QED
      BY <2>3, <2>4, <2>6, <1>2, <1>12 DEF CleanCount
  <1>20. LocalScalars' /\ HandlerScalars' /\ SocketScalars' /\ GoScalars' /\ Flags' /\
        UpBuffers' /\ Room' /\ Ends' /\ UpValues' /\ UpChain'
    BY <1>2, LocalScalarsFrame, HandlerScalarsFrame, SocketScalarsFrame, GoScalarsFrame,
       FlagsFrame, UpBuffersFrame, RoomFrame, EndsFrame, UpValuesFrame, UpChainFrame DEF TunnelIInv
  <1>21. QED
    BY <1>13, <1>14, <1>15, <1>16, <1>17, <1>18, <1>19, <1>20 DEF TunnelIInv

LEMMA VmClosesKeeps ==
  ASSUME TunnelIInv, VmCloses
  PROVE  TunnelIInv'
  <1>1. /\ vm = "open" /\ upstream # "none" /\ vm' = "closed"
        /\ late' = (late \/ Len(vmGot) < appSent)
    BY DEF VmCloses
  <1>2. UNCHANGED <<app, appSent, appGot, lreq, lrsp, lend, tunnel, ws, pending,
                    aborted, up, upEnd, down, downEnd, handler, creader, chold, ureader,
                    uhold, results, watcher, client, upstream, vmGot, vmSent, ureq,
                    ursp, lease, lost, slow>>
    BY DEF VmCloses
  <1>3. /\ Len(vmGot) \in Nat /\ Len(ureq) \in Nat /\ Len(up) \in Nat /\ Len(pending) \in Nat
        /\ Len(lreq) \in Nat /\ Held(chold) \in Nat /\ appSent \in Nat
    BY Lengths
  <1>4. /\ AtVm = Len(vmGot) + Len(ureq) /\ AtWrite = AtVm + Held(chold)
        /\ AtUp = AtWrite + Len(up) /\ AtPending = AtUp + Len(pending)
        /\ AtVm \in Nat /\ AtWrite \in Nat /\ AtUp \in Nat /\ AtPending \in Nat
    BY Lengths
  <1>5. /\ Len(appGot) \in Nat /\ Len(lrsp) \in Nat /\ Len(down) \in Nat /\ Len(ursp) \in Nat
        /\ Held(uhold) \in Nat /\ vmSent \in Nat
    BY Lengths
  <1>6. /\ AtApp = Len(appGot) + Len(lrsp) /\ AtDown = AtApp + Len(down)
        /\ AtRead = AtDown + Held(uhold)
        /\ AtApp \in Nat /\ AtDown \in Nat /\ AtRead \in Nat
    BY Lengths
  <1>7. late' \in BOOLEAN /\ (late' = FALSE => late = FALSE /\ ~(Len(vmGot) < appSent))
    BY <1>1 DEF TunnelIInv, Flags
  <1>8. /\ AtVm' = Len(vmGot') + Len(ureq') /\ AtWrite' = AtVm' + Held(chold')
        /\ AtUp' = AtWrite' + Len(up') /\ AtPending' = AtUp' + Len(pending')
    BY DEF AtVm, AtWrite, AtUp, AtPending
  <1>9. /\ AtVm' = AtVm /\ AtWrite' = AtWrite /\ AtUp' = AtUp /\ AtPending' = AtPending
    <2>1. AtVm' = AtVm
      BY <1>8, <1>4, <1>2, <1>3
    <2>2. AtWrite' = AtWrite
      BY <1>8, <1>4, <1>2, <1>3, <2>1
    <2>3. AtUp' = AtUp
      BY <1>8, <1>4, <1>2, <1>3, <2>1, <2>2
    <2>4. AtPending' = AtPending
      BY <1>8, <1>4, <1>2, <1>3, <2>1, <2>2, <2>3
    <2>5. QED
      BY <2>1, <2>2, <2>3, <2>4
  <1>10. /\ AtApp' = Len(appGot') + Len(lrsp') /\ AtDown' = AtApp' + Len(down')
        /\ AtRead' = AtDown' + Held(uhold')
    BY DEF AtApp, AtDown, AtRead
  <1>11. /\ AtApp' = AtApp /\ AtDown' = AtDown /\ AtRead' = AtRead
    <2>1. AtApp' = AtApp
      BY <1>10, <1>6, <1>2, <1>5
    <2>2. AtDown' = AtDown
      BY <1>10, <1>6, <1>2, <1>5, <2>1
    <2>3. AtRead' = AtRead
      BY <1>10, <1>6, <1>2, <1>5, <2>1, <2>2
    <2>4. QED
      BY <2>1, <2>2, <2>3
  <1>12. SocketScalars'
    BY <1>1, <1>2, <1>7
       DEF TunnelIInv, SocketScalars
  <1>13. Flags'
    BY <1>1, <1>2, <1>7
       DEF TunnelIInv, Flags
  <1>14. UpChain'
    BY <1>1, <1>2, <1>7, <1>3, <1>4, <1>9
       DEF TunnelIInv, UpChain, Ends
  <1>15. CleanOrder'
    <2>1. SUFFICES ASSUME Clean' PROVE CleanOrder'
      BY DEF CleanOrder
    <2>2. Clean
      BY <2>1, <1>1, <1>2, <1>7 DEF Clean

    <2>3. downEnd = "open"
      BY <2>2, <1>1, <1>2, <1>7 DEF TunnelIInv, CleanOrder
    <2>4. tunnel = "listed" /\ upstream # "closed" /\ ureader # "done"
      BY <2>2, <2>3, <1>1, <1>2, <1>7 DEF TunnelIInv, CleanOrder
    <2>5. Len(vmGot) = appSent
      BY <2>1, <1>1, <1>2, <1>7, <1>3, <1>4 DEF TunnelIInv, UpValues, Clean
    <2>6. /\ chold # 0 => chold = AtVm + 1
          /\ appSent = AtPending + Len(lreq)
      BY <2>2, <2>4, <1>1, <1>2, <1>7 DEF TunnelIInv, UpChain, Clean
    <2>7. Len(up) = 0 /\ Len(pending) = 0 /\ Len(lreq) = 0 /\ Held(chold) = 0
      <3>1. Held(chold) \in Nat
        BY <1>3, <1>4
      <3>2. Len(vmGot) = Len(vmGot) + Len(ureq) + Held(chold) + Len(up) + Len(pending) + Len(lreq)
        BY <2>5, <2>6, <1>3, <1>4
      <3>3. /\ Len(vmGot) \in Nat /\ Len(ureq) \in Nat /\ Len(up) \in Nat /\ Len(pending) \in Nat
            /\ Len(lreq) \in Nat
        BY <1>3, <1>4
      <3>4. QED
        BY <3>1, <3>2, <3>3, SumIsZero
    <2>8. chold = 0
      BY <2>7 DEF Held
    <2>9. up = <<>> /\ pending = <<>> /\ lreq = <<>>
      BY <2>7, EmptyIs DEF TunnelIInv, UpBuffers
    <2>10. QED
      BY <2>2, <2>3, <2>4, <2>8, <2>9, <1>1, <1>2, <1>7 DEF TunnelIInv, CleanOrder
  <1>16. CleanCount'
    BY <1>1, <1>2, <1>7, <1>5, <1>6, <1>11
       DEF TunnelIInv, CleanCount, CleanOrder, Clean, Flags, Handling, Ends
  <1>17. LocalScalars' /\ HandlerScalars' /\ GoScalars' /\ Numbers' /\ UpBuffers' /\
        DownBuffers' /\ Room' /\ Ends' /\ Handling' /\ UpValues' /\ DownValues' /\
        DownChain'
    BY <1>2, LocalScalarsFrame, HandlerScalarsFrame, GoScalarsFrame, NumbersFrame,
       UpBuffersFrame, DownBuffersFrame, RoomFrame, EndsFrame, HandlingFrame,
       UpValuesFrame, DownValuesFrame, DownChainFrame DEF TunnelIInv
  <1>18. QED
    BY <1>12, <1>13, <1>14, <1>15, <1>16, <1>17 DEF TunnelIInv

LEMMA VmHangsKeeps ==
  ASSUME TunnelIInv, VmHangs
  PROVE  TunnelIInv'
  <1>1. /\ vm = "open" /\ vm' = "hung"
    BY DEF VmHangs
  <1>2. UNCHANGED <<app, appSent, appGot, lreq, lrsp, lend, tunnel, ws, pending,
                    aborted, up, upEnd, down, downEnd, handler, creader, chold, ureader,
                    uhold, results, watcher, client, upstream, vmGot, vmSent, ureq,
                    ursp, lease, lost, late, slow>>
    BY DEF VmHangs
  <1>3. /\ Len(vmGot) \in Nat /\ Len(ureq) \in Nat /\ Len(up) \in Nat /\ Len(pending) \in Nat
        /\ Len(lreq) \in Nat /\ Held(chold) \in Nat /\ appSent \in Nat
    BY Lengths
  <1>4. /\ AtVm = Len(vmGot) + Len(ureq) /\ AtWrite = AtVm + Held(chold)
        /\ AtUp = AtWrite + Len(up) /\ AtPending = AtUp + Len(pending)
        /\ AtVm \in Nat /\ AtWrite \in Nat /\ AtUp \in Nat /\ AtPending \in Nat
    BY Lengths
  <1>5. /\ AtVm' = Len(vmGot') + Len(ureq') /\ AtWrite' = AtVm' + Held(chold')
        /\ AtUp' = AtWrite' + Len(up') /\ AtPending' = AtUp' + Len(pending')
    BY DEF AtVm, AtWrite, AtUp, AtPending
  <1>6. /\ AtVm' = AtVm /\ AtWrite' = AtWrite /\ AtUp' = AtUp /\ AtPending' = AtPending
    <2>1. AtVm' = AtVm
      BY <1>5, <1>4, <1>2, <1>3
    <2>2. AtWrite' = AtWrite
      BY <1>5, <1>4, <1>2, <1>3, <2>1
    <2>3. AtUp' = AtUp
      BY <1>5, <1>4, <1>2, <1>3, <2>1, <2>2
    <2>4. AtPending' = AtPending
      BY <1>5, <1>4, <1>2, <1>3, <2>1, <2>2, <2>3
    <2>5. QED
      BY <2>1, <2>2, <2>3, <2>4
  <1>7. SocketScalars'
    BY <1>1, <1>2
       DEF TunnelIInv, SocketScalars
  <1>8. UpChain'
    BY <1>1, <1>2, <1>3, <1>4, <1>6
       DEF TunnelIInv, UpChain, Ends
  <1>9. CleanOrder'
    BY <1>1, <1>2
       DEF TunnelIInv, CleanOrder, Clean, Flags, Handling, Ends
  <1>10. LocalScalars' /\ HandlerScalars' /\ GoScalars' /\ Flags' /\ Numbers' /\
        UpBuffers' /\ DownBuffers' /\ Room' /\ Ends' /\ Handling' /\ UpValues' /\
        DownValues' /\ DownChain' /\ CleanCount'
    BY <1>2, LocalScalarsFrame, HandlerScalarsFrame, GoScalarsFrame, FlagsFrame,
       NumbersFrame, UpBuffersFrame, DownBuffersFrame, RoomFrame, EndsFrame,
       HandlingFrame, UpValuesFrame, DownValuesFrame, DownChainFrame, CleanCountFrame DEF TunnelIInv
  <1>11. QED
    BY <1>7, <1>8, <1>9, <1>10 DEF TunnelIInv

LEMMA LeaseEndsKeeps ==
  ASSUME TunnelIInv, LeaseEnds
  PROVE  TunnelIInv'
  <1>1. /\ lease = "held" /\ lease' = "ended"
    BY DEF LeaseEnds
  <1>2. UNCHANGED <<app, appSent, appGot, lreq, lrsp, lend, tunnel, ws, pending,
                    aborted, up, upEnd, down, downEnd, handler, creader, chold, ureader,
                    uhold, results, watcher, client, upstream, vm, vmGot, vmSent, ureq,
                    ursp, lost, late, slow>>
    BY DEF LeaseEnds
  <1>3. /\ Len(appGot) \in Nat /\ Len(lrsp) \in Nat /\ Len(down) \in Nat /\ Len(ursp) \in Nat
        /\ Held(uhold) \in Nat /\ vmSent \in Nat
    BY Lengths
  <1>4. /\ AtApp = Len(appGot) + Len(lrsp) /\ AtDown = AtApp + Len(down)
        /\ AtRead = AtDown + Held(uhold)
        /\ AtApp \in Nat /\ AtDown \in Nat /\ AtRead \in Nat
    BY Lengths
  <1>5. /\ AtApp' = Len(appGot') + Len(lrsp') /\ AtDown' = AtApp' + Len(down')
        /\ AtRead' = AtDown' + Held(uhold')
    BY DEF AtApp, AtDown, AtRead
  <1>6. /\ AtApp' = AtApp /\ AtDown' = AtDown /\ AtRead' = AtRead
    <2>1. AtApp' = AtApp
      BY <1>5, <1>4, <1>2, <1>3
    <2>2. AtDown' = AtDown
      BY <1>5, <1>4, <1>2, <1>3, <2>1
    <2>3. AtRead' = AtRead
      BY <1>5, <1>4, <1>2, <1>3, <2>1, <2>2
    <2>4. QED
      BY <2>1, <2>2, <2>3
  <1>7. HandlerScalars'
    BY <1>1, <1>2
       DEF TunnelIInv, HandlerScalars
  <1>8. CleanOrder'
    BY <1>1, <1>2
       DEF TunnelIInv, CleanOrder, Clean, Flags, Handling, Ends
  <1>9. CleanCount'
    BY <1>1, <1>2, <1>3, <1>4, <1>6
       DEF TunnelIInv, CleanCount, CleanOrder, Clean, Flags, Handling, Ends
  <1>10. LocalScalars' /\ SocketScalars' /\ GoScalars' /\ Flags' /\ Numbers' /\
        UpBuffers' /\ DownBuffers' /\ Room' /\ Ends' /\ Handling' /\ UpValues' /\
        DownValues' /\ UpChain' /\ DownChain'
    BY <1>2, LocalScalarsFrame, SocketScalarsFrame, GoScalarsFrame, FlagsFrame,
       NumbersFrame, UpBuffersFrame, DownBuffersFrame, RoomFrame, EndsFrame,
       HandlingFrame, UpValuesFrame, DownValuesFrame, UpChainFrame, DownChainFrame DEF TunnelIInv
  <1>11. QED
    BY <1>7, <1>8, <1>9, <1>10 DEF TunnelIInv

LEMMA NetworkLostKeeps ==
  ASSUME TunnelIInv, NetworkLost
  PROVE  TunnelIInv'
  <1>1. /\ lost' = TRUE /\ up' = <<>> /\ down' = <<>>
    BY DEF NetworkLost
  <1>2. UNCHANGED <<app, appSent, appGot, lreq, lrsp, lend, tunnel, ws, pending,
                    aborted, upEnd, downEnd, handler, creader, chold, ureader, uhold,
                    results, watcher, client, upstream, vm, vmGot, vmSent, ureq, ursp,
                    lease, late, slow>>
    BY DEF NetworkLost
  <1>3. /\ Len(vmGot) \in Nat /\ Len(ureq) \in Nat /\ Len(up) \in Nat /\ Len(pending) \in Nat
        /\ Len(lreq) \in Nat /\ Held(chold) \in Nat /\ appSent \in Nat
    BY Lengths
  <1>4. /\ AtVm = Len(vmGot) + Len(ureq) /\ AtWrite = AtVm + Held(chold)
        /\ AtUp = AtWrite + Len(up) /\ AtPending = AtUp + Len(pending)
        /\ AtVm \in Nat /\ AtWrite \in Nat /\ AtUp \in Nat /\ AtPending \in Nat
    BY Lengths
  <1>5. /\ Len(appGot) \in Nat /\ Len(lrsp) \in Nat /\ Len(down) \in Nat /\ Len(ursp) \in Nat
        /\ Held(uhold) \in Nat /\ vmSent \in Nat
    BY Lengths
  <1>6. /\ AtApp = Len(appGot) + Len(lrsp) /\ AtDown = AtApp + Len(down)
        /\ AtRead = AtDown + Held(uhold)
        /\ AtApp \in Nat /\ AtDown \in Nat /\ AtRead \in Nat
    BY Lengths
  <1>7. up' \in Seq(Chunks) /\ Len(up') = 0 /\ \A n \in Nat : Run(up', n) /\ In(up', n)
    BY <1>1, EmptyRun
  <1>8. down' \in Seq(Chunks) /\ Len(down') = 0 /\ \A n \in Nat : Run(down', n) /\ In(down', n)
    BY <1>1, EmptyRun
  <1>9. /\ AtVm' = Len(vmGot') + Len(ureq') /\ AtWrite' = AtVm' + Held(chold')
        /\ AtUp' = AtWrite' + Len(up') /\ AtPending' = AtUp' + Len(pending')
    BY DEF AtVm, AtWrite, AtUp, AtPending
  <1>10. /\ AtVm' = AtVm /\ AtWrite' = AtWrite
    <2>1. AtVm' = AtVm
      BY <1>9, <1>4, <1>2, <1>3, <1>1
    <2>2. AtWrite' = AtWrite
      BY <1>9, <1>4, <1>2, <1>3, <1>1, <2>1
    <2>3. QED
      BY <2>1, <2>2
  <1>11. /\ AtApp' = Len(appGot') + Len(lrsp') /\ AtDown' = AtApp' + Len(down')
        /\ AtRead' = AtDown' + Held(uhold')
    BY DEF AtApp, AtDown, AtRead
  <1>12. /\ AtApp' = AtApp
    <2>1. AtApp' = AtApp
      BY <1>11, <1>6, <1>2, <1>5, <1>1
    <2>2. QED
      BY <2>1
  <1>13. Flags'
    BY <1>1, <1>2
       DEF TunnelIInv, Flags
  <1>14. UpBuffers'
    BY <1>1, <1>2, <1>3, <1>7, TunnelAssumption
       DEF TunnelIInv, UpBuffers
  <1>15. DownBuffers'
    BY <1>1, <1>2, <1>5, <1>8, TunnelAssumption
       DEF TunnelIInv, DownBuffers
  <1>16. UpValues'
    BY <1>1, <1>2, <1>3, <1>7, InMore
       DEF TunnelIInv, UpBuffers, UpValues
  <1>17. DownValues'
    BY <1>1, <1>2, <1>5, <1>8, InMore
       DEF TunnelIInv, DownBuffers, DownValues
  <1>18. UpChain'
    BY <1>1, <1>2, <1>3, <1>4, <1>7, <1>10
       DEF TunnelIInv, UpChain, Ends
  <1>19. DownChain'
    BY <1>1, <1>2, <1>5, <1>6, <1>8, <1>12
       DEF TunnelIInv, DownChain, Ends, Handling
  <1>20. CleanOrder'
    BY <1>1, <1>2, <1>7, EmptyIs
       DEF TunnelIInv, CleanOrder, Clean, Flags, Handling, Ends
  <1>21. CleanCount'
    BY <1>1, <1>2, <1>5, <1>6, <1>8, <1>12
       DEF TunnelIInv, CleanCount, CleanOrder, Clean, Flags, Handling, Ends
  <1>22. LocalScalars' /\ HandlerScalars' /\ SocketScalars' /\ GoScalars' /\ Numbers' /\
        Room' /\ Ends' /\ Handling'
    BY <1>2, LocalScalarsFrame, HandlerScalarsFrame, SocketScalarsFrame, GoScalarsFrame,
       NumbersFrame, RoomFrame, EndsFrame, HandlingFrame DEF TunnelIInv
  <1>23. QED
    BY <1>13, <1>14, <1>15, <1>16, <1>17, <1>18, <1>19, <1>20, <1>21, <1>22 DEF TunnelIInv

LEMMA LocalSentKeeps ==
  ASSUME TunnelIInv, LocalSent
  PROVE  TunnelIInv'
  <1>1. /\ tunnel # "gone" /\ lend = "open" /\ lreq # <<>> /\ lreq' = Tail(lreq)
        /\ ws = "connected" /\ up' = Sent(up, <<Head(lreq)>>)
    BY DEF LocalSent
  <1>2. UNCHANGED <<app, appSent, appGot, lrsp, lend, tunnel, ws, pending, aborted,
                    upEnd, down, downEnd, handler, creader, chold, ureader, uhold,
                    results, watcher, client, upstream, vm, vmGot, vmSent, ureq, ursp,
                    lease, lost, late, slow>>
    BY DEF LocalSent
  <1>3. /\ Len(vmGot) \in Nat /\ Len(ureq) \in Nat /\ Len(up) \in Nat /\ Len(pending) \in Nat
        /\ Len(lreq) \in Nat /\ Held(chold) \in Nat /\ appSent \in Nat
    BY Lengths
  <1>4. /\ AtVm = Len(vmGot) + Len(ureq) /\ AtWrite = AtVm + Held(chold)
        /\ AtUp = AtWrite + Len(up) /\ AtPending = AtUp + Len(pending)
        /\ AtVm \in Nat /\ AtWrite \in Nat /\ AtUp \in Nat /\ AtPending \in Nat
    BY Lengths
  <1>5. lreq \in Seq(Chunks) /\ lreq # <<>> /\ lreq' = Tail(lreq) /\ In(lreq, appSent) /\ appSent \in Nat
    BY <1>1, <1>3 DEF TunnelIInv, UpBuffers, UpValues
  <1>6. /\ lreq' \in Seq(Chunks) /\ Len(lreq') = Len(lreq) - 1 /\ Len(lreq) \in Nat \ {0}
        /\ Head(lreq) \in Chunks /\ Head(lreq) \in 1..appSent /\ In(lreq', appSent)
        /\ \A n \in Nat : Run(lreq, n) => Head(lreq) = n + 1 /\ Run(lreq', n + 1)
    BY <1>5, TailFacts, RunTail
  <1>7. Head(lreq) \in Chunks /\ Head(lreq) \in 1..appSent
    BY <1>1, <1>2, <1>3, TunnelAssumption, <1>6 DEF TunnelIInv, Numbers, UpValues, Chunks
  <1>8. /\ lost = TRUE => up' = up
        /\ lost = FALSE => up' = Append(up, Head(lreq))
    BY <1>1, <1>7, SentFacts DEF TunnelIInv, UpBuffers, Flags
  <1>9. /\ up \in Seq(Chunks) /\ Append(up, Head(lreq)) \in Seq(Chunks)
        /\ Len(Append(up, Head(lreq))) = Len(up) + 1
        /\ \A n \in Nat : Run(up, n) /\ Head(lreq) = n + Len(up) + 1 => Run(Append(up, Head(lreq)), n)
    BY <1>7, AppendFacts, RunAppend DEF TunnelIInv, UpBuffers
  <1>10. In(Append(up, Head(lreq)), appSent)
    BY <1>3, <1>7, <1>9, RunAppend DEF TunnelIInv, UpBuffers, UpValues
  <1>11. /\ up' \in Seq(Chunks) /\ Len(up') \in Nat /\ (lost = FALSE => Len(up') = Len(up) + 1) /\ In(up', appSent)
        /\ \A n \in Nat : lost = FALSE => (Run(up, n) /\ Head(lreq) = n + Len(up) + 1 => Run(up', n))
    <2>1. CASE lost = TRUE
      BY <2>1, <1>8, <1>9, <1>3 DEF TunnelIInv, UpBuffers, UpValues
    <2>2. CASE lost = FALSE
      <3>1. up' = Append(up, Head(lreq))
        BY <2>2, <1>8
      <3>2. QED
        BY <2>2, <3>1, <1>9, <1>10, <1>3
    <2>3. QED
      BY <2>1, <2>2 DEF TunnelIInv, Flags
  <1>12. /\ AtVm' = Len(vmGot') + Len(ureq') /\ AtWrite' = AtVm' + Held(chold')
        /\ AtUp' = AtWrite' + Len(up') /\ AtPending' = AtUp' + Len(pending')
    BY DEF AtVm, AtWrite, AtUp, AtPending
  <1>13. /\ AtVm' = AtVm /\ AtWrite' = AtWrite /\ (lost = FALSE => AtUp' = AtUp + 1)
        /\ (lost = FALSE => AtPending' = AtPending + 1)
    <2>1. AtVm' = AtVm
      BY <1>12, <1>4, <1>2, <1>3
    <2>2. AtWrite' = AtWrite
      BY <1>12, <1>4, <1>2, <1>3, <2>1
    <2>3. lost = FALSE => AtUp' = AtUp + 1
      <3>1. AtUp' = AtWrite' + Len(up') /\ AtUp = AtWrite + Len(up)
        BY <1>12, <1>4
      <3>2. lost = FALSE => Len(up') = Len(up) + 1
        BY <1>8, <1>7, <1>11
      <3>3. AtWrite + (Len(up) + 1) = (AtWrite + Len(up)) + 1
        <4>1. AtWrite \in Nat /\ Len(up) \in Nat
          BY <1>4, <1>3
        <4>2. QED
          BY <4>1
      <3>4. QED
        BY <3>1, <3>2, <3>3, <2>2
    <2>4. lost = FALSE => AtPending' = AtPending + 1
      <3>1. AtPending' = AtUp' + Len(pending') /\ AtPending = AtUp + Len(pending)
        BY <1>12, <1>4
      <3>2. Len(pending') = Len(pending)
        BY <1>2
      <3>3. (AtUp + 1) + Len(pending) = (AtUp + Len(pending)) + 1
        <4>1. AtUp \in Nat /\ Len(pending) \in Nat
          BY <1>4, <1>3
        <4>2. QED
          BY <4>1
      <3>4. QED
        BY <3>1, <3>2, <3>3, <2>3
    <2>5. QED
      BY <2>1, <2>2, <2>3, <2>4
  <1>14. UpBuffers'
    BY <1>1, <1>2, <1>3, <1>6, <1>8, <1>7, <1>11, TunnelAssumption
       DEF TunnelIInv, UpBuffers
  <1>15. UpValues'
    BY <1>1, <1>2, <1>3, <1>6, <1>8, <1>7, <1>11, InMore
       DEF TunnelIInv, UpBuffers, UpValues
  <1>16. UpChain'
    <2>1. vm' = "open" => Run(ureq', Len(vmGot'))
      BY <1>1, <1>2 DEF TunnelIInv, UpChain
    <2>2. ASSUME vm = "open", upstream # "closed"
          PROVE  (chold # 0 => chold = AtVm + 1) /\ Run(up, AtWrite)
      BY <2>2 DEF TunnelIInv, UpChain
    <2>3. ASSUME vm = "open", upstream # "closed", lost = FALSE, tunnel = "listed"
          PROVE  Run(pending, AtUp) /\ Run(lreq, AtPending) /\ appSent = AtPending + Len(lreq)
      BY <2>3 DEF TunnelIInv, UpChain
    <2>4. AtVm \in Nat /\ AtWrite \in Nat /\ AtUp \in Nat /\ AtPending \in Nat
      BY <1>4
    <2>5. tunnel = "listed" /\ pending = <<>>
      BY <1>1 DEF TunnelIInv, Ends, LocalScalars
    <2>6. AtPending = AtUp
      <3>1. Len(pending) = 0 /\ AtPending = AtUp + Len(pending)
        BY <2>5, EmptyRun, <1>4
      <3>2. QED
        BY <3>1, <2>4
    <2>7. ASSUME vm = "open", upstream # "closed", lost = FALSE
          PROVE  Head(lreq) = AtUp + 1 /\ Run(lreq', AtUp + 1) /\ Run(up', AtWrite)
      <3>1. Run(up, AtWrite) /\ Run(lreq, AtUp)
        BY <2>2, <2>3, <2>5, <2>6, <2>7
      <3>2. Head(lreq) = AtUp + 1 /\ Run(lreq', AtUp + 1)
        BY <3>1, <2>4, <1>6
      <3>3. AtUp = AtWrite + Len(up)
        BY <1>4
      <3>4. QED
        BY <3>1, <3>2, <3>3, <2>4, <2>7, <1>8, <1>7, <1>11
    <2>8. ASSUME vm' = "open", upstream' # "closed"
          PROVE  (chold' # 0 => chold' = AtVm' + 1) /\ Run(up', AtWrite')
      <3>1. lost = TRUE => up' = up
        BY <1>8, <1>7, <1>11
      <3>2. Run(up', AtWrite)
        BY <2>8, <2>2, <2>7, <3>1, <1>2 DEF TunnelIInv, Flags
      <3>3. QED
        BY <2>8, <2>2, <3>2, <1>2, <1>13
    <2>9. ASSUME vm' = "open", upstream' # "closed", lost' = FALSE, tunnel' = "listed"
          PROVE  Run(pending', AtUp') /\ Run(lreq', AtPending') /\ appSent' = AtPending' + Len(lreq')
      <3>1. Run(lreq', AtUp + 1) /\ appSent = AtPending + Len(lreq)
        BY <2>9, <2>3, <2>5, <2>7, <1>2
      <3>2. AtUp' = AtUp + 1 /\ AtPending' = AtUp + 1
        BY <2>9, <2>6, <1>2, <1>13
      <3>3. Run(pending', AtUp + 1)
        <4>1. AtUp + 1 \in Nat
          BY <2>4
        <4>2. QED
          BY <4>1, <2>5, <1>2, EmptyRun
      <3>4. Len(lreq') = Len(lreq) - 1 /\ Len(lreq) \in Nat
        BY <1>6
      <3>5. AtPending + Len(lreq) = (AtUp + 1) + (Len(lreq) - 1)
        BY <3>4, <2>4, <2>6
      <3>6. QED
        BY <3>1, <3>2, <3>3, <3>4, <3>5, <1>2
    <2>10. QED
      BY <2>1, <2>8, <2>9 DEF UpChain
  <1>17. CleanOrder'
    BY <1>1, <1>2, <1>6, <1>8, <1>7, <1>11, EmptyIs
       DEF TunnelIInv, CleanOrder, Clean, Flags, Handling, Ends
  <1>18. LocalScalars' /\ HandlerScalars' /\ SocketScalars' /\ GoScalars' /\ Flags' /\
        Numbers' /\ DownBuffers' /\ Room' /\ Ends' /\ Handling' /\ DownValues' /\
        DownChain' /\ CleanCount'
    BY <1>2, LocalScalarsFrame, HandlerScalarsFrame, SocketScalarsFrame, GoScalarsFrame,
       FlagsFrame, NumbersFrame, DownBuffersFrame, RoomFrame, EndsFrame, HandlingFrame,
       DownValuesFrame, DownChainFrame, CleanCountFrame DEF TunnelIInv
  <1>19. QED
    BY <1>14, <1>15, <1>16, <1>17, <1>18 DEF TunnelIInv

LEMMA LocalKeptKeeps ==
  ASSUME TunnelIInv, LocalKept
  PROVE  TunnelIInv'
  <1>1. /\ tunnel # "gone" /\ lend = "open" /\ lreq # <<>> /\ lreq' = Tail(lreq)
        /\ ws # "connected" /\ Len(pending) < MaxPending
        /\ pending' = Append(pending, Head(lreq))
    BY DEF LocalKept
  <1>2. UNCHANGED <<app, appSent, appGot, lrsp, lend, tunnel, ws, aborted, up, upEnd,
                    down, downEnd, handler, creader, chold, ureader, uhold, results,
                    watcher, client, upstream, vm, vmGot, vmSent, ureq, ursp, lease,
                    lost, late, slow>>
    BY DEF LocalKept
  <1>3. /\ Len(vmGot) \in Nat /\ Len(ureq) \in Nat /\ Len(up) \in Nat /\ Len(pending) \in Nat
        /\ Len(lreq) \in Nat /\ Held(chold) \in Nat /\ appSent \in Nat
    BY Lengths
  <1>4. /\ AtVm = Len(vmGot) + Len(ureq) /\ AtWrite = AtVm + Held(chold)
        /\ AtUp = AtWrite + Len(up) /\ AtPending = AtUp + Len(pending)
        /\ AtVm \in Nat /\ AtWrite \in Nat /\ AtUp \in Nat /\ AtPending \in Nat
    BY Lengths
  <1>5. lreq \in Seq(Chunks) /\ lreq # <<>> /\ lreq' = Tail(lreq) /\ In(lreq, appSent) /\ appSent \in Nat
    BY <1>1, <1>3 DEF TunnelIInv, UpBuffers, UpValues
  <1>6. /\ lreq' \in Seq(Chunks) /\ Len(lreq') = Len(lreq) - 1 /\ Len(lreq) \in Nat \ {0}
        /\ Head(lreq) \in Chunks /\ Head(lreq) \in 1..appSent /\ In(lreq', appSent)
        /\ \A n \in Nat : Run(lreq, n) => Head(lreq) = n + 1 /\ Run(lreq', n + 1)
    BY <1>5, TailFacts, RunTail
  <1>7. Head(lreq) \in Chunks /\ Head(lreq) \in 1..appSent
    BY <1>1, <1>2, <1>3, TunnelAssumption, <1>6 DEF TunnelIInv, Numbers, UpValues, Chunks
  <1>8. /\ pending \in Seq(Chunks) /\ Append(pending, Head(lreq)) \in Seq(Chunks)
        /\ Len(Append(pending, Head(lreq))) = Len(pending) + 1
        /\ \A n \in Nat : Run(pending, n) /\ Head(lreq) = n + Len(pending) + 1 => Run(Append(pending, Head(lreq)), n)
    BY <1>7, AppendFacts, RunAppend DEF TunnelIInv, UpBuffers
  <1>9. In(Append(pending, Head(lreq)), appSent)
    BY <1>3, <1>7, <1>8, RunAppend DEF TunnelIInv, UpBuffers, UpValues
  <1>10. /\ pending' \in Seq(Chunks) /\ Len(pending') \in Nat /\ (Len(pending') = Len(pending) + 1) /\ In(pending', appSent)
        /\ \A n \in Nat : (Run(pending, n) /\ Head(lreq) = n + Len(pending) + 1 => Run(pending', n))
    BY <1>1, <1>8, <1>9, <1>3 DEF TunnelIInv, UpBuffers, UpValues
  <1>11. /\ AtVm' = Len(vmGot') + Len(ureq') /\ AtWrite' = AtVm' + Held(chold')
        /\ AtUp' = AtWrite' + Len(up') /\ AtPending' = AtUp' + Len(pending')
    BY DEF AtVm, AtWrite, AtUp, AtPending
  <1>12. /\ AtVm' = AtVm /\ AtWrite' = AtWrite /\ AtUp' = AtUp
        /\ AtPending' = AtPending + 1
    <2>1. AtVm' = AtVm
      BY <1>11, <1>4, <1>2, <1>3
    <2>2. AtWrite' = AtWrite
      BY <1>11, <1>4, <1>2, <1>3, <2>1
    <2>3. AtUp' = AtUp
      BY <1>11, <1>4, <1>2, <1>3, <2>1, <2>2
    <2>4. AtPending' = AtPending + 1
      BY <1>11, <1>4, <1>2, <1>7, <1>10, <2>1, <2>2, <2>3
    <2>5. QED
      BY <2>1, <2>2, <2>3, <2>4
  <1>13. UpBuffers'
    BY <1>1, <1>2, <1>3, <1>6, <1>7, <1>10, TunnelAssumption
       DEF TunnelIInv, UpBuffers
  <1>14. Ends'
    BY <1>1, <1>2
       DEF TunnelIInv, LocalScalars, Flags, Ends
  <1>15. UpValues'
    BY <1>1, <1>2, <1>3, <1>6, <1>7, <1>10, InMore
       DEF TunnelIInv, UpBuffers, UpValues
  <1>16. UpChain'
    <2>1. vm' = "open" => Run(ureq', Len(vmGot'))
      BY <1>1, <1>2 DEF TunnelIInv, UpChain
    <2>2. ASSUME vm = "open", upstream # "closed"
          PROVE  (chold # 0 => chold = AtVm + 1) /\ Run(up, AtWrite)
      BY <2>2 DEF TunnelIInv, UpChain
    <2>3. ASSUME vm = "open", upstream # "closed", lost = FALSE, tunnel = "listed"
          PROVE  Run(pending, AtUp) /\ Run(lreq, AtPending) /\ appSent = AtPending + Len(lreq)
      BY <2>3 DEF TunnelIInv, UpChain
    <2>4. AtVm \in Nat /\ AtWrite \in Nat /\ AtUp \in Nat /\ AtPending \in Nat
      BY <1>4
    <2>5. ASSUME vm' = "open", upstream' # "closed"
          PROVE  (chold' # 0 => chold' = AtVm' + 1) /\ Run(up', AtWrite')
      BY <2>5, <2>2, <1>2, <1>12
    <2>6. ASSUME vm' = "open", upstream' # "closed", lost' = FALSE, tunnel' = "listed"
          PROVE  Run(pending', AtUp') /\ Run(lreq', AtPending') /\ appSent' = AtPending' + Len(lreq')
      <3>1. Run(pending, AtUp) /\ Run(lreq, AtPending) /\ appSent = AtPending + Len(lreq)
        BY <2>6, <2>3, <1>2
      <3>2. Head(lreq) = AtPending + 1 /\ Run(lreq', AtPending + 1)
        BY <3>1, <2>4, <1>6
      <3>3. AtPending = AtUp + Len(pending)
        BY <1>4
      <3>4. Run(pending', AtUp)
        BY <3>1, <3>2, <3>3, <2>4, <1>7, <1>10
      <3>5. Len(lreq') = Len(lreq) - 1 /\ Len(lreq) \in Nat
        BY <1>6
      <3>6. AtPending + Len(lreq) = (AtPending + 1) + (Len(lreq) - 1)
        BY <3>5, <2>4
      <3>7. QED
        BY <3>1, <3>2, <3>4, <3>5, <3>6, <1>2, <1>12
    <2>7. QED
      BY <2>1, <2>5, <2>6 DEF UpChain
  <1>17. CleanOrder'
    BY <1>1, <1>2, <1>6, <1>7, <1>10, EmptyIs
       DEF TunnelIInv, CleanOrder, Clean, Flags, Handling, Ends
  <1>18. LocalScalars' /\ HandlerScalars' /\ SocketScalars' /\ GoScalars' /\ Flags' /\
        Numbers' /\ DownBuffers' /\ Room' /\ Handling' /\ DownValues' /\ DownChain' /\
        CleanCount'
    BY <1>2, LocalScalarsFrame, HandlerScalarsFrame, SocketScalarsFrame, GoScalarsFrame,
       FlagsFrame, NumbersFrame, DownBuffersFrame, RoomFrame, HandlingFrame,
       DownValuesFrame, DownChainFrame, CleanCountFrame DEF TunnelIInv
  <1>19. QED
    BY <1>13, <1>14, <1>15, <1>16, <1>17, <1>18 DEF TunnelIInv

LEMMA LocalDroppedKeeps ==
  ASSUME TunnelIInv, LocalDropped
  PROVE  TunnelIInv'
  <1>1. /\ tunnel # "gone" /\ lend = "open" /\ lreq # <<>> /\ lreq' = Tail(lreq)
        /\ tunnel # "listed"
    BY DEF LocalDropped
  <1>2. UNCHANGED <<app, appSent, appGot, lrsp, lend, tunnel, ws, pending, aborted, up,
                    upEnd, down, downEnd, handler, creader, chold, ureader, uhold,
                    results, watcher, client, upstream, vm, vmGot, vmSent, ureq, ursp,
                    lease, lost, late, slow>>
    BY DEF LocalDropped
  <1>3. /\ Len(vmGot) \in Nat /\ Len(ureq) \in Nat /\ Len(up) \in Nat /\ Len(pending) \in Nat
        /\ Len(lreq) \in Nat /\ Held(chold) \in Nat /\ appSent \in Nat
    BY Lengths
  <1>4. /\ AtVm = Len(vmGot) + Len(ureq) /\ AtWrite = AtVm + Held(chold)
        /\ AtUp = AtWrite + Len(up) /\ AtPending = AtUp + Len(pending)
        /\ AtVm \in Nat /\ AtWrite \in Nat /\ AtUp \in Nat /\ AtPending \in Nat
    BY Lengths
  <1>5. lreq \in Seq(Chunks) /\ lreq # <<>> /\ lreq' = Tail(lreq) /\ In(lreq, appSent) /\ appSent \in Nat
    BY <1>1, <1>3 DEF TunnelIInv, UpBuffers, UpValues
  <1>6. /\ lreq' \in Seq(Chunks) /\ Len(lreq') = Len(lreq) - 1 /\ Len(lreq) \in Nat \ {0}
        /\ Head(lreq) \in Chunks /\ Head(lreq) \in 1..appSent /\ In(lreq', appSent)
        /\ \A n \in Nat : Run(lreq, n) => Head(lreq) = n + 1 /\ Run(lreq', n + 1)
    BY <1>5, TailFacts, RunTail
  <1>7. /\ AtVm' = Len(vmGot') + Len(ureq') /\ AtWrite' = AtVm' + Held(chold')
        /\ AtUp' = AtWrite' + Len(up') /\ AtPending' = AtUp' + Len(pending')
    BY DEF AtVm, AtWrite, AtUp, AtPending
  <1>8. /\ AtVm' = AtVm /\ AtWrite' = AtWrite /\ AtUp' = AtUp /\ AtPending' = AtPending
    <2>1. AtVm' = AtVm
      BY <1>7, <1>4, <1>2, <1>3
    <2>2. AtWrite' = AtWrite
      BY <1>7, <1>4, <1>2, <1>3, <2>1
    <2>3. AtUp' = AtUp
      BY <1>7, <1>4, <1>2, <1>3, <2>1, <2>2
    <2>4. AtPending' = AtPending
      BY <1>7, <1>4, <1>2, <1>3, <2>1, <2>2, <2>3
    <2>5. QED
      BY <2>1, <2>2, <2>3, <2>4
  <1>9. UpBuffers'
    BY <1>1, <1>2, <1>3, <1>6, TunnelAssumption
       DEF TunnelIInv, UpBuffers
  <1>10. UpValues'
    BY <1>1, <1>2, <1>3, <1>6, InMore
       DEF TunnelIInv, UpBuffers, UpValues
  <1>11. UpChain'
    BY <1>1, <1>2, <1>3, <1>4, <1>6, <1>8
       DEF TunnelIInv, UpChain, Ends
  <1>12. CleanOrder'
    BY <1>1, <1>2, <1>6, EmptyIs
       DEF TunnelIInv, CleanOrder, Clean, Flags, Handling, Ends
  <1>13. LocalScalars' /\ HandlerScalars' /\ SocketScalars' /\ GoScalars' /\ Flags' /\
        Numbers' /\ DownBuffers' /\ Room' /\ Ends' /\ Handling' /\ DownValues' /\
        DownChain' /\ CleanCount'
    BY <1>2, LocalScalarsFrame, HandlerScalarsFrame, SocketScalarsFrame, GoScalarsFrame,
       FlagsFrame, NumbersFrame, DownBuffersFrame, RoomFrame, EndsFrame, HandlingFrame,
       DownValuesFrame, DownChainFrame, CleanCountFrame DEF TunnelIInv
  <1>14. QED
    BY <1>9, <1>10, <1>11, <1>12, <1>13 DEF TunnelIInv

LEMMA LocalAbortsKeeps ==
  ASSUME TunnelIInv, LocalAborts
  PROVE  TunnelIInv'
  <1>1. /\ tunnel # "gone" /\ lend = "open" /\ lreq # <<>> /\ lreq' = Tail(lreq)
        /\ tunnel = "listed" /\ tunnel' = "gone" /\ ws' = "closed" /\ aborted' = TRUE
        /\ lend' = "reset" /\ lrsp' \in Cut(lrsp) /\ upEnd' = TRUE /\ up' \in Cut(up)
    BY DEF LocalAborts
  <1>2. UNCHANGED <<app, appSent, appGot, pending, down, downEnd, handler, creader,
                    chold, ureader, uhold, results, watcher, client, upstream, vm,
                    vmGot, vmSent, ureq, ursp, lease, lost, late, slow>>
    BY DEF LocalAborts
  <1>3. /\ Len(vmGot) \in Nat /\ Len(ureq) \in Nat /\ Len(up) \in Nat /\ Len(pending) \in Nat
        /\ Len(lreq) \in Nat /\ Held(chold) \in Nat /\ appSent \in Nat
    BY Lengths
  <1>4. /\ AtVm = Len(vmGot) + Len(ureq) /\ AtWrite = AtVm + Held(chold)
        /\ AtUp = AtWrite + Len(up) /\ AtPending = AtUp + Len(pending)
        /\ AtVm \in Nat /\ AtWrite \in Nat /\ AtUp \in Nat /\ AtPending \in Nat
    BY Lengths
  <1>5. /\ Len(appGot) \in Nat /\ Len(lrsp) \in Nat /\ Len(down) \in Nat /\ Len(ursp) \in Nat
        /\ Held(uhold) \in Nat /\ vmSent \in Nat
    BY Lengths
  <1>6. /\ AtApp = Len(appGot) + Len(lrsp) /\ AtDown = AtApp + Len(down)
        /\ AtRead = AtDown + Held(uhold)
        /\ AtApp \in Nat /\ AtDown \in Nat /\ AtRead \in Nat
    BY Lengths
  <1>7. lreq \in Seq(Chunks) /\ lreq # <<>> /\ lreq' = Tail(lreq) /\ In(lreq, appSent) /\ appSent \in Nat
    BY <1>1, <1>3 DEF TunnelIInv, UpBuffers, UpValues
  <1>8. /\ lreq' \in Seq(Chunks) /\ Len(lreq') = Len(lreq) - 1 /\ Len(lreq) \in Nat \ {0}
        /\ Head(lreq) \in Chunks /\ Head(lreq) \in 1..appSent /\ In(lreq', appSent)
        /\ \A n \in Nat : Run(lreq, n) => Head(lreq) = n + 1 /\ Run(lreq', n + 1)
    BY <1>7, TailFacts, RunTail
  <1>9. /\ up' \in Seq(Chunks) /\ Len(up') <= Len(up) /\ Len(up') \in Nat
        /\ In(up', appSent)
        /\ \A n \in Nat : Run(up, n) => Run(up', n)
    BY <1>1, <1>2, <1>3, CutFacts, RunCut DEF TunnelIInv, UpBuffers, UpValues
  <1>10. /\ lrsp' \in Seq(Chunks) /\ Len(lrsp') <= Len(lrsp) /\ Len(lrsp') \in Nat
        /\ In(lrsp', vmSent)
        /\ \A n \in Nat : Run(lrsp, n) => Run(lrsp', n)
    BY <1>1, <1>2, <1>5, CutFacts, RunCut DEF TunnelIInv, DownBuffers, DownValues
  <1>11. /\ AtVm' = Len(vmGot') + Len(ureq') /\ AtWrite' = AtVm' + Held(chold')
        /\ AtUp' = AtWrite' + Len(up') /\ AtPending' = AtUp' + Len(pending')
    BY DEF AtVm, AtWrite, AtUp, AtPending
  <1>12. /\ AtVm' = AtVm /\ AtWrite' = AtWrite
    <2>1. AtVm' = AtVm
      BY <1>11, <1>4, <1>2, <1>3
    <2>2. AtWrite' = AtWrite
      BY <1>11, <1>4, <1>2, <1>3, <2>1
    <2>3. QED
      BY <2>1, <2>2
  <1>13. LocalScalars'
    BY <1>1, <1>2
       DEF TunnelIInv, LocalScalars
  <1>14. Flags'
    BY <1>1, <1>2
       DEF TunnelIInv, Flags
  <1>15. UpBuffers'
    BY <1>1, <1>2, <1>3, <1>8, <1>9, TunnelAssumption
       DEF TunnelIInv, UpBuffers
  <1>16. DownBuffers'
    BY <1>1, <1>2, <1>5, <1>10, TunnelAssumption
       DEF TunnelIInv, DownBuffers
  <1>17. Ends'
    BY <1>1, <1>2
       DEF TunnelIInv, LocalScalars, Flags, Ends
  <1>18. UpValues'
    BY <1>1, <1>2, <1>3, <1>8, <1>9, InMore
       DEF TunnelIInv, UpBuffers, UpValues
  <1>19. DownValues'
    BY <1>1, <1>2, <1>5, <1>10, InMore
       DEF TunnelIInv, DownBuffers, DownValues
  <1>20. UpChain'
    BY <1>1, <1>2, <1>3, <1>4, <1>8, <1>9, <1>12
       DEF TunnelIInv, UpChain, Ends
  <1>21. DownChain'
    BY <1>1, <1>2, <1>5, <1>6, <1>10
       DEF TunnelIInv, DownChain, Ends, Handling
  <1>22. CleanOrder'
    BY <1>1, <1>2, <1>8, <1>9, EmptyIs
       DEF TunnelIInv, CleanOrder, Clean, Flags, Handling, Ends
  <1>23. CleanCount'
    BY <1>1, <1>2, <1>5, <1>6, <1>10
       DEF TunnelIInv, CleanCount, CleanOrder, Clean, Flags, Handling, Ends
  <1>24. HandlerScalars' /\ SocketScalars' /\ GoScalars' /\ Numbers' /\ Room' /\
        Handling'
    BY <1>2, HandlerScalarsFrame, SocketScalarsFrame, GoScalarsFrame, NumbersFrame,
       RoomFrame, HandlingFrame DEF TunnelIInv
  <1>25. QED
    BY <1>13, <1>14, <1>15, <1>16, <1>17, <1>18, <1>19, <1>20, <1>21, <1>22, <1>23,
       <1>24 DEF TunnelIInv

LEMMA AbortedKeeps ==
  ASSUME TunnelIInv, Aborted
  PROVE  TunnelIInv'
  <1>1. /\ tunnel = "listed" /\ tunnel' = "gone" /\ ws' = "closed" /\ aborted' = TRUE
        /\ lend' = "reset" /\ lrsp' \in Cut(lrsp) /\ upEnd' = TRUE /\ up' \in Cut(up)
    BY DEF Aborted
  <1>2. UNCHANGED <<app, appSent, appGot, lreq, pending, down, downEnd, handler,
                    creader, chold, ureader, uhold, results, watcher, client, upstream,
                    vm, vmGot, vmSent, ureq, ursp, lease, lost, late, slow>>
    BY DEF Aborted
  <1>3. /\ Len(vmGot) \in Nat /\ Len(ureq) \in Nat /\ Len(up) \in Nat /\ Len(pending) \in Nat
        /\ Len(lreq) \in Nat /\ Held(chold) \in Nat /\ appSent \in Nat
    BY Lengths
  <1>4. /\ AtVm = Len(vmGot) + Len(ureq) /\ AtWrite = AtVm + Held(chold)
        /\ AtUp = AtWrite + Len(up) /\ AtPending = AtUp + Len(pending)
        /\ AtVm \in Nat /\ AtWrite \in Nat /\ AtUp \in Nat /\ AtPending \in Nat
    BY Lengths
  <1>5. /\ Len(appGot) \in Nat /\ Len(lrsp) \in Nat /\ Len(down) \in Nat /\ Len(ursp) \in Nat
        /\ Held(uhold) \in Nat /\ vmSent \in Nat
    BY Lengths
  <1>6. /\ AtApp = Len(appGot) + Len(lrsp) /\ AtDown = AtApp + Len(down)
        /\ AtRead = AtDown + Held(uhold)
        /\ AtApp \in Nat /\ AtDown \in Nat /\ AtRead \in Nat
    BY Lengths
  <1>7. /\ up' \in Seq(Chunks) /\ Len(up') <= Len(up) /\ Len(up') \in Nat
        /\ In(up', appSent)
        /\ \A n \in Nat : Run(up, n) => Run(up', n)
    BY <1>1, <1>2, <1>3, CutFacts, RunCut DEF TunnelIInv, UpBuffers, UpValues
  <1>8. /\ lrsp' \in Seq(Chunks) /\ Len(lrsp') <= Len(lrsp) /\ Len(lrsp') \in Nat
        /\ In(lrsp', vmSent)
        /\ \A n \in Nat : Run(lrsp, n) => Run(lrsp', n)
    BY <1>1, <1>2, <1>5, CutFacts, RunCut DEF TunnelIInv, DownBuffers, DownValues
  <1>9. /\ AtVm' = Len(vmGot') + Len(ureq') /\ AtWrite' = AtVm' + Held(chold')
        /\ AtUp' = AtWrite' + Len(up') /\ AtPending' = AtUp' + Len(pending')
    BY DEF AtVm, AtWrite, AtUp, AtPending
  <1>10. /\ AtVm' = AtVm /\ AtWrite' = AtWrite
    <2>1. AtVm' = AtVm
      BY <1>9, <1>4, <1>2, <1>3
    <2>2. AtWrite' = AtWrite
      BY <1>9, <1>4, <1>2, <1>3, <2>1
    <2>3. QED
      BY <2>1, <2>2
  <1>11. LocalScalars'
    BY <1>1, <1>2
       DEF TunnelIInv, LocalScalars
  <1>12. Flags'
    BY <1>1, <1>2
       DEF TunnelIInv, Flags
  <1>13. UpBuffers'
    BY <1>1, <1>2, <1>3, <1>7, TunnelAssumption
       DEF TunnelIInv, UpBuffers
  <1>14. DownBuffers'
    BY <1>1, <1>2, <1>5, <1>8, TunnelAssumption
       DEF TunnelIInv, DownBuffers
  <1>15. Ends'
    BY <1>1, <1>2
       DEF TunnelIInv, LocalScalars, Flags, Ends
  <1>16. UpValues'
    BY <1>1, <1>2, <1>3, <1>7, InMore
       DEF TunnelIInv, UpBuffers, UpValues
  <1>17. DownValues'
    BY <1>1, <1>2, <1>5, <1>8, InMore
       DEF TunnelIInv, DownBuffers, DownValues
  <1>18. UpChain'
    BY <1>1, <1>2, <1>3, <1>4, <1>7, <1>10
       DEF TunnelIInv, UpChain, Ends
  <1>19. DownChain'
    BY <1>1, <1>2, <1>5, <1>6, <1>8
       DEF TunnelIInv, DownChain, Ends, Handling
  <1>20. CleanOrder'
    BY <1>1, <1>2, <1>7, EmptyIs
       DEF TunnelIInv, CleanOrder, Clean, Flags, Handling, Ends
  <1>21. CleanCount'
    BY <1>1, <1>2, <1>5, <1>6, <1>8
       DEF TunnelIInv, CleanCount, CleanOrder, Clean, Flags, Handling, Ends
  <1>22. HandlerScalars' /\ SocketScalars' /\ GoScalars' /\ Numbers' /\ Room' /\
        Handling'
    BY <1>2, HandlerScalarsFrame, SocketScalarsFrame, GoScalarsFrame, NumbersFrame,
       RoomFrame, HandlingFrame DEF TunnelIInv
  <1>23. QED
    BY <1>11, <1>12, <1>13, <1>14, <1>15, <1>16, <1>17, <1>18, <1>19, <1>20, <1>21,
       <1>22 DEF TunnelIInv

LEMMA DrainedKeeps ==
  ASSUME TunnelIInv, Drained
  PROVE  TunnelIInv'
  <1>1. /\ app = "closed" /\ lreq = <<>> /\ lend = "open" /\ tunnel = "draining"
        /\ tunnel' = "gone" /\ lend' = "eof"
    BY DEF Drained
  <1>2. UNCHANGED <<app, appSent, appGot, lreq, lrsp, ws, pending, aborted, up, upEnd,
                    down, downEnd, handler, creader, chold, ureader, uhold, results,
                    watcher, client, upstream, vm, vmGot, vmSent, ureq, ursp, lease,
                    lost, late, slow>>
    BY DEF Drained
  <1>3. /\ Len(vmGot) \in Nat /\ Len(ureq) \in Nat /\ Len(up) \in Nat /\ Len(pending) \in Nat
        /\ Len(lreq) \in Nat /\ Held(chold) \in Nat /\ appSent \in Nat
    BY Lengths
  <1>4. /\ AtVm = Len(vmGot) + Len(ureq) /\ AtWrite = AtVm + Held(chold)
        /\ AtUp = AtWrite + Len(up) /\ AtPending = AtUp + Len(pending)
        /\ AtVm \in Nat /\ AtWrite \in Nat /\ AtUp \in Nat /\ AtPending \in Nat
    BY Lengths
  <1>5. /\ Len(appGot) \in Nat /\ Len(lrsp) \in Nat /\ Len(down) \in Nat /\ Len(ursp) \in Nat
        /\ Held(uhold) \in Nat /\ vmSent \in Nat
    BY Lengths
  <1>6. /\ AtApp = Len(appGot) + Len(lrsp) /\ AtDown = AtApp + Len(down)
        /\ AtRead = AtDown + Held(uhold)
        /\ AtApp \in Nat /\ AtDown \in Nat /\ AtRead \in Nat
    BY Lengths
  <1>7. /\ AtVm' = Len(vmGot') + Len(ureq') /\ AtWrite' = AtVm' + Held(chold')
        /\ AtUp' = AtWrite' + Len(up') /\ AtPending' = AtUp' + Len(pending')
    BY DEF AtVm, AtWrite, AtUp, AtPending
  <1>8. /\ AtVm' = AtVm /\ AtWrite' = AtWrite /\ AtUp' = AtUp /\ AtPending' = AtPending
    <2>1. AtVm' = AtVm
      BY <1>7, <1>4, <1>2, <1>3
    <2>2. AtWrite' = AtWrite
      BY <1>7, <1>4, <1>2, <1>3, <2>1
    <2>3. AtUp' = AtUp
      BY <1>7, <1>4, <1>2, <1>3, <2>1, <2>2
    <2>4. AtPending' = AtPending
      BY <1>7, <1>4, <1>2, <1>3, <2>1, <2>2, <2>3
    <2>5. QED
      BY <2>1, <2>2, <2>3, <2>4
  <1>9. /\ AtApp' = Len(appGot') + Len(lrsp') /\ AtDown' = AtApp' + Len(down')
        /\ AtRead' = AtDown' + Held(uhold')
    BY DEF AtApp, AtDown, AtRead
  <1>10. /\ AtApp' = AtApp /\ AtDown' = AtDown /\ AtRead' = AtRead
    <2>1. AtApp' = AtApp
      BY <1>9, <1>6, <1>2, <1>5
    <2>2. AtDown' = AtDown
      BY <1>9, <1>6, <1>2, <1>5, <2>1
    <2>3. AtRead' = AtRead
      BY <1>9, <1>6, <1>2, <1>5, <2>1, <2>2
    <2>4. QED
      BY <2>1, <2>2, <2>3
  <1>11. LocalScalars'
    BY <1>1, <1>2
       DEF TunnelIInv, LocalScalars
  <1>12. Ends'
    BY <1>1, <1>2
       DEF TunnelIInv, LocalScalars, Flags, Ends
  <1>13. UpChain'
    BY <1>1, <1>2, <1>3, <1>4, <1>8
       DEF TunnelIInv, UpChain, Ends
  <1>14. DownChain'
    BY <1>1, <1>2, <1>5, <1>6, <1>10
       DEF TunnelIInv, DownChain, Ends, Handling
  <1>15. CleanOrder'
    BY <1>1, <1>2
       DEF TunnelIInv, CleanOrder, Clean, Flags, Handling, Ends
  <1>16. CleanCount'
    BY <1>1, <1>2, <1>5, <1>6, <1>10
       DEF TunnelIInv, CleanCount, CleanOrder, Clean, Flags, Handling, Ends
  <1>17. HandlerScalars' /\ SocketScalars' /\ GoScalars' /\ Flags' /\ Numbers' /\
        UpBuffers' /\ DownBuffers' /\ Room' /\ Handling' /\ UpValues' /\ DownValues'
    BY <1>2, HandlerScalarsFrame, SocketScalarsFrame, GoScalarsFrame, FlagsFrame,
       NumbersFrame, UpBuffersFrame, DownBuffersFrame, RoomFrame, HandlingFrame,
       UpValuesFrame, DownValuesFrame DEF TunnelIInv
  <1>18. QED
    BY <1>11, <1>12, <1>13, <1>14, <1>15, <1>16, <1>17 DEF TunnelIInv

LEMMA ConnectsKeeps ==
  ASSUME TunnelIInv, Connects
  PROVE  TunnelIInv'
  <1>1. /\ tunnel = "listed" /\ ws = "connecting" /\ client # "none" /\ lost = FALSE
        /\ ws' = "connected" /\ up' = Sent(up, pending) /\ pending' = <<>>
    BY DEF Connects
  <1>2. UNCHANGED <<app, appSent, appGot, lreq, lrsp, lend, tunnel, aborted, upEnd,
                    down, downEnd, handler, creader, chold, ureader, uhold, results,
                    watcher, client, upstream, vm, vmGot, vmSent, ureq, ursp, lease,
                    lost, late, slow>>
    BY DEF Connects
  <1>3. /\ Len(vmGot) \in Nat /\ Len(ureq) \in Nat /\ Len(up) \in Nat /\ Len(pending) \in Nat
        /\ Len(lreq) \in Nat /\ Held(chold) \in Nat /\ appSent \in Nat
    BY Lengths
  <1>4. /\ AtVm = Len(vmGot) + Len(ureq) /\ AtWrite = AtVm + Held(chold)
        /\ AtUp = AtWrite + Len(up) /\ AtPending = AtUp + Len(pending)
        /\ AtVm \in Nat /\ AtWrite \in Nat /\ AtUp \in Nat /\ AtPending \in Nat
    BY Lengths
  <1>5. up' = up \o pending /\ up \in Seq(Chunks) /\ pending \in Seq(Chunks)
    BY <1>1 DEF TunnelIInv, UpBuffers, Sent
  <1>6. In(up, appSent) /\ In(pending, appSent) /\ appSent \in Nat
    BY <1>3 DEF TunnelIInv, UpValues
  <1>7. /\ up' \in Seq(Chunks) /\ Len(up') = Len(up) + Len(pending) /\ Len(up') \in Nat
        /\ In(up', appSent)
        /\ \A n \in Nat : Run(up, n) /\ Run(pending, n + Len(up)) => Run(up', n)
    BY <1>5, <1>6, <1>3, ConcatFacts, RunConcat
  <1>8. pending' \in Seq(Chunks) /\ Len(pending') = 0 /\ \A n \in Nat : Run(pending', n) /\ In(pending', n)
    BY <1>1, EmptyRun
  <1>9. /\ AtVm' = Len(vmGot') + Len(ureq') /\ AtWrite' = AtVm' + Held(chold')
        /\ AtUp' = AtWrite' + Len(up') /\ AtPending' = AtUp' + Len(pending')
    BY DEF AtVm, AtWrite, AtUp, AtPending
  <1>10. /\ AtVm' = AtVm /\ AtWrite' = AtWrite /\ AtUp' = AtPending
        /\ AtPending' = AtPending
    <2>1. AtVm' = AtVm
      BY <1>9, <1>4, <1>2, <1>3
    <2>2. AtWrite' = AtWrite
      BY <1>9, <1>4, <1>2, <1>3, <2>1
    <2>3. AtUp' = AtPending
      <3>1. AtUp' = AtWrite' + Len(up') /\ AtUp = AtWrite + Len(up) /\ AtPending = AtUp + Len(pending)
        BY <1>9, <1>4
      <3>2. Len(up') = Len(up) + Len(pending)
        BY <1>7
      <3>3. AtWrite + (Len(up) + Len(pending)) = (AtWrite + Len(up)) + Len(pending)
        <4>1. AtWrite \in Nat /\ Len(up) \in Nat /\ Len(pending) \in Nat
          BY <1>4, <1>3
        <4>2. QED
          BY <4>1
      <3>4. QED
        BY <3>1, <3>2, <3>3, <2>2
    <2>4. AtPending' = AtPending
      BY <1>9, <1>4, <1>2, <1>8, <2>1, <2>2, <2>3
    <2>5. QED
      BY <2>1, <2>2, <2>3, <2>4
  <1>11. LocalScalars'
    BY <1>1, <1>2
       DEF TunnelIInv, LocalScalars
  <1>12. UpBuffers'
    BY <1>1, <1>2, <1>3, <1>7, <1>8, TunnelAssumption
       DEF TunnelIInv, UpBuffers
  <1>13. Ends'
    BY <1>1, <1>2
       DEF TunnelIInv, LocalScalars, Flags, Ends
  <1>14. UpValues'
    BY <1>1, <1>2, <1>3, <1>7, <1>8, InMore
       DEF TunnelIInv, UpBuffers, UpValues
  <1>15. UpChain'
    <2>1. vm' = "open" => Run(ureq', Len(vmGot'))
      BY <1>1, <1>2 DEF TunnelIInv, UpChain
    <2>2. ASSUME vm = "open", upstream # "closed"
          PROVE  (chold # 0 => chold = AtVm + 1) /\ Run(up, AtWrite)
      BY <2>2 DEF TunnelIInv, UpChain
    <2>3. ASSUME vm = "open", upstream # "closed", lost = FALSE, tunnel = "listed"
          PROVE  Run(pending, AtUp) /\ Run(lreq, AtPending) /\ appSent = AtPending + Len(lreq)
      BY <2>3 DEF TunnelIInv, UpChain
    <2>4. AtVm \in Nat /\ AtWrite \in Nat /\ AtUp \in Nat /\ AtPending \in Nat
      BY <1>4
    <2>5. ASSUME vm' = "open", upstream' # "closed"
          PROVE  (chold' # 0 => chold' = AtVm' + 1) /\ Run(up', AtWrite')
      <3>1. Run(up, AtWrite) /\ Run(pending, AtUp)
        BY <2>5, <2>2, <2>3, <1>1, <1>2
      <3>2. AtUp = AtWrite + Len(up)
        BY <1>4
      <3>3. Run(up', AtWrite)
        BY <3>1, <3>2, <2>4, <1>7
      <3>4. QED
        BY <3>3, <2>5, <2>2, <1>2, <1>10
    <2>6. ASSUME vm' = "open", upstream' # "closed", lost' = FALSE, tunnel' = "listed"
          PROVE  Run(pending', AtUp') /\ Run(lreq', AtPending') /\ appSent' = AtPending' + Len(lreq')
      <3>1. Run(lreq, AtPending) /\ appSent = AtPending + Len(lreq)
        BY <2>6, <2>3, <1>1, <1>2
      <3>2. Run(pending', AtUp')
        BY <2>4, <1>10, <1>8
      <3>3. QED
        BY <3>1, <3>2, <1>2, <1>10
    <2>7. QED
      BY <2>1, <2>5, <2>6 DEF UpChain
  <1>16. CleanOrder'
    <2>1. SUFFICES ASSUME Clean' PROVE CleanOrder'
      BY DEF CleanOrder
    <2>2. Clean
      BY <2>1, <1>1, <1>2 DEF Clean

    <2>3. ASSUME vm = "closed" PROVE up' = <<>>
      <3>1. up = <<>> /\ pending = <<>>
        BY <2>2, <2>3 DEF TunnelIInv, CleanOrder
      <3>2. Len(up') = 0
        BY <3>1, <1>7, <1>8, EmptyRun
      <3>3. QED
        BY <3>2, <1>7, <1>8, EmptyIs
    <2>4. QED
      BY <2>2, <2>3, <1>1, <1>2 DEF TunnelIInv, CleanOrder
  <1>17. HandlerScalars' /\ SocketScalars' /\ GoScalars' /\ Flags' /\ Numbers' /\
        DownBuffers' /\ Room' /\ Handling' /\ DownValues' /\ DownChain' /\ CleanCount'
    BY <1>2, HandlerScalarsFrame, SocketScalarsFrame, GoScalarsFrame, FlagsFrame,
       NumbersFrame, DownBuffersFrame, RoomFrame, HandlingFrame, DownValuesFrame,
       DownChainFrame, CleanCountFrame DEF TunnelIInv
  <1>18. QED
    BY <1>11, <1>12, <1>13, <1>14, <1>15, <1>16, <1>17 DEF TunnelIInv

LEMMA DeliversKeeps ==
  ASSUME TunnelIInv, Delivers
  PROVE  TunnelIInv'
  <1>1. /\ tunnel = "listed" /\ ws = "connected" /\ down # <<>> /\ app = "open"
        /\ down' = Tail(down) /\ lrsp' = Append(lrsp, Head(down))
    BY DEF Delivers
  <1>2. UNCHANGED <<app, appSent, appGot, lreq, lend, tunnel, ws, pending, aborted, up,
                    upEnd, downEnd, handler, creader, chold, ureader, uhold, results,
                    watcher, client, upstream, vm, vmGot, vmSent, ureq, ursp, lease,
                    lost, late, slow>>
    BY DEF Delivers
  <1>3. /\ Len(appGot) \in Nat /\ Len(lrsp) \in Nat /\ Len(down) \in Nat /\ Len(ursp) \in Nat
        /\ Held(uhold) \in Nat /\ vmSent \in Nat
    BY Lengths
  <1>4. /\ AtApp = Len(appGot) + Len(lrsp) /\ AtDown = AtApp + Len(down)
        /\ AtRead = AtDown + Held(uhold)
        /\ AtApp \in Nat /\ AtDown \in Nat /\ AtRead \in Nat
    BY Lengths
  <1>5. down \in Seq(Chunks) /\ down # <<>> /\ down' = Tail(down) /\ In(down, vmSent) /\ vmSent \in Nat
    BY <1>1, <1>3 DEF TunnelIInv, DownBuffers, DownValues
  <1>6. /\ down' \in Seq(Chunks) /\ Len(down') = Len(down) - 1 /\ Len(down) \in Nat \ {0}
        /\ Head(down) \in Chunks /\ Head(down) \in 1..vmSent /\ In(down', vmSent)
        /\ \A n \in Nat : Run(down, n) => Head(down) = n + 1 /\ Run(down', n + 1)
    BY <1>5, TailFacts, RunTail
  <1>7. Head(down) \in Chunks /\ Head(down) \in 1..vmSent
    BY <1>1, <1>2, <1>3, TunnelAssumption, <1>6 DEF TunnelIInv, Numbers, DownValues, Chunks
  <1>8. /\ lrsp \in Seq(Chunks) /\ Append(lrsp, Head(down)) \in Seq(Chunks)
        /\ Len(Append(lrsp, Head(down))) = Len(lrsp) + 1
        /\ \A n \in Nat : Run(lrsp, n) /\ Head(down) = n + Len(lrsp) + 1 => Run(Append(lrsp, Head(down)), n)
    BY <1>7, AppendFacts, RunAppend DEF TunnelIInv, DownBuffers
  <1>9. In(Append(lrsp, Head(down)), vmSent)
    BY <1>3, <1>7, <1>8, RunAppend DEF TunnelIInv, DownBuffers, DownValues
  <1>10. /\ lrsp' \in Seq(Chunks) /\ Len(lrsp') \in Nat /\ (Len(lrsp') = Len(lrsp) + 1) /\ In(lrsp', vmSent)
        /\ \A n \in Nat : (Run(lrsp, n) /\ Head(down) = n + Len(lrsp) + 1 => Run(lrsp', n))
    BY <1>1, <1>8, <1>9, <1>3 DEF TunnelIInv, DownBuffers, DownValues
  <1>11. /\ AtApp' = Len(appGot') + Len(lrsp') /\ AtDown' = AtApp' + Len(down')
        /\ AtRead' = AtDown' + Held(uhold')
    BY DEF AtApp, AtDown, AtRead
  <1>12. /\ AtApp' = AtApp + 1 /\ AtDown' = AtDown /\ AtRead' = AtRead
    <2>1. AtApp' = AtApp + 1
      BY <1>11, <1>4, <1>2, <1>7, <1>10, <1>3
    <2>2. AtDown' = AtDown
      BY <1>11, <1>4, <1>2, <1>6, <2>1
    <2>3. AtRead' = AtRead
      BY <1>11, <1>4, <1>2, <1>3, <2>1, <2>2
    <2>4. QED
      BY <2>1, <2>2, <2>3
  <1>13. DownBuffers'
    BY <1>1, <1>2, <1>3, <1>6, <1>7, <1>10, TunnelAssumption
       DEF TunnelIInv, DownBuffers
  <1>14. DownValues'
    BY <1>1, <1>2, <1>3, <1>6, <1>7, <1>10, InMore
       DEF TunnelIInv, DownBuffers, DownValues
  <1>15. DownChain'
    BY <1>1, <1>2, <1>3, <1>4, <1>6, <1>7, <1>10, <1>12
       DEF TunnelIInv, DownChain, Ends, Handling
  <1>16. CleanCount'
    BY <1>1, <1>2, <1>3, <1>4, <1>6, <1>7, <1>10, <1>12
       DEF TunnelIInv, CleanCount, CleanOrder, Clean, Flags, Handling, Ends
  <1>17. LocalScalars' /\ HandlerScalars' /\ SocketScalars' /\ GoScalars' /\ Flags' /\
        Numbers' /\ UpBuffers' /\ Room' /\ Ends' /\ Handling' /\ UpValues' /\
        UpChain' /\ CleanOrder'
    BY <1>2, LocalScalarsFrame, HandlerScalarsFrame, SocketScalarsFrame, GoScalarsFrame,
       FlagsFrame, NumbersFrame, UpBuffersFrame, RoomFrame, EndsFrame, HandlingFrame,
       UpValuesFrame, UpChainFrame, CleanOrderFrame DEF TunnelIInv
  <1>18. QED
    BY <1>13, <1>14, <1>15, <1>16, <1>17 DEF TunnelIInv

LEMMA DeliversInVainKeeps ==
  ASSUME TunnelIInv, DeliversInVain
  PROVE  TunnelIInv'
  <1>1. /\ tunnel = "listed" /\ ws = "connected" /\ down # <<>> /\ app # "open"
        /\ down' = Tail(down)
    BY DEF DeliversInVain
  <1>2. UNCHANGED <<app, appSent, appGot, lreq, lrsp, lend, tunnel, ws, pending,
                    aborted, up, upEnd, downEnd, handler, creader, chold, ureader,
                    uhold, results, watcher, client, upstream, vm, vmGot, vmSent, ureq,
                    ursp, lease, lost, late, slow>>
    BY DEF DeliversInVain
  <1>3. /\ Len(appGot) \in Nat /\ Len(lrsp) \in Nat /\ Len(down) \in Nat /\ Len(ursp) \in Nat
        /\ Held(uhold) \in Nat /\ vmSent \in Nat
    BY Lengths
  <1>4. /\ AtApp = Len(appGot) + Len(lrsp) /\ AtDown = AtApp + Len(down)
        /\ AtRead = AtDown + Held(uhold)
        /\ AtApp \in Nat /\ AtDown \in Nat /\ AtRead \in Nat
    BY Lengths
  <1>5. down \in Seq(Chunks) /\ down # <<>> /\ down' = Tail(down) /\ In(down, vmSent) /\ vmSent \in Nat
    BY <1>1, <1>3 DEF TunnelIInv, DownBuffers, DownValues
  <1>6. /\ down' \in Seq(Chunks) /\ Len(down') = Len(down) - 1 /\ Len(down) \in Nat \ {0}
        /\ Head(down) \in Chunks /\ Head(down) \in 1..vmSent /\ In(down', vmSent)
        /\ \A n \in Nat : Run(down, n) => Head(down) = n + 1 /\ Run(down', n + 1)
    BY <1>5, TailFacts, RunTail
  <1>7. /\ AtApp' = Len(appGot') + Len(lrsp') /\ AtDown' = AtApp' + Len(down')
        /\ AtRead' = AtDown' + Held(uhold')
    BY DEF AtApp, AtDown, AtRead
  <1>8. /\ AtApp' = AtApp
    <2>1. AtApp' = AtApp
      BY <1>7, <1>4, <1>2, <1>3
    <2>2. QED
      BY <2>1
  <1>9. DownBuffers'
    BY <1>1, <1>2, <1>3, <1>6, TunnelAssumption
       DEF TunnelIInv, DownBuffers
  <1>10. DownValues'
    BY <1>1, <1>2, <1>3, <1>6, InMore
       DEF TunnelIInv, DownBuffers, DownValues
  <1>11. DownChain'
    BY <1>1, <1>2, <1>3, <1>4, <1>6, <1>8
       DEF TunnelIInv, DownChain, Ends, Handling
  <1>12. CleanCount'
    BY <1>1, <1>2, <1>3, <1>4, <1>6, <1>8
       DEF TunnelIInv, CleanCount, CleanOrder, Clean, Flags, Handling, Ends
  <1>13. LocalScalars' /\ HandlerScalars' /\ SocketScalars' /\ GoScalars' /\ Flags' /\
        Numbers' /\ UpBuffers' /\ Room' /\ Ends' /\ Handling' /\ UpValues' /\
        UpChain' /\ CleanOrder'
    BY <1>2, LocalScalarsFrame, HandlerScalarsFrame, SocketScalarsFrame, GoScalarsFrame,
       FlagsFrame, NumbersFrame, UpBuffersFrame, RoomFrame, EndsFrame, HandlingFrame,
       UpValuesFrame, UpChainFrame, CleanOrderFrame DEF TunnelIInv
  <1>14. QED
    BY <1>9, <1>10, <1>11, <1>12, <1>13 DEF TunnelIInv

LEMMA DisconnectsKeeps ==
  ASSUME TunnelIInv, Disconnects
  PROVE  TunnelIInv'
  <1>1. /\ tunnel = "listed" /\ lost = FALSE /\ down = <<>> /\ downEnd # "open"
        /\ ws' = "closed" /\ upEnd' = TRUE /\ tunnel' = "draining"
    BY DEF Disconnects
  <1>2. UNCHANGED <<app, appSent, appGot, lreq, lrsp, lend, pending, aborted, up, down,
                    downEnd, handler, creader, chold, ureader, uhold, results, watcher,
                    client, upstream, vm, vmGot, vmSent, ureq, ursp, lease, lost, late,
                    slow>>
    BY DEF Disconnects
  <1>3. /\ Len(vmGot) \in Nat /\ Len(ureq) \in Nat /\ Len(up) \in Nat /\ Len(pending) \in Nat
        /\ Len(lreq) \in Nat /\ Held(chold) \in Nat /\ appSent \in Nat
    BY Lengths
  <1>4. /\ AtVm = Len(vmGot) + Len(ureq) /\ AtWrite = AtVm + Held(chold)
        /\ AtUp = AtWrite + Len(up) /\ AtPending = AtUp + Len(pending)
        /\ AtVm \in Nat /\ AtWrite \in Nat /\ AtUp \in Nat /\ AtPending \in Nat
    BY Lengths
  <1>5. /\ Len(appGot) \in Nat /\ Len(lrsp) \in Nat /\ Len(down) \in Nat /\ Len(ursp) \in Nat
        /\ Held(uhold) \in Nat /\ vmSent \in Nat
    BY Lengths
  <1>6. /\ AtApp = Len(appGot) + Len(lrsp) /\ AtDown = AtApp + Len(down)
        /\ AtRead = AtDown + Held(uhold)
        /\ AtApp \in Nat /\ AtDown \in Nat /\ AtRead \in Nat
    BY Lengths
  <1>7. /\ AtVm' = Len(vmGot') + Len(ureq') /\ AtWrite' = AtVm' + Held(chold')
        /\ AtUp' = AtWrite' + Len(up') /\ AtPending' = AtUp' + Len(pending')
    BY DEF AtVm, AtWrite, AtUp, AtPending
  <1>8. /\ AtVm' = AtVm /\ AtWrite' = AtWrite /\ AtUp' = AtUp /\ AtPending' = AtPending
    <2>1. AtVm' = AtVm
      BY <1>7, <1>4, <1>2, <1>3
    <2>2. AtWrite' = AtWrite
      BY <1>7, <1>4, <1>2, <1>3, <2>1
    <2>3. AtUp' = AtUp
      BY <1>7, <1>4, <1>2, <1>3, <2>1, <2>2
    <2>4. AtPending' = AtPending
      BY <1>7, <1>4, <1>2, <1>3, <2>1, <2>2, <2>3
    <2>5. QED
      BY <2>1, <2>2, <2>3, <2>4
  <1>9. /\ AtApp' = Len(appGot') + Len(lrsp') /\ AtDown' = AtApp' + Len(down')
        /\ AtRead' = AtDown' + Held(uhold')
    BY DEF AtApp, AtDown, AtRead
  <1>10. /\ AtApp' = AtApp /\ AtDown' = AtDown /\ AtRead' = AtRead
    <2>1. AtApp' = AtApp
      BY <1>9, <1>6, <1>2, <1>5
    <2>2. AtDown' = AtDown
      BY <1>9, <1>6, <1>2, <1>5, <2>1
    <2>3. AtRead' = AtRead
      BY <1>9, <1>6, <1>2, <1>5, <2>1, <2>2
    <2>4. QED
      BY <2>1, <2>2, <2>3
  <1>11. LocalScalars'
    BY <1>1, <1>2
       DEF TunnelIInv, LocalScalars
  <1>12. Flags'
    BY <1>1, <1>2
       DEF TunnelIInv, Flags
  <1>13. Ends'
    BY <1>1, <1>2
       DEF TunnelIInv, LocalScalars, Flags, Ends
  <1>14. UpChain'
    BY <1>1, <1>2, <1>3, <1>4, <1>8
       DEF TunnelIInv, UpChain, Ends
  <1>15. DownChain'
    BY <1>1, <1>2, <1>5, <1>6, <1>10
       DEF TunnelIInv, DownChain, Ends, Handling
  <1>16. CleanOrder'
    BY <1>1, <1>2
       DEF TunnelIInv, CleanOrder, Clean, Flags, Handling, Ends
  <1>17. CleanCount'
    <2>1. SUFFICES ASSUME Clean' PROVE CleanCount'
      BY DEF CleanCount
    <2>2. Clean
      BY <2>1, <1>1, <1>2 DEF Clean
    <2>3. ursp = <<>> /\ uhold = 0
      <3>1. CASE ureader = "done"
        BY <2>2, <3>1 DEF TunnelIInv, CleanOrder
      <3>2. CASE upstream = "none"
        BY <3>2 DEF TunnelIInv, Handling
      <3>3. QED
        BY <2>2, <3>1, <3>2, <1>1, <1>2 DEF TunnelIInv, CleanOrder
    <2>4. Len(ursp) = 0 /\ Held(uhold) = 0 /\ Len(down) = 0
      BY <2>3, <1>1, <1>2, EmptyRun DEF Held
    <2>5. app = "open" => vmSent = AtApp
      BY <2>2, <2>4, <1>1, <1>2, <1>5, <1>6 DEF TunnelIInv, CleanCount
    <2>6. QED
      BY <2>2, <2>5, <1>1, <1>2, <1>8, <1>10 DEF TunnelIInv, CleanCount
  <1>18. HandlerScalars' /\ SocketScalars' /\ GoScalars' /\ Numbers' /\ UpBuffers' /\
        DownBuffers' /\ Room' /\ Handling' /\ UpValues' /\ DownValues'
    BY <1>2, HandlerScalarsFrame, SocketScalarsFrame, GoScalarsFrame, NumbersFrame,
       UpBuffersFrame, DownBuffersFrame, RoomFrame, HandlingFrame, UpValuesFrame,
       DownValuesFrame DEF TunnelIInv
  <1>19. QED
    BY <1>11, <1>12, <1>13, <1>14, <1>15, <1>16, <1>17, <1>18 DEF TunnelIInv

LEMMA DrainsCleanKeeps ==
  ASSUME TunnelIInv, DrainsClean
  PROVE  TunnelIInv'
  <1>1. /\ tunnel = "draining" /\ lend = "open" /\ lreq = <<>> /\ tunnel' = "gone"
        /\ lend' = "eof"
    BY DEF DrainsClean
  <1>2. UNCHANGED <<app, appSent, appGot, lreq, lrsp, ws, pending, aborted, up, upEnd,
                    down, downEnd, handler, creader, chold, ureader, uhold, results,
                    watcher, client, upstream, vm, vmGot, vmSent, ureq, ursp, lease,
                    lost, late, slow>>
    BY DEF DrainsClean
  <1>3. /\ Len(vmGot) \in Nat /\ Len(ureq) \in Nat /\ Len(up) \in Nat /\ Len(pending) \in Nat
        /\ Len(lreq) \in Nat /\ Held(chold) \in Nat /\ appSent \in Nat
    BY Lengths
  <1>4. /\ AtVm = Len(vmGot) + Len(ureq) /\ AtWrite = AtVm + Held(chold)
        /\ AtUp = AtWrite + Len(up) /\ AtPending = AtUp + Len(pending)
        /\ AtVm \in Nat /\ AtWrite \in Nat /\ AtUp \in Nat /\ AtPending \in Nat
    BY Lengths
  <1>5. /\ Len(appGot) \in Nat /\ Len(lrsp) \in Nat /\ Len(down) \in Nat /\ Len(ursp) \in Nat
        /\ Held(uhold) \in Nat /\ vmSent \in Nat
    BY Lengths
  <1>6. /\ AtApp = Len(appGot) + Len(lrsp) /\ AtDown = AtApp + Len(down)
        /\ AtRead = AtDown + Held(uhold)
        /\ AtApp \in Nat /\ AtDown \in Nat /\ AtRead \in Nat
    BY Lengths
  <1>7. /\ AtVm' = Len(vmGot') + Len(ureq') /\ AtWrite' = AtVm' + Held(chold')
        /\ AtUp' = AtWrite' + Len(up') /\ AtPending' = AtUp' + Len(pending')
    BY DEF AtVm, AtWrite, AtUp, AtPending
  <1>8. /\ AtVm' = AtVm /\ AtWrite' = AtWrite /\ AtUp' = AtUp /\ AtPending' = AtPending
    <2>1. AtVm' = AtVm
      BY <1>7, <1>4, <1>2, <1>3
    <2>2. AtWrite' = AtWrite
      BY <1>7, <1>4, <1>2, <1>3, <2>1
    <2>3. AtUp' = AtUp
      BY <1>7, <1>4, <1>2, <1>3, <2>1, <2>2
    <2>4. AtPending' = AtPending
      BY <1>7, <1>4, <1>2, <1>3, <2>1, <2>2, <2>3
    <2>5. QED
      BY <2>1, <2>2, <2>3, <2>4
  <1>9. /\ AtApp' = Len(appGot') + Len(lrsp') /\ AtDown' = AtApp' + Len(down')
        /\ AtRead' = AtDown' + Held(uhold')
    BY DEF AtApp, AtDown, AtRead
  <1>10. /\ AtApp' = AtApp /\ AtDown' = AtDown /\ AtRead' = AtRead
    <2>1. AtApp' = AtApp
      BY <1>9, <1>6, <1>2, <1>5
    <2>2. AtDown' = AtDown
      BY <1>9, <1>6, <1>2, <1>5, <2>1
    <2>3. AtRead' = AtRead
      BY <1>9, <1>6, <1>2, <1>5, <2>1, <2>2
    <2>4. QED
      BY <2>1, <2>2, <2>3
  <1>11. LocalScalars'
    BY <1>1, <1>2
       DEF TunnelIInv, LocalScalars
  <1>12. Ends'
    BY <1>1, <1>2
       DEF TunnelIInv, LocalScalars, Flags, Ends
  <1>13. UpChain'
    BY <1>1, <1>2, <1>3, <1>4, <1>8
       DEF TunnelIInv, UpChain, Ends
  <1>14. DownChain'
    BY <1>1, <1>2, <1>5, <1>6, <1>10
       DEF TunnelIInv, DownChain, Ends, Handling
  <1>15. CleanOrder'
    BY <1>1, <1>2
       DEF TunnelIInv, CleanOrder, Clean, Flags, Handling, Ends
  <1>16. CleanCount'
    BY <1>1, <1>2, <1>5, <1>6, <1>10
       DEF TunnelIInv, CleanCount, CleanOrder, Clean, Flags, Handling, Ends
  <1>17. HandlerScalars' /\ SocketScalars' /\ GoScalars' /\ Flags' /\ Numbers' /\
        UpBuffers' /\ DownBuffers' /\ Room' /\ Handling' /\ UpValues' /\ DownValues'
    BY <1>2, HandlerScalarsFrame, SocketScalarsFrame, GoScalarsFrame, FlagsFrame,
       NumbersFrame, UpBuffersFrame, DownBuffersFrame, RoomFrame, HandlingFrame,
       UpValuesFrame, DownValuesFrame DEF TunnelIInv
  <1>18. QED
    BY <1>11, <1>12, <1>13, <1>14, <1>15, <1>16, <1>17 DEF TunnelIInv

LEMMA DrainsResetKeeps ==
  ASSUME TunnelIInv, DrainsReset
  PROVE  TunnelIInv'
  <1>1. /\ tunnel = "draining" /\ lend = "open" /\ lreq # <<>> /\ tunnel' = "gone"
        /\ lend' = "reset" /\ lrsp' \in Cut(lrsp)
    BY DEF DrainsReset
  <1>2. UNCHANGED <<app, appSent, appGot, lreq, ws, pending, aborted, up, upEnd, down,
                    downEnd, handler, creader, chold, ureader, uhold, results, watcher,
                    client, upstream, vm, vmGot, vmSent, ureq, ursp, lease, lost, late,
                    slow>>
    BY DEF DrainsReset
  <1>3. /\ Len(vmGot) \in Nat /\ Len(ureq) \in Nat /\ Len(up) \in Nat /\ Len(pending) \in Nat
        /\ Len(lreq) \in Nat /\ Held(chold) \in Nat /\ appSent \in Nat
    BY Lengths
  <1>4. /\ AtVm = Len(vmGot) + Len(ureq) /\ AtWrite = AtVm + Held(chold)
        /\ AtUp = AtWrite + Len(up) /\ AtPending = AtUp + Len(pending)
        /\ AtVm \in Nat /\ AtWrite \in Nat /\ AtUp \in Nat /\ AtPending \in Nat
    BY Lengths
  <1>5. /\ Len(appGot) \in Nat /\ Len(lrsp) \in Nat /\ Len(down) \in Nat /\ Len(ursp) \in Nat
        /\ Held(uhold) \in Nat /\ vmSent \in Nat
    BY Lengths
  <1>6. /\ AtApp = Len(appGot) + Len(lrsp) /\ AtDown = AtApp + Len(down)
        /\ AtRead = AtDown + Held(uhold)
        /\ AtApp \in Nat /\ AtDown \in Nat /\ AtRead \in Nat
    BY Lengths
  <1>7. /\ lrsp' \in Seq(Chunks) /\ Len(lrsp') <= Len(lrsp) /\ Len(lrsp') \in Nat
        /\ In(lrsp', vmSent)
        /\ \A n \in Nat : Run(lrsp, n) => Run(lrsp', n)
    BY <1>1, <1>2, <1>5, CutFacts, RunCut DEF TunnelIInv, DownBuffers, DownValues
  <1>8. /\ AtVm' = Len(vmGot') + Len(ureq') /\ AtWrite' = AtVm' + Held(chold')
        /\ AtUp' = AtWrite' + Len(up') /\ AtPending' = AtUp' + Len(pending')
    BY DEF AtVm, AtWrite, AtUp, AtPending
  <1>9. /\ AtVm' = AtVm /\ AtWrite' = AtWrite /\ AtUp' = AtUp /\ AtPending' = AtPending
    <2>1. AtVm' = AtVm
      BY <1>8, <1>4, <1>2, <1>3
    <2>2. AtWrite' = AtWrite
      BY <1>8, <1>4, <1>2, <1>3, <2>1
    <2>3. AtUp' = AtUp
      BY <1>8, <1>4, <1>2, <1>3, <2>1, <2>2
    <2>4. AtPending' = AtPending
      BY <1>8, <1>4, <1>2, <1>3, <2>1, <2>2, <2>3
    <2>5. QED
      BY <2>1, <2>2, <2>3, <2>4
  <1>10. LocalScalars'
    BY <1>1, <1>2
       DEF TunnelIInv, LocalScalars
  <1>11. DownBuffers'
    BY <1>1, <1>2, <1>5, <1>7, TunnelAssumption
       DEF TunnelIInv, DownBuffers
  <1>12. Ends'
    BY <1>1, <1>2
       DEF TunnelIInv, LocalScalars, Flags, Ends
  <1>13. DownValues'
    BY <1>1, <1>2, <1>5, <1>7, InMore
       DEF TunnelIInv, DownBuffers, DownValues
  <1>14. UpChain'
    BY <1>1, <1>2, <1>3, <1>4, <1>9
       DEF TunnelIInv, UpChain, Ends
  <1>15. DownChain'
    BY <1>1, <1>2, <1>5, <1>6, <1>7
       DEF TunnelIInv, DownChain, Ends, Handling
  <1>16. CleanOrder'
    BY <1>1, <1>2, EmptyIs
       DEF TunnelIInv, CleanOrder, Clean, Flags, Handling, Ends
  <1>17. CleanCount'
    BY <1>1, <1>2, <1>5, <1>6, <1>7
       DEF TunnelIInv, CleanCount, CleanOrder, Clean, Flags, Handling, Ends
  <1>18. HandlerScalars' /\ SocketScalars' /\ GoScalars' /\ Flags' /\ Numbers' /\
        UpBuffers' /\ Room' /\ Handling' /\ UpValues'
    BY <1>2, HandlerScalarsFrame, SocketScalarsFrame, GoScalarsFrame, FlagsFrame,
       NumbersFrame, UpBuffersFrame, RoomFrame, HandlingFrame, UpValuesFrame DEF TunnelIInv
  <1>19. QED
    BY <1>10, <1>11, <1>12, <1>13, <1>14, <1>15, <1>16, <1>17, <1>18 DEF TunnelIInv

LEMMA DrainTimesOutKeeps ==
  ASSUME TunnelIInv, DrainTimesOut
  PROVE  TunnelIInv'
  <1>1. /\ tunnel = "draining" /\ lend = "open" /\ tunnel' = "gone" /\ lend' = "reset"
        /\ lrsp' \in Cut(lrsp) /\ slow' = TRUE
    BY DEF DrainTimesOut
  <1>2. UNCHANGED <<app, appSent, appGot, lreq, ws, pending, aborted, up, upEnd, down,
                    downEnd, handler, creader, chold, ureader, uhold, results, watcher,
                    client, upstream, vm, vmGot, vmSent, ureq, ursp, lease, lost, late>>
    BY DEF DrainTimesOut
  <1>3. /\ Len(vmGot) \in Nat /\ Len(ureq) \in Nat /\ Len(up) \in Nat /\ Len(pending) \in Nat
        /\ Len(lreq) \in Nat /\ Held(chold) \in Nat /\ appSent \in Nat
    BY Lengths
  <1>4. /\ AtVm = Len(vmGot) + Len(ureq) /\ AtWrite = AtVm + Held(chold)
        /\ AtUp = AtWrite + Len(up) /\ AtPending = AtUp + Len(pending)
        /\ AtVm \in Nat /\ AtWrite \in Nat /\ AtUp \in Nat /\ AtPending \in Nat
    BY Lengths
  <1>5. /\ Len(appGot) \in Nat /\ Len(lrsp) \in Nat /\ Len(down) \in Nat /\ Len(ursp) \in Nat
        /\ Held(uhold) \in Nat /\ vmSent \in Nat
    BY Lengths
  <1>6. /\ AtApp = Len(appGot) + Len(lrsp) /\ AtDown = AtApp + Len(down)
        /\ AtRead = AtDown + Held(uhold)
        /\ AtApp \in Nat /\ AtDown \in Nat /\ AtRead \in Nat
    BY Lengths
  <1>7. /\ lrsp' \in Seq(Chunks) /\ Len(lrsp') <= Len(lrsp) /\ Len(lrsp') \in Nat
        /\ In(lrsp', vmSent)
        /\ \A n \in Nat : Run(lrsp, n) => Run(lrsp', n)
    BY <1>1, <1>2, <1>5, CutFacts, RunCut DEF TunnelIInv, DownBuffers, DownValues
  <1>8. /\ AtVm' = Len(vmGot') + Len(ureq') /\ AtWrite' = AtVm' + Held(chold')
        /\ AtUp' = AtWrite' + Len(up') /\ AtPending' = AtUp' + Len(pending')
    BY DEF AtVm, AtWrite, AtUp, AtPending
  <1>9. /\ AtVm' = AtVm /\ AtWrite' = AtWrite /\ AtUp' = AtUp /\ AtPending' = AtPending
    <2>1. AtVm' = AtVm
      BY <1>8, <1>4, <1>2, <1>3
    <2>2. AtWrite' = AtWrite
      BY <1>8, <1>4, <1>2, <1>3, <2>1
    <2>3. AtUp' = AtUp
      BY <1>8, <1>4, <1>2, <1>3, <2>1, <2>2
    <2>4. AtPending' = AtPending
      BY <1>8, <1>4, <1>2, <1>3, <2>1, <2>2, <2>3
    <2>5. QED
      BY <2>1, <2>2, <2>3, <2>4
  <1>10. LocalScalars'
    BY <1>1, <1>2
       DEF TunnelIInv, LocalScalars
  <1>11. Flags'
    BY <1>1, <1>2
       DEF TunnelIInv, Flags
  <1>12. DownBuffers'
    BY <1>1, <1>2, <1>5, <1>7, TunnelAssumption
       DEF TunnelIInv, DownBuffers
  <1>13. Ends'
    BY <1>1, <1>2
       DEF TunnelIInv, LocalScalars, Flags, Ends
  <1>14. DownValues'
    BY <1>1, <1>2, <1>5, <1>7, InMore
       DEF TunnelIInv, DownBuffers, DownValues
  <1>15. UpChain'
    BY <1>1, <1>2, <1>3, <1>4, <1>9
       DEF TunnelIInv, UpChain, Ends
  <1>16. DownChain'
    BY <1>1, <1>2, <1>5, <1>6, <1>7
       DEF TunnelIInv, DownChain, Ends, Handling
  <1>17. CleanOrder'
    BY <1>1, <1>2, EmptyIs
       DEF TunnelIInv, CleanOrder, Clean, Flags, Handling, Ends
  <1>18. CleanCount'
    BY <1>1, <1>2, <1>5, <1>6, <1>7
       DEF TunnelIInv, CleanCount, CleanOrder, Clean, Flags, Handling, Ends
  <1>19. HandlerScalars' /\ SocketScalars' /\ GoScalars' /\ Numbers' /\ UpBuffers' /\
        Room' /\ Handling' /\ UpValues'
    BY <1>2, HandlerScalarsFrame, SocketScalarsFrame, GoScalarsFrame, NumbersFrame,
       UpBuffersFrame, RoomFrame, HandlingFrame, UpValuesFrame DEF TunnelIInv
  <1>20. QED
    BY <1>10, <1>11, <1>12, <1>13, <1>14, <1>15, <1>16, <1>17, <1>18, <1>19 DEF TunnelIInv

LEMMA AuthorizesKeeps ==
  ASSUME TunnelIInv, Authorizes
  PROVE  TunnelIInv'
  <1>1. /\ handler = "auth" /\ lease = "held" /\ vm = "open" /\ handler' = "upgrade"
        /\ upstream' = "open"
    BY DEF Authorizes
  <1>2. UNCHANGED <<app, appSent, appGot, lreq, lrsp, lend, tunnel, ws, pending,
                    aborted, up, upEnd, down, downEnd, creader, chold, ureader, uhold,
                    results, watcher, client, vm, vmGot, vmSent, ureq, ursp, lease,
                    lost, late, slow>>
    BY DEF Authorizes
  <1>3. /\ Len(vmGot) \in Nat /\ Len(ureq) \in Nat /\ Len(up) \in Nat /\ Len(pending) \in Nat
        /\ Len(lreq) \in Nat /\ Held(chold) \in Nat /\ appSent \in Nat
    BY Lengths
  <1>4. /\ AtVm = Len(vmGot) + Len(ureq) /\ AtWrite = AtVm + Held(chold)
        /\ AtUp = AtWrite + Len(up) /\ AtPending = AtUp + Len(pending)
        /\ AtVm \in Nat /\ AtWrite \in Nat /\ AtUp \in Nat /\ AtPending \in Nat
    BY Lengths
  <1>5. /\ AtVm' = Len(vmGot') + Len(ureq') /\ AtWrite' = AtVm' + Held(chold')
        /\ AtUp' = AtWrite' + Len(up') /\ AtPending' = AtUp' + Len(pending')
    BY DEF AtVm, AtWrite, AtUp, AtPending
  <1>6. /\ AtVm' = AtVm /\ AtWrite' = AtWrite /\ AtUp' = AtUp /\ AtPending' = AtPending
    <2>1. AtVm' = AtVm
      BY <1>5, <1>4, <1>2, <1>3
    <2>2. AtWrite' = AtWrite
      BY <1>5, <1>4, <1>2, <1>3, <2>1
    <2>3. AtUp' = AtUp
      BY <1>5, <1>4, <1>2, <1>3, <2>1, <2>2
    <2>4. AtPending' = AtPending
      BY <1>5, <1>4, <1>2, <1>3, <2>1, <2>2, <2>3
    <2>5. QED
      BY <2>1, <2>2, <2>3, <2>4
  <1>7. HandlerScalars'
    BY <1>1, <1>2
       DEF TunnelIInv, HandlerScalars
  <1>8. SocketScalars'
    BY <1>1, <1>2
       DEF TunnelIInv, SocketScalars
  <1>9. Room'
    BY <1>1, <1>2
       DEF TunnelIInv, Room, Done, HandlerScalars, GoScalars, Handling
  <1>10. Handling'
    BY <1>1, <1>2
       DEF TunnelIInv, HandlerScalars, SocketScalars, GoScalars, Handling
  <1>11. UpChain'
    <2>1. vm' = "open" => Run(ureq', Len(vmGot'))
      BY <1>1, <1>2, <1>3, <1>4, <1>6 DEF TunnelIInv, UpChain
    <2>2. ASSUME vm = "open", upstream # "closed"
          PROVE  (chold # 0 => chold = AtVm + 1) /\ Run(up, AtWrite)
      BY <2>2 DEF TunnelIInv, UpChain
    <2>3. ASSUME vm = "open", upstream # "closed", lost = FALSE, tunnel = "listed"
          PROVE  Run(pending, AtUp) /\ Run(lreq, AtPending) /\ appSent = AtPending + Len(lreq)
      BY <2>3 DEF TunnelIInv, UpChain
    <2>a. upstream # "closed"
      BY <1>1 DEF TunnelIInv, Handling
    <2>4. ASSUME vm' = "open", upstream' # "closed"
          PROVE  chold' # 0 => chold' = AtVm' + 1
      BY <2>4, <2>2, <1>1, <1>2, <1>3, <1>4, <1>6, <2>a
    <2>5. ASSUME vm' = "open", upstream' # "closed"
          PROVE  Run(up', AtWrite')
      BY <2>5, <2>2, <1>1, <1>2, <1>3, <1>4, <1>6, <2>a
    <2>6. ASSUME vm' = "open", upstream' # "closed", lost' = FALSE, tunnel' = "listed"
          PROVE  Run(pending', AtUp')
      BY <2>6, <2>2, <2>3, <1>1, <1>2, <1>3, <1>4, <1>6, <2>a
    <2>7. ASSUME vm' = "open", upstream' # "closed", lost' = FALSE, tunnel' = "listed"
          PROVE  Run(lreq', AtPending') /\ appSent' = AtPending' + Len(lreq')
      BY <2>7, <2>2, <2>3, <1>1, <1>2, <1>3, <1>4, <1>6, <2>a
    <2>8. QED
      BY <2>1, <2>4, <2>5, <2>6, <2>7 DEF UpChain
  <1>12. CleanOrder'
    BY <1>1, <1>2
       DEF TunnelIInv, CleanOrder, Clean, Flags, Handling, Ends
  <1>13. LocalScalars' /\ GoScalars' /\ Flags' /\ Numbers' /\ UpBuffers' /\
        DownBuffers' /\ Ends' /\ UpValues' /\ DownValues' /\ DownChain' /\ CleanCount'
    BY <1>2, LocalScalarsFrame, GoScalarsFrame, FlagsFrame, NumbersFrame,
       UpBuffersFrame, DownBuffersFrame, EndsFrame, UpValuesFrame, DownValuesFrame,
       DownChainFrame, CleanCountFrame DEF TunnelIInv
  <1>14. QED
    BY <1>7, <1>8, <1>9, <1>10, <1>11, <1>12, <1>13 DEF TunnelIInv

LEMMA RefusesKeeps ==
  ASSUME TunnelIInv, Refuses
  PROVE  TunnelIInv'
  <1>1. /\ handler = "auth" /\ handler' = "ended" /\ downEnd' = "fin"
    BY DEF Refuses
  <1>2. UNCHANGED <<app, appSent, appGot, lreq, lrsp, lend, tunnel, ws, pending,
                    aborted, up, upEnd, down, creader, chold, ureader, uhold, results,
                    watcher, client, upstream, vm, vmGot, vmSent, ureq, ursp, lease,
                    lost, late, slow>>
    BY DEF Refuses
  <1>3. HandlerScalars'
    BY <1>1, <1>2
       DEF TunnelIInv, HandlerScalars
  <1>4. Room'
    BY <1>1, <1>2
       DEF TunnelIInv, Room, Done, HandlerScalars, GoScalars, Handling
  <1>5. Handling'
    BY <1>1, <1>2
       DEF TunnelIInv, HandlerScalars, SocketScalars, GoScalars, Handling
  <1>6. CleanOrder'
    <2>1. SUFFICES ASSUME Clean' PROVE CleanOrder'
      BY DEF CleanOrder
    <2>2. Clean
      BY <2>1, <1>1, <1>2 DEF Clean

    <2>3. upstream = "none"
      BY <1>1, <1>2 DEF TunnelIInv, Handling
    <2>4. QED
      BY <2>2, <2>3, <1>1, <1>2 DEF TunnelIInv, CleanOrder
  <1>7. LocalScalars' /\ SocketScalars' /\ GoScalars' /\ Flags' /\ Numbers' /\
        UpBuffers' /\ DownBuffers' /\ Ends' /\ UpValues' /\ DownValues' /\ UpChain' /\
        DownChain' /\ CleanCount'
    BY <1>2, LocalScalarsFrame, SocketScalarsFrame, GoScalarsFrame, FlagsFrame,
       NumbersFrame, UpBuffersFrame, DownBuffersFrame, EndsFrame, UpValuesFrame,
       DownValuesFrame, UpChainFrame, DownChainFrame, CleanCountFrame DEF TunnelIInv
  <1>8. QED
    BY <1>3, <1>4, <1>5, <1>6, <1>7 DEF TunnelIInv

LEMMA UpgradesKeeps ==
  ASSUME TunnelIInv, Upgrades
  PROVE  TunnelIInv'
  <1>1. /\ handler = "upgrade" /\ client' = "open" /\ handler' = "wait"
        /\ creader' = "read" /\ ureader' = "read" /\ watcher' = "run"
    BY DEF Upgrades
  <1>2. UNCHANGED <<app, appSent, appGot, lreq, lrsp, lend, tunnel, ws, pending,
                    aborted, up, upEnd, down, downEnd, chold, uhold, results, upstream,
                    vm, vmGot, vmSent, ureq, ursp, lease, lost, late, slow>>
    BY DEF Upgrades
  <1>3. /\ Len(appGot) \in Nat /\ Len(lrsp) \in Nat /\ Len(down) \in Nat /\ Len(ursp) \in Nat
        /\ Held(uhold) \in Nat /\ vmSent \in Nat
    BY Lengths
  <1>4. /\ AtApp = Len(appGot) + Len(lrsp) /\ AtDown = AtApp + Len(down)
        /\ AtRead = AtDown + Held(uhold)
        /\ AtApp \in Nat /\ AtDown \in Nat /\ AtRead \in Nat
    BY Lengths
  <1>5. /\ AtApp' = Len(appGot') + Len(lrsp') /\ AtDown' = AtApp' + Len(down')
        /\ AtRead' = AtDown' + Held(uhold')
    BY DEF AtApp, AtDown, AtRead
  <1>6. /\ AtApp' = AtApp /\ AtDown' = AtDown /\ AtRead' = AtRead
    <2>1. AtApp' = AtApp
      BY <1>5, <1>4, <1>2, <1>3
    <2>2. AtDown' = AtDown
      BY <1>5, <1>4, <1>2, <1>3, <2>1
    <2>3. AtRead' = AtRead
      BY <1>5, <1>4, <1>2, <1>3, <2>1, <2>2
    <2>4. QED
      BY <2>1, <2>2, <2>3
  <1>7. HandlerScalars'
    BY <1>1, <1>2
       DEF TunnelIInv, HandlerScalars
  <1>8. SocketScalars'
    BY <1>1, <1>2
       DEF TunnelIInv, SocketScalars
  <1>9. GoScalars'
    BY <1>1, <1>2
       DEF TunnelIInv, GoScalars
  <1>10. Room'
    BY <1>1, <1>2
       DEF TunnelIInv, Room, Done, HandlerScalars, GoScalars, Handling
  <1>11. Handling'
    BY <1>1, <1>2
       DEF TunnelIInv, HandlerScalars, SocketScalars, GoScalars, Handling
  <1>12. DownChain'
    BY <1>1, <1>2, <1>3, <1>4, <1>6
       DEF TunnelIInv, DownChain, Ends, Handling
  <1>13. CleanOrder'
    <2>1. SUFFICES ASSUME Clean' PROVE CleanOrder'
      BY DEF CleanOrder
    <2>2. Clean
      BY <2>1, <1>1, <1>2 DEF Clean

    <2>3. client = "none" /\ creader = "none" /\ ureader = "none" /\ upstream = "open"
      BY <1>1, <1>2 DEF TunnelIInv, Handling
    <2>4. Len(results) = 0
      BY <2>3, <1>1, <1>2, EmptyIs DEF TunnelIInv, Room, Done
    <2>5. downEnd = "open" /\ tunnel = "listed"
      BY <2>2, <1>1, <1>2 DEF TunnelIInv, CleanOrder
    <2>6. QED
      BY <2>2, <2>3, <2>4, <2>5, <1>1, <1>2 DEF TunnelIInv, CleanOrder
  <1>14. LocalScalars' /\ Flags' /\ Numbers' /\ UpBuffers' /\ DownBuffers' /\ Ends' /\
        UpValues' /\ DownValues' /\ UpChain' /\ CleanCount'
    BY <1>2, LocalScalarsFrame, FlagsFrame, NumbersFrame, UpBuffersFrame,
       DownBuffersFrame, EndsFrame, UpValuesFrame, DownValuesFrame, UpChainFrame,
       CleanCountFrame DEF TunnelIInv
  <1>15. QED
    BY <1>7, <1>8, <1>9, <1>10, <1>11, <1>12, <1>13, <1>14 DEF TunnelIInv

LEMMA UpgradeFailsKeeps ==
  ASSUME TunnelIInv, UpgradeFails
  PROVE  TunnelIInv'
  <1>1. /\ handler = "upgrade" /\ (upEnd = TRUE \/ lost = TRUE) /\ handler' = "ended"
    BY DEF UpgradeFails
  <1>2. UNCHANGED <<app, appSent, appGot, lreq, lrsp, lend, tunnel, ws, pending,
                    aborted, up, upEnd, down, downEnd, creader, chold, ureader, uhold,
                    results, watcher, client, vm, vmGot, vmSent, ursp, lease, lost,
                    late, slow>>
    BY DEF UpgradeFails
  <1>3. /\ upstream' = IF upstream = "open" THEN "closed" ELSE upstream
        /\ ureq' \in Cut(ureq)
        /\ upstream # "open" => ureq' = ureq
    BY CloseFacts DEF UpgradeFails
  <1>4. /\ Len(vmGot) \in Nat /\ Len(ureq) \in Nat /\ Len(up) \in Nat /\ Len(pending) \in Nat
        /\ Len(lreq) \in Nat /\ Held(chold) \in Nat /\ appSent \in Nat
    BY Lengths
  <1>5. /\ AtVm = Len(vmGot) + Len(ureq) /\ AtWrite = AtVm + Held(chold)
        /\ AtUp = AtWrite + Len(up) /\ AtPending = AtUp + Len(pending)
        /\ AtVm \in Nat /\ AtWrite \in Nat /\ AtUp \in Nat /\ AtPending \in Nat
    BY Lengths
  <1>6. /\ ureq' \in Seq(Chunks) /\ Len(ureq') <= Len(ureq) /\ Len(ureq') \in Nat
        /\ In(ureq', appSent)
        /\ \A n \in Nat : Run(ureq, n) => Run(ureq', n)
    BY <1>1, <1>2, <1>3, <1>4, CutFacts, RunCut DEF TunnelIInv, UpBuffers, UpValues
  <1>7. HandlerScalars'
    BY <1>1, <1>2, <1>3
       DEF TunnelIInv, HandlerScalars
  <1>8. SocketScalars'
    BY <1>1, <1>2, <1>3
       DEF TunnelIInv, SocketScalars
  <1>9. UpBuffers'
    BY <1>1, <1>2, <1>3, <1>4, <1>6, TunnelAssumption
       DEF TunnelIInv, UpBuffers
  <1>10. Room'
    BY <1>1, <1>2, <1>3
       DEF TunnelIInv, Room, Done, HandlerScalars, GoScalars, Handling
  <1>11. Handling'
    BY <1>1, <1>2, <1>3
       DEF TunnelIInv, HandlerScalars, SocketScalars, GoScalars, Handling
  <1>12. UpValues'
    BY <1>1, <1>2, <1>3, <1>4, <1>6, InMore
       DEF TunnelIInv, UpBuffers, UpValues
  <1>13. UpChain'
    <2>1. upstream' = "closed"
      BY <1>1, <1>2, <1>3 DEF TunnelIInv, Handling
    <2>2. vm' = "open" => Run(ureq', Len(vmGot'))
      BY <1>1, <1>2, <1>3, <1>4, <1>5, <1>6 DEF TunnelIInv, UpChain
    <2>3. QED
      BY <2>1, <2>2 DEF UpChain
  <1>14. CleanOrder'
    BY <1>1, <1>2, <1>3, <1>6, EmptyIs
       DEF TunnelIInv, CleanOrder, Clean, Flags, Handling, Ends
  <1>15. LocalScalars' /\ GoScalars' /\ Flags' /\ Numbers' /\ DownBuffers' /\ Ends' /\
        DownValues' /\ DownChain' /\ CleanCount'
    BY <1>2, LocalScalarsFrame, GoScalarsFrame, FlagsFrame, NumbersFrame,
       DownBuffersFrame, EndsFrame, DownValuesFrame, DownChainFrame, CleanCountFrame DEF TunnelIInv
  <1>16. QED
    BY <1>7, <1>8, <1>9, <1>10, <1>11, <1>12, <1>13, <1>14, <1>15 DEF TunnelIInv

LEMMA ClientReadsKeeps ==
  ASSUME TunnelIInv, ClientReads
  PROVE  TunnelIInv'
  <1>1. /\ creader = "read" /\ chold = 0 /\ client = "open" /\ up # <<>>
        /\ chold' = Head(up) /\ up' = Tail(up)
    BY DEF ClientReads
  <1>2. UNCHANGED <<app, appSent, appGot, lreq, lrsp, lend, tunnel, ws, pending,
                    aborted, upEnd, down, downEnd, handler, creader, ureader, uhold,
                    results, watcher, client, upstream, vm, vmGot, vmSent, ureq, ursp,
                    lease, lost, late, slow>>
    BY DEF ClientReads
  <1>3. /\ Len(vmGot) \in Nat /\ Len(ureq) \in Nat /\ Len(up) \in Nat /\ Len(pending) \in Nat
        /\ Len(lreq) \in Nat /\ Held(chold) \in Nat /\ appSent \in Nat
    BY Lengths
  <1>4. /\ AtVm = Len(vmGot) + Len(ureq) /\ AtWrite = AtVm + Held(chold)
        /\ AtUp = AtWrite + Len(up) /\ AtPending = AtUp + Len(pending)
        /\ AtVm \in Nat /\ AtWrite \in Nat /\ AtUp \in Nat /\ AtPending \in Nat
    BY Lengths
  <1>5. up \in Seq(Chunks) /\ up # <<>> /\ up' = Tail(up) /\ In(up, appSent) /\ appSent \in Nat
    BY <1>1, <1>3 DEF TunnelIInv, UpBuffers, UpValues
  <1>6. /\ up' \in Seq(Chunks) /\ Len(up') = Len(up) - 1 /\ Len(up) \in Nat \ {0}
        /\ Head(up) \in Chunks /\ Head(up) \in 1..appSent /\ In(up', appSent)
        /\ \A n \in Nat : Run(up, n) => Head(up) = n + 1 /\ Run(up', n + 1)
    BY <1>5, TailFacts, RunTail
  <1>7. Held(chold) = 0 /\ Held(chold') = 1
    BY <1>1, <1>2, <1>3, <1>6 DEF Held
  <1>8. /\ AtVm' = Len(vmGot') + Len(ureq') /\ AtWrite' = AtVm' + Held(chold')
        /\ AtUp' = AtWrite' + Len(up') /\ AtPending' = AtUp' + Len(pending')
    BY DEF AtVm, AtWrite, AtUp, AtPending
  <1>9. /\ AtVm' = AtVm /\ AtWrite' = AtWrite + 1 /\ AtUp' = AtUp
        /\ AtPending' = AtPending
    <2>1. AtVm' = AtVm
      BY <1>8, <1>4, <1>2, <1>3
    <2>2. AtWrite' = AtWrite + 1
      BY <1>8, <1>4, <1>2, <1>7, <2>1
    <2>3. AtUp' = AtUp
      <3>1. AtUp' = AtWrite' + Len(up') /\ AtUp = AtWrite + Len(up)
        BY <1>8, <1>4
      <3>2. Len(up') = Len(up) - 1 /\ Len(up) \in Nat /\ AtWrite \in Nat
        BY <1>6, <1>4
      <3>3. (AtWrite + 1) + (Len(up) - 1) = AtWrite + Len(up)
        BY <3>2
      <3>4. QED
        BY <3>1, <3>2, <3>3, <2>2
    <2>4. AtPending' = AtPending
      BY <1>8, <1>4, <1>2, <1>3, <2>1, <2>2, <2>3
    <2>5. QED
      BY <2>1, <2>2, <2>3, <2>4
  <1>10. Numbers'
    BY <1>1, <1>2, <1>3, <1>6, TunnelAssumption
       DEF TunnelIInv, Numbers, Chunks
  <1>11. UpBuffers'
    BY <1>1, <1>2, <1>3, <1>6, TunnelAssumption
       DEF TunnelIInv, UpBuffers
  <1>12. Handling'
    BY <1>1, <1>2
       DEF TunnelIInv, HandlerScalars, SocketScalars, GoScalars, Handling
  <1>13. UpValues'
    BY <1>1, <1>2, <1>3, <1>6, InMore
       DEF TunnelIInv, UpBuffers, UpValues
  <1>14. UpChain'
    <2>1. vm' = "open" => Run(ureq', Len(vmGot'))
      BY <1>1, <1>2 DEF TunnelIInv, UpChain
    <2>2. ASSUME vm = "open", upstream # "closed"
          PROVE  (chold # 0 => chold = AtVm + 1) /\ Run(up, AtWrite)
      BY <2>2 DEF TunnelIInv, UpChain
    <2>3. ASSUME vm = "open", upstream # "closed", lost = FALSE, tunnel = "listed"
          PROVE  Run(pending, AtUp) /\ Run(lreq, AtPending) /\ appSent = AtPending + Len(lreq)
      BY <2>3 DEF TunnelIInv, UpChain
    <2>4. AtVm \in Nat /\ AtWrite \in Nat /\ AtUp \in Nat /\ AtPending \in Nat
      BY <1>4
    <2>5. ASSUME vm' = "open", upstream' # "closed"
          PROVE  chold' = AtVm' + 1 /\ Run(up', AtWrite')
      <3>1. Run(up, AtWrite)
        BY <2>5, <2>2, <1>2
      <3>2. Head(up) = AtWrite + 1 /\ Run(up', AtWrite + 1)
        BY <3>1, <2>4, <1>6
      <3>3. AtWrite = AtVm
        BY <2>4, <1>4, <1>7
      <3>4. QED
        BY <3>2, <3>3, <1>1, <1>9
    <2>6. ASSUME vm' = "open", upstream' # "closed", lost' = FALSE, tunnel' = "listed"
          PROVE  Run(pending', AtUp') /\ Run(lreq', AtPending') /\ appSent' = AtPending' + Len(lreq')
      BY <2>6, <2>3, <1>2, <1>9
    <2>7. QED
      BY <2>1, <2>5, <2>6 DEF UpChain
  <1>15. CleanOrder'
    BY <1>1, <1>2, <1>6, EmptyIs
       DEF TunnelIInv, CleanOrder, Clean, Flags, Handling, Ends
  <1>16. LocalScalars' /\ HandlerScalars' /\ SocketScalars' /\ GoScalars' /\ Flags' /\
        DownBuffers' /\ Room' /\ Ends' /\ DownValues' /\ DownChain' /\ CleanCount'
    BY <1>2, LocalScalarsFrame, HandlerScalarsFrame, SocketScalarsFrame, GoScalarsFrame,
       FlagsFrame, DownBuffersFrame, RoomFrame, EndsFrame, DownValuesFrame,
       DownChainFrame, CleanCountFrame DEF TunnelIInv
  <1>17. QED
    BY <1>10, <1>11, <1>12, <1>13, <1>14, <1>15, <1>16 DEF TunnelIInv

LEMMA ClientReadEndsKeeps ==
  ASSUME TunnelIInv, ClientReadEnds
  PROVE  TunnelIInv'
  <1>1. /\ creader = "read" /\ chold = 0
        /\ client = "closed" \/ (up = <<>> /\ upEnd = TRUE /\ lost = FALSE)
        /\ creader' = "done" /\ results' = Append(results, "client")
    BY DEF ClientReadEnds
  <1>2. UNCHANGED <<app, appSent, appGot, lreq, lrsp, lend, tunnel, ws, pending,
                    aborted, up, upEnd, down, downEnd, handler, chold, ureader, uhold,
                    watcher, client, upstream, vm, vmGot, vmSent, ureq, ursp, lease,
                    lost, late, slow>>
    BY DEF ClientReadEnds
  <1>3. /\ results' \in Seq({"client", "eof", "upstream"}) /\ Len(results') = Len(results) + 1
        /\ Len(results) \in Nat /\ results'[Len(results) + 1] = "client"
        /\ \A i \in 1..Len(results) : results'[i] = results[i]
    <2>1. results \in Seq({"client", "eof", "upstream"})
      BY DEF TunnelIInv, Room
    <2>2. "client" \in {"client", "eof", "upstream"}
      OBVIOUS
    <2>3. QED
      <3>1. results' = Append(results, "client")
        BY <1>1
      <3>2. QED
        BY <3>1, <2>1, <2>2, AppendFacts
  <1>4. GoScalars'
    BY <1>1, <1>2
       DEF TunnelIInv, GoScalars
  <1>5. Room'
    BY <1>1, <1>2, <1>3
       DEF TunnelIInv, Room, Done, HandlerScalars, GoScalars, Handling
  <1>6. Handling'
    BY <1>1, <1>2
       DEF TunnelIInv, HandlerScalars, SocketScalars, GoScalars, Handling
  <1>7. CleanOrder'
    BY <1>1, <1>2, <1>3
       DEF TunnelIInv, CleanOrder, Clean, Flags, Handling, Ends
  <1>8. LocalScalars' /\ HandlerScalars' /\ SocketScalars' /\ Flags' /\ Numbers' /\
        UpBuffers' /\ DownBuffers' /\ Ends' /\ UpValues' /\ DownValues' /\ UpChain' /\
        DownChain' /\ CleanCount'
    BY <1>2, LocalScalarsFrame, HandlerScalarsFrame, SocketScalarsFrame, FlagsFrame,
       NumbersFrame, UpBuffersFrame, DownBuffersFrame, EndsFrame, UpValuesFrame,
       DownValuesFrame, UpChainFrame, DownChainFrame, CleanCountFrame DEF TunnelIInv
  <1>9. QED
    BY <1>4, <1>5, <1>6, <1>7, <1>8 DEF TunnelIInv

LEMMA ClientWritesKeeps ==
  ASSUME TunnelIInv, ClientWrites
  PROVE  TunnelIInv'
  <1>1. /\ creader = "read" /\ chold # 0 /\ chold' = 0 /\ upstream = "open"
        /\ vm # "closed" /\ Len(ureq) < Window /\ ureq' = Append(ureq, chold)
    BY DEF ClientWrites
  <1>2. UNCHANGED <<app, appSent, appGot, lreq, lrsp, lend, tunnel, ws, pending,
                    aborted, up, upEnd, down, downEnd, handler, creader, ureader, uhold,
                    results, watcher, client, upstream, vm, vmGot, vmSent, ursp, lease,
                    lost, late, slow>>
    BY DEF ClientWrites
  <1>3. /\ Len(vmGot) \in Nat /\ Len(ureq) \in Nat /\ Len(up) \in Nat /\ Len(pending) \in Nat
        /\ Len(lreq) \in Nat /\ Held(chold) \in Nat /\ appSent \in Nat
    BY Lengths
  <1>4. /\ AtVm = Len(vmGot) + Len(ureq) /\ AtWrite = AtVm + Held(chold)
        /\ AtUp = AtWrite + Len(up) /\ AtPending = AtUp + Len(pending)
        /\ AtVm \in Nat /\ AtWrite \in Nat /\ AtUp \in Nat /\ AtPending \in Nat
    BY Lengths
  <1>5. chold \in Chunks /\ chold \in 1..appSent
    BY <1>1, <1>2, <1>3, TunnelAssumption DEF TunnelIInv, Numbers, UpValues, Chunks
  <1>6. /\ ureq \in Seq(Chunks) /\ Append(ureq, chold) \in Seq(Chunks)
        /\ Len(Append(ureq, chold)) = Len(ureq) + 1
        /\ \A n \in Nat : Run(ureq, n) /\ chold = n + Len(ureq) + 1 => Run(Append(ureq, chold), n)
    BY <1>5, AppendFacts, RunAppend DEF TunnelIInv, UpBuffers
  <1>7. In(Append(ureq, chold), appSent)
    BY <1>3, <1>5, <1>6, RunAppend DEF TunnelIInv, UpBuffers, UpValues
  <1>8. /\ ureq' \in Seq(Chunks) /\ Len(ureq') \in Nat /\ (Len(ureq') = Len(ureq) + 1) /\ In(ureq', appSent)
        /\ \A n \in Nat : (Run(ureq, n) /\ chold = n + Len(ureq) + 1 => Run(ureq', n))
    BY <1>1, <1>6, <1>7, <1>3 DEF TunnelIInv, UpBuffers, UpValues
  <1>9. Held(chold) = 1 /\ Held(chold') = 0
    BY <1>1, <1>2, <1>3, <1>5, <1>8 DEF Held
  <1>10. /\ AtVm' = Len(vmGot') + Len(ureq') /\ AtWrite' = AtVm' + Held(chold')
        /\ AtUp' = AtWrite' + Len(up') /\ AtPending' = AtUp' + Len(pending')
    BY DEF AtVm, AtWrite, AtUp, AtPending
  <1>11. /\ AtVm' = AtVm + 1 /\ AtWrite' = AtWrite /\ AtUp' = AtUp
        /\ AtPending' = AtPending
    <2>1. AtVm' = AtVm + 1
      BY <1>10, <1>4, <1>2, <1>5, <1>8, <1>3
    <2>2. AtWrite' = AtWrite
      BY <1>10, <1>4, <1>2, <1>9, <2>1
    <2>3. AtUp' = AtUp
      BY <1>10, <1>4, <1>2, <1>3, <2>1, <2>2
    <2>4. AtPending' = AtPending
      BY <1>10, <1>4, <1>2, <1>3, <2>1, <2>2, <2>3
    <2>5. QED
      BY <2>1, <2>2, <2>3, <2>4
  <1>12. Numbers'
    BY <1>1, <1>2, <1>3, <1>5, <1>8, TunnelAssumption
       DEF TunnelIInv, Numbers, Chunks
  <1>13. UpBuffers'
    BY <1>1, <1>2, <1>3, <1>5, <1>8, TunnelAssumption
       DEF TunnelIInv, UpBuffers
  <1>14. Handling'
    BY <1>1, <1>2
       DEF TunnelIInv, HandlerScalars, SocketScalars, GoScalars, Handling
  <1>15. UpValues'
    BY <1>1, <1>2, <1>3, <1>5, <1>8, InMore
       DEF TunnelIInv, UpBuffers, UpValues
  <1>16. UpChain'
    BY <1>1, <1>2, <1>3, <1>4, <1>5, <1>8, <1>11
       DEF TunnelIInv, UpChain, Ends
  <1>17. CleanOrder'
    BY <1>1, <1>2, <1>5, <1>8, EmptyIs
       DEF TunnelIInv, CleanOrder, Clean, Flags, Handling, Ends
  <1>18. LocalScalars' /\ HandlerScalars' /\ SocketScalars' /\ GoScalars' /\ Flags' /\
        DownBuffers' /\ Room' /\ Ends' /\ DownValues' /\ DownChain' /\ CleanCount'
    BY <1>2, LocalScalarsFrame, HandlerScalarsFrame, SocketScalarsFrame, GoScalarsFrame,
       FlagsFrame, DownBuffersFrame, RoomFrame, EndsFrame, DownValuesFrame,
       DownChainFrame, CleanCountFrame DEF TunnelIInv
  <1>19. QED
    BY <1>12, <1>13, <1>14, <1>15, <1>16, <1>17, <1>18 DEF TunnelIInv

LEMMA ClientWriteLostKeeps ==
  ASSUME TunnelIInv, ClientWriteLost
  PROVE  TunnelIInv'
  <1>1. /\ creader = "read" /\ chold # 0 /\ chold' = 0 /\ vm = "closed"
    BY DEF ClientWriteLost
  <1>2. UNCHANGED <<app, appSent, appGot, lreq, lrsp, lend, tunnel, ws, pending,
                    aborted, up, upEnd, down, downEnd, handler, creader, ureader, uhold,
                    results, watcher, client, upstream, vm, vmGot, vmSent, ureq, ursp,
                    lease, lost, late, slow>>
    BY DEF ClientWriteLost
  <1>3. /\ Len(vmGot) \in Nat /\ Len(ureq) \in Nat /\ Len(up) \in Nat /\ Len(pending) \in Nat
        /\ Len(lreq) \in Nat /\ Held(chold) \in Nat /\ appSent \in Nat
    BY Lengths
  <1>4. /\ AtVm = Len(vmGot) + Len(ureq) /\ AtWrite = AtVm + Held(chold)
        /\ AtUp = AtWrite + Len(up) /\ AtPending = AtUp + Len(pending)
        /\ AtVm \in Nat /\ AtWrite \in Nat /\ AtUp \in Nat /\ AtPending \in Nat
    BY Lengths
  <1>5. Held(chold) = 1 /\ Held(chold') = 0
    BY <1>1, <1>2, <1>3 DEF Held
  <1>6. /\ AtVm' = Len(vmGot') + Len(ureq') /\ AtWrite' = AtVm' + Held(chold')
        /\ AtUp' = AtWrite' + Len(up') /\ AtPending' = AtUp' + Len(pending')
    BY DEF AtVm, AtWrite, AtUp, AtPending
  <1>7. /\ AtVm' = AtVm
    <2>1. AtVm' = AtVm
      BY <1>6, <1>4, <1>2, <1>3
    <2>2. QED
      BY <2>1
  <1>8. Numbers'
    BY <1>1, <1>2, <1>3, TunnelAssumption
       DEF TunnelIInv, Numbers, Chunks
  <1>9. Handling'
    BY <1>1, <1>2
       DEF TunnelIInv, HandlerScalars, SocketScalars, GoScalars, Handling
  <1>10. UpValues'
    BY <1>1, <1>2, <1>3, InMore
       DEF TunnelIInv, UpBuffers, UpValues
  <1>11. UpChain'
    BY <1>1, <1>2, <1>3, <1>4, <1>7
       DEF TunnelIInv, UpChain, Ends
  <1>12. CleanOrder'
    BY <1>1, <1>2
       DEF TunnelIInv, CleanOrder, Clean, Flags, Handling, Ends
  <1>13. LocalScalars' /\ HandlerScalars' /\ SocketScalars' /\ GoScalars' /\ Flags' /\
        UpBuffers' /\ DownBuffers' /\ Room' /\ Ends' /\ DownValues' /\ DownChain' /\
        CleanCount'
    BY <1>2, LocalScalarsFrame, HandlerScalarsFrame, SocketScalarsFrame, GoScalarsFrame,
       FlagsFrame, UpBuffersFrame, DownBuffersFrame, RoomFrame, EndsFrame,
       DownValuesFrame, DownChainFrame, CleanCountFrame DEF TunnelIInv
  <1>14. QED
    BY <1>8, <1>9, <1>10, <1>11, <1>12, <1>13 DEF TunnelIInv

LEMMA ClientWriteFailsKeeps ==
  ASSUME TunnelIInv, ClientWriteFails
  PROVE  TunnelIInv'
  <1>1. /\ creader = "read" /\ chold # 0 /\ chold' = 0
        /\ (upstream = "closed" \/ vm = "closed") /\ creader' = "done"
        /\ results' = Append(results, "client")
    BY DEF ClientWriteFails
  <1>2. UNCHANGED <<app, appSent, appGot, lreq, lrsp, lend, tunnel, ws, pending,
                    aborted, up, upEnd, down, downEnd, handler, ureader, uhold, watcher,
                    client, upstream, vm, vmGot, vmSent, ureq, ursp, lease, lost, late,
                    slow>>
    BY DEF ClientWriteFails
  <1>3. /\ Len(vmGot) \in Nat /\ Len(ureq) \in Nat /\ Len(up) \in Nat /\ Len(pending) \in Nat
        /\ Len(lreq) \in Nat /\ Held(chold) \in Nat /\ appSent \in Nat
    BY Lengths
  <1>4. /\ AtVm = Len(vmGot) + Len(ureq) /\ AtWrite = AtVm + Held(chold)
        /\ AtUp = AtWrite + Len(up) /\ AtPending = AtUp + Len(pending)
        /\ AtVm \in Nat /\ AtWrite \in Nat /\ AtUp \in Nat /\ AtPending \in Nat
    BY Lengths
  <1>5. /\ results' \in Seq({"client", "eof", "upstream"}) /\ Len(results') = Len(results) + 1
        /\ Len(results) \in Nat /\ results'[Len(results) + 1] = "client"
        /\ \A i \in 1..Len(results) : results'[i] = results[i]
    <2>1. results \in Seq({"client", "eof", "upstream"})
      BY DEF TunnelIInv, Room
    <2>2. "client" \in {"client", "eof", "upstream"}
      OBVIOUS
    <2>3. QED
      <3>1. results' = Append(results, "client")
        BY <1>1
      <3>2. QED
        BY <3>1, <2>1, <2>2, AppendFacts
  <1>6. /\ AtVm' = Len(vmGot') + Len(ureq') /\ AtWrite' = AtVm' + Held(chold')
        /\ AtUp' = AtWrite' + Len(up') /\ AtPending' = AtUp' + Len(pending')
    BY DEF AtVm, AtWrite, AtUp, AtPending
  <1>7. /\ AtVm' = AtVm
    <2>1. AtVm' = AtVm
      BY <1>6, <1>4, <1>2, <1>3
    <2>2. QED
      BY <2>1
  <1>8. GoScalars'
    BY <1>1, <1>2
       DEF TunnelIInv, GoScalars
  <1>9. Numbers'
    BY <1>1, <1>2, <1>3, TunnelAssumption
       DEF TunnelIInv, Numbers, Chunks
  <1>10. Room'
    BY <1>1, <1>2, <1>5
       DEF TunnelIInv, Room, Done, HandlerScalars, GoScalars, Handling
  <1>11. Handling'
    BY <1>1, <1>2
       DEF TunnelIInv, HandlerScalars, SocketScalars, GoScalars, Handling
  <1>12. UpValues'
    BY <1>1, <1>2, <1>3, InMore
       DEF TunnelIInv, UpBuffers, UpValues
  <1>13. UpChain'
    BY <1>1, <1>2, <1>3, <1>4, <1>7
       DEF TunnelIInv, UpChain, Ends
  <1>14. CleanOrder'
    BY <1>1, <1>2, <1>5
       DEF TunnelIInv, CleanOrder, Clean, Flags, Handling, Ends
  <1>15. LocalScalars' /\ HandlerScalars' /\ SocketScalars' /\ Flags' /\ UpBuffers' /\
        DownBuffers' /\ Ends' /\ DownValues' /\ DownChain' /\ CleanCount'
    BY <1>2, LocalScalarsFrame, HandlerScalarsFrame, SocketScalarsFrame, FlagsFrame,
       UpBuffersFrame, DownBuffersFrame, EndsFrame, DownValuesFrame, DownChainFrame,
       CleanCountFrame DEF TunnelIInv
  <1>16. QED
    BY <1>8, <1>9, <1>10, <1>11, <1>12, <1>13, <1>14, <1>15 DEF TunnelIInv

LEMMA UpstreamReadsKeeps ==
  ASSUME TunnelIInv, UpstreamReads
  PROVE  TunnelIInv'
  <1>1. /\ ureader = "read" /\ uhold = 0 /\ upstream = "open" /\ ursp # <<>>
        /\ uhold' = Head(ursp) /\ ursp' = Tail(ursp)
    BY DEF UpstreamReads
  <1>2. UNCHANGED <<app, appSent, appGot, lreq, lrsp, lend, tunnel, ws, pending,
                    aborted, up, upEnd, down, downEnd, handler, creader, chold, ureader,
                    results, watcher, client, upstream, vm, vmGot, vmSent, ureq, lease,
                    lost, late, slow>>
    BY DEF UpstreamReads
  <1>3. /\ Len(appGot) \in Nat /\ Len(lrsp) \in Nat /\ Len(down) \in Nat /\ Len(ursp) \in Nat
        /\ Held(uhold) \in Nat /\ vmSent \in Nat
    BY Lengths
  <1>4. /\ AtApp = Len(appGot) + Len(lrsp) /\ AtDown = AtApp + Len(down)
        /\ AtRead = AtDown + Held(uhold)
        /\ AtApp \in Nat /\ AtDown \in Nat /\ AtRead \in Nat
    BY Lengths
  <1>5. ursp \in Seq(Chunks) /\ ursp # <<>> /\ ursp' = Tail(ursp) /\ In(ursp, vmSent) /\ vmSent \in Nat
    BY <1>1, <1>3 DEF TunnelIInv, DownBuffers, DownValues
  <1>6. /\ ursp' \in Seq(Chunks) /\ Len(ursp') = Len(ursp) - 1 /\ Len(ursp) \in Nat \ {0}
        /\ Head(ursp) \in Chunks /\ Head(ursp) \in 1..vmSent /\ In(ursp', vmSent)
        /\ \A n \in Nat : Run(ursp, n) => Head(ursp) = n + 1 /\ Run(ursp', n + 1)
    BY <1>5, TailFacts, RunTail
  <1>7. Held(uhold) = 0 /\ Held(uhold') = 1
    BY <1>1, <1>2, <1>3, <1>6 DEF Held
  <1>8. /\ AtApp' = Len(appGot') + Len(lrsp') /\ AtDown' = AtApp' + Len(down')
        /\ AtRead' = AtDown' + Held(uhold')
    BY DEF AtApp, AtDown, AtRead
  <1>9. /\ AtApp' = AtApp /\ AtDown' = AtDown /\ AtRead' = AtRead + 1
    <2>1. AtApp' = AtApp
      BY <1>8, <1>4, <1>2, <1>3
    <2>2. AtDown' = AtDown
      BY <1>8, <1>4, <1>2, <1>3, <2>1
    <2>3. AtRead' = AtRead + 1
      BY <1>8, <1>4, <1>2, <1>7, <2>1, <2>2
    <2>4. QED
      BY <2>1, <2>2, <2>3
  <1>10. Numbers'
    BY <1>1, <1>2, <1>3, <1>6, TunnelAssumption
       DEF TunnelIInv, Numbers, Chunks
  <1>11. DownBuffers'
    BY <1>1, <1>2, <1>3, <1>6, TunnelAssumption
       DEF TunnelIInv, DownBuffers
  <1>12. Handling'
    BY <1>1, <1>2
       DEF TunnelIInv, HandlerScalars, SocketScalars, GoScalars, Handling
  <1>13. DownValues'
    BY <1>1, <1>2, <1>3, <1>6, InMore
       DEF TunnelIInv, DownBuffers, DownValues
  <1>14. DownChain'
    <2>1. app' = "open" => Run(lrsp', Len(appGot'))
      BY <1>1, <1>2 DEF TunnelIInv, DownChain
    <2>2. ASSUME app = "open", tunnel = "listed"
          PROVE  Run(down, AtApp)
      BY <2>2 DEF TunnelIInv, DownChain
    <2>3. ASSUME app = "open", tunnel = "listed", lost = FALSE, client # "closed"
          PROVE  uhold # 0 => uhold = AtDown + 1
      BY <2>3 DEF TunnelIInv, DownChain
    <2>4. ASSUME app = "open", tunnel = "listed", lost = FALSE, client # "closed", ureader # "done"
          PROVE  Run(ursp, AtRead) /\ vmSent = AtRead + Len(ursp)
      BY <2>4 DEF TunnelIInv, DownChain
    <2>5. AtApp \in Nat /\ AtDown \in Nat /\ AtRead \in Nat
      BY <1>4
    <2>6. ASSUME app' = "open", tunnel' = "listed"
          PROVE  Run(down', AtApp')
      BY <2>6, <2>2, <1>2, <1>9
    <2>7. ASSUME app' = "open", tunnel' = "listed", lost' = FALSE, client' # "closed"
          PROVE  uhold' = AtDown' + 1
      <3>1. Run(ursp, AtRead)
        BY <2>7, <2>4, <1>1, <1>2
      <3>2. Head(ursp) = AtRead + 1
        BY <3>1, <2>5, <1>6
      <3>3. AtRead = AtDown
        BY <2>5, <1>4, <1>7
      <3>4. QED
        BY <3>2, <3>3, <1>1, <1>2, <1>9
    <2>8. ASSUME app' = "open", tunnel' = "listed", lost' = FALSE, client' # "closed", ureader' # "done"
          PROVE  Run(ursp', AtRead') /\ vmSent' = AtRead' + Len(ursp')
      <3>1. Run(ursp, AtRead) /\ vmSent = AtRead + Len(ursp)
        BY <2>8, <2>4, <1>2
      <3>2. Run(ursp', AtRead + 1)
        BY <3>1, <2>5, <1>6
      <3>3. Len(ursp') = Len(ursp) - 1 /\ Len(ursp) \in Nat
        BY <1>6
      <3>4. AtRead + Len(ursp) = (AtRead + 1) + (Len(ursp) - 1)
        BY <3>3, <2>5
      <3>5. QED
        BY <3>1, <3>2, <3>3, <3>4, <1>2, <1>9
    <2>9. QED
      BY <2>1, <2>6, <2>7, <2>8 DEF DownChain
  <1>15. CleanOrder'
    BY <1>1, <1>2, EmptyIs
       DEF TunnelIInv, CleanOrder, Clean, Flags, Handling, Ends
  <1>16. CleanCount'
    BY <1>1, <1>2, <1>3, <1>4, <1>6, <1>9
       DEF TunnelIInv, CleanCount, CleanOrder, Clean, Flags, Handling, Ends
  <1>17. LocalScalars' /\ HandlerScalars' /\ SocketScalars' /\ GoScalars' /\ Flags' /\
        UpBuffers' /\ Room' /\ Ends' /\ UpValues' /\ UpChain'
    BY <1>2, LocalScalarsFrame, HandlerScalarsFrame, SocketScalarsFrame, GoScalarsFrame,
       FlagsFrame, UpBuffersFrame, RoomFrame, EndsFrame, UpValuesFrame, UpChainFrame DEF TunnelIInv
  <1>18. QED
    BY <1>10, <1>11, <1>12, <1>13, <1>14, <1>15, <1>16, <1>17 DEF TunnelIInv

LEMMA UpstreamEndsKeeps ==
  ASSUME TunnelIInv, UpstreamEnds
  PROVE  TunnelIInv'
  <1>1. /\ ureader = "read" /\ uhold = 0 /\ upstream = "open" /\ ursp = <<>>
        /\ vm = "closed"
        /\ \E r \in {"eof"} \union (IF late THEN {"upstream"} ELSE {}) : results' = Append(results, r)
        /\ ureader' = "done"
    BY DEF UpstreamEnds
  <1>2. UNCHANGED <<app, appSent, appGot, lreq, lrsp, lend, tunnel, ws, pending,
                    aborted, up, upEnd, down, downEnd, handler, creader, chold, uhold,
                    watcher, client, upstream, vm, vmGot, vmSent, ureq, ursp, lease,
                    lost, late, slow>>
    BY DEF UpstreamEnds
  <1>3. /\ Len(appGot) \in Nat /\ Len(lrsp) \in Nat /\ Len(down) \in Nat /\ Len(ursp) \in Nat
        /\ Held(uhold) \in Nat /\ vmSent \in Nat
    BY Lengths
  <1>4. /\ AtApp = Len(appGot) + Len(lrsp) /\ AtDown = AtApp + Len(down)
        /\ AtRead = AtDown + Held(uhold)
        /\ AtApp \in Nat /\ AtDown \in Nat /\ AtRead \in Nat
    BY Lengths
  <1>5. PICK r \in {"client", "eof", "upstream"} :
          /\ results' = Append(results, r) /\ (late = FALSE => r = "eof")
    BY <1>1
  <1>6. /\ results' \in Seq({"client", "eof", "upstream"}) /\ Len(results') = Len(results) + 1
        /\ Len(results) \in Nat /\ results'[Len(results) + 1] = r
        /\ \A i \in 1..Len(results) : results'[i] = results[i]
    <2>1. results \in Seq({"client", "eof", "upstream"})
      BY DEF TunnelIInv, Room
    <2>2. r \in {"client", "eof", "upstream"}
      OBVIOUS
    <2>3. QED
      <3>1. results' = Append(results, r)
        BY <1>5
      <3>2. QED
        BY <3>1, <2>1, <2>2, AppendFacts
  <1>7. /\ AtApp' = Len(appGot') + Len(lrsp') /\ AtDown' = AtApp' + Len(down')
        /\ AtRead' = AtDown' + Held(uhold')
    BY DEF AtApp, AtDown, AtRead
  <1>8. /\ AtApp' = AtApp /\ AtDown' = AtDown /\ AtRead' = AtRead
    <2>1. AtApp' = AtApp
      BY <1>7, <1>4, <1>2, <1>3
    <2>2. AtDown' = AtDown
      BY <1>7, <1>4, <1>2, <1>3, <2>1
    <2>3. AtRead' = AtRead
      BY <1>7, <1>4, <1>2, <1>3, <2>1, <2>2
    <2>4. QED
      BY <2>1, <2>2, <2>3
  <1>9. GoScalars'
    BY <1>1, <1>2
       DEF TunnelIInv, GoScalars
  <1>10. Room'
    BY <1>1, <1>2, <1>5, <1>6
       DEF TunnelIInv, Room, Done, HandlerScalars, GoScalars, Handling
  <1>11. Handling'
    BY <1>1, <1>2
       DEF TunnelIInv, HandlerScalars, SocketScalars, GoScalars, Handling
  <1>12. DownChain'
    BY <1>1, <1>2, <1>3, <1>4, <1>8
       DEF TunnelIInv, DownChain, Ends, Handling
  <1>13. CleanOrder'
    BY <1>1, <1>2, <1>5, <1>6
       DEF TunnelIInv, CleanOrder, Clean, Flags, Handling, Ends
  <1>14. LocalScalars' /\ HandlerScalars' /\ SocketScalars' /\ Flags' /\ Numbers' /\
        UpBuffers' /\ DownBuffers' /\ Ends' /\ UpValues' /\ DownValues' /\ UpChain' /\
        CleanCount'
    BY <1>2, LocalScalarsFrame, HandlerScalarsFrame, SocketScalarsFrame, FlagsFrame,
       NumbersFrame, UpBuffersFrame, DownBuffersFrame, EndsFrame, UpValuesFrame,
       DownValuesFrame, UpChainFrame, CleanCountFrame DEF TunnelIInv
  <1>15. QED
    BY <1>9, <1>10, <1>11, <1>12, <1>13, <1>14 DEF TunnelIInv

LEMMA UpstreamBreaksKeeps ==
  ASSUME TunnelIInv, UpstreamBreaks
  PROVE  TunnelIInv'
  <1>1. /\ ureader = "read" /\ uhold = 0 /\ upstream = "closed" /\ ureader' = "done"
        /\ results' = Append(results, "upstream")
    BY DEF UpstreamBreaks
  <1>2. UNCHANGED <<app, appSent, appGot, lreq, lrsp, lend, tunnel, ws, pending,
                    aborted, up, upEnd, down, downEnd, handler, creader, chold, uhold,
                    watcher, client, upstream, vm, vmGot, vmSent, ureq, ursp, lease,
                    lost, late, slow>>
    BY DEF UpstreamBreaks
  <1>3. /\ Len(appGot) \in Nat /\ Len(lrsp) \in Nat /\ Len(down) \in Nat /\ Len(ursp) \in Nat
        /\ Held(uhold) \in Nat /\ vmSent \in Nat
    BY Lengths
  <1>4. /\ AtApp = Len(appGot) + Len(lrsp) /\ AtDown = AtApp + Len(down)
        /\ AtRead = AtDown + Held(uhold)
        /\ AtApp \in Nat /\ AtDown \in Nat /\ AtRead \in Nat
    BY Lengths
  <1>5. /\ results' \in Seq({"client", "eof", "upstream"}) /\ Len(results') = Len(results) + 1
        /\ Len(results) \in Nat /\ results'[Len(results) + 1] = "upstream"
        /\ \A i \in 1..Len(results) : results'[i] = results[i]
    <2>1. results \in Seq({"client", "eof", "upstream"})
      BY DEF TunnelIInv, Room
    <2>2. "upstream" \in {"client", "eof", "upstream"}
      OBVIOUS
    <2>3. QED
      <3>1. results' = Append(results, "upstream")
        BY <1>1
      <3>2. QED
        BY <3>1, <2>1, <2>2, AppendFacts
  <1>6. /\ AtApp' = Len(appGot') + Len(lrsp') /\ AtDown' = AtApp' + Len(down')
        /\ AtRead' = AtDown' + Held(uhold')
    BY DEF AtApp, AtDown, AtRead
  <1>7. /\ AtApp' = AtApp /\ AtDown' = AtDown /\ AtRead' = AtRead
    <2>1. AtApp' = AtApp
      BY <1>6, <1>4, <1>2, <1>3
    <2>2. AtDown' = AtDown
      BY <1>6, <1>4, <1>2, <1>3, <2>1
    <2>3. AtRead' = AtRead
      BY <1>6, <1>4, <1>2, <1>3, <2>1, <2>2
    <2>4. QED
      BY <2>1, <2>2, <2>3
  <1>8. GoScalars'
    BY <1>1, <1>2
       DEF TunnelIInv, GoScalars
  <1>9. Room'
    BY <1>1, <1>2, <1>5
       DEF TunnelIInv, Room, Done, HandlerScalars, GoScalars, Handling
  <1>10. Handling'
    BY <1>1, <1>2
       DEF TunnelIInv, HandlerScalars, SocketScalars, GoScalars, Handling
  <1>11. DownChain'
    BY <1>1, <1>2, <1>3, <1>4, <1>7
       DEF TunnelIInv, DownChain, Ends, Handling
  <1>12. CleanOrder'
    BY <1>1, <1>2, <1>5
       DEF TunnelIInv, CleanOrder, Clean, Flags, Handling, Ends
  <1>13. LocalScalars' /\ HandlerScalars' /\ SocketScalars' /\ Flags' /\ Numbers' /\
        UpBuffers' /\ DownBuffers' /\ Ends' /\ UpValues' /\ DownValues' /\ UpChain' /\
        CleanCount'
    BY <1>2, LocalScalarsFrame, HandlerScalarsFrame, SocketScalarsFrame, FlagsFrame,
       NumbersFrame, UpBuffersFrame, DownBuffersFrame, EndsFrame, UpValuesFrame,
       DownValuesFrame, UpChainFrame, CleanCountFrame DEF TunnelIInv
  <1>14. QED
    BY <1>8, <1>9, <1>10, <1>11, <1>12, <1>13 DEF TunnelIInv

LEMMA UpstreamWritesKeeps ==
  ASSUME TunnelIInv, UpstreamWrites
  PROVE  TunnelIInv'
  <1>1. /\ ureader = "read" /\ uhold # 0 /\ uhold' = 0 /\ client = "open"
        /\ Len(down) < Window /\ down' = Sent(down, <<uhold>>)
    BY DEF UpstreamWrites
  <1>2. UNCHANGED <<app, appSent, appGot, lreq, lrsp, lend, tunnel, ws, pending,
                    aborted, up, upEnd, downEnd, handler, creader, chold, ureader,
                    results, watcher, client, upstream, vm, vmGot, vmSent, ureq, ursp,
                    lease, lost, late, slow>>
    BY DEF UpstreamWrites
  <1>3. /\ Len(appGot) \in Nat /\ Len(lrsp) \in Nat /\ Len(down) \in Nat /\ Len(ursp) \in Nat
        /\ Held(uhold) \in Nat /\ vmSent \in Nat
    BY Lengths
  <1>4. /\ AtApp = Len(appGot) + Len(lrsp) /\ AtDown = AtApp + Len(down)
        /\ AtRead = AtDown + Held(uhold)
        /\ AtApp \in Nat /\ AtDown \in Nat /\ AtRead \in Nat
    BY Lengths
  <1>5. uhold \in Chunks /\ uhold \in 1..vmSent
    BY <1>1, <1>2, <1>3, TunnelAssumption DEF TunnelIInv, Numbers, DownValues, Chunks
  <1>6. /\ lost = TRUE => down' = down
        /\ lost = FALSE => down' = Append(down, uhold)
    BY <1>1, <1>5, SentFacts DEF TunnelIInv, DownBuffers, Flags
  <1>7. /\ down \in Seq(Chunks) /\ Append(down, uhold) \in Seq(Chunks)
        /\ Len(Append(down, uhold)) = Len(down) + 1
        /\ \A n \in Nat : Run(down, n) /\ uhold = n + Len(down) + 1 => Run(Append(down, uhold), n)
    BY <1>5, AppendFacts, RunAppend DEF TunnelIInv, DownBuffers
  <1>8. In(Append(down, uhold), vmSent)
    BY <1>3, <1>5, <1>7, RunAppend DEF TunnelIInv, DownBuffers, DownValues
  <1>9. /\ down' \in Seq(Chunks) /\ Len(down') \in Nat /\ (lost = FALSE => Len(down') = Len(down) + 1) /\ In(down', vmSent)
        /\ \A n \in Nat : lost = FALSE => (Run(down, n) /\ uhold = n + Len(down) + 1 => Run(down', n))
    <2>1. CASE lost = TRUE
      BY <2>1, <1>6, <1>7, <1>3 DEF TunnelIInv, DownBuffers, DownValues
    <2>2. CASE lost = FALSE
      <3>1. down' = Append(down, uhold)
        BY <2>2, <1>6
      <3>2. QED
        BY <2>2, <3>1, <1>7, <1>8, <1>3
    <2>3. QED
      BY <2>1, <2>2 DEF TunnelIInv, Flags
  <1>10. Held(uhold) = 1 /\ Held(uhold') = 0
    BY <1>1, <1>2, <1>3, <1>6, <1>5, <1>9 DEF Held
  <1>11. /\ AtApp' = Len(appGot') + Len(lrsp') /\ AtDown' = AtApp' + Len(down')
        /\ AtRead' = AtDown' + Held(uhold')
    BY DEF AtApp, AtDown, AtRead
  <1>12. /\ AtApp' = AtApp /\ (lost = FALSE => AtDown' = AtDown + 1)
        /\ (lost = FALSE => AtRead' = AtRead)
    <2>1. AtApp' = AtApp
      BY <1>11, <1>4, <1>2, <1>3
    <2>2. lost = FALSE => AtDown' = AtDown + 1
      BY <1>11, <1>4, <1>2, <1>6, <1>5, <1>9, <2>1
    <2>3. lost = FALSE => AtRead' = AtRead
      BY <1>11, <1>4, <1>2, <1>10, <2>1, <2>2
    <2>4. QED
      BY <2>1, <2>2, <2>3
  <1>13. Numbers'
    BY <1>1, <1>2, <1>3, <1>6, <1>5, <1>9, TunnelAssumption
       DEF TunnelIInv, Numbers, Chunks
  <1>14. DownBuffers'
    BY <1>1, <1>2, <1>3, <1>6, <1>5, <1>9, TunnelAssumption
       DEF TunnelIInv, DownBuffers
  <1>15. Handling'
    BY <1>1, <1>2
       DEF TunnelIInv, HandlerScalars, SocketScalars, GoScalars, Handling
  <1>16. DownValues'
    BY <1>1, <1>2, <1>3, <1>6, <1>5, <1>9, InMore
       DEF TunnelIInv, DownBuffers, DownValues
  <1>17. DownChain'
    <2>1. app' = "open" => Run(lrsp', Len(appGot'))
      BY <1>1, <1>2 DEF TunnelIInv, DownChain
    <2>2. ASSUME app = "open", tunnel = "listed"
          PROVE  Run(down, AtApp)
      BY <2>2 DEF TunnelIInv, DownChain
    <2>3. ASSUME app = "open", tunnel = "listed", lost = FALSE, client # "closed"
          PROVE  uhold # 0 => uhold = AtDown + 1
      BY <2>3 DEF TunnelIInv, DownChain
    <2>4. ASSUME app = "open", tunnel = "listed", lost = FALSE, client # "closed", ureader # "done"
          PROVE  Run(ursp, AtRead) /\ vmSent = AtRead + Len(ursp)
      BY <2>4 DEF TunnelIInv, DownChain
    <2>5. AtApp \in Nat /\ AtDown \in Nat /\ AtRead \in Nat
      BY <1>4
    <2>6. ASSUME app' = "open", tunnel' = "listed"
          PROVE  Run(down', AtApp')
      <3>1. Run(down, AtApp) /\ AtApp' = AtApp
        BY <2>6, <2>2, <1>2, <1>12
      <3>2. CASE lost = TRUE
        <4>1. down' = down
          BY <3>2, <1>6, <1>5, <1>9
        <4>2. QED
          BY <3>1, <4>1
      <3>3. CASE lost = FALSE
        <4>1. uhold = AtDown + 1
          BY <3>3, <2>6, <2>3, <1>1, <1>2
        <4>2. AtDown = AtApp + Len(down)
          BY <1>4
        <4>3. QED
          BY <3>1, <3>3, <4>1, <4>2, <2>5, <1>6, <1>5, <1>9
      <3>4. QED
        BY <3>2, <3>3 DEF TunnelIInv, Flags
    <2>7. ASSUME app' = "open", tunnel' = "listed", lost' = FALSE, client' # "closed", ureader' # "done"
          PROVE  Run(ursp', AtRead') /\ vmSent' = AtRead' + Len(ursp')
      BY <2>7, <2>4, <1>2, <1>12
    <2>8. QED
      BY <2>1, <2>6, <2>7, <1>1 DEF DownChain
  <1>18. CleanOrder'
    BY <1>1, <1>2, EmptyIs
       DEF TunnelIInv, CleanOrder, Clean, Flags, Handling, Ends
  <1>19. CleanCount'
    BY <1>1, <1>2, <1>3, <1>4, <1>6, <1>5, <1>9, <1>12
       DEF TunnelIInv, CleanCount, CleanOrder, Clean, Flags, Handling, Ends
  <1>20. LocalScalars' /\ HandlerScalars' /\ SocketScalars' /\ GoScalars' /\ Flags' /\
        UpBuffers' /\ Room' /\ Ends' /\ UpValues' /\ UpChain'
    BY <1>2, LocalScalarsFrame, HandlerScalarsFrame, SocketScalarsFrame, GoScalarsFrame,
       FlagsFrame, UpBuffersFrame, RoomFrame, EndsFrame, UpValuesFrame, UpChainFrame DEF TunnelIInv
  <1>21. QED
    BY <1>13, <1>14, <1>15, <1>16, <1>17, <1>18, <1>19, <1>20 DEF TunnelIInv

LEMMA UpstreamWriteFailsKeeps ==
  ASSUME TunnelIInv, UpstreamWriteFails
  PROVE  TunnelIInv'
  <1>1. /\ ureader = "read" /\ uhold # 0 /\ uhold' = 0
        /\ (client = "closed" \/ upEnd = TRUE \/ Len(down) = Window)
        /\ ureader' = "done" /\ results' = Append(results, "upstream")
        /\ slow' = (slow \/ Len(down) = Window)
    BY DEF UpstreamWriteFails
  <1>2. UNCHANGED <<app, appSent, appGot, lreq, lrsp, lend, tunnel, ws, pending,
                    aborted, up, upEnd, down, downEnd, handler, creader, chold, watcher,
                    client, upstream, vm, vmGot, vmSent, ureq, ursp, lease, lost, late>>
    BY DEF UpstreamWriteFails
  <1>3. /\ Len(appGot) \in Nat /\ Len(lrsp) \in Nat /\ Len(down) \in Nat /\ Len(ursp) \in Nat
        /\ Held(uhold) \in Nat /\ vmSent \in Nat
    BY Lengths
  <1>4. /\ AtApp = Len(appGot) + Len(lrsp) /\ AtDown = AtApp + Len(down)
        /\ AtRead = AtDown + Held(uhold)
        /\ AtApp \in Nat /\ AtDown \in Nat /\ AtRead \in Nat
    BY Lengths
  <1>5. /\ results' \in Seq({"client", "eof", "upstream"}) /\ Len(results') = Len(results) + 1
        /\ Len(results) \in Nat /\ results'[Len(results) + 1] = "upstream"
        /\ \A i \in 1..Len(results) : results'[i] = results[i]
    <2>1. results \in Seq({"client", "eof", "upstream"})
      BY DEF TunnelIInv, Room
    <2>2. "upstream" \in {"client", "eof", "upstream"}
      OBVIOUS
    <2>3. QED
      <3>1. results' = Append(results, "upstream")
        BY <1>1
      <3>2. QED
        BY <3>1, <2>1, <2>2, AppendFacts
  <1>6. slow' \in BOOLEAN /\ (slow' = FALSE => slow = FALSE /\ ~(Len(down) = Window))
    BY <1>1 DEF TunnelIInv, Flags
  <1>7. Held(uhold) = 1 /\ Held(uhold') = 0
    BY <1>1, <1>2, <1>6, <1>3 DEF Held
  <1>8. /\ AtApp' = Len(appGot') + Len(lrsp') /\ AtDown' = AtApp' + Len(down')
        /\ AtRead' = AtDown' + Held(uhold')
    BY DEF AtApp, AtDown, AtRead
  <1>9. /\ AtApp' = AtApp /\ AtDown' = AtDown
    <2>1. AtApp' = AtApp
      BY <1>8, <1>4, <1>2, <1>3
    <2>2. AtDown' = AtDown
      BY <1>8, <1>4, <1>2, <1>3, <2>1
    <2>3. QED
      BY <2>1, <2>2
  <1>10. GoScalars'
    BY <1>1, <1>2, <1>6
       DEF TunnelIInv, GoScalars
  <1>11. Flags'
    BY <1>1, <1>2, <1>6
       DEF TunnelIInv, Flags
  <1>12. Numbers'
    BY <1>1, <1>2, <1>6, <1>3, TunnelAssumption
       DEF TunnelIInv, Numbers, Chunks
  <1>13. Room'
    BY <1>1, <1>2, <1>6, <1>5
       DEF TunnelIInv, Room, Done, HandlerScalars, GoScalars, Handling
  <1>14. Handling'
    BY <1>1, <1>2, <1>6
       DEF TunnelIInv, HandlerScalars, SocketScalars, GoScalars, Handling
  <1>15. DownValues'
    BY <1>1, <1>2, <1>6, <1>3, InMore
       DEF TunnelIInv, DownBuffers, DownValues
  <1>16. DownChain'
    BY <1>1, <1>2, <1>6, <1>3, <1>4, <1>9
       DEF TunnelIInv, DownChain, Ends, Handling
  <1>17. CleanOrder'
    BY <1>1, <1>2, <1>6, <1>5
       DEF TunnelIInv, CleanOrder, Clean, Flags, Handling, Ends
  <1>18. CleanCount'
    BY <1>1, <1>2, <1>6, <1>3, <1>4, <1>9
       DEF TunnelIInv, CleanCount, CleanOrder, Clean, Flags, Handling, Ends
  <1>19. LocalScalars' /\ HandlerScalars' /\ SocketScalars' /\ UpBuffers' /\
        DownBuffers' /\ Ends' /\ UpValues' /\ UpChain'
    BY <1>2, LocalScalarsFrame, HandlerScalarsFrame, SocketScalarsFrame, UpBuffersFrame,
       DownBuffersFrame, EndsFrame, UpValuesFrame, UpChainFrame DEF TunnelIInv
  <1>20. QED
    BY <1>10, <1>11, <1>12, <1>13, <1>14, <1>15, <1>16, <1>17, <1>18, <1>19 DEF TunnelIInv

LEMMA SendsCloseKeeps ==
  ASSUME TunnelIInv, SendsClose
  PROVE  TunnelIInv'
  <1>1. /\ handler = "wait" /\ results # <<>> /\ Head(results) = "eof"
        /\ client = "open" /\ results' = Tail(results) /\ handler' = "ack"
        /\ downEnd' = "close"
    BY DEF SendsClose
  <1>2. UNCHANGED <<app, appSent, appGot, lreq, lrsp, lend, tunnel, ws, pending,
                    aborted, up, upEnd, down, creader, chold, ureader, uhold, watcher,
                    client, upstream, vm, vmGot, vmSent, ureq, ursp, lease, lost, late,
                    slow>>
    BY DEF SendsClose
  <1>3. /\ results' \in Seq({"client", "eof", "upstream"}) /\ Len(results') = Len(results) - 1
        /\ Len(results) \in Nat \ {0} /\ Head(results) = results[1]
        /\ \A i \in 1..Len(results') : results'[i] = results[i + 1]
    BY <1>1, TailFacts DEF TunnelIInv, Room
  <1>4. HandlerScalars'
    BY <1>1, <1>2
       DEF TunnelIInv, HandlerScalars
  <1>5. Room'
    BY <1>1, <1>2, <1>3
       DEF TunnelIInv, Room, Done, HandlerScalars, GoScalars, Handling
  <1>6. Handling'
    BY <1>1, <1>2
       DEF TunnelIInv, HandlerScalars, SocketScalars, GoScalars, Handling
  <1>7. CleanOrder'
    <2>1. SUFFICES ASSUME Clean' PROVE CleanOrder'
      BY DEF CleanOrder
    <2>2. Clean
      BY <2>1, <1>1, <1>2 DEF Clean

    <2>3. downEnd = "open" /\ creader # "done"
      BY <2>2, <1>1, <1>2 DEF TunnelIInv, CleanOrder
    <2>4. ureader = "done"
      BY <2>3, <1>1, <1>2, <1>3 DEF TunnelIInv, Room, Done
    <2>5. QED
      BY <2>2, <2>3, <2>4, <1>1, <1>2 DEF TunnelIInv, CleanOrder
  <1>8. LocalScalars' /\ SocketScalars' /\ GoScalars' /\ Flags' /\ Numbers' /\
        UpBuffers' /\ DownBuffers' /\ Ends' /\ UpValues' /\ DownValues' /\ UpChain' /\
        DownChain' /\ CleanCount'
    BY <1>2, LocalScalarsFrame, SocketScalarsFrame, GoScalarsFrame, FlagsFrame,
       NumbersFrame, UpBuffersFrame, DownBuffersFrame, EndsFrame, UpValuesFrame,
       DownValuesFrame, UpChainFrame, DownChainFrame, CleanCountFrame DEF TunnelIInv
  <1>9. QED
    BY <1>4, <1>5, <1>6, <1>7, <1>8 DEF TunnelIInv

LEMMA GivesUpKeeps ==
  ASSUME TunnelIInv, GivesUp
  PROVE  TunnelIInv'
  <1>1. /\ handler = "wait" /\ results # <<>>
        /\ (Head(results) # "eof" \/ client # "open") /\ results' = Tail(results)
        /\ handler' = "close"
    BY DEF GivesUp
  <1>2. UNCHANGED <<app, appSent, appGot, lreq, lrsp, lend, tunnel, ws, pending,
                    aborted, up, upEnd, down, downEnd, creader, chold, ureader, uhold,
                    watcher, client, upstream, vm, vmGot, vmSent, ureq, ursp, lease,
                    lost, late, slow>>
    BY DEF GivesUp
  <1>3. /\ results' \in Seq({"client", "eof", "upstream"}) /\ Len(results') = Len(results) - 1
        /\ Len(results) \in Nat \ {0} /\ Head(results) = results[1]
        /\ \A i \in 1..Len(results') : results'[i] = results[i + 1]
    BY <1>1, TailFacts DEF TunnelIInv, Room
  <1>4. HandlerScalars'
    BY <1>1, <1>2
       DEF TunnelIInv, HandlerScalars
  <1>5. Room'
    BY <1>1, <1>2, <1>3
       DEF TunnelIInv, Room, Done, HandlerScalars, GoScalars, Handling
  <1>6. Handling'
    BY <1>1, <1>2
       DEF TunnelIInv, HandlerScalars, SocketScalars, GoScalars, Handling
  <1>7. CleanOrder'
    <2>1. SUFFICES ASSUME Clean' PROVE CleanOrder'
      BY DEF CleanOrder
    <2>2. Clean
      BY <2>1, <1>1, <1>2 DEF Clean

    <2>3. downEnd = "open" /\ client # "closed" /\ client # "none"
      BY <2>2, <1>1, <1>2 DEF TunnelIInv, CleanOrder, Handling
    <2>4. 1 \in 1..Len(results)
      BY <1>3
    <2>5. Head(results) = "eof"
      BY <2>2, <2>4, <1>1, <1>2, <1>3 DEF TunnelIInv, CleanOrder
    <2>6. QED
      BY <2>3, <2>5, <1>1, <1>2 DEF TunnelIInv, SocketScalars
  <1>8. LocalScalars' /\ SocketScalars' /\ GoScalars' /\ Flags' /\ Numbers' /\
        UpBuffers' /\ DownBuffers' /\ Ends' /\ UpValues' /\ DownValues' /\ UpChain' /\
        DownChain' /\ CleanCount'
    BY <1>2, LocalScalarsFrame, SocketScalarsFrame, GoScalarsFrame, FlagsFrame,
       NumbersFrame, UpBuffersFrame, DownBuffersFrame, EndsFrame, UpValuesFrame,
       DownValuesFrame, UpChainFrame, DownChainFrame, CleanCountFrame DEF TunnelIInv
  <1>9. QED
    BY <1>4, <1>5, <1>6, <1>7, <1>8 DEF TunnelIInv

LEMMA AcknowledgedKeeps ==
  ASSUME TunnelIInv, Acknowledged
  PROVE  TunnelIInv'
  <1>1. /\ handler = "ack" /\ results # <<>> /\ results' = Tail(results)
        /\ handler' = "close"
    BY DEF Acknowledged
  <1>2. UNCHANGED <<app, appSent, appGot, lreq, lrsp, lend, tunnel, ws, pending,
                    aborted, up, upEnd, down, downEnd, creader, chold, ureader, uhold,
                    watcher, client, upstream, vm, vmGot, vmSent, ureq, ursp, lease,
                    lost, late, slow>>
    BY DEF Acknowledged
  <1>3. /\ results' \in Seq({"client", "eof", "upstream"}) /\ Len(results') = Len(results) - 1
        /\ Len(results) \in Nat \ {0} /\ Head(results) = results[1]
        /\ \A i \in 1..Len(results') : results'[i] = results[i + 1]
    BY <1>1, TailFacts DEF TunnelIInv, Room
  <1>4. HandlerScalars'
    BY <1>1, <1>2
       DEF TunnelIInv, HandlerScalars
  <1>5. Room'
    BY <1>1, <1>2, <1>3
       DEF TunnelIInv, Room, Done, HandlerScalars, GoScalars, Handling
  <1>6. Handling'
    BY <1>1, <1>2
       DEF TunnelIInv, HandlerScalars, SocketScalars, GoScalars, Handling
  <1>7. CleanOrder'
    <2>1. SUFFICES ASSUME Clean' PROVE CleanOrder'
      BY DEF CleanOrder
    <2>2. Clean
      BY <2>1, <1>1, <1>2 DEF Clean

    <2>3. creader = "done" /\ ureader = "done"
      BY <1>1, <1>2, <1>3 DEF TunnelIInv, Room, Done
    <2>4. QED
      BY <2>2, <2>3, <1>1, <1>2 DEF TunnelIInv, CleanOrder
  <1>8. LocalScalars' /\ SocketScalars' /\ GoScalars' /\ Flags' /\ Numbers' /\
        UpBuffers' /\ DownBuffers' /\ Ends' /\ UpValues' /\ DownValues' /\ UpChain' /\
        DownChain' /\ CleanCount'
    BY <1>2, LocalScalarsFrame, SocketScalarsFrame, GoScalarsFrame, FlagsFrame,
       NumbersFrame, UpBuffersFrame, DownBuffersFrame, EndsFrame, UpValuesFrame,
       DownValuesFrame, UpChainFrame, DownChainFrame, CleanCountFrame DEF TunnelIInv
  <1>9. QED
    BY <1>4, <1>5, <1>6, <1>7, <1>8 DEF TunnelIInv

LEMMA AckTimesOutKeeps ==
  ASSUME TunnelIInv, AckTimesOut
  PROVE  TunnelIInv'
  <1>1. /\ handler = "ack" /\ results = <<>> /\ handler' = "close" /\ slow' = TRUE
    BY DEF AckTimesOut
  <1>2. UNCHANGED <<app, appSent, appGot, lreq, lrsp, lend, tunnel, ws, pending,
                    aborted, up, upEnd, down, downEnd, creader, chold, ureader, uhold,
                    results, watcher, client, upstream, vm, vmGot, vmSent, ureq, ursp,
                    lease, lost, late>>
    BY DEF AckTimesOut
  <1>3. /\ Len(appGot) \in Nat /\ Len(lrsp) \in Nat /\ Len(down) \in Nat /\ Len(ursp) \in Nat
        /\ Held(uhold) \in Nat /\ vmSent \in Nat
    BY Lengths
  <1>4. /\ AtApp = Len(appGot) + Len(lrsp) /\ AtDown = AtApp + Len(down)
        /\ AtRead = AtDown + Held(uhold)
        /\ AtApp \in Nat /\ AtDown \in Nat /\ AtRead \in Nat
    BY Lengths
  <1>5. /\ AtApp' = Len(appGot') + Len(lrsp') /\ AtDown' = AtApp' + Len(down')
        /\ AtRead' = AtDown' + Held(uhold')
    BY DEF AtApp, AtDown, AtRead
  <1>6. /\ AtApp' = AtApp /\ AtDown' = AtDown /\ AtRead' = AtRead
    <2>1. AtApp' = AtApp
      BY <1>5, <1>4, <1>2, <1>3
    <2>2. AtDown' = AtDown
      BY <1>5, <1>4, <1>2, <1>3, <2>1
    <2>3. AtRead' = AtRead
      BY <1>5, <1>4, <1>2, <1>3, <2>1, <2>2
    <2>4. QED
      BY <2>1, <2>2, <2>3
  <1>7. HandlerScalars'
    BY <1>1, <1>2
       DEF TunnelIInv, HandlerScalars
  <1>8. Flags'
    BY <1>1, <1>2
       DEF TunnelIInv, Flags
  <1>9. Room'
    BY <1>1, <1>2
       DEF TunnelIInv, Room, Done, HandlerScalars, GoScalars, Handling
  <1>10. Handling'
    BY <1>1, <1>2
       DEF TunnelIInv, HandlerScalars, SocketScalars, GoScalars, Handling
  <1>11. CleanOrder'
    BY <1>1, <1>2
       DEF TunnelIInv, CleanOrder, Clean, Flags, Handling, Ends
  <1>12. CleanCount'
    BY <1>1, <1>2, <1>3, <1>4, <1>6
       DEF TunnelIInv, CleanCount, CleanOrder, Clean, Flags, Handling, Ends
  <1>13. LocalScalars' /\ SocketScalars' /\ GoScalars' /\ Numbers' /\ UpBuffers' /\
        DownBuffers' /\ Ends' /\ UpValues' /\ DownValues' /\ UpChain' /\ DownChain'
    BY <1>2, LocalScalarsFrame, SocketScalarsFrame, GoScalarsFrame, NumbersFrame,
       UpBuffersFrame, DownBuffersFrame, EndsFrame, UpValuesFrame, DownValuesFrame,
       UpChainFrame, DownChainFrame DEF TunnelIInv
  <1>14. QED
    BY <1>7, <1>8, <1>9, <1>10, <1>11, <1>12, <1>13 DEF TunnelIInv

LEMMA HandlerClosesKeeps ==
  ASSUME TunnelIInv, HandlerCloses
  PROVE  TunnelIInv'
  <1>1. /\ handler = "close" /\ handler' = "ended"
    BY DEF HandlerCloses
  <1>2. UNCHANGED <<app, appSent, appGot, lreq, lrsp, lend, tunnel, ws, pending,
                    aborted, up, upEnd, creader, chold, ureader, uhold, results,
                    watcher, vm, vmGot, vmSent, ursp, lease, lost, late, slow>>
    BY DEF HandlerCloses
  <1>3. /\ client' = IF client = "open" THEN "closed" ELSE client
        /\ down' \in Cut(down)
        /\ downEnd' \in {"open", "close", "fin"}
        /\ client = "open" => downEnd' # "open"
        /\ client # "open" => downEnd' = downEnd
        /\ upstream' = IF upstream = "open" THEN "closed" ELSE upstream
        /\ ureq' \in Cut(ureq)
        /\ upstream # "open" => ureq' = ureq
    BY CloseFacts DEF HandlerCloses
  <1>4. /\ Len(vmGot) \in Nat /\ Len(ureq) \in Nat /\ Len(up) \in Nat /\ Len(pending) \in Nat
        /\ Len(lreq) \in Nat /\ Held(chold) \in Nat /\ appSent \in Nat
    BY Lengths
  <1>5. /\ AtVm = Len(vmGot) + Len(ureq) /\ AtWrite = AtVm + Held(chold)
        /\ AtUp = AtWrite + Len(up) /\ AtPending = AtUp + Len(pending)
        /\ AtVm \in Nat /\ AtWrite \in Nat /\ AtUp \in Nat /\ AtPending \in Nat
    BY Lengths
  <1>6. /\ Len(appGot) \in Nat /\ Len(lrsp) \in Nat /\ Len(down) \in Nat /\ Len(ursp) \in Nat
        /\ Held(uhold) \in Nat /\ vmSent \in Nat
    BY Lengths
  <1>7. /\ AtApp = Len(appGot) + Len(lrsp) /\ AtDown = AtApp + Len(down)
        /\ AtRead = AtDown + Held(uhold)
        /\ AtApp \in Nat /\ AtDown \in Nat /\ AtRead \in Nat
    BY Lengths
  <1>8. /\ ureq' \in Seq(Chunks) /\ Len(ureq') <= Len(ureq) /\ Len(ureq') \in Nat
        /\ In(ureq', appSent)
        /\ \A n \in Nat : Run(ureq, n) => Run(ureq', n)
    BY <1>1, <1>2, <1>3, <1>4, CutFacts, RunCut DEF TunnelIInv, UpBuffers, UpValues
  <1>9. /\ down' \in Seq(Chunks) /\ Len(down') <= Len(down) /\ Len(down') \in Nat
        /\ In(down', vmSent)
        /\ \A n \in Nat : Run(down, n) => Run(down', n)
    BY <1>1, <1>2, <1>3, <1>6, CutFacts, RunCut DEF TunnelIInv, DownBuffers, DownValues
  <1>10. /\ AtApp' = Len(appGot') + Len(lrsp') /\ AtDown' = AtApp' + Len(down')
        /\ AtRead' = AtDown' + Held(uhold')
    BY DEF AtApp, AtDown, AtRead
  <1>11. /\ AtApp' = AtApp
    <2>1. AtApp' = AtApp
      BY <1>10, <1>7, <1>2, <1>6
    <2>2. QED
      BY <2>1
  <1>12. HandlerScalars'
    BY <1>1, <1>2, <1>3
       DEF TunnelIInv, HandlerScalars
  <1>13. SocketScalars'
    BY <1>1, <1>2, <1>3
       DEF TunnelIInv, SocketScalars
  <1>14. UpBuffers'
    BY <1>1, <1>2, <1>3, <1>4, <1>8, TunnelAssumption
       DEF TunnelIInv, UpBuffers
  <1>15. DownBuffers'
    BY <1>1, <1>2, <1>3, <1>6, <1>9, TunnelAssumption
       DEF TunnelIInv, DownBuffers
  <1>16. Room'
    BY <1>1, <1>2, <1>3
       DEF TunnelIInv, Room, Done, HandlerScalars, GoScalars, Handling
  <1>17. Handling'
    BY <1>1, <1>2, <1>3
       DEF TunnelIInv, HandlerScalars, SocketScalars, GoScalars, Handling
  <1>18. UpValues'
    BY <1>1, <1>2, <1>3, <1>4, <1>8, InMore
       DEF TunnelIInv, UpBuffers, UpValues
  <1>19. DownValues'
    BY <1>1, <1>2, <1>3, <1>6, <1>9, InMore
       DEF TunnelIInv, DownBuffers, DownValues
  <1>20. UpChain'
    <2>1. client # "none" /\ upstream # "none"
      BY <1>1, <1>2, <1>3 DEF TunnelIInv, Handling
    <2>2. upstream' = "closed"
      BY <2>1, <1>1, <1>2, <1>3 DEF TunnelIInv, SocketScalars
    <2>3. vm' = "open" => Run(ureq', Len(vmGot'))
      BY <1>1, <1>2, <1>3, <1>4, <1>5, <1>8 DEF TunnelIInv, UpChain
    <2>4. QED
      BY <2>2, <2>3 DEF UpChain
  <1>21. DownChain'
    <2>1. client # "none"
      BY <1>1, <1>2, <1>3 DEF TunnelIInv, Handling
    <2>2. client' = "closed"
      BY <2>1, <1>1, <1>2, <1>3 DEF TunnelIInv, SocketScalars
    <2>3. app' = "open" => Run(lrsp', Len(appGot'))
      BY <1>1, <1>2, <1>3 DEF TunnelIInv, DownChain
    <2>4. app' = "open" /\ tunnel' = "listed" => Run(down', AtApp')
      BY <1>1, <1>2, <1>3, <1>6, <1>7, <1>9, <1>11 DEF TunnelIInv, DownChain
    <2>5. QED
      BY <2>2, <2>3, <2>4 DEF DownChain
  <1>22. CleanOrder'
    <2>1. SUFFICES ASSUME Clean' PROVE CleanOrder'
      BY DEF CleanOrder
    <2>2. Clean
      BY <2>1, <1>1, <1>2, <1>3 DEF Clean

    <2>3. creader = "done" /\ ureader = "done" /\ client # "none"
      BY <2>2, <1>1 DEF TunnelIInv, CleanOrder, Handling
    <2>4. client' = "closed" /\ downEnd' # "open" /\ downEnd # "open" /\ tunnel # "listed"
      BY <2>2, <2>3, <1>1, <1>2, <1>3 DEF TunnelIInv, CleanOrder, SocketScalars
    <2>5. QED
      BY <2>2, <2>3, <2>4, <1>1, <1>2, <1>3 DEF TunnelIInv, CleanOrder
  <1>23. CleanCount'
    BY <1>1, <1>2, <1>3, <1>6, <1>7, <1>9, <1>11
       DEF TunnelIInv, CleanCount, CleanOrder, Clean, Flags, Handling, Ends
  <1>24. LocalScalars' /\ GoScalars' /\ Flags' /\ Numbers' /\ Ends'
    BY <1>2, LocalScalarsFrame, GoScalarsFrame, FlagsFrame, NumbersFrame, EndsFrame DEF TunnelIInv
  <1>25. QED
    BY <1>12, <1>13, <1>14, <1>15, <1>16, <1>17, <1>18, <1>19, <1>20, <1>21, <1>22,
       <1>23, <1>24 DEF TunnelIInv

LEMMA WatcherEndsKeeps ==
  ASSUME TunnelIInv, WatcherEnds
  PROVE  TunnelIInv'
  <1>1. /\ watcher = "run" /\ watcher' = "done"
    BY DEF WatcherEnds
  <1>2. UNCHANGED <<app, appSent, appGot, lreq, lrsp, lend, tunnel, ws, pending,
                    aborted, up, upEnd, down, downEnd, handler, creader, chold, ureader,
                    uhold, results, client, upstream, vm, vmGot, vmSent, ureq, ursp,
                    lease, lost, late, slow>>
    BY DEF WatcherEnds
  <1>3. HandlerScalars'
    BY <1>1, <1>2
       DEF TunnelIInv, HandlerScalars
  <1>4. Handling'
    BY <1>1, <1>2
       DEF TunnelIInv, HandlerScalars, SocketScalars, GoScalars, Handling
  <1>5. LocalScalars' /\ SocketScalars' /\ GoScalars' /\ Flags' /\ Numbers' /\
        UpBuffers' /\ DownBuffers' /\ Room' /\ Ends' /\ UpValues' /\ DownValues' /\
        UpChain' /\ DownChain' /\ CleanOrder' /\ CleanCount'
    BY <1>2, LocalScalarsFrame, SocketScalarsFrame, GoScalarsFrame, FlagsFrame,
       NumbersFrame, UpBuffersFrame, DownBuffersFrame, RoomFrame, EndsFrame,
       UpValuesFrame, DownValuesFrame, UpChainFrame, DownChainFrame, CleanOrderFrame,
       CleanCountFrame DEF TunnelIInv
  <1>6. QED
    BY <1>3, <1>4, <1>5 DEF TunnelIInv

LEMMA WatcherClosesKeeps ==
  ASSUME TunnelIInv, WatcherCloses
  PROVE  TunnelIInv'
  <1>1. /\ watcher = "run" /\ lease = "ended" /\ watcher' = "done"
    BY DEF WatcherCloses
  <1>2. UNCHANGED <<app, appSent, appGot, lreq, lrsp, lend, tunnel, ws, pending,
                    aborted, up, upEnd, handler, creader, chold, ureader, uhold,
                    results, vm, vmGot, vmSent, ursp, lease, lost, late, slow>>
    BY DEF WatcherCloses
  <1>3. /\ client' = IF client = "open" THEN "closed" ELSE client
        /\ down' \in Cut(down)
        /\ downEnd' \in {"open", "close", "fin"}
        /\ client = "open" => downEnd' # "open"
        /\ client # "open" => downEnd' = downEnd
        /\ upstream' = IF upstream = "open" THEN "closed" ELSE upstream
        /\ ureq' \in Cut(ureq)
        /\ upstream # "open" => ureq' = ureq
    BY CloseFacts DEF WatcherCloses
  <1>4. /\ Len(vmGot) \in Nat /\ Len(ureq) \in Nat /\ Len(up) \in Nat /\ Len(pending) \in Nat
        /\ Len(lreq) \in Nat /\ Held(chold) \in Nat /\ appSent \in Nat
    BY Lengths
  <1>5. /\ AtVm = Len(vmGot) + Len(ureq) /\ AtWrite = AtVm + Held(chold)
        /\ AtUp = AtWrite + Len(up) /\ AtPending = AtUp + Len(pending)
        /\ AtVm \in Nat /\ AtWrite \in Nat /\ AtUp \in Nat /\ AtPending \in Nat
    BY Lengths
  <1>6. /\ Len(appGot) \in Nat /\ Len(lrsp) \in Nat /\ Len(down) \in Nat /\ Len(ursp) \in Nat
        /\ Held(uhold) \in Nat /\ vmSent \in Nat
    BY Lengths
  <1>7. /\ AtApp = Len(appGot) + Len(lrsp) /\ AtDown = AtApp + Len(down)
        /\ AtRead = AtDown + Held(uhold)
        /\ AtApp \in Nat /\ AtDown \in Nat /\ AtRead \in Nat
    BY Lengths
  <1>8. /\ ureq' \in Seq(Chunks) /\ Len(ureq') <= Len(ureq) /\ Len(ureq') \in Nat
        /\ In(ureq', appSent)
        /\ \A n \in Nat : Run(ureq, n) => Run(ureq', n)
    BY <1>1, <1>2, <1>3, <1>4, CutFacts, RunCut DEF TunnelIInv, UpBuffers, UpValues
  <1>9. /\ down' \in Seq(Chunks) /\ Len(down') <= Len(down) /\ Len(down') \in Nat
        /\ In(down', vmSent)
        /\ \A n \in Nat : Run(down, n) => Run(down', n)
    BY <1>1, <1>2, <1>3, <1>6, CutFacts, RunCut DEF TunnelIInv, DownBuffers, DownValues
  <1>10. /\ AtApp' = Len(appGot') + Len(lrsp') /\ AtDown' = AtApp' + Len(down')
        /\ AtRead' = AtDown' + Held(uhold')
    BY DEF AtApp, AtDown, AtRead
  <1>11. /\ AtApp' = AtApp
    <2>1. AtApp' = AtApp
      BY <1>10, <1>7, <1>2, <1>6
    <2>2. QED
      BY <2>1
  <1>12. HandlerScalars'
    BY <1>1, <1>2, <1>3
       DEF TunnelIInv, HandlerScalars
  <1>13. SocketScalars'
    BY <1>1, <1>2, <1>3
       DEF TunnelIInv, SocketScalars
  <1>14. UpBuffers'
    BY <1>1, <1>2, <1>3, <1>4, <1>8, TunnelAssumption
       DEF TunnelIInv, UpBuffers
  <1>15. DownBuffers'
    BY <1>1, <1>2, <1>3, <1>6, <1>9, TunnelAssumption
       DEF TunnelIInv, DownBuffers
  <1>16. Handling'
    BY <1>1, <1>2, <1>3
       DEF TunnelIInv, HandlerScalars, SocketScalars, GoScalars, Handling
  <1>17. UpValues'
    BY <1>1, <1>2, <1>3, <1>4, <1>8, InMore
       DEF TunnelIInv, UpBuffers, UpValues
  <1>18. DownValues'
    BY <1>1, <1>2, <1>3, <1>6, <1>9, InMore
       DEF TunnelIInv, DownBuffers, DownValues
  <1>19. UpChain'
    <2>1. client # "none" /\ upstream # "none"
      BY <1>1, <1>2, <1>3 DEF TunnelIInv, Handling
    <2>2. upstream' = "closed"
      BY <2>1, <1>1, <1>2, <1>3 DEF TunnelIInv, SocketScalars
    <2>3. vm' = "open" => Run(ureq', Len(vmGot'))
      BY <1>1, <1>2, <1>3, <1>4, <1>5, <1>8 DEF TunnelIInv, UpChain
    <2>4. QED
      BY <2>2, <2>3 DEF UpChain
  <1>20. DownChain'
    <2>1. client # "none"
      BY <1>1, <1>2, <1>3 DEF TunnelIInv, Handling
    <2>2. client' = "closed"
      BY <2>1, <1>1, <1>2, <1>3 DEF TunnelIInv, SocketScalars
    <2>3. app' = "open" => Run(lrsp', Len(appGot'))
      BY <1>1, <1>2, <1>3 DEF TunnelIInv, DownChain
    <2>4. app' = "open" /\ tunnel' = "listed" => Run(down', AtApp')
      BY <1>1, <1>2, <1>3, <1>6, <1>7, <1>9, <1>11 DEF TunnelIInv, DownChain
    <2>5. QED
      BY <2>2, <2>3, <2>4 DEF DownChain
  <1>21. CleanOrder'
    BY <1>1, <1>2, <1>3, <1>8, EmptyIs
       DEF TunnelIInv, CleanOrder, Clean, Flags, Handling, Ends
  <1>22. CleanCount'
    BY <1>1, <1>2, <1>3, <1>6, <1>7, <1>9, <1>11
       DEF TunnelIInv, CleanCount, CleanOrder, Clean, Flags, Handling, Ends
  <1>23. LocalScalars' /\ GoScalars' /\ Flags' /\ Numbers' /\ Room' /\ Ends'
    BY <1>2, LocalScalarsFrame, GoScalarsFrame, FlagsFrame, NumbersFrame, RoomFrame,
       EndsFrame DEF TunnelIInv
  <1>24. QED
    BY <1>12, <1>13, <1>14, <1>15, <1>16, <1>17, <1>18, <1>19, <1>20, <1>21, <1>22,
       <1>23 DEF TunnelIInv

-----------------------------------------------------------------------------
(* The invariant holds, and what follows from it.                          *)

LEMMA InitTunnelIInv == Init => TunnelIInv
  <1>1. SUFFICES ASSUME Init PROVE TunnelIInv
    OBVIOUS
  <1>2. 0 \in 0..MaxReq /\ 0 \in 0..MaxRsp /\ 0 \in Chunks
    BY TunnelAssumption DEF Chunks
  <1>3. Len(<<>>) = 0 /\ <<>> \in Seq(Chunks) /\ \A n \in Nat : Run(<<>>, n) /\ In(<<>>, n)
    BY EmptyRun
  <1>4. /\ LocalScalars /\ HandlerScalars /\ SocketScalars /\ GoScalars /\ Flags /\ Numbers
    BY <1>1, <1>2 DEF Init, LocalScalars, HandlerScalars, SocketScalars, GoScalars, Flags, Numbers
  <1>5. UpBuffers /\ DownBuffers
    BY <1>1, <1>3, TunnelAssumption DEF Init, UpBuffers, DownBuffers
  <1>6. Room
    BY <1>1, <1>3 DEF Init, Room, Done
  <1>7. Ends /\ Handling
    BY <1>1 DEF Init, Ends, Handling
  <1>8. UpValues /\ DownValues
    BY <1>1, <1>3 DEF Init, UpValues, DownValues
  <1>9. /\ AtVm = 0 /\ AtWrite = 0 /\ AtUp = 0 /\ AtPending = 0
        /\ AtApp = 0 /\ AtDown = 0 /\ AtRead = 0
    <2>1. Held(chold) = 0 /\ Held(uhold) = 0
      BY <1>1 DEF Init, Held
    <2>2. QED
      BY <1>1, <1>3, <2>1 DEF Init, AtVm, AtWrite, AtUp, AtPending, AtApp, AtDown, AtRead
  <1>10. UpChain /\ DownChain
    BY <1>1, <1>3, <1>9 DEF Init, UpChain, DownChain
  <1>11. CleanOrder
    BY <1>1, <1>3 DEF Init, CleanOrder
  <1>12. CleanCount
    BY <1>1, <1>3, <1>9 DEF Init, CleanCount
  <1>13. QED
    BY <1>4, <1>5, <1>6, <1>7, <1>8, <1>10, <1>11, <1>12 DEF TunnelIInv

LEMMA StutterKeeps ==
  ASSUME TunnelIInv, UNCHANGED vars
  PROVE  TunnelIInv'
  <1>1. UNCHANGED <<app, appSent, appGot, lreq, lrsp, lend, tunnel, ws, pending,
                    aborted, up, upEnd, down, downEnd, handler, creader, chold, ureader,
                    uhold, results, watcher, client, upstream, vm, vmGot, vmSent, ureq,
                    ursp, lease, lost, late, slow>>
    BY DEF vars, appVars, loopVars, bridgeVars, netVars, goVars, sockVars, vmVars
  <1>2. QED
    BY <1>1, LocalScalarsFrame, HandlerScalarsFrame, SocketScalarsFrame, GoScalarsFrame,
       FlagsFrame, NumbersFrame, UpBuffersFrame, DownBuffersFrame, RoomFrame, EndsFrame,
       HandlingFrame, UpValuesFrame, DownValuesFrame, UpChainFrame, DownChainFrame,
       CleanOrderFrame, CleanCountFrame DEF TunnelIInv

LEMMA NextTunnelIInv ==
  ASSUME TunnelIInv, [Next]_vars
  PROVE  TunnelIInv'
  <1>1. CASE External
    <2>1. CASE AppSend
      BY <2>1, AppSendCases, AppSendsKeeps, AppSendsInVainKeeps
    <2>2. CASE AppRead
      BY <2>2, AppReadCases, AppReadsKeeps
    <2>3. CASE AppReadEnd
      BY <2>3, AppReadEndCases, AppReadsEndKeeps
    <2>4. CASE AppClose
      BY <2>4, AppCloseCases, AppClosesKeeps
    <2>5. CASE VmRead
      BY <2>5, VmReadCases, VmReadsKeeps
    <2>6. CASE VmSend
      BY <2>6, VmSendCases, VmSendsKeeps
    <2>7. CASE VmClose
      BY <2>7, VmCloseCases, VmClosesKeeps
    <2>8. CASE VmHang
      BY <2>8, VmHangCases, VmHangsKeeps
    <2>9. CASE EndLease
      BY <2>9, EndLeaseCases, LeaseEndsKeeps
    <2>10. CASE LoseNetwork
      BY <2>10, LoseNetworkCases, NetworkLostKeeps
    <2>11. QED
      BY <1>1, <2>1, <2>2, <2>3, <2>4, <2>5, <2>6, <2>7, <2>8, <2>9, <2>10 DEF External
  <1>2. CASE Bridge
    <2>1. CASE LocalReadyRead
      BY <2>1, LocalReadyReadCases, LocalSentKeeps, LocalKeptKeeps, LocalDroppedKeeps,
         LocalAbortsKeeps
    <2>2. CASE LocalDisconnected
      BY <2>2, LocalDisconnectedCases, AbortedKeeps, DrainedKeeps
    <2>3. CASE WsConnected
      BY <2>3, WsConnectedCases, ConnectsKeeps
    <2>4. CASE WsBinaryMessage
      BY <2>4, WsBinaryMessageCases, DeliversKeeps, DeliversInVainKeeps
    <2>5. CASE WsDisconnected
      BY <2>5, WsDisconnectedCases, DisconnectsKeeps
    <2>6. CASE DrainDone
      BY <2>6, DrainDoneCases, DrainsCleanKeeps, DrainsResetKeeps
    <2>7. CASE DrainTimeout
      BY <2>7, DrainTimeoutCases, DrainTimesOutKeeps
    <2>8. QED
      BY <1>2, <2>1, <2>2, <2>3, <2>4, <2>5, <2>6, <2>7 DEF Bridge
  <1>3. CASE Coordinator
    <2>1. CASE Authorize
      BY <2>1, AuthorizeCases, AuthorizesKeeps, RefusesKeeps
    <2>2. CASE Upgrade
      BY <2>2, UpgradeCases, UpgradesKeeps, UpgradeFailsKeeps
    <2>3. CASE ClientRead
      BY <2>3, ClientReadCases, ClientReadsKeeps, ClientReadEndsKeeps
    <2>4. CASE ClientWrite
      BY <2>4, ClientWriteCases, ClientWritesKeeps, ClientWriteLostKeeps,
         ClientWriteFailsKeeps
    <2>5. CASE UpstreamRead
      BY <2>5, UpstreamReadCases, UpstreamReadsKeeps, UpstreamEndsKeeps, UpstreamBreaksKeeps
    <2>6. CASE UpstreamWrite
      BY <2>6, UpstreamWriteCases, UpstreamWritesKeeps, UpstreamWriteFailsKeeps
    <2>7. CASE HandlerResult
      BY <2>7, HandlerResultCases, SendsCloseKeeps, GivesUpKeeps
    <2>8. CASE HandlerAck
      BY <2>8, HandlerAckCases, AcknowledgedKeeps
    <2>9. CASE HandlerAckTimeout
      BY <2>9, HandlerAckTimeoutCases, AckTimesOutKeeps
    <2>10. CASE HandlerClose
      BY <2>10, HandlerCloseCases, HandlerClosesKeeps
    <2>11. CASE WatcherStep
      BY <2>11, WatcherStepCases, WatcherEndsKeeps, WatcherClosesKeeps
    <2>12. QED
      BY <1>3, <2>1, <2>2, <2>3, <2>4, <2>5, <2>6, <2>7, <2>8, <2>9, <2>10, <2>11 DEF Coordinator
  <1>4. CASE StopBridge
    BY <1>4, StopBridgeCases, AbortedKeeps
  <1>5. CASE UNCHANGED vars
    BY <1>5, StutterKeeps
  <1>6. QED
    BY <1>1, <1>2, <1>3, <1>4, <1>5 DEF Next

THEOREM Invariant == Spec => []TunnelIInv
  <1>1. Init => TunnelIInv
    BY InitTunnelIInv
  <1>2. TunnelIInv /\ [Next]_vars => TunnelIInv'
    BY NextTunnelIInv
  <1>3. QED
    BY <1>1, <1>2, PTL DEF Spec

LEMMA IInvTypeOK ==
  ASSUME TunnelIInv
  PROVE  TypeOK
  <1>1. Len(results) \in Nat /\ Len(results) <= 2
    <2>1. results \in Seq({"client", "eof", "upstream"})
      BY DEF TunnelIInv, Room
    <2>2. Len(results) \in Nat
      BY <2>1, EmptyIs
    <2>3. QED
      BY <2>2 DEF TunnelIInv, Room, Done
  <1>2. QED
    BY <1>1 DEF TunnelIInv, TypeOK, LocalScalars, HandlerScalars, SocketScalars, GoScalars,
       Flags, Numbers, UpBuffers, DownBuffers, Room

LEMMA IInvInOrder ==
  ASSUME TunnelIInv
  PROVE  /\ IsPrefix(vmGot, UpTo(appSent)) /\ IsPrefix(appGot, UpTo(vmSent))
         /\ Len(appGot) = vmSent => appGot = UpTo(vmSent)
  <1>1. vmGot \in Seq(Chunks) /\ appGot \in Seq(Chunks)
    BY DEF TunnelIInv, UpBuffers, DownBuffers
  <1>2. appSent \in Nat /\ vmSent \in Nat
    BY Lengths
  <1>3. /\ Run(vmGot, 0) /\ Len(vmGot) <= appSent
        /\ Run(appGot, 0) /\ Len(appGot) <= vmSent
    BY DEF TunnelIInv, UpValues, DownValues
  <1>4. QED
    BY <1>1, <1>2, <1>3, RunIsPrefix

\* TypeOK bounds every buffer and InOrder says that each end has read the first
\* chunks the other sent: whatever is cut, aborted or lost, what TcpTunnel
\* buffers before its WebSocket connects goes first, nothing is doubled or
\* skipped, and no goroutine of the relay blocks on its result.
THEOREM BytesStayInOrder == Spec => []TunnelInv
  <1>1. TunnelIInv => TunnelInv
    BY IInvTypeOK, IInvInOrder DEF TunnelInv, InOrder
  <1>2. QED
    BY <1>1, Invariant, PTL

\* An application that reads EOF from the relay of relay.go, through the close
\* handshake and the graceful close of TcpTunnel, has read all the VM sent, and
\* the VM has closed or the relay was refused, unless something cut it short.
THEOREM EofComesLast == Spec => []EofIsComplete
  <1>1. TunnelIInv => EofIsComplete
    <2>1. SUFFICES ASSUME TunnelIInv, app = "eof", ~Excused
                   PROVE  appGot = UpTo(vmSent) /\ (vm = "closed" \/ client = "none")
      BY DEF EofIsComplete
    <2>2. Clean
      BY <2>1 DEF Clean, Excused, TunnelIInv, Flags, HandlerScalars
    <2>3. vmSent = Len(appGot)
      BY <2>1, <2>2 DEF TunnelIInv, CleanCount
    <2>4. appGot = UpTo(vmSent)
      BY <2>1, <2>3, IInvInOrder
    <2>5. tunnel # "listed"
      BY <2>1 DEF TunnelIInv, Ends
    <2>6. ureader = "done" \/ upstream = "none"
      BY <2>1, <2>2, <2>5 DEF TunnelIInv, CleanOrder
    <2>7. CASE ureader = "done"
      BY <2>1, <2>2, <2>4, <2>7 DEF TunnelIInv, CleanOrder
    <2>8. CASE upstream = "none"
      BY <2>1, <2>4, <2>8 DEF TunnelIInv, Handling
    <2>9. QED
      BY <2>4, <2>6, <2>7, <2>8
  <1>2. QED
    BY <1>1, Invariant, PTL

-----------------------------------------------------------------------------
(* TurnProvider.                                                           *)

\* How long one failed refresh takes at most, with the delay after it.
Round == Timeout + RetryDelay

\* Where the goroutine is in time: its timer is ahead, and a request began at
\* most a timeout ago.
Clock ==
  /\ loop = "sleep" => now <= wake
  /\ loop = "request" => wake <= now /\ now <= wake + Timeout
  /\ loop = "request" /\ issued # 0 => wake <= issued

\* Cloudflare ends the cached credentials at most a request before the coordinator.
Dated == cached # 0 => cached <= end + Timeout

\* The refresh that follows the cached credentials began Advance before their
\* end, but for the rounds that have failed since.
Ahead == cached # 0 => wake + Advance <= cached + fails * Round

TurnIInv == TurnTypeOK /\ Clock /\ Dated /\ Ahead

\* One more round.
LEMMA RoundStep ==
  ASSUME NEW f \in Nat
  PROVE  /\ Round \in Nat
         /\ f * Round \in Nat
         /\ (f + 1) * Round = f * Round + Timeout + RetryDelay
         /\ 0 * Round = 0
  BY TurnAssumption DEF Round

LEMMA InitTurnIInv == TurnInit => TurnIInv
  BY TurnAssumption DEF TurnInit, TurnIInv, TurnTypeOK, Clock, Dated, Ahead

\* Every step keeps the invariant.
LEMMA NextTurnIInv == TurnIInv /\ [TurnNext]_turnVars => TurnIInv'
  <1> SUFFICES ASSUME TurnIInv, [TurnNext]_turnVars
               PROVE  TurnIInv'
    OBVIOUS
  <1> USE TurnAssumption DEF TurnIInv, TurnTypeOK
  <1>r. Round \in Nat /\ fails * Round \in Nat /\ 0 * Round = 0
    BY RoundStep
  <1>1. CASE Tick
    BY <1>1, <1>r DEF Tick, Clock, Dated, Ahead
  <1>2. CASE Request
    BY <1>2, <1>r DEF Request, Clock, Dated, Ahead
  <1>3. CASE Issue
    BY <1>3, <1>r DEF Issue, Clock, Dated, Ahead
  <1>4. CASE Refreshed
    <2>1. TurnTypeOK' /\ Clock'
      BY <1>4 DEF Refreshed, Clock
    <2>2. Dated'
      BY <1>4 DEF Refreshed, Clock, Dated
    <2>3. wake' = now + (TTL - Advance) /\ cached' = now + TTL /\ fails' = 0
      BY <1>4 DEF Refreshed
    <2>4. Ahead'
      BY <2>3, <1>r DEF Ahead
    <2> QED
      BY <2>1, <2>2, <2>4
  <1>5. CASE RefreshFails
    <2>1. TurnTypeOK' /\ Clock' /\ Dated'
      BY <1>5 DEF RefreshFails, Clock, Dated
    <2>2. /\ wake' = now + RetryDelay /\ now <= wake + Timeout
          /\ cached' = cached /\ fails' = fails + 1
      BY <1>5 DEF RefreshFails, Clock
    <2>3. (fails + 1) * Round = fails * Round + Timeout + RetryDelay
      BY RoundStep
    <2>4. Ahead'
      BY <2>2, <2>3, <1>r DEF Ahead
    <2> QED
      BY <2>1, <2>4
  <1>6. CASE UNCHANGED turnVars
    BY <1>6 DEF turnVars, Clock, Dated, Ahead
  <1> QED
    BY <1>1, <1>2, <1>3, <1>4, <1>5, <1>6 DEF TurnNext

LEMMA AlwaysTurnIInv == TurnSpec => []TurnIInv
  BY InitTurnIInv, NextTurnIInv, PTL DEF TurnSpec

\* What CreateLease hands out lives for MinValidity less one request's
\* duration, however slow Cloudflare's replies were.
THEOREM HandedOutAlwaysLives == TurnSpec => []CredentialsInv
  <1>1. TurnIInv => CredentialsInv
    BY TurnAssumption DEF TurnIInv, TurnTypeOK, Dated, HandedOutLives, CachedCredentials, CredentialsInv
  <1> QED
    BY <1>1, AlwaysTurnIInv, PTL

\* The cache lapses only after a long row of failed refreshes, for every choice
\* of the delays.
THEOREM LapseAlwaysNeedsFailures == TurnSpec => []LapseNeedsFailures
  <1>1. TurnIInv => LapseNeedsFailures
    <2> SUFFICES ASSUME TurnIInv, cached # 0, ~CachedCredentials
                 PROVE  fails * Round + Timeout + MinValidity >= Advance
      BY DEF LapseNeedsFailures, Round
    <2>1. fails * Round \in Nat
      BY RoundStep DEF TurnIInv, TurnTypeOK
    <2>2. now <= wake + Timeout
      BY TurnAssumption DEF TurnIInv, TurnTypeOK, Clock
    <2>3. cached <= now + MinValidity
      BY TurnAssumption DEF TurnIInv, TurnTypeOK, CachedCredentials
    <2> QED
      BY <2>1, <2>2, <2>3, TurnAssumption DEF TurnIInv, TurnTypeOK, Ahead
  <1> QED
    BY <1>1, AlwaysTurnIInv, PTL
=============================================================================
