------------------------- MODULE RelayBridgeProofs -------------------------
(***************************************************************************)
(* Proofs about the UDP side of the client's relay bridge, for any set of  *)
(* ports and any number of candidates, leases, datagrams and faults.       *)
(***************************************************************************)
EXTENDS RelayBridge, SequenceTheorems, TLAPS

\* A started bridge waits for its event loop with one path, or with none.
Idle ==
  main = "idle" =>
    IF running
    THEN IF attached THEN ends = {} /\ printed ELSE ends = Offsets /\ helper = "none"
    ELSE ~attached /\ ends = {} /\ helper = "none" /\ leaseId = 0

\* start() has stopped what ran before, and starts a helper for a candidate.
Starting ==
  main = "turn" => running /\ ~attached /\ ends = {} /\ (helper # "none" => cand > 0)

\* A helper that is given up or has ended holds no port, and none runs beside
\* the endpoints.
HelperInv ==
  /\ helper = "none" => ~printed
  /\ helper = "opening" => main = "turn" /\ ~printed
  /\ helper = "ready" => printed
  /\ helper \in {"none", "dead"} => hports = {}
  /\ ends # {} => helper = "none"

\* The endpoints are bound together and leave nothing behind.
EndsInv ==
  /\ ends = {} => sockq = <<>> /\ pending = <<>> /\ ws = "none" /\ ~retry
  /\ ends # {} => ends = Offsets
  /\ ws # "none" => wsLease = leaseId
  /\ ws = "connected" => pending = <<>>

PathInv == Idle /\ Starting /\ HelperInv /\ EndsInv /\ ~selfBlocked

\* The queue and then the socket hold the last datagrams sent, in their order,
\* all of them sent under this lease.
Numbered ==
  /\ \A i \in 1..Len(sockq) : sockq[i].n + Len(sockq) = sent + i /\ sockq[i].from = leaseId
  /\ \A i \in 1..Len(pending) : /\ pending[i].n + Len(sockq) + Len(pending) = sent + i
                                /\ pending[i].from = leaseId
  /\ Len(pending) <= MaxPending

\* What was relayed went to its own lease, and is older than all that waits.
Relayed(p) == p.to = p.d.from /\ p.d.n + Len(sockq) + Len(pending) <= sent

\* It was relayed once.
Once == \A p, q \in wire \union got : p.d.n = q.d.n => p = q

DataInv == Numbered /\ (\A p \in wire \union got : Relayed(p)) /\ Once

IInv == TypeOK /\ PathInv /\ DataInv

-----------------------------------------------------------------------------
(* Queues.                                                                 *)

LEMMA EmptyQueue == <<>> \in Seq(Datagram) /\ Len(<<>>) = 0
  OBVIOUS

LEMMA Lengths == \A q \in Seq(Datagram) : Len(q) \in Nat /\ (q # <<>> => Len(q) >= 1)
  OBVIOUS

LEMMA TailOf ==
  ASSUME NEW q \in Seq(Datagram), q # <<>>
  PROVE  /\ Head(q) = q[1] /\ Head(q) \in Datagram /\ Tail(q) \in Seq(Datagram)
         /\ Len(Tail(q)) + 1 = Len(q) /\ \A i \in 1..Len(Tail(q)) : Tail(q)[i] = q[i + 1]
  BY HeadTailProperties, Lengths

\* A full queue moves up by one; the new datagram is its last.
LEMMA EnqueueFacts ==
  ASSUME NEW q \in Seq(Datagram), NEW d \in Datagram, Len(q) <= MaxPending
  PROVE  /\ Enqueue(q, d) \in Seq(Datagram) /\ Len(Enqueue(q, d)) \in 1..MaxPending
         /\ Enqueue(q, d)[Len(Enqueue(q, d))] = d
         /\ \E k \in {0, 1} : /\ Len(Enqueue(q, d)) + k = Len(q) + 1
                              /\ \A i \in 1..Len(Enqueue(q, d)) :
                                   i # Len(Enqueue(q, d)) => Enqueue(q, d)[i] = q[i + k]
  <1>1. MaxPending \in Nat \ {0} /\ Len(q) \in Nat
    BY BridgeAssumption
  <1>2. CASE Len(q) = MaxPending
    <2>1. q # <<>>
      BY <1>1, <1>2
    <2>2. /\ Tail(q) \in Seq(Datagram) /\ Len(Tail(q)) + 1 = Len(q) /\ Len(Tail(q)) \in Nat
          /\ \A i \in 1..Len(Tail(q)) : Tail(q)[i] = q[i + 1]
      BY <2>1, TailOf, Lengths
    <2>3. /\ Append(Tail(q), d) \in Seq(Datagram) /\ Len(Append(Tail(q), d)) = Len(q)
          /\ \A i \in 1..Len(Tail(q)) : Append(Tail(q), d)[i] = Tail(q)[i]
          /\ Append(Tail(q), d)[Len(q)] = d
      BY <2>2, AppendProperties
    <2>4. Enqueue(q, d) = Append(Tail(q), d)
      BY <1>2 DEF Enqueue
    <2>5. \A i \in 1..Len(q) : i # Len(q) => Append(Tail(q), d)[i] = q[i + 1]
      <3>1. TAKE i \in 1..Len(q)
      <3>2. HAVE i # Len(q)
      <3>3. \A m, k \in Nat : m + 1 = k /\ i \in 1..k /\ i # k => i \in 1..m
        OBVIOUS
      <3>4. i \in 1..Len(Tail(q))
        BY <1>1, <2>2, <3>2, <3>3
      <3>5. QED
        BY <2>2, <2>3, <3>4
    <2>6. QED
      BY <1>1, <1>2, <2>3, <2>4, <2>5
  <1>3. CASE Len(q) # MaxPending
    <2>1. /\ Append(q, d) \in Seq(Datagram) /\ Len(Append(q, d)) = Len(q) + 1
          /\ \A i \in 1..Len(q) : Append(q, d)[i] = q[i]
          /\ Append(q, d)[Len(q) + 1] = d
      BY AppendProperties
    <2>2. Enqueue(q, d) = Append(q, d)
      BY <1>3 DEF Enqueue
    <2>3. QED
      BY <1>1, <1>3, <2>1, <2>2
  <1>4. QED
    BY <1>2, <1>3

-----------------------------------------------------------------------------
(* Frames: steps that leave the datagrams where they are, or forget those  *)
(* that wait.                                                              *)

LEMMA DataSame ==
  ASSUME DataInv, UNCHANGED <<sockq, pending, wire, got, sent, leaseId>>
  PROVE  DataInv'
  BY DEF DataInv, Numbered, Relayed, Once

LEMMA DataForgotten ==
  ASSUME IInv, sockq' = <<>>, pending' = <<>>, UNCHANGED <<wire, got, sent>>
  PROVE  DataInv'
  <1>1. /\ Len(sockq) \in Nat /\ Len(pending) \in Nat /\ sent \in Nat
        /\ \A p \in wire \union got : p.d.n \in Nat
    BY BridgeAssumption DEF IInv, TypeOK, Datagram
  <1>2. Numbered'
    BY EmptyQueue, BridgeAssumption DEF Numbered
  <1>3. \A p \in wire \union got : Relayed(p)'
    BY <1>1, EmptyQueue DEF IInv, DataInv, Relayed
  <1>4. QED
    BY <1>2, <1>3 DEF IInv, DataInv, Once

\* An endpoint is left without anything.
LEMMA NoEndpointsEmpty ==
  ASSUME NoEndpoints
  PROVE  ends' = {} /\ sockq' = <<>> /\ pending' = <<>> /\ ws' = "none" /\ wsLease' = 0 /\ retry' = FALSE
  BY DEF NoEndpoints

LEMMA EmptyTypes ==
  ASSUME NoHelper, NoEndpoints
  PROVE  /\ ends' \subseteq Offsets /\ sockq' \in Seq(Datagram) /\ pending' \in Seq(Datagram)
         /\ ws' \in {"none", "connecting", "connected"} /\ wsLease' \in 0..MaxStarts /\ retry' \in BOOLEAN
         /\ helper' \in {"none", "opening", "ready", "dead"} /\ printed' \in BOOLEAN
         /\ attached' \in BOOLEAN /\ reaped' \in BOOLEAN /\ hports' \subseteq Offsets
  <1>1. sockq' \in Seq(Datagram) /\ pending' \in Seq(Datagram)
    BY EmptyQueue DEF NoEndpoints
  <1>2. wsLease' \in 0..MaxStarts
    BY BridgeAssumption DEF NoEndpoints
  <1>3. QED
    BY <1>1, <1>2 DEF NoEndpoints, NoHelper

-----------------------------------------------------------------------------
(* start(), stop() and the helper process.                                 *)

LEMMA StartStep ==
  ASSUME IInv, NEW c \in 0..MaxPorts, Start(c)
  PROVE  IInv'
  <1>1. /\ TypeOK /\ PathInv /\ starts + 1 \in 0..MaxStarts /\ starts' = starts + 1 /\ main = "idle"
        /\ NoHelper /\ NoEndpoints
        /\ UNCHANGED <<other, wire, got, expired, sent, faults, selfBlocked>>
    BY BridgeAssumption DEF IInv, TypeOK, Start, netVars
  <1>2. /\ running' \in BOOLEAN /\ leaseId' \in 0..MaxStarts /\ main' \in {"idle", "turn"}
        /\ cand' \in 0..MaxPorts
        /\ main' = "idle" => ~running' /\ leaseId' = 0
        /\ main' = "turn" => running'
    <2>1. \/ running' = FALSE /\ leaseId' = 0 /\ main' = "idle" /\ cand' = cand
          \/ running' = TRUE /\ leaseId' = starts + 1 /\ main' = "turn" /\ cand' = c
      BY <1>1 DEF Start
    <2>2. 0 \in 0..MaxStarts /\ cand \in 0..MaxPorts
      BY <1>1, BridgeAssumption DEF TypeOK
    <2>3. QED
      BY <1>1, <2>1, <2>2
  <1>3. TypeOK'
    BY <1>1, <1>2, EmptyTypes DEF TypeOK
  <1>4. PathInv'
    BY <1>1, <1>2 DEF PathInv, Idle, Starting, HelperInv, EndsInv, NoHelper, NoEndpoints
  <1>5. DataInv'
    BY <1>1, DataForgotten, NoEndpointsEmpty
  <1>6. QED
    BY <1>3, <1>4, <1>5 DEF IInv

LEMMA StopStep ==
  ASSUME IInv, Stop
  PROVE  IInv'
  <1>1. /\ TypeOK /\ PathInv /\ main = "idle" /\ running' = FALSE /\ leaseId' = 0 /\ NoHelper /\ NoEndpoints
        /\ UNCHANGED <<main, cand, other, wire, got, expired, starts, sent, faults, selfBlocked>>
    BY DEF IInv, Stop, stop, netVars
  <1>2. TypeOK'
    <2>1. leaseId' \in 0..MaxStarts
      BY <1>1, BridgeAssumption
    <2>2. QED
      BY <1>1, <2>1, EmptyTypes DEF TypeOK
  <1>3. PathInv'
    BY <1>1 DEF PathInv, Idle, Starting, HelperInv, EndsInv, NoHelper, NoEndpoints
  <1>4. DataInv'
    BY <1>1, DataForgotten, NoEndpointsEmpty
  <1>5. QED
    BY <1>2, <1>3, <1>4 DEF IInv

\* While the helper is started, opens its ports and ends, the endpoints and the
\* datagrams are left alone.
HelperStep ==
  \/ TryHelper \/ HelperReady \/ HelperExits \/ SeeReady \/ SeeFailure
  \/ \E o \in Offsets : HelperOpens(o) \/ OtherProgram(o)

LEMMA HelperSteps ==
  ASSUME IInv, HelperStep
  PROVE  IInv'
  <1>1. /\ TypeOK /\ PathInv /\ DataInv
        /\ UNCHANGED <<running, leaseId, ends, sockq, pending, ws, wsLease, retry, wire, got, expired,
                       starts, sent, selfBlocked>>
    BY DEF IInv, HelperStep, TryHelper, HelperReady, HelperExits, SeeReady, SeeFailure, HelperOpens,
           OtherProgram, endVars, netVars
  <1>2. DataInv'
    BY <1>1, DataSame
  <1>3. SUFFICES TypeOK' /\ PathInv'
    BY <1>2 DEF IInv
  <1>4. CASE TryHelper
    <2>1. /\ main = "turn" /\ helper = "none" /\ cand' \in 0..MaxPorts /\ helper' \in {"none", "opening"}
          /\ helper' = "opening" => cand' > 0
          /\ UNCHANGED <<main, printed, attached, hports, reaped, other, faults>>
      BY <1>1, <1>4, BridgeAssumption DEF TryHelper, TypeOK
    <2>2. QED
      BY <1>1, <2>1 DEF TypeOK, PathInv, Idle, Starting, HelperInv, EndsInv
  <1>5. CASE HelperReady
    BY <1>1, <1>5 DEF HelperReady, TypeOK, PathInv, Idle, Starting, HelperInv, EndsInv
  <1>6. CASE HelperExits
    <2>1. /\ helper \in {"opening", "ready"} /\ helper' = "dead" /\ hports' = {} /\ faults' \in 0..MaxFaults
          /\ UNCHANGED <<main, cand, printed, attached, reaped, other>>
      BY <1>1, <1>6, BridgeAssumption DEF HelperExits, TypeOK
    <2>2. QED
      BY <1>1, <2>1 DEF TypeOK, PathInv, Idle, Starting, HelperInv, EndsInv
  <1>7. CASE SeeReady
    <2>1. /\ main = "turn" /\ printed /\ attached' = TRUE /\ main' = "idle" /\ cand' = 0
          /\ reaped' \in BOOLEAN /\ UNCHANGED <<helper, printed, hports, other, faults>>
      BY <1>7 DEF SeeReady
    <2>2. QED
      BY <1>1, <2>1, BridgeAssumption DEF TypeOK, PathInv, Idle, Starting, HelperInv, EndsInv
  <1>8. CASE SeeFailure
    <2>1. /\ main = "turn" /\ helper # "none" /\ NoHelper /\ UNCHANGED <<main, other, faults>>
          /\ cand' = cand - 1
      BY <1>8 DEF SeeFailure
    <2>2. cand' \in 0..MaxPorts
      BY <1>1, <2>1, BridgeAssumption DEF TypeOK, PathInv, Starting
    <2>3. QED
      BY <1>1, <2>1, <2>2 DEF TypeOK, PathInv, Idle, Starting, HelperInv, EndsInv, NoHelper
  <1>9. ASSUME NEW o \in Offsets, HelperOpens(o)
        PROVE  TypeOK' /\ PathInv'
    <2>1. /\ helper = "opening" /\ UNCHANGED <<main, cand, printed, attached, reaped, other, faults>>
          /\ \/ helper' = "dead" /\ hports' = {}
             \/ hports' = hports \union {o} /\ helper' = helper
      BY <1>9 DEF HelperOpens
    <2>2. QED
      BY <1>1, <2>1 DEF TypeOK, PathInv, Idle, Starting, HelperInv, EndsInv
  <1>10. ASSUME NEW o \in Offsets, OtherProgram(o)
         PROVE  TypeOK' /\ PathInv'
    <2>1. /\ UNCHANGED <<main, cand, helper, printed, attached, hports, reaped>>
          /\ other' \subseteq Offsets /\ faults' \in 0..MaxFaults
      BY <1>1, <1>10, BridgeAssumption DEF OtherProgram, TypeOK, pathVars
    <2>2. QED
      BY <1>1, <2>1 DEF TypeOK, PathInv, Idle, Starting, HelperInv, EndsInv
  <1>11. QED
    BY <1>4, <1>5, <1>6, <1>7, <1>8, <1>9, <1>10 DEF HelperStep

\* The fallback takes all ports or stops; a helper that is gone is not in its way.
LEMMA FallbackStep ==
  ASSUME IInv, TurnFails \/ HelperFinished
  PROVE  IInv'
  <1>1. /\ TypeOK /\ PathInv /\ DataInv /\ main' = "idle" /\ running /\ ends = {}
        /\ helper \in {"none", "dead"} /\ hports = {} /\ startWebSocketUdpFallback
        /\ UNCHANGED <<cand, other, wire, got, expired, starts, sent, faults>>
    BY DEF IInv, TurnFails, HelperFinished, PathInv, Idle, Starting, HelperInv, EndsInv, netVars
  <1>2. sockq = <<>> /\ pending = <<>> /\ ws = "none" /\ ~retry /\ Offsets # {}
    BY <1>1, BridgeAssumption DEF PathInv, EndsInv
  <1>3. CASE /\ ends' = Offsets /\ NoHelper
             /\ UNCHANGED <<running, leaseId, sockq, pending, ws, wsLease, retry, selfBlocked>>
    <2>1. TypeOK'
      BY <1>1, <1>3 DEF TypeOK, NoHelper
    <2>2. PathInv'
      BY <1>1, <1>2, <1>3 DEF PathInv, Idle, Starting, HelperInv, EndsInv, NoHelper
    <2>3. DataInv'
      BY <1>1, <1>3, DataSame
    <2>4. QED
      BY <2>1, <2>2, <2>3 DEF IInv
  <1>4. CASE /\ Offsets \intersect (other \union hports) # {}
             /\ selfBlocked' = (selfBlocked \/ Offsets \intersect other = {})
             /\ stop
    <2>1. running' = FALSE /\ leaseId' = 0 /\ NoHelper /\ NoEndpoints
      BY <1>4 DEF stop
    <2>2. selfBlocked' = FALSE
      BY <1>1, <1>4 DEF PathInv, TypeOK
    <2>3. TypeOK'
      <3>1. leaseId' \in 0..MaxStarts
        BY <2>1, BridgeAssumption
      <3>2. QED
        BY <1>1, <2>1, <2>2, <3>1, EmptyTypes DEF TypeOK
    <2>4. PathInv'
      BY <1>1, <2>1, <2>2 DEF PathInv, Idle, Starting, HelperInv, EndsInv, NoHelper, NoEndpoints
    <2>5. DataInv'
      BY <1>1, <2>1, DataForgotten, NoEndpointsEmpty
    <2>6. QED
      BY <2>3, <2>4, <2>5 DEF IInv
  <1>5. QED
    BY <1>1, <1>3, <1>4 DEF startWebSocketUdpFallback

-----------------------------------------------------------------------------
(* Datagrams.                                                              *)

\* The helper, the ports and the bridge stay as they are, and the endpoints bound.
LEMMA PathSame ==
  ASSUME PathInv, EndsInv', UNCHANGED <<main, running, leaseId, cand, pathVars, ends, selfBlocked>>
  PROVE  PathInv'
  BY DEF PathInv, Idle, Starting, HelperInv, pathVars

LEMMA Numbers ==
  ASSUME TypeOK
  PROVE  /\ sent \in Nat /\ Len(sockq) \in Nat /\ Len(pending) \in Nat
         /\ \A p \in wire \union got : p.d.n \in Nat
         /\ \A i \in 1..Len(sockq) : sockq[i] \in Datagram /\ sockq[i].n \in Nat
         /\ \A i \in 1..Len(pending) : pending[i] \in Datagram /\ pending[i].n \in Nat
  <1>1. sent \in Nat /\ \A d \in Datagram : d.n \in Nat
    BY BridgeAssumption DEF TypeOK, Datagram
  <1>2. sockq \in Seq(Datagram) /\ pending \in Seq(Datagram)
    BY DEF TypeOK
  <1>3. \A p \in wire \union got : p.d \in Datagram
    BY DEF TypeOK
  <1>4. QED
    BY <1>1, <1>2, <1>3

\* The next number for what is sent, and one more that waits.
LEMMA OneMore ==
  /\ \A n, l, k, i \in Nat : n + l = k + i => n + (l + 1) = (k + 1) + i
  /\ \A n, l, m, k, i \in Nat : n + l + m = k + i => n + (l + 1) + m = (k + 1) + i
  OBVIOUS

LEMMA AppSendsStep ==
  ASSUME IInv, AppSends
  PROVE  IInv'
  <1> DEFINE d == [n |-> sent + 1, from |-> leaseId]
  <1>1. /\ TypeOK /\ PathInv /\ DataInv /\ sent' = sent + 1 /\ sent' \in 0..MaxData /\ d \in Datagram
        /\ UNCHANGED <<main, running, leaseId, cand, pathVars, ends, pending, ws, wsLease, retry,
                       other, got, expired, starts, faults, selfBlocked>>
    BY BridgeAssumption DEF IInv, TypeOK, AppSends, Datagram
  <1>2. CASE Watched \in ends
    <2>1. sockq' = Append(sockq, d) /\ wire' = wire
      BY <1>1, <1>2 DEF AppSends, PathInv, HelperInv
    <2>2. /\ sockq' \in Seq(Datagram) /\ Len(sockq') = Len(sockq) + 1
          /\ \A i \in 1..Len(sockq) : sockq'[i] = sockq[i]
          /\ sockq'[Len(sockq) + 1] = d
      BY <1>1, <2>1, AppendProperties DEF TypeOK
    <2>3. TypeOK'
      BY <1>1, <2>1, <2>2 DEF TypeOK, pathVars
    <2>4. EndsInv'
      BY <1>1, <1>2 DEF PathInv, EndsInv
    <2>5. Numbered'
      <3>1. \A i \in 1..Len(sockq') : sockq'[i].n + Len(sockq') = sent' + i /\ sockq'[i].from = leaseId'
        <4>1. TAKE i \in 1..Len(sockq')
        <4>2. CASE i \in 1..Len(sockq)
          <5>1. sockq[i].n + Len(sockq) = sent + i /\ sockq[i].from = leaseId
            BY <1>1, <4>2 DEF DataInv, Numbered
          <5>2. sockq'[i] = sockq[i] /\ sockq[i].n \in Nat /\ i \in Nat
            BY <1>1, <2>2, <4>2, Numbers
          <5>3. sockq[i].n + (Len(sockq) + 1) = (sent + 1) + i
            <6>1. Len(sockq) \in Nat /\ sent \in Nat
              BY <1>1, Numbers
            <6>2. QED
              BY <5>1, <5>2, <6>1, OneMore
          <5>4. QED
            BY <1>1, <2>2, <5>1, <5>2, <5>3
        <4>3. CASE i = Len(sockq) + 1
          BY <1>1, <2>2, <4>3, Numbers
        <4>4. QED
          BY <1>1, <2>2, <4>2, <4>3, Numbers
      <3>2. \A i \in 1..Len(pending) : /\ pending[i].n + Len(sockq') + Len(pending) = sent' + i
                                       /\ pending[i].from = leaseId
        <4>1. TAKE i \in 1..Len(pending)
        <4>2. /\ pending[i].n + Len(sockq) + Len(pending) = sent + i
              /\ pending[i].from = leaseId
          BY <1>1 DEF DataInv, Numbered
        <4>3. pending[i].n \in Nat /\ Len(sockq) \in Nat /\ Len(pending) \in Nat /\ sent \in Nat /\ i \in Nat
          BY <1>1, Numbers
        <4>4. pending[i].n + (Len(sockq) + 1) + Len(pending) = (sent + 1) + i
          BY <4>2, <4>3, OneMore
        <4>5. QED
          BY <1>1, <2>2, <4>2, <4>4
      <3>3. QED
        BY <1>1, <3>1, <3>2 DEF DataInv, Numbered
    <2>6. \A p \in wire \union got : Relayed(p)'
      BY <1>1, <2>2, Numbers DEF DataInv, Relayed
    <2>7. QED
      BY <1>1, <2>1, <2>3, <2>4, <2>5, <2>6, PathSame DEF IInv, DataInv, Once
  <1>3. CASE Watched \notin ends
    <2>1. ends = {} /\ sockq' = sockq /\ sockq = <<>> /\ pending = <<>>
      BY <1>1, <1>3, BridgeAssumption DEF AppSends, PathInv, EndsInv
    <2>2. PICK new : /\ new = [d |-> d, to |-> leaseId]
                     /\ wire' = wire \/ wire' = wire \union {new}
      BY DEF AppSends
    <2>3. new \in [d : Datagram, to : 0..MaxStarts]
      BY <1>1, <2>2 DEF TypeOK
    <2>4. TypeOK'
      BY <1>1, <2>1, <2>2, <2>3 DEF TypeOK, pathVars
    <2>5. EndsInv'
      BY <1>1, <2>1 DEF PathInv, EndsInv
    <2>6. Numbered'
      BY <1>1, <2>1, EmptyQueue DEF DataInv, Numbered
    <2>7. \A p \in wire \union got : Relayed(p)' /\ p.d.n <= sent
      BY <1>1, <2>1, EmptyQueue, Numbers DEF DataInv, Relayed
    <2>8. Relayed(new)' /\ new.d.n = sent + 1
      BY <1>1, <2>1, <2>2, EmptyQueue, Numbers DEF Relayed
    <2>9. Once'
      <3>1. \A p \in wire \union got : p.d.n # new.d.n
        BY <1>1, <2>7, <2>8, Numbers
      <3>2. QED
        BY <1>1, <2>2, <3>1 DEF DataInv, Once
    <2>10. DataInv'
      <3>1. \A p \in (wire \union got)' : Relayed(p)'
        BY <1>1, <2>2, <2>7, <2>8
      <3>2. QED
        BY <2>6, <2>9, <3>1 DEF DataInv
    <2>11. QED
      BY <1>1, <2>4, <2>5, <2>10, PathSame DEF IInv
  <1>4. QED
    BY <1>2, <1>3

LEMMA WsSteps ==
  ASSUME IInv, WsDisconnected \/ RetryTimer
  PROVE  IInv'
  <1>1. /\ TypeOK /\ PathInv /\ DataInv
        /\ UNCHANGED <<main, running, leaseId, cand, pathVars, ends, sockq, pending, other, wire, got,
                       expired, starts, sent, selfBlocked>>
    BY DEF IInv, WsDisconnected, RetryTimer, netVars
  <1>2. faults' \in 0..MaxFaults
    BY <1>1, BridgeAssumption DEF WsDisconnected, RetryTimer, TypeOK
  <1>3. /\ ws' \in {"none", "connecting", "connected"} /\ wsLease' \in 0..MaxStarts /\ retry' \in BOOLEAN
        /\ ends = {} => ws' = "none" /\ ~retry'
        /\ ws' # "none" => wsLease' = leaseId
        /\ ws' = "connected" => pending = <<>>
    <2>1. CASE WsDisconnected
      <3>1. ws # "none" /\ ws' = "none" /\ wsLease' = 0
            /\ retry' = (retry \/ (running /\ pending # <<>>))
        BY <2>1 DEF WsDisconnected
      <3>2. retry' \in BOOLEAN
        BY <1>1, <3>1 DEF TypeOK
      <3>3. ends # {} /\ 0 \in 0..MaxStarts
        BY <1>1, <3>1, BridgeAssumption DEF PathInv, EndsInv
      <3>4. QED
        BY <3>1, <3>2, <3>3
    <2>2. CASE RetryTimer
      BY <1>1, <2>2 DEF RetryTimer, openUdpTunnel, TypeOK, PathInv, EndsInv
    <2>3. QED
      BY <2>1, <2>2
  <1>4. TypeOK'
    BY <1>1, <1>2, <1>3 DEF TypeOK, pathVars
  <1>5. EndsInv'
    BY <1>1, <1>3 DEF PathInv, EndsInv
  <1>6. QED
    BY <1>1, <1>4, <1>5, PathSame, DataSame DEF IInv

\* All that waits is relayed at once.
LEMMA WsConnectedStep ==
  ASSUME IInv, WsConnected
  PROVE  IInv'
  <1> DEFINE New(i) == [d |-> pending[i], to |-> wsLease]
  <1>1. /\ TypeOK /\ PathInv /\ DataInv /\ ws = "connecting" /\ ws' = "connected" /\ pending' = <<>>
        /\ wsLease = leaseId /\ ends # {}
        /\ UNCHANGED <<main, running, leaseId, cand, pathVars, ends, sockq, wsLease, retry, other,
                       got, expired, starts, sent, faults, selfBlocked>>
    BY DEF IInv, WsConnected, PathInv, EndsInv
  <1>2. DOMAIN pending = 1..Len(pending)
    BY <1>1 DEF TypeOK
  <1>3. wire' = wire \union {New(i) : i \in 1..Len(pending)}
    BY <1>2 DEF WsConnected
  <1>4. \A i \in 1..Len(pending) :
          /\ New(i) \in [d : Datagram, to : 0..MaxStarts] /\ New(i).to = New(i).d.from
          /\ New(i).d.n + Len(sockq) + Len(pending) = sent + i
          /\ New(i).d.n \in Nat
    BY <1>1, Numbers DEF TypeOK, DataInv, Numbered
  <1>5. TypeOK'
    <2>1. wire' \subseteq [d : Datagram, to : 0..MaxStarts]
      BY <1>1, <1>3, <1>4 DEF TypeOK
    <2>2. pending' \in Seq(Datagram)
      BY <1>1, EmptyQueue
    <2>3. QED
      BY <1>1, <2>1, <2>2 DEF TypeOK, pathVars
  <1>6. EndsInv'
    BY <1>1 DEF PathInv, EndsInv
  <1>7. Numbered'
    BY <1>1, EmptyQueue, Numbers, BridgeAssumption DEF DataInv, Numbered
  <1>8. \A p \in (wire \union got)' : Relayed(p)'
    <2>1. SUFFICES ASSUME NEW p \in (wire \union got)'
                   PROVE  p.to = p.d.from /\ p.d.n + Len(sockq) + 0 <= sent
      BY <1>1, EmptyQueue DEF Relayed
    <2>2. CASE p \in wire \union got
      BY <1>1, <2>2, Numbers DEF DataInv, Relayed
    <2>3. ASSUME NEW i \in 1..Len(pending), p = New(i)
          PROVE  p.to = p.d.from /\ p.d.n + Len(sockq) + 0 <= sent
      BY <1>1, <1>4, <2>3, Numbers
    <2>4. QED
      BY <1>1, <1>3, <2>2, <2>3
  <1>9. Once'
    <2>1. \A p \in wire \union got, i \in 1..Len(pending) : p.d.n # New(i).d.n
      BY <1>1, <1>4, Numbers DEF DataInv, Relayed
    <2>2. \A i, j \in 1..Len(pending) : New(i).d.n = New(j).d.n => i = j
      BY <1>1, <1>4, Numbers
    <2>3. QED
      BY <1>1, <1>3, <2>1, <2>2 DEF DataInv, Once
  <1>10. QED
    BY <1>1, <1>5, <1>6, <1>7, <1>8, <1>9, PathSame DEF IInv, DataInv

LEMMA DeliverStep ==
  ASSUME IInv, NEW p \in wire, Deliver(p)
  PROVE  IInv'
  <1>1. /\ TypeOK /\ PathInv /\ DataInv /\ (wire \union got)' \subseteq wire \union got
        /\ UNCHANGED <<main, running, leaseId, cand, pathVars, endVars, other, expired, starts, sent,
                       faults, selfBlocked>>
    BY DEF IInv, Deliver
  <1>2. TypeOK'
    BY <1>1 DEF TypeOK, pathVars, endVars
  <1>3. EndsInv'
    BY <1>1 DEF PathInv, EndsInv, endVars
  <1>4. DataInv'
    BY <1>1 DEF DataInv, Numbered, Relayed, Once, endVars
  <1>5. QED
    BY <1>1, <1>2, <1>3, <1>4, PathSame DEF IInv, endVars

LEMMA EndLeaseStep ==
  ASSUME IInv, NEW l \in 1..MaxStarts, EndLease(l)
  PROVE  IInv'
  <1>1. /\ TypeOK /\ PathInv /\ DataInv /\ expired' \subseteq 1..MaxStarts
        /\ UNCHANGED <<main, running, leaseId, cand, pathVars, ends, sockq, pending, ws, wsLease, retry,
                       other, wire, got, starts, sent, faults, selfBlocked>>
    BY DEF IInv, EndLease, TypeOK, endVars
  <1>2. TypeOK'
    BY <1>1 DEF TypeOK, pathVars
  <1>3. EndsInv'
    BY <1>1 DEF PathInv, EndsInv
  <1>4. QED
    BY <1>1, <1>2, <1>3, PathSame, DataSame DEF IInv

-----------------------------------------------------------------------------
(* The event loop reads a datagram.                                        *)

\* The same numbers, with one less in the socket and p datagrams that waited
\* become q.
LEMMA OneLess ==
  /\ \A n, l, m, t, i \in Nat : l + 1 = m /\ n + m = t + (i + 1) => n + l = t + i
  /\ \A n, l, m, q, t \in Nat : l + 1 = m /\ n + m = t + 1 => n + l + q = t + q
  /\ \A n, l, m, p, q, t, i, k \in Nat :
       l + 1 = m /\ q + k = p + 1 /\ n + m + p = t + (i + k) => n + l + q = t + i
  /\ \A n, l, m, p, q, t, k \in Nat :
       l + 1 = m /\ q + k = p + 1 /\ n + m + p <= t => n + l + q <= t
  OBVIOUS

LEMMA OpenedTunnel ==
  ASSUME TypeOK, PathInv, main = "idle", ends # {}, ws # "connected", openUdpTunnel
  PROVE  ws' = "connecting" /\ wsLease' = leaseId
  BY DEF TypeOK, PathInv, Idle, EndsInv, openUdpTunnel

LEMMA ReadDatagramStep ==
  ASSUME IInv, ReadDatagram
  PROVE  IInv'
  <1>1. /\ TypeOK /\ PathInv /\ DataInv /\ main = "idle" /\ sockq # <<>> /\ sockq' = Tail(sockq)
        /\ ends # {}
        /\ UNCHANGED <<main, running, leaseId, cand, pathVars, ends, retry, other, got, expired,
                       starts, sent, faults, selfBlocked>>
    BY DEF IInv, ReadDatagram, PathInv, EndsInv
  <1>2. /\ Head(sockq) = sockq[1] /\ Head(sockq) \in Datagram /\ sockq' \in Seq(Datagram)
        /\ Len(sockq') + 1 = Len(sockq) /\ Len(sockq') \in Nat
        /\ \A i \in 1..Len(sockq') : sockq'[i] = sockq[i + 1]
    BY <1>1, TailOf, Lengths DEF TypeOK
  <1>n. /\ sent \in Nat /\ Len(sockq) \in Nat /\ Len(pending) \in Nat
        /\ \A p \in wire \union got : p.d.n \in Nat
        /\ \A d \in Datagram : d.n \in Nat
    BY <1>1, Numbers, BridgeAssumption DEF Datagram
  <1>h. Head(sockq) \in Datagram
    BY <1>2
  <1>l. /\ sent \in Nat /\ Len(sockq) \in Nat /\ Len(pending) \in Nat
        /\ Len(sockq') \in Nat /\ Len(sockq') + 1 = Len(sockq)
    BY <1>2, <1>n
  <1>3. Head(sockq).n + Len(sockq) = sent + 1 /\ Head(sockq).from = leaseId
    <2>1. 1 \in 1..Len(sockq)
      BY <1>2, <1>n
    <2>2. QED
      BY <1>1, <1>2, <2>1 DEF DataInv, Numbered
  <1>4. \A i \in 1..Len(sockq') : sockq'[i].n + Len(sockq') = sent + i /\ sockq'[i].from = leaseId
    <2>1. TAKE i \in 1..Len(sockq')
    <2>2. i + 1 \in 1..Len(sockq)
      BY <1>2, <1>n
    <2>3. sockq[i + 1].n + Len(sockq) = sent + (i + 1) /\ sockq[i + 1].from = leaseId
      BY <1>1, <2>2 DEF DataInv, Numbered
    <2>4. sockq[i + 1] \in Datagram
      BY <1>1, <2>2 DEF TypeOK
    <2>5. sockq[i + 1].n \in Nat /\ i \in Nat /\ sockq'[i] = sockq[i + 1]
      BY <1>2, <1>n, <2>4
    <2>6. sockq[i + 1].n + Len(sockq') = sent + i
      <3>1. PICK n \in Nat : n = sockq[i + 1].n
        BY <2>5
      <3>2. n + Len(sockq) = sent + (i + 1) /\ i \in Nat
        BY <2>3, <3>1
      <3>3. n + Len(sockq') = sent + i
        BY <1>l, <3>2, OneLess
      <3>4. QED
        BY <3>1, <3>3
    <2>7. QED
      BY <2>3, <2>5, <2>6
  <1>5. CASE ws = "connected"
    <2>1. PICK new : /\ new = [d |-> Head(sockq), to |-> wsLease]
                     /\ wire' = wire \union {new}
      BY <1>5 DEF ReadDatagram
    <2>2. UNCHANGED <<pending, ws, wsLease>> /\ pending = <<>> /\ wsLease = leaseId
      BY <1>1, <1>5 DEF ReadDatagram, PathInv, EndsInv
    <2>3. TypeOK'
      <3>1. new \in [d : Datagram, to : 0..MaxStarts]
        BY <1>1, <1>2, <2>1 DEF TypeOK
      <3>2. QED
        BY <1>1, <1>2, <2>1, <2>2, <3>1 DEF TypeOK, pathVars
    <2>4. EndsInv'
      BY <1>1, <2>2 DEF PathInv, EndsInv
    <2>5. Numbered'
      BY <1>1, <1>4, <2>2, EmptyQueue DEF DataInv, Numbered
    <2>6. \A p \in wire \union got : Relayed(p)' /\ p.d.n # new.d.n
      <3>1. TAKE p \in wire \union got
      <3>2. p.to = p.d.from /\ p.d.n + Len(sockq) + 0 <= sent
        BY <1>1, <2>2, EmptyQueue DEF DataInv, Relayed
      <3>3. p.d.n # new.d.n
        BY <1>2, <1>3, <1>n, <2>1, <3>2
      <3>4. Relayed(p)'
        BY <1>1, <1>2, <1>n, <2>2, <3>2, EmptyQueue DEF Relayed
      <3>5. QED
        BY <3>3, <3>4
    <2>7. Relayed(new)'
      <3>1. new.d.n + Len(sockq') + 0 <= sent
        BY <1>2, <1>3, <1>n, <2>1
      <3>2. QED
        BY <1>1, <1>3, <2>1, <2>2, <3>1, EmptyQueue DEF Relayed
    <2>8. DataInv'
      <3>1. \A p \in (wire \union got)' : Relayed(p)'
        BY <1>1, <2>1, <2>6, <2>7
      <3>2. Once'
        BY <1>1, <2>1, <2>6 DEF DataInv, Once
      <3>3. QED
        BY <2>5, <3>1, <3>2 DEF DataInv
    <2>9. QED
      BY <1>1, <2>3, <2>4, <2>8, PathSame DEF IInv
  <1>6. CASE ws # "connected"
    <2>1. pending' = Enqueue(pending, Head(sockq)) /\ wire' = wire
          /\ ws' = "connecting" /\ wsLease' = leaseId
      BY <1>1, <1>6, OpenedTunnel DEF ReadDatagram
    <2>2. /\ pending' \in Seq(Datagram) /\ Len(pending') \in 1..MaxPending
          /\ pending'[Len(pending')] = Head(sockq)
          /\ \E k \in {0, 1} : /\ Len(pending') + k = Len(pending) + 1
                               /\ \A i \in 1..Len(pending') :
                                    i # Len(pending') => pending'[i] = pending[i + k]
      <3>1. pending \in Seq(Datagram) /\ Len(pending) <= MaxPending
        BY <1>1 DEF TypeOK, DataInv, Numbered
      <3>2. QED
        BY <1>h, <2>1, <3>1, EnqueueFacts
    <2>3. PICK k \in {0, 1} : /\ Len(pending') + k = Len(pending) + 1
                              /\ \A i \in 1..Len(pending') :
                                   i # Len(pending') => pending'[i] = pending[i + k]
      BY <2>2
    <2>l. Len(pending') \in Nat
      BY <2>2
    <2>4. Len(pending') \in Nat /\ MaxPending \in Nat
      BY <2>2, BridgeAssumption
    <2>5. TypeOK'
      BY <1>1, <1>2, <2>1, <2>2 DEF TypeOK, pathVars
    <2>6. EndsInv'
      BY <1>1, <2>1 DEF PathInv, EndsInv
    <2>7. \A i \in 1..Len(pending') : /\ pending'[i].n + Len(sockq') + Len(pending') = sent + i
                                      /\ pending'[i].from = leaseId
      <3>1. TAKE i \in 1..Len(pending')
      <3>2. CASE i = Len(pending')
        <4>1. pending'[i].n + Len(sockq) = sent + 1 /\ pending'[i].n \in Nat /\ pending'[i].from = leaseId
          BY <1>2, <1>3, <1>n, <2>2, <3>2
        <4>2. pending'[i].n + Len(sockq') + Len(pending') = sent + Len(pending')
          <5>1. PICK n \in Nat : n = pending'[i].n
            BY <4>1
          <5>2. n + Len(sockq) = sent + 1
            BY <4>1, <5>1
          <5>3. n + Len(sockq') + Len(pending') = sent + Len(pending')
            BY <1>l, <2>l, <5>2, OneLess
          <5>4. QED
            BY <5>1, <5>3
        <4>3. QED
          BY <3>2, <4>1, <4>2
      <3>3. CASE i # Len(pending')
        <4>i. i \in Nat
          OBVIOUS
        <4>1. i + k \in 1..Len(pending) /\ pending'[i] = pending[i + k] /\ i \in Nat
          BY <1>n, <2>3, <2>4, <3>3
        <4>2. /\ pending[i + k].n + Len(sockq) + Len(pending) = sent + (i + k)
              /\ pending[i + k].from = leaseId
          BY <1>1, <4>1 DEF DataInv, Numbered
        <4>3. pending[i + k].n \in Nat
          BY <1>1, <4>1, Numbers
        <4>4. pending[i + k].n + Len(sockq') + Len(pending') = sent + i
          <5>1. Len(pending') + k = Len(pending) + 1 /\ k \in Nat
            BY <2>3
          <5>2. PICK n \in Nat : n = pending[i + k].n
            BY <4>3
          <5>3. n + Len(sockq) + Len(pending) = sent + (i + k)
            BY <4>2, <5>2
          <5>4. n + Len(sockq') + Len(pending') = sent + i
            BY <1>l, <2>l, <4>i, <5>1, <5>3, OneLess
          <5>5. QED
            BY <5>2, <5>4
        <4>5. QED
          BY <4>1, <4>2, <4>4
      <3>4. QED
        BY <3>2, <3>3
    <2>8. Len(pending') <= MaxPending
      BY <2>2, <2>4
    <2>9. \A p \in wire \union got : Relayed(p)'
      <3>1. TAKE p \in wire \union got
      <3>2. p.to = p.d.from /\ p.d.n + Len(sockq) + Len(pending) <= sent /\ p.d.n \in Nat
        BY <1>1, <1>n DEF DataInv, Relayed
      <3>3. p.d.n + Len(sockq') + Len(pending') <= sent
        <4>1. Len(pending') + k = Len(pending) + 1 /\ k \in Nat
          BY <2>3
        <4>2. QED
          BY <1>l, <2>l, <3>2, <4>1, OneLess
      <3>4. QED
        BY <1>1, <3>2, <3>3 DEF Relayed
    <2>10. Numbered'
      BY <1>1, <1>4, <2>7, <2>8 DEF Numbered
    <2>11. DataInv'
      BY <1>1, <2>1, <2>9, <2>10 DEF DataInv, Once
    <2>12. QED
      BY <1>1, <2>5, <2>6, <2>11, PathSame DEF IInv
  <1>7. QED
    BY <1>5, <1>6

-----------------------------------------------------------------------------
(* The whole.                                                              *)

LEMMA IInvInit == Init => IInv
  <1> SUFFICES ASSUME Init
               PROVE  IInv
    OBVIOUS
  <1>1. sockq \in Seq(Datagram) /\ pending \in Seq(Datagram) /\ Len(sockq) = 0 /\ Len(pending) = 0
    BY EmptyQueue DEF Init
  <1>2. 0 \in 0..MaxStarts /\ 0 \in 0..MaxPorts /\ 0 \in 0..MaxData /\ 0 \in 0..MaxFaults /\ 0 <= MaxPending
    BY BridgeAssumption
  <1>3. TypeOK
    BY <1>1, <1>2 DEF Init, TypeOK
  <1>4. PathInv
    BY DEF Init, PathInv, Idle, Starting, HelperInv, EndsInv
  <1>5. DataInv
    BY <1>1, <1>2 DEF Init, DataInv, Numbered, Relayed, Once
  <1>6. QED
    BY <1>3, <1>4, <1>5 DEF IInv

LEMMA IInvNext == IInv /\ [Next]_vars => IInv'
  <1> SUFFICES ASSUME IInv, [Next]_vars
               PROVE  IInv'
    OBVIOUS
  <1>1. CASE MainThread
    BY <1>1, HelperSteps, FallbackStep, ReadDatagramStep, WsConnectedStep, WsSteps
       DEF MainThread, HelperStep
  <1>2. CASE Environment
    BY <1>2, HelperSteps, WsSteps, AppSendsStep, DeliverStep, EndLeaseStep DEF Environment, HelperStep
  <1>3. CASE UNCHANGED vars
    <2>1. UNCHANGED <<main, running, leaseId, cand, pathVars, ends, sockq, pending, ws, wsLease, retry,
                      other, wire, got, expired, starts, sent, faults, selfBlocked>>
      BY <1>3 DEF vars, endVars, netVars
    <2>2. TypeOK'
      BY <2>1 DEF IInv, TypeOK, pathVars
    <2>3. EndsInv'
      BY <2>1 DEF IInv, PathInv, EndsInv
    <2>4. QED
      BY <2>1, <2>2, <2>3, PathSame, DataSame DEF IInv
  <1>4. QED
    BY <1>1, <1>2, <1>3, StartStep, StopStep DEF Next

LEMMA IInvHolds == Spec => []IInv
  BY IInvInit, IInvNext, PTL DEF Spec

\* start(), stop(), startTurnHelper() and the finished handler: a bridge that
\* runs has one UDP path, one that does not has left nothing behind, and a
\* helper that was given up never keeps the fallback from its ports.
THEOREM OnePathOnly == Spec => []BridgeInv
  <1>1. IInv => BridgeInv
    <2> SUFFICES ASSUME IInv
                 PROVE  TypeOK /\ OnePath
      BY DEF BridgeInv
    <2>1. Offsets # {}
      BY BridgeAssumption
    <2>2. OnePath
      BY <2>1 DEF IInv, TypeOK, PathInv, Idle, Starting, HelperInv, EndsInv, OnePath
    <2>3. QED
      BY <2>2 DEF IInv
  <1>2. QED
    BY <1>1, IInvHolds, PTL

\* The numbers say which datagrams wait.
LEMMA NewestWait == IInv => PendingIsNewest
  <1> SUFFICES ASSUME IInv
               PROVE  PendingIsNewest
    OBVIOUS
  <1>1. TypeOK /\ Numbered
    BY DEF IInv, DataInv
  <1>2. sent \in Nat /\ Len(sockq) \in Nat /\ Len(pending) \in Nat
    BY <1>1, Numbers
  <1>3. \A n, m, l, p, k, i \in Nat :
          n + l + p = k + i /\ m + l + p = k + (i + 1) => m = n + 1
    OBVIOUS
  <1>4. \A n, m, l, p, k \in Nat : n + l + p = k + p /\ m + l = k + 1 => m = n + 1
    OBVIOUS
  <1>5. ASSUME NEW i \in 1..(Len(pending) - 1)
        PROVE  pending[i + 1].n = pending[i].n + 1
    <2>1. i \in 1..Len(pending) /\ i + 1 \in 1..Len(pending) /\ i \in Nat
      BY <1>2
    <2>2. PICK n \in Nat : n = pending[i].n
      BY <1>1, <2>1, Numbers
    <2>3. PICK m \in Nat : m = pending[i + 1].n
      BY <1>1, <2>1, Numbers
    <2>4. n + Len(sockq) + Len(pending) = sent + i
      BY <1>1, <2>1, <2>2 DEF Numbered
    <2>5. m + Len(sockq) + Len(pending) = sent + (i + 1)
      BY <1>1, <2>1, <2>3 DEF Numbered
    <2>6. m = n + 1
      BY <1>2, <1>3, <2>1, <2>4, <2>5
    <2>7. QED
      BY <2>2, <2>3, <2>6
  <1>6. ASSUME pending # <<>>
        PROVE  /\ Len(pending) \in 1..Len(pending)
               /\ pending[Len(pending)].n \in Nat
               /\ pending[Len(pending)].n + Len(sockq) + Len(pending) = sent + Len(pending)
    <2>1. Len(pending) \in 1..Len(pending)
      BY <1>1, <1>2, <1>6, Lengths DEF TypeOK
    <2>2. QED
      BY <1>1, <2>1, Numbers DEF Numbered
  <1>7. ASSUME pending # <<>>, sockq # <<>>
        PROVE  Head(sockq).n = pending[Len(pending)].n + 1
    <2>1. 1 \in 1..Len(sockq) /\ Head(sockq) = sockq[1]
      BY <1>1, <1>2, <1>7, Lengths, TailOf DEF TypeOK
    <2>2. PICK m \in Nat : m = Head(sockq).n
      BY <1>1, <2>1, Numbers
    <2>3. m + Len(sockq) = sent + 1
      BY <1>1, <2>1, <2>2 DEF Numbered
    <2>4. PICK n \in Nat : n = pending[Len(pending)].n
      BY <1>6, <1>7
    <2>5. n + Len(sockq) + Len(pending) = sent + Len(pending)
      BY <1>6, <1>7, <2>4
    <2>6. m = n + 1
      BY <1>2, <1>4, <2>3, <2>5
    <2>7. QED
      BY <2>2, <2>4, <2>6
  <1>8. ASSUME pending # <<>>, sockq = <<>>
        PROVE  pending[Len(pending)].n = sent
    <2>1. PICK n \in Nat : n = pending[Len(pending)].n
      BY <1>6, <1>8
    <2>2. n + Len(sockq) + Len(pending) = sent + Len(pending) /\ Len(sockq) = 0
      BY <1>6, <1>8, <2>1, EmptyQueue
    <2>3. \A l, p, k \in Nat : n + l + p = k + p /\ l = 0 => n = k
      OBVIOUS
    <2>4. QED
      BY <1>2, <2>1, <2>2, <2>3
  <1>9. QED
    BY <1>1, <1>5, <1>7, <1>8 DEF PendingIsNewest, Numbered

\* readyRead, connected and disconnected of an endpoint: what waits for a
\* WebSocket are the newest datagrams, and a VM receives each at most once and
\* only what was sent under its lease.
THEOREM QueueIsNewest == Spec => []QueueInv
  <1>1. IInv => OwnLeaseOnly
    BY DEF IInv, DataInv, Relayed, Once, OwnLeaseOnly
  <1>2. IInv => QueueInv
    BY <1>1, NewestWait DEF QueueInv
  <1>3. QED
    BY <1>2, IInvHolds, PTL
=============================================================================
