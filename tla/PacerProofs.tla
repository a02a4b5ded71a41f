----------------------------- MODULE PacerProofs -----------------------------
(***************************************************************************)
(* The frames of the pacer have one owner each and keep their order, for   *)
(* every renderer, every number of frames and every shutdown.              *)
(***************************************************************************)
EXTENDS Pacer, FiniteSetTheorems, FunctionTheorems, TLAPS

Increasing(q) == \A i, j \in DOMAIN q : i < j => q[i] < q[j]

\* The frames on their way, oldest first: d on the screen, r in the renderer's
\* hand, R in the render queue, v in the V-sync thread's hand, P in the pacing
\* queue; the codec has put out the first n.
Chain(d, r, R, v, P, n) ==
  /\ r # 0 => d < r
  /\ \A f \in R : d < f /\ r < f
  /\ v # 0 => d < v /\ r < v /\ \A f \in R : f < v
  /\ \A g \in P : d < g /\ r < g /\ v < g /\ \A f \in R : f < g
  /\ d <= n /\ r <= n /\ v <= n /\ \A f \in R \union P : f <= n

\* The queues and the hands, and that what they hold is what is not freed.
FrameTypes ==
  /\ pacing \in Seq(Nat \ {0}) /\ render \in Seq(Nat \ {0})
  /\ vsHand \in Nat /\ rtHand \in Nat /\ deferred \in Nat /\ out \in Nat

Frames ==
  /\ FrameTypes
  /\ Held = live
  /\ Increasing(render) /\ Increasing(pacing)
  /\ Chain(deferred, rtHand, InQueue(render), vsHand, InQueue(pacing), out)
  /\ Len(render) <= MAX_QUEUED_FRAMES

\* Which steps of a thread hold a frame, and which threads there are.
Hands ==
  /\ rtHand # 0 <=> rt \in {"show", "free"}
  /\ vsHand # 0 <=> vs = "free"
  /\ ~mode.vsync => vs = "ended" /\ pacing = <<>>
  /\ ~mode.thread => rt \notin {"test", "sleep", "asleep"}

\* Which threads are over at a step of the shutdown.
Joined ==
  /\ main \notin {"run", "join_dec"} => dec = "ended"
  /\ main \in {"join_rt", "done"} => vs = "ended"
  /\ ~mode.thread /\ main # "run" => rt \in {"top", "ended"}
  /\ main = "done" => rt = "ended" /\ pacing = <<>> /\ render = <<>> /\ deferred = 0

\* What the counters count: every FRAME_READY event stands for a frame that
\* has left the pacing queue, and a decoder asks for one reset.
Counts ==
  /\ units <= mode.units /\ out + codec <= units /\ out + pending <= units
  /\ ~quit => fails < ResetThreshold /\ resets = 0
  /\ mode.vsync => events + Len(pacing) + (IF vs = "notify" THEN 1 ELSE 0) <= out
  /\ ~mode.vsync => events + (IF dec = "notify" THEN 1 ELSE 0) <= out

\* The types of what is neither queue nor hand.
ThreadTypes ==
  /\ mode \in Modes
  /\ main \in {"run", "join_dec", "wake_vs", "join_vs", "join_rt", "done"}
  /\ units \in Nat /\ codec \in Nat /\ pending \in Nat /\ events \in Nat
  /\ fails \in 0..ResetThreshold /\ resets \in 0..1
  /\ started \in BOOLEAN /\ quit \in BOOLEAN /\ stopping \in BOOLEAN
  /\ missed \in BOOLEAN /\ crashed \in BOOLEAN
  /\ dec \in {"run", "notify", "ended"}
  /\ vs \in {"wait", "handle", "trim", "free", "frame", "woken", "notify", "ended"}
  /\ rt \in {"top", "test", "sleep", "asleep", "show", "trim_first", "trim", "free", "ended"}
  /\ pacingHist \in Seq(BOOLEAN) /\ renderHist \in Seq(BOOLEAN)
  /\ vsTarget \in 0..3 /\ rtTarget \in 0..2

Control == ThreadTypes /\ Hands /\ Joined /\ Counts

IInv == Frames /\ Control

-----------------------------------------------------------------------------
(* Queues.                                                                 *)

LEMMA QueueAppend ==
  ASSUME NEW q \in Seq(Nat \ {0}), NEW f \in Nat \ {0}
  PROVE  /\ Append(q, f) \in Seq(Nat \ {0}) /\ Len(Append(q, f)) = Len(q) + 1
         /\ InQueue(Append(q, f)) = InQueue(q) \union {f}
         /\ Increasing(q) /\ (\A g \in InQueue(q) : g < f) => Increasing(Append(q, f))
<1>1. /\ Append(q, f) \in Seq(Nat \ {0}) /\ Len(Append(q, f)) = Len(q) + 1
      /\ Append(q, f)[Len(q) + 1] = f
      /\ \A i \in 1..Len(q) : Append(q, f)[i] = q[i]
  OBVIOUS
<1>2. DOMAIN q = 1..Len(q) /\ DOMAIN Append(q, f) = 1..(Len(q) + 1) /\ Len(q) \in Nat
  BY <1>1
<1>3. InQueue(Append(q, f)) = InQueue(q) \union {f}
  BY <1>1, <1>2 DEF InQueue
<1>4. ASSUME Increasing(q), \A g \in InQueue(q) : g < f,
             NEW i \in 1..(Len(q) + 1), NEW j \in 1..(Len(q) + 1), i < j
      PROVE  Append(q, f)[i] < Append(q, f)[j]
  <2>1. i \in 1..Len(q) /\ Append(q, f)[i] = q[i] /\ q[i] \in InQueue(q)
    BY <1>1, <1>2, <1>4 DEF InQueue
  <2>2. CASE j = Len(q) + 1
    BY <1>1, <1>4, <2>1, <2>2
  <2>3. CASE j \in 1..Len(q)
    BY <1>1, <1>2, <1>4, <2>1, <2>3 DEF Increasing
  <2> QED
    BY <1>2, <2>2, <2>3
<1> QED
  BY <1>1, <1>2, <1>3, <1>4 DEF Increasing

LEMMA QueueTake ==
  ASSUME NEW q \in Seq(Nat \ {0}), q # <<>>
  PROVE  /\ Head(q) \in Nat \ {0} /\ Tail(q) \in Seq(Nat \ {0}) /\ Len(Tail(q)) = Len(q) - 1
         /\ InQueue(q) = {Head(q)} \union InQueue(Tail(q))
         /\ Increasing(q) => Increasing(Tail(q)) /\ \A g \in InQueue(Tail(q)) : Head(q) < g
<1>1. /\ Len(q) \in Nat /\ Len(q) > 0 /\ Head(q) = q[1] /\ Head(q) \in Nat \ {0}
      /\ Tail(q) \in Seq(Nat \ {0}) /\ Len(Tail(q)) = Len(q) - 1
      /\ \A i \in 1..(Len(q) - 1) : Tail(q)[i] = q[i + 1]
  OBVIOUS
<1>2. DOMAIN q = 1..Len(q) /\ DOMAIN Tail(q) = 1..(Len(q) - 1)
  BY <1>1
<1>3. InQueue(q) = {Head(q)} \union InQueue(Tail(q))
  <2>1. ASSUME NEW i \in 1..Len(q) PROVE q[i] \in {Head(q)} \union InQueue(Tail(q))
    <3>1. CASE i = 1
      BY <1>1, <3>1
    <3>2. CASE i # 1
      <4>1. i - 1 \in 1..(Len(q) - 1) /\ (i - 1) + 1 = i
        BY <1>1, <3>2
      <4>2. Tail(q)[i - 1] = q[i]
        BY <1>1, <4>1
      <4> QED
        BY <1>2, <4>1, <4>2 DEF InQueue
    <3> QED
      BY <3>1, <3>2
  <2>2. ASSUME NEW i \in 1..(Len(q) - 1) PROVE Tail(q)[i] \in InQueue(q)
    <3>1. i + 1 \in 1..Len(q) /\ Tail(q)[i] = q[i + 1]
      BY <1>1
    <3> QED
      BY <1>2, <3>1 DEF InQueue
  <2>3. Head(q) \in InQueue(q)
    BY <1>1, <1>2 DEF InQueue
  <2> QED
    BY <1>2, <2>1, <2>2, <2>3 DEF InQueue
<1>4. ASSUME Increasing(q) PROVE Increasing(Tail(q)) /\ \A g \in InQueue(Tail(q)) : Head(q) < g
  <2>1. ASSUME NEW i \in 1..(Len(q) - 1), NEW j \in 1..(Len(q) - 1), i < j
        PROVE  Tail(q)[i] < Tail(q)[j]
    <3>1. i + 1 \in 1..Len(q) /\ j + 1 \in 1..Len(q) /\ i + 1 < j + 1
      BY <1>1, <2>1
    <3> QED
      BY <1>1, <1>2, <1>4, <3>1 DEF Increasing
  <2>2. ASSUME NEW i \in 1..(Len(q) - 1) PROVE Head(q) < Tail(q)[i]
    <3>1. 1 \in 1..Len(q) /\ i + 1 \in 1..Len(q) /\ 1 < i + 1
      BY <1>1
    <3> QED
      BY <1>1, <1>2, <1>4, <3>1 DEF Increasing
  <2> QED
    BY <1>2, <2>1, <2>2 DEF Increasing, InQueue
<1> QED
  BY <1>1, <1>3, <1>4

\* enqueue() keeps the order and frees the oldest frame of a full queue.
LEMMA QueueEnqueued ==
  ASSUME NEW q \in Seq(Nat \ {0}), NEW f \in Nat \ {0}, Increasing(q),
         \A g \in InQueue(q) : g < f
  PROVE  /\ Enqueued(q, f) \in Seq(Nat \ {0}) /\ Increasing(Enqueued(q, f))
         /\ Len(Enqueued(q, f)) <= Len(q) + 1
         /\ Len(q) <= MAX_QUEUED_FRAMES => Len(Enqueued(q, f)) <= MAX_QUEUED_FRAMES
         /\ Overflow(q) \subseteq InQueue(q)
         /\ InQueue(Enqueued(q, f)) = (InQueue(q) \union {f}) \ Overflow(q)
<1>l. Len(q) \in Nat
  OBVIOUS
<1>n. \A g \in InQueue(q) : g \in Nat
  BY DEF InQueue
<1>1. CASE Len(q) = MAX_QUEUED_FRAMES
  <2>1. q # <<>>
    BY <1>1 DEF MAX_QUEUED_FRAMES
  <2>2. /\ Head(q) \in Nat \ {0} /\ Tail(q) \in Seq(Nat \ {0}) /\ Len(Tail(q)) = Len(q) - 1
        /\ InQueue(q) = {Head(q)} \union InQueue(Tail(q))
        /\ Increasing(Tail(q)) /\ \A g \in InQueue(Tail(q)) : Head(q) < g
    BY <2>1, QueueTake
  <2>3. Head(q) < f /\ \A g \in InQueue(Tail(q)) : g < f
    BY <2>2
  <2>4. Enqueued(q, f) = Append(Tail(q), f) /\ Overflow(q) = {Head(q)}
    BY <1>1 DEF Enqueued, Overflow
  <2>5. /\ Append(Tail(q), f) \in Seq(Nat \ {0}) /\ Len(Append(Tail(q), f)) = Len(Tail(q)) + 1
        /\ InQueue(Append(Tail(q), f)) = InQueue(Tail(q)) \union {f}
        /\ Increasing(Append(Tail(q), f))
    BY <2>2, <2>3, QueueAppend
  <2>6. Len(Enqueued(q, f)) = Len(q)
    BY <1>l, <2>2, <2>4, <2>5
  <2>7. Head(q) \notin InQueue(Tail(q)) /\ Head(q) # f
    BY <2>2, <2>3
  <2> QED
    BY <1>l, <1>1, <2>2, <2>4, <2>5, <2>6, <2>7
<1>2. CASE Len(q) # MAX_QUEUED_FRAMES
  <2>1. Enqueued(q, f) = Append(q, f) /\ Overflow(q) = {}
    BY <1>2 DEF Enqueued, Overflow
  <2>2. /\ Append(q, f) \in Seq(Nat \ {0}) /\ Len(Append(q, f)) = Len(q) + 1
        /\ InQueue(Append(q, f)) = InQueue(q) \union {f}
        /\ Increasing(Append(q, f))
    BY QueueAppend
  <2>3. Len(q) <= MAX_QUEUED_FRAMES => Len(Append(q, f)) <= MAX_QUEUED_FRAMES
    <3>1. Len(Append(q, f)) = Len(q) + 1
      BY <2>2
    <3>2. PICK n \in Nat : n = Len(q)
      BY <1>l
    <3>3. n # 3 /\ n <= 3 => n + 1 <= 3
      BY <3>2
    <3> QED
      BY <1>2, <3>1, <3>2, <3>3 DEF MAX_QUEUED_FRAMES
  <2>4. Len(Append(q, f)) <= Len(q) + 1
    BY <1>l, <2>2
  <2>5. Overflow(q) \subseteq InQueue(q)
        /\ InQueue(Enqueued(q, f)) = (InQueue(q) \union {f}) \ Overflow(q)
    BY <2>1, <2>2
  <2> QED
    BY <2>1, <2>2, <2>3, <2>4, <2>5
<1> QED
  BY <1>1, <1>2

\* A history holds Booleans.
LEMMA NotedTyped ==
  ASSUME NEW hist \in Seq(BOOLEAN), NEW short \in BOOLEAN
  PROVE  Noted(hist, short) \in Seq(BOOLEAN)
<1>1. CASE Len(hist) = HistoryLen
  <2>1. hist # <<>>
    BY <1>1, PacerAssumption
  <2>2. Tail(hist) \in Seq(BOOLEAN)
    BY <2>1
  <2>3. Append(Tail(hist), short) \in Seq(BOOLEAN)
    BY <2>2
  <2> QED
    BY <1>1, <2>3 DEF Noted
<1>2. CASE Len(hist) # HistoryLen
  <2>1. Append(hist, short) \in Seq(BOOLEAN)
    OBVIOUS
  <2> QED
    BY <1>2, <2>1 DEF Noted
<1> QED
  BY <1>1, <1>2

-----------------------------------------------------------------------------
(* What moves frames.                                                      *)

\* The frames on their way are numbers, and none is 0.
LEMMA FrameNumbers ==
  ASSUME Frames
  PROVE  /\ \A f \in InQueue(render) \union InQueue(pacing) : f \in Nat \ {0}
         /\ live \subseteq Nat \ {0}
<1>1. /\ \A i \in DOMAIN render : render[i] \in Nat \ {0}
      /\ \A i \in DOMAIN pacing : pacing[i] \in Nat \ {0}
  BY DEF Frames, FrameTypes
<1>2. \A f \in InQueue(render) \union InQueue(pacing) : f \in Nat \ {0}
  BY <1>1 DEF InQueue
<1>3. vsHand \in Nat /\ rtHand \in Nat /\ deferred \in Nat
  BY DEF Frames, FrameTypes
<1>4. live = InQueue(pacing) \union InQueue(render) \union ({vsHand, rtHand, deferred} \ {0})
  BY DEF Frames, Held
<1> QED
  BY <1>2, <1>3, <1>4

frameVars == <<out, vsHand, rtHand, deferred, pacing, render, live>>

LEMMA FramesRest ==
  ASSUME Frames, UNCHANGED frameVars
  PROVE  Frames'
BY DEF frameVars, Frames, FrameTypes, Held, InQueue, Chain, Increasing

\* submitFrame(): a newer frame behind all others.
LEMMA SubmitKeeps ==
  ASSUME Frames, out' = out + 1, SubmitFrame(out + 1), UNCHANGED <<vsHand, rtHand, deferred>>,
         ~mode.vsync => vsHand = 0 /\ pacing = <<>>
  PROVE  Frames' /\ Len(pacing') <= Len(pacing) + 1
<1> DEFINE P == InQueue(pacing)
           R == InQueue(render)
           f == out + 1
<1>t. FrameTypes /\ f \in Nat \ {0} /\ Len(pacing) \in Nat
  BY DEF Frames, FrameTypes
<1>c. Chain(deferred, rtHand, R, vsHand, P, out)
  BY DEF Frames
<1>n. \A g \in R \union P : g \in Nat \ {0} /\ g < f
  BY <1>t, <1>c, FrameNumbers DEF Chain, FrameTypes
<1>h. vsHand < f /\ rtHand < f /\ deferred < f
  BY <1>t, <1>c DEF Chain, FrameTypes
<1>l. live = P \union R \union ({vsHand, rtHand, deferred} \ {0})
  BY DEF Frames, Held
<1>1. CASE mode.vsync
  <2>1. /\ pacing' = Enqueued(pacing, f) /\ render' = render
        /\ live' = (live \union {f}) \ Overflow(pacing)
    BY <1>1 DEF SubmitFrame
  <2>2. /\ Enqueued(pacing, f) \in Seq(Nat \ {0}) /\ Increasing(Enqueued(pacing, f))
        /\ Len(Enqueued(pacing, f)) <= Len(pacing) + 1
        /\ Overflow(pacing) \subseteq P
        /\ InQueue(Enqueued(pacing, f)) = (P \union {f}) \ Overflow(pacing)
    BY <1>t, <1>n, QueueEnqueued DEF Frames, FrameTypes
  <2>3. \A o \in Overflow(pacing) : o \notin R /\ o # vsHand /\ o # rtHand /\ o # deferred
    BY <1>t, <1>c, <1>n, <2>2 DEF Chain, FrameTypes
  <2>4. InQueue(pacing') = (P \union {f}) \ Overflow(pacing) /\ InQueue(render') = R
    BY <2>1, <2>2
  <2>5. Held' = live'
    BY <1>l, <2>1, <2>3, <2>4 DEF Held
  <2>6. Chain(deferred, rtHand, R, vsHand, (P \union {f}) \ Overflow(pacing), f)
    BY <1>t, <1>c, <1>n, <1>h DEF Chain, FrameTypes
  <2> QED
    BY <1>t, <2>1, <2>2, <2>4, <2>5, <2>6 DEF Frames, FrameTypes
<1>2. CASE ~mode.vsync
  <2>1. /\ render' = Enqueued(render, f) /\ pacing' = pacing
        /\ live' = (live \union {f}) \ Overflow(render)
    BY <1>2 DEF SubmitFrame
  <2>2. /\ Enqueued(render, f) \in Seq(Nat \ {0}) /\ Increasing(Enqueued(render, f))
        /\ Len(Enqueued(render, f)) <= MAX_QUEUED_FRAMES
        /\ Overflow(render) \subseteq R
        /\ InQueue(Enqueued(render, f)) = (R \union {f}) \ Overflow(render)
    BY <1>t, <1>n, QueueEnqueued DEF Frames, FrameTypes
  <2>3. \A o \in Overflow(render) : o # rtHand /\ o # deferred
    BY <1>t, <1>c, <1>n, <2>2 DEF Chain, FrameTypes
  <2>4. InQueue(render') = (R \union {f}) \ Overflow(render) /\ InQueue(pacing') = P /\ P = {}
        /\ vsHand = 0
    BY <1>2, <2>1, <2>2 DEF InQueue
  <2>5. Held' = live'
    BY <1>l, <2>1, <2>3, <2>4 DEF Held
  <2>6. Chain(deferred, rtHand, (R \union {f}) \ Overflow(render), vsHand, P, f)
    BY <1>t, <1>c, <1>n, <1>h, <2>4 DEF Chain, FrameTypes
  <2>7. Len(pacing') <= Len(pacing) + 1
    BY <1>t, <2>1
  <2>8. FrameTypes' /\ Increasing(pacing') /\ Increasing(render')
    BY <1>t, <2>1, <2>2 DEF Frames, FrameTypes
  <2>9. Chain(deferred, rtHand, InQueue(render), vsHand, InQueue(pacing), out)'
    BY <2>4, <2>6
  <2> QED
    BY <2>1, <2>2, <2>5, <2>7, <2>8, <2>9 DEF Frames
<1> QED
  BY <1>1, <1>2

\* The trimming loop takes the oldest frame of the pacing queue.
LEMMA TrimPacingKeeps ==
  ASSUME Frames, vsHand = 0, pacing # <<>>,
         vsHand' = Head(pacing), pacing' = Tail(pacing),
         UNCHANGED <<out, rtHand, deferred, render, live>>
  PROVE  Frames' /\ vsHand' # 0 /\ Len(pacing') = Len(pacing) - 1
<1> DEFINE R == InQueue(render)
           Q == InQueue(Tail(pacing))
           h == Head(pacing)
<1>t. FrameTypes
  BY DEF Frames
<1>q. /\ h \in Nat \ {0} /\ Tail(pacing) \in Seq(Nat \ {0}) /\ Len(Tail(pacing)) = Len(pacing) - 1
      /\ InQueue(pacing) = {h} \union Q
      /\ Increasing(Tail(pacing)) /\ \A g \in Q : h < g
  BY QueueTake DEF Frames, FrameTypes
<1>c. Chain(deferred, rtHand, R, 0, {h} \union Q, out)
  BY <1>q DEF Frames
<1>1. Chain(deferred, rtHand, R, h, Q, out)
  BY <1>t, <1>c, <1>q DEF Chain, FrameTypes
<1>2. Held' = live'
  BY <1>q DEF Frames, Held
<1> QED
  BY <1>t, <1>q, <1>1, <1>2 DEF Frames, FrameTypes

LEMMA FreePacingKeeps ==
  ASSUME Frames, vsHand # 0, live' = Freed(vsHand), vsHand' = 0,
         UNCHANGED <<out, rtHand, deferred, pacing, render>>
  PROVE  Frames'
<1> DEFINE R == InQueue(render)
           P == InQueue(pacing)
<1>t. FrameTypes
  BY DEF Frames
<1>c. Chain(deferred, rtHand, R, vsHand, P, out)
  BY DEF Frames
<1>n. \A g \in R \union P : g \in Nat \ {0}
  BY FrameNumbers
<1>1. Chain(deferred, rtHand, R, 0, P, out)
  BY <1>t, <1>c, <1>n DEF Chain, FrameTypes
<1>2. vsHand \notin R \union P /\ vsHand # rtHand /\ vsHand # deferred
  BY <1>t, <1>c, <1>n DEF Chain, FrameTypes
<1>3. Held' = live'
  BY <1>2 DEF Frames, Held, Freed
<1> QED
  BY <1>t, <1>1, <1>3 DEF Frames, FrameTypes

\* The oldest frame of the pacing queue goes behind those of the render queue.
LEMMA MoveKeeps ==
  ASSUME Frames, vsHand = 0, pacing # <<>>, MoveFrame,
         UNCHANGED <<out, vsHand, rtHand, deferred>>
  PROVE  Frames' /\ Len(pacing') = Len(pacing) - 1
<1> DEFINE R == InQueue(render)
           Q == InQueue(Tail(pacing))
           h == Head(pacing)
           S == (R \union {h}) \ Overflow(render)
<1>t. FrameTypes
  BY DEF Frames
<1>m. /\ render' = Enqueued(render, h) /\ live' = live \ Overflow(render)
      /\ pacing' = Tail(pacing)
  BY DEF MoveFrame
<1>q. /\ h \in Nat \ {0} /\ Tail(pacing) \in Seq(Nat \ {0}) /\ Len(Tail(pacing)) = Len(pacing) - 1
      /\ InQueue(pacing) = {h} \union Q
      /\ Increasing(Tail(pacing)) /\ \A g \in Q : h < g
  BY QueueTake DEF Frames, FrameTypes
<1>c. Chain(deferred, rtHand, R, 0, {h} \union Q, out)
  BY <1>q DEF Frames
<1>n. \A g \in R : g \in Nat \ {0} /\ g < h
  BY <1>c, FrameNumbers DEF Chain
<1>e. /\ Enqueued(render, h) \in Seq(Nat \ {0}) /\ Increasing(Enqueued(render, h))
      /\ Len(Enqueued(render, h)) <= MAX_QUEUED_FRAMES
      /\ Overflow(render) \subseteq R
      /\ InQueue(Enqueued(render, h)) = S
  BY <1>t, <1>q, <1>n, QueueEnqueued DEF Frames, FrameTypes
<1>1. Chain(deferred, rtHand, S, 0, Q, out)
  BY <1>t, <1>c, <1>q, <1>n DEF Chain, FrameTypes
<1>2. \A o \in Overflow(render) : o \notin Q /\ o # h /\ o # rtHand /\ o # deferred
  BY <1>t, <1>c, <1>n, <1>e, <1>q DEF Chain, FrameTypes
<1>3. InQueue(render') = S /\ InQueue(pacing') = Q
  BY <1>m, <1>e
<1>4. live = Q \union {h} \union R \union ({rtHand, deferred} \ {0})
  BY <1>q DEF Frames, Held
<1>5. Held' = live'
  BY <1>m, <1>2, <1>3, <1>4 DEF Held
<1> QED
  BY <1>t, <1>m, <1>q, <1>e, <1>1, <1>3, <1>5 DEF Frames, FrameTypes

\* Whoever renders takes the oldest frame of the render queue.
LEMMA TakeRenderKeeps ==
  ASSUME Frames, rtHand = 0, render # <<>>,
         rtHand' = Head(render), render' = Tail(render),
         UNCHANGED <<out, vsHand, deferred, pacing, live>>
  PROVE  Frames' /\ rtHand' # 0
<1> DEFINE P == InQueue(pacing)
           Q == InQueue(Tail(render))
           h == Head(render)
<1>t. FrameTypes
  BY DEF Frames
<1>q. /\ h \in Nat \ {0} /\ Tail(render) \in Seq(Nat \ {0}) /\ Len(Tail(render)) = Len(render) - 1
      /\ InQueue(render) = {h} \union Q
      /\ Increasing(Tail(render)) /\ \A g \in Q : h < g
  BY QueueTake DEF Frames, FrameTypes
<1>s. Len(render) \in Nat /\ Len(Tail(render)) <= MAX_QUEUED_FRAMES
  BY <1>t, <1>q DEF Frames, FrameTypes, MAX_QUEUED_FRAMES
<1>c. Chain(deferred, 0, {h} \union Q, vsHand, P, out)
  BY <1>q DEF Frames
<1>1. Chain(deferred, h, Q, vsHand, P, out)
  BY <1>t, <1>c, <1>q DEF Chain, FrameTypes
<1>2. Held' = live'
  BY <1>q DEF Frames, Held
<1> QED
  BY <1>t, <1>q, <1>s, <1>1, <1>2 DEF Frames, FrameTypes

\* renderFrame() frees the frame shown before.
LEMMA ShowKeeps ==
  ASSUME Frames, rtHand # 0, live' = Freed(deferred), deferred' = rtHand, rtHand' = 0,
         UNCHANGED <<out, vsHand, pacing, render>>
  PROVE  Frames'
<1> DEFINE R == InQueue(render)
           P == InQueue(pacing)
<1>t. FrameTypes
  BY DEF Frames
<1>c. Chain(deferred, rtHand, R, vsHand, P, out)
  BY DEF Frames
<1>n. (\A g \in R \union P : g \in Nat \ {0}) /\ 0 \notin live
  BY FrameNumbers
<1>1. Chain(rtHand, 0, R, vsHand, P, out)
  BY <1>t, <1>c, <1>n DEF Chain, FrameTypes
<1>2. deferred \notin R \union P /\ deferred # rtHand /\ (deferred = vsHand => vsHand = 0)
  BY <1>t, <1>c, <1>n DEF Chain, FrameTypes
<1>3. Held' = live'
  BY <1>2, <1>n DEF Frames, Held, Freed
<1> QED
  BY <1>t, <1>1, <1>3 DEF Frames, FrameTypes

LEMMA FreeRenderKeeps ==
  ASSUME Frames, rtHand # 0, live' = Freed(rtHand), rtHand' = 0,
         UNCHANGED <<out, vsHand, deferred, pacing, render>>
  PROVE  Frames'
<1> DEFINE R == InQueue(render)
           P == InQueue(pacing)
<1>t. FrameTypes
  BY DEF Frames
<1>c. Chain(deferred, rtHand, R, vsHand, P, out)
  BY DEF Frames
<1>n. \A g \in R \union P : g \in Nat \ {0}
  BY FrameNumbers
<1>1. Chain(deferred, 0, R, vsHand, P, out)
  BY <1>t, <1>c, <1>n DEF Chain, FrameTypes
<1>2. rtHand \notin R \union P /\ rtHand # deferred /\ rtHand # vsHand
  BY <1>t, <1>c, <1>n DEF Chain, FrameTypes
<1>3. Held' = live'
  BY <1>2 DEF Frames, Held, Freed
<1> QED
  BY <1>t, <1>1, <1>3 DEF Frames, FrameTypes

\* ~Pacer() frees all that is left once nobody has a frame in hand.
LEMMA FreeRestKeeps ==
  ASSUME Frames, vsHand = 0, rtHand = 0, FreeRest
  PROVE  Frames'
<1>1. /\ live' = {f \in live : f \notin InQueue(render) /\ f \notin InQueue(pacing) /\ f # deferred}
      /\ render' = <<>> /\ pacing' = <<>> /\ deferred' = 0
      /\ UNCHANGED <<out, vsHand, rtHand>>
  BY DEF FreeRest, InQueue, mainOnly, vsVars
<1>2. live' = {}
  BY <1>1 DEF Frames, Held
<1>3. InQueue(<<>>) = {} /\ Increasing(<<>>) /\ Len(<<>>) = 0 /\ <<>> \in Seq(Nat \ {0})
  BY DEF InQueue, Increasing
<1>4. Held' = {}
  BY <1>1, <1>3 DEF Held
<1>5. out \in Nat
  BY DEF Frames, FrameTypes
<1>6. Chain(0, 0, {}, 0, {}, out)
  BY <1>5 DEF Chain
<1>7. FrameTypes' /\ Increasing(render') /\ Increasing(pacing')
  BY <1>1, <1>3, <1>5 DEF Frames, FrameTypes
<1>8. Chain(deferred, rtHand, InQueue(render), vsHand, InQueue(pacing), out)'
  BY <1>1, <1>3, <1>6
<1>9. (Len(render) <= MAX_QUEUED_FRAMES)'
  BY <1>1, <1>3 DEF MAX_QUEUED_FRAMES
<1> QED
  BY <1>2, <1>4, <1>7, <1>8, <1>9 DEF Frames

-----------------------------------------------------------------------------
(* The steps.                                                              *)

\* A count that goes down keeps its bound.
LEMMA Fewer ==
  ASSUME NEW m \in Nat, NEW k \in Nat, NEW n \in Nat, NEW x \in Nat, NEW o \in Nat, m <= k
  PROVE  /\ n + k <= o => n + m <= o
         /\ k + x <= o => m + x <= o
         /\ k + n + x <= o => m + n + x <= o
OBVIOUS

LEMMA ModeFacts ==
  ASSUME mode \in Modes
  PROVE  mode.units \in Nat /\ mode.units <= MaxUnits
         /\ mode.vsync \in BOOLEAN /\ mode.thread \in BOOLEAN
BY PacerAssumption

\* A failed decode is counted until a reset is asked for.
LEMMA FailureCounted ==
  ASSUME Control, ~quit, CountFailure
  PROVE  /\ fails' \in 0..ResetThreshold /\ resets' \in 0..1 /\ quit' \in BOOLEAN
         /\ ~quit' => fails' < ResetThreshold /\ resets' = 0
<1>1. fails \in Nat /\ fails < ResetThreshold /\ resets = 0 /\ ResetThreshold \in Nat
  BY PacerAssumption DEF Control, ThreadTypes, Counts
<1>2. fails' = fails + 1 /\ fails' \in 0..ResetThreshold
  BY <1>1 DEF CountFailure
<1>3. CASE fails + 1 = ResetThreshold
  BY <1>1, <1>2, <1>3 DEF CountFailure
<1>4. CASE fails + 1 # ResetThreshold
  <2>1. fails' < ResetThreshold
    BY <1>1, <1>2, <1>4
  <2>2. UNCHANGED <<resets, quit>>
    BY <1>4 DEF CountFailure
  <2> QED
    BY <1>1, <1>2, <2>1, <2>2 DEF Control, ThreadTypes
<1> QED
  BY <1>3, <1>4

LEMMA DecoderKeeps ==
  ASSUME IInv, DecoderThread
  PROVE  IInv'
<1>m. mode.units \in Nat /\ mode.vsync \in BOOLEAN /\ mode.thread \in BOOLEAN
  BY ModeFacts DEF IInv, Control, ThreadTypes
<1>t. Frames /\ Control /\ out \in Nat /\ Len(pacing) \in Nat
  BY DEF IInv, Frames, FrameTypes
<1>1. ASSUME NEW idr \in BOOLEAN, SubmitDecodeUnit(idr) PROVE IInv'
  <2>1. Frames'
    BY <1>1, <1>t, FramesRest DEF SubmitDecodeUnit, frameVars, vsVars, rtVars
  <2>2. /\ units < mode.units /\ units' = units + 1 /\ ~quit
        /\ UNCHANGED <<mode, out, vsVars, rtVars, endVars, dec, vs, rt, pacing, render, events, crashed>>
    BY <1>1 DEF SubmitDecodeUnit
  <2>3. /\ started' \in BOOLEAN
        /\ \/ pending' = pending /\ codec' = codec
           \/ pending' = pending + 1 /\ codec' = codec + 1
    BY <1>1, <1>t DEF SubmitDecodeUnit, Control, ThreadTypes
  <2>4. /\ fails' \in 0..ResetThreshold /\ resets' \in 0..1 /\ quit' \in BOOLEAN
        /\ ~quit' => fails' < ResetThreshold /\ resets' = 0
    <3>1. CASE CountFailure
      BY <1>t, <2>2, <3>1, FailureCounted
    <3>2. CASE UNCHANGED <<fails, quit, resets>>
      BY <1>t, <3>2 DEF Control, ThreadTypes, Counts
    <3> QED
      BY <1>1, <3>1, <3>2 DEF SubmitDecodeUnit
  <2>5. ThreadTypes' /\ Hands' /\ Joined'
    BY <1>t, <2>2, <2>3, <2>4
    DEF Control, ThreadTypes, Hands, Joined, vsVars, rtVars, endVars
  <2>6. Counts'
    BY <1>m, <1>t, <2>2, <2>3, <2>4 DEF Control, ThreadTypes, Counts
  <2> QED
    BY <2>1, <2>5, <2>6 DEF IInv, Control
<1>2. CASE ReceiveFrame
  <2>1. ~mode.vsync => vsHand = 0 /\ pacing = <<>>
    BY <1>t DEF Control, Hands
  <2>2. Frames' /\ Len(pacing') <= Len(pacing) + 1
    BY <1>2, <1>t, <2>1, SubmitKeeps DEF ReceiveFrame, vsVars, rtVars
  <2>3. Len(pacing') \in Nat
    BY <2>2 DEF Frames, FrameTypes
  <2>4. main \in {"run", "join_dec"}
    BY <1>2, <1>t DEF ReceiveFrame, Control, ThreadTypes, Joined
  <2>5. ~mode.vsync => pacing' = pacing
    BY <1>2 DEF ReceiveFrame, SubmitFrame
  <2>6. ThreadTypes' /\ Hands' /\ Joined'
    BY <1>2, <1>t, <2>4, <2>5, PacerAssumption
    DEF ReceiveFrame, Control, ThreadTypes, Hands, Joined, vsVars, rtVars, endVars
  <2>7. Counts'
    <3>1. ~quit /\ ~quit' /\ fails' = 0 /\ UNCHANGED <<resets, units, mode, events, vs>>
          /\ pending' = pending - 1 /\ codec' = codec - 1 /\ out' = out + 1 /\ dec' = "notify"
      BY <1>2 DEF ReceiveFrame
    <3> QED
      BY <1>m, <1>t, <2>2, <2>3, <3>1, PacerAssumption DEF Control, ThreadTypes, Counts
  <2> QED
    BY <2>2, <2>6, <2>7 DEF IInv, Control
<1>3. CASE ReceiveFails
  <2>1. Frames'
    BY <1>3, <1>t, FramesRest DEF ReceiveFails, frameVars, vsVars, rtVars
  <2>2. ~quit /\ CountFailure
    BY <1>3 DEF ReceiveFails
  <2>3. /\ fails' \in 0..ResetThreshold /\ resets' \in 0..1 /\ quit' \in BOOLEAN
        /\ ~quit' => fails' < ResetThreshold /\ resets' = 0
    BY <1>t, <2>2, FailureCounted
  <2>4. codec' \in Nat /\ codec' <= codec
    BY <1>3, <1>t DEF ReceiveFails, Control, ThreadTypes
  <2>5. UNCHANGED <<mode, units, started, pending, out, vsVars, rtVars, endVars, dec, vs, rt,
                    pacing, render, events, crashed>>
    BY <1>3 DEF ReceiveFails
  <2>6. ThreadTypes' /\ Hands' /\ Joined'
    BY <1>t, <2>3, <2>4, <2>5
    DEF Control, ThreadTypes, Hands, Joined, vsVars, rtVars, endVars
  <2>7. Counts'
    <3>1. out \in Nat /\ codec \in Nat /\ units \in Nat /\ out + codec <= units
      BY <1>t DEF Control, ThreadTypes, Counts
    <3>2. out + codec' <= units
      BY <2>4, <3>1, Fewer
    <3>3. UNCHANGED <<mode, units, pending, out, dec, vs, pacing, events>>
      BY <2>5
    <3> QED
      BY <1>t, <2>3, <3>2, <3>3 DEF Control, Counts
  <2> QED
    BY <2>1, <2>6, <2>7 DEF IInv, Control
<1>4. CASE DecNotify
  <2>1. Frames'
    BY <1>4, <1>t, FramesRest DEF DecNotify, frameVars, decVars, vsVars, rtVars
  <2> QED
    BY <1>4, <1>m, <1>t, <2>1
    DEF DecNotify, WakeVsync, NotifyRender, WakeRender, IInv, Control, ThreadTypes, Hands, Joined,
        Counts, decVars, vsVars, rtVars, endVars
<1>5. CASE DecEnd
  <2>1. Frames'
    BY <1>5, <1>t, FramesRest DEF DecEnd, frameVars, decVars, vsVars, rtVars
  <2> QED
    BY <1>5, <1>m, <1>t, <2>1
    DEF DecEnd, IInv, Control, ThreadTypes, Hands, Joined, Counts, decVars, vsVars, rtVars, endVars
<1> QED
  BY <1>1, <1>2, <1>3, <1>4, <1>5 DEF DecoderThread

LEMMA VsyncKeeps ==
  ASSUME IInv, VsyncThread
  PROVE  IInv'
<1>m. mode.units \in Nat /\ mode.vsync \in BOOLEAN /\ mode.thread \in BOOLEAN
  BY ModeFacts DEF IInv, Control, ThreadTypes
<1>t. Frames /\ Control /\ FrameTypes /\ out \in Nat /\ Len(pacing) \in Nat
  BY DEF IInv, Frames, FrameTypes
<1>1. CASE Vsync \/ FrameTimeout
  <2>1. /\ vs \in {"wait", "frame"} /\ vs' \in {"wait", "handle", "ended"}
        /\ UNCHANGED <<mode, decVars, rtVars, endVars, dec, crashed, vsVars, rt, pacing, render, live,
                       events>>
    BY <1>1 DEF Vsync, FrameTimeout, vsOnly
  <2>2. Frames'
    BY <1>t, <2>1, FramesRest DEF frameVars, decVars, vsVars, rtVars
  <2>3. mode.vsync
    BY <1>m, <1>t, <2>1 DEF Control, Hands
  <2>4. main # "join_rt" /\ main # "done"
    BY <1>t, <2>1 DEF Control, Joined
  <2> QED
    BY <1>m, <1>t, <2>1, <2>2, <2>3, <2>4
    DEF IInv, Control, ThreadTypes, Hands, Joined, Counts, decVars, vsVars, rtVars, endVars
<1>2. CASE HandleVsync
  <2>1. Frames'
    BY <1>2, <1>t, FramesRest DEF HandleVsync, frameVars, vsOnly, decVars, rtVars
  <2>2. pacingHist' \in Seq(BOOLEAN) /\ vsTarget' \in 0..3
    <3>1. pacingHist \in Seq(BOOLEAN) /\ (Len(pacing) <= 1) \in BOOLEAN
      BY <1>t DEF Control, ThreadTypes
    <3>2. Noted(pacingHist, Len(pacing) <= 1) \in Seq(BOOLEAN)
      BY <3>1, NotedTyped
    <3> QED
      BY <1>2, <3>1, <3>2 DEF HandleVsync
  <2> QED
    BY <1>2, <1>m, <1>t, <2>1, <2>2
    DEF HandleVsync, IInv, Control, ThreadTypes, Hands, Joined, Counts, vsOnly, decVars, rtVars,
        endVars
<1>3. CASE TrimPacing
  <2>1. vsHand = 0 /\ vsTarget \in Nat
    BY <1>3, <1>t DEF TrimPacing, Control, ThreadTypes, Hands
  <2>2. pacing # <<>>
    BY <1>3, <1>t, <2>1 DEF TrimPacing
  <2>3. Frames' /\ vsHand' # 0 /\ Len(pacing') = Len(pacing) - 1
    BY <1>3, <1>t, <2>1, <2>2, TrimPacingKeeps DEF TrimPacing, vsOnly, decVars, rtVars
  <2>4. mode.vsync /\ main # "done"
    BY <1>3, <1>t, <1>m DEF TrimPacing, Control, Hands, Joined
  <2> QED
    BY <1>3, <1>m, <1>t, <2>3, <2>4
    DEF TrimPacing, IInv, Control, ThreadTypes, Hands, Joined, Counts, vsOnly, decVars, rtVars,
        endVars
<1>4. CASE FreePacing
  <2>1. vsHand # 0
    BY <1>4, <1>t DEF FreePacing, Control, Hands
  <2>2. Frames'
    BY <1>4, <1>t, <2>1, FreePacingKeeps DEF FreePacing, vsOnly, decVars, rtVars
  <2> QED
    BY <1>4, <1>m, <1>t, <2>2
    DEF FreePacing, IInv, Control, ThreadTypes, Hands, Joined, Counts, vsOnly, decVars, rtVars,
        endVars
<1>5. CASE (TakeFrame \/ FrameArrived) /\ pacing # <<>> /\ MoveFrame
  <2>1. /\ vs \in {"trim", "woken"} /\ vs' = "notify"
        /\ UNCHANGED <<mode, decVars, rtVars, endVars, dec, rt, events, crashed, vsVars>>
    BY <1>5 DEF TakeFrame, FrameArrived, MoveFrame, vsOnly, endVars
  <2>2. vsHand = 0
    BY <1>t, <2>1 DEF Control, Hands
  <2>3. Frames' /\ Len(pacing') = Len(pacing) - 1
    BY <1>5, <1>t, <2>1, <2>2, MoveKeeps DEF decVars, vsVars, rtVars
  <2>4. mode.vsync /\ main # "done" /\ main # "join_rt"
    BY <1>t, <1>m, <2>1 DEF Control, Hands, Joined
  <2> QED
    BY <1>m, <1>t, <2>1, <2>3, <2>4
    DEF IInv, Control, ThreadTypes, Hands, Joined, Counts, decVars, vsVars, rtVars, endVars
<1>6. CASE (TakeFrame \/ FrameArrived) /\ UNCHANGED <<pacing, render, live>> /\ vs' # "notify"
  <2>1. /\ vs \in {"trim", "woken"} /\ vs' \in {"frame", "wait", vs} /\ crashed' \in {crashed, TRUE}
        /\ UNCHANGED <<mode, decVars, rtVars, endVars, dec, rt, events, vsVars, pacing, render, live>>
    BY <1>6 DEF TakeFrame, FrameArrived, MoveFrame, vsOnly
  <2>2. Frames'
    BY <1>t, <2>1, FramesRest DEF frameVars, decVars, vsVars, rtVars
  <2>3. mode.vsync
    BY <1>m, <1>t, <2>1 DEF Control, Hands
  <2>4. main # "join_rt" /\ main # "done"
    BY <1>t, <2>1 DEF Control, Joined
  <2>u. UNCHANGED <<main, units, codec, pending, events, fails, resets, started, quit, stopping, missed,
                    dec, rt, pacingHist, renderHist, vsTarget, rtTarget, vsHand, rtHand, deferred,
                    mode, pacing, render>>
    BY <2>1 DEF decVars, vsVars, rtVars, endVars
  <2>5. ThreadTypes' /\ Hands' /\ Joined'
    <3>1. ThreadTypes'
      <4>1. crashed \in BOOLEAN
        BY <1>t DEF Control, ThreadTypes
      <4>2. crashed' \in BOOLEAN
        BY <2>1, <4>1
      <4>3. vs' \in {"frame", "wait", "trim", "woken"}
        BY <2>1
      <4> QED
        BY <1>t, <4>2, <4>3, <2>u DEF Control, ThreadTypes
    <3>2. Hands'
      BY <1>t, <2>1, <2>3, <2>u DEF Control, Hands
    <3>3. Joined'
      BY <1>t, <2>1, <2>4, <2>u DEF Control, Joined
    <3> QED
      BY <3>1, <3>2, <3>3
  <2>6. (IF vs' = "notify" THEN 1 ELSE 0) = (IF vs = "notify" THEN 1 ELSE 0)
    BY <1>6, <2>1
  <2>7. Counts'
    BY <1>t, <2>1, <2>6 DEF Control, Counts, decVars
  <2> QED
    BY <2>2, <2>5, <2>7 DEF IInv, Control
<1>7. CASE VsNotify
  <2>1. Frames'
    BY <1>7, <1>t, FramesRest DEF VsNotify, frameVars, vsOnly, decVars, vsVars, rtVars
  <2> QED
    BY <1>7, <1>m, <1>t, <2>1
    DEF VsNotify, NotifyRender, WakeRender, IInv, Control, ThreadTypes, Hands, Joined, Counts,
        vsOnly, decVars, vsVars, rtVars, endVars
<1>8. TakeFrame \/ FrameArrived =>
        \/ pacing # <<>> /\ MoveFrame
        \/ UNCHANGED <<pacing, render, live>> /\ vs' # "notify"
  BY DEF TakeFrame, FrameArrived
<1> QED
  BY <1>1, <1>2, <1>3, <1>4, <1>5, <1>6, <1>7, <1>8 DEF VsyncThread

LEMMA RenderingKeeps ==
  ASSUME IInv, Rendering
  PROVE  IInv'
<1>m. mode.units \in Nat /\ mode.vsync \in BOOLEAN /\ mode.thread \in BOOLEAN
  BY ModeFacts DEF IInv, Control, ThreadTypes
<1>t. Frames /\ Control /\ FrameTypes /\ Len(pacing) \in Nat
  BY DEF IInv, Frames, FrameTypes
<1>1. CASE RenderTop \/ RenderSleep
  <2>1. /\ mode.thread /\ rt \in {"top", "sleep"} /\ rt' \in {"test", "asleep", "ended"}
        /\ UNCHANGED <<mode, decVars, vsVars, dec, vs, pacing, crashed, rtVars, endVars, render,
                       live, events>>
    BY <1>1, <1>t, <1>m DEF RenderTop, RenderSleep, rtOnly, Control, Hands
  <2>2. Frames'
    BY <1>t, <2>1, FramesRest DEF frameVars, decVars, vsVars, rtVars
  <2>3. main # "done"
    BY <1>t, <2>1 DEF Control, Joined
  <2> QED
    BY <1>t, <2>1, <2>2, <2>3
    DEF IInv, Control, ThreadTypes, Hands, Joined, Counts, decVars, vsVars, rtVars, endVars
\* A frame goes into the renderer's hand.
<1>2. CASE /\ RenderTest \/ RenderOnMainThread \/ TrimRender
           /\ render # <<>> /\ rtHand' = Head(render) /\ render' = Tail(render)
           /\ rt' \in {"show", "free"}
  <2>1. /\ rt \in {"test", "top", "trim"} /\ main # "done"
        /\ events' \in Nat /\ events' <= events
        /\ ~mode.thread => main = "run"
        /\ UNCHANGED <<mode, decVars, vsVars, dec, vs, pacing, crashed, renderHist, rtTarget,
                       deferred, endVars, live>>
    <3>1. rt \in {"test", "top", "trim"} /\ main # "done" /\ (~mode.thread => main = "run")
      BY <1>2, <1>t, <1>m
      DEF RenderTest, RenderOnMainThread, TrimRender, Control, Hands, Joined
    <3>2. events \in Nat
      BY <1>t DEF Control, ThreadTypes
    <3>3. events' \in Nat /\ events' <= events
      BY <1>2, <3>2 DEF RenderTest, RenderOnMainThread, TrimRender
    <3> QED
      BY <1>2, <3>1, <3>3 DEF RenderTest, RenderOnMainThread, TrimRender, rtOnly
  <2>2. rtHand = 0
    BY <1>t, <2>1 DEF Control, Hands
  <2>3. Frames' /\ rtHand' # 0
    BY <1>2, <1>t, <2>1, <2>2, TakeRenderKeeps DEF decVars, vsVars
  <2>4. ThreadTypes' /\ Hands' /\ Joined'
    BY <1>2, <1>t, <2>1, <2>3
    DEF Control, ThreadTypes, Hands, Joined, decVars, vsVars, endVars
  <2>5. Counts'
    <3>1. UNCHANGED <<mode, units, codec, pending, out, quit, fails, resets, pacing, vs, dec>>
      BY <2>1 DEF decVars
    <3>2. events \in Nat /\ out \in Nat
      BY <1>t DEF Control, ThreadTypes, FrameTypes
    <3>3. events' \in Nat /\ events' <= events /\ Len(pacing) \in Nat
      BY <1>t, <2>1
    <3>4. /\ mode.vsync => events' + Len(pacing) + (IF vs = "notify" THEN 1 ELSE 0) <= out
          /\ ~mode.vsync => events' + (IF dec = "notify" THEN 1 ELSE 0) <= out
      <4> DEFINE x == IF vs = "notify" THEN 1 ELSE 0
                 y == IF dec = "notify" THEN 1 ELSE 0
      <4>1. x \in Nat /\ y \in Nat
        OBVIOUS
      <4>2. (mode.vsync => events + Len(pacing) + x <= out) /\ (~mode.vsync => events + y <= out)
        BY <1>t DEF Control, Counts
      <4> HIDE DEF x, y
      <4>3. events + Len(pacing) + x <= out => events' + Len(pacing) + x <= out
        BY <3>2, <3>3, <4>1, Fewer
      <4>4. events + y <= out => events' + y <= out
        BY <3>2, <3>3, <4>1, Fewer
      <4>5. (mode.vsync => events' + Len(pacing) + x <= out) /\ (~mode.vsync => events' + y <= out)
        BY <4>2, <4>3, <4>4
      <4> QED
        BY <4>5 DEF x, y
    <3> QED
      BY <1>t, <3>1, <3>4 DEF Control, Counts
  <2> QED
    BY <2>3, <2>4, <2>5 DEF IInv, Control
\* There is none to take.
<1>3. CASE /\ RenderTest \/ RenderOnMainThread \/ TrimRender
           /\ rt' \in {"ended", "sleep", "top"} /\ UNCHANGED <<render, rtHand>>
  <2>1. /\ rt \in {"test", "top", "trim"} /\ main # "done"
        /\ events' \in Nat /\ events' <= events
        /\ rt' # "top" => mode.thread
        /\ ~mode.thread => main = "run"
        /\ UNCHANGED <<mode, decVars, vsVars, dec, vs, pacing, crashed, renderHist, rtTarget,
                       deferred, endVars, live>>
    <3>1. rt \in {"test", "top", "trim"} /\ main # "done" /\ (~mode.thread => main = "run")
          /\ (rt' # "top" => mode.thread)
      BY <1>3, <1>t, <1>m
      DEF RenderTest, RenderOnMainThread, TrimRender, Control, Hands, Joined
    <3>2. events \in Nat
      BY <1>t DEF Control, ThreadTypes
    <3>3. events' \in Nat /\ events' <= events
      BY <1>3, <3>2 DEF RenderTest, RenderOnMainThread, TrimRender
    <3> QED
      BY <1>3, <3>1, <3>3 DEF RenderTest, RenderOnMainThread, TrimRender, rtOnly
  <2>2. Frames'
    BY <1>3, <1>t, <2>1, FramesRest DEF frameVars, decVars, vsVars
  <2>4. ThreadTypes' /\ Hands' /\ Joined'
    BY <1>3, <1>t, <2>1
    DEF Control, ThreadTypes, Hands, Joined, decVars, vsVars, endVars
  <2>5. Counts'
    <3>1. UNCHANGED <<mode, units, codec, pending, out, quit, fails, resets, pacing, vs, dec>>
      BY <2>1 DEF decVars
    <3>2. events \in Nat /\ out \in Nat
      BY <1>t DEF Control, ThreadTypes, FrameTypes
    <3>3. events' \in Nat /\ events' <= events /\ Len(pacing) \in Nat
      BY <1>t, <2>1
    <3>4. /\ mode.vsync => events' + Len(pacing) + (IF vs = "notify" THEN 1 ELSE 0) <= out
          /\ ~mode.vsync => events' + (IF dec = "notify" THEN 1 ELSE 0) <= out
      <4> DEFINE x == IF vs = "notify" THEN 1 ELSE 0
                 y == IF dec = "notify" THEN 1 ELSE 0
      <4>1. x \in Nat /\ y \in Nat
        OBVIOUS
      <4>2. (mode.vsync => events + Len(pacing) + x <= out) /\ (~mode.vsync => events + y <= out)
        BY <1>t DEF Control, Counts
      <4> HIDE DEF x, y
      <4>3. events + Len(pacing) + x <= out => events' + Len(pacing) + x <= out
        BY <3>2, <3>3, <4>1, Fewer
      <4>4. events + y <= out => events' + y <= out
        BY <3>2, <3>3, <4>1, Fewer
      <4>5. (mode.vsync => events' + Len(pacing) + x <= out) /\ (~mode.vsync => events' + y <= out)
        BY <4>2, <4>3, <4>4
      <4> QED
        BY <4>5 DEF x, y
    <3> QED
      BY <1>t, <3>1, <3>4 DEF Control, Counts
  <2> QED
    BY <2>2, <2>4, <2>5 DEF IInv, Control
<1>4. RenderTest \/ RenderOnMainThread \/ TrimRender =>
        \/ /\ render # <<>> /\ rtHand' = Head(render) /\ render' = Tail(render)
           /\ rt' \in {"show", "free"}
        \/ rt' \in {"ended", "sleep", "top"} /\ UNCHANGED <<render, rtHand>>
  <2>1. Len(render) > rtTarget => render # <<>>
    BY <1>t DEF Control, ThreadTypes
  <2> QED
    BY <2>1 DEF RenderTest, RenderOnMainThread, TrimRender
<1>5. CASE RenderFrame \/ FreeRender
  <2>1. /\ rt \in {"show", "free"} /\ rt' \in {"trim_first", "trim"} /\ rtHand' = 0
        /\ UNCHANGED <<mode, decVars, vsVars, dec, vs, pacing, crashed, renderHist, rtTarget,
                       endVars, render, events>>
    BY <1>5 DEF RenderFrame, FreeRender, rtOnly
  <2>2. rtHand # 0
    BY <1>t, <2>1 DEF Control, Hands
  <2>3. Frames'
    BY <1>5, <1>t, <2>1, <2>2, ShowKeeps, FreeRenderKeeps
    DEF RenderFrame, FreeRender, decVars, vsVars
  <2>4. main # "done"
    BY <1>t, <2>1 DEF Control, Joined
  <2> QED
    BY <1>t, <2>1, <2>3, <2>4
    DEF IInv, Control, ThreadTypes, Hands, Joined, Counts, decVars, vsVars, endVars
<1>6. CASE RenderTarget
  <2>1. /\ rt = "trim_first" /\ rt' = "trim"
        /\ UNCHANGED <<mode, decVars, vsVars, dec, vs, pacing, crashed, rtHand, deferred, endVars,
                       render, live, events>>
    BY <1>6 DEF RenderTarget, rtOnly
  <2>2. renderHist' \in Seq(BOOLEAN) /\ rtTarget' \in 0..2
    <3>1. renderHist \in Seq(BOOLEAN) /\ (render = <<>>) \in BOOLEAN
      BY <1>t DEF Control, ThreadTypes
    <3>2. Noted(renderHist, render = <<>>) \in Seq(BOOLEAN)
      BY <3>1, NotedTyped
    <3> QED
      BY <1>6, <3>1, <3>2 DEF RenderTarget
  <2>3. Frames'
    BY <1>t, <2>1, FramesRest DEF frameVars, decVars, vsVars
  <2> QED
    BY <1>t, <2>1, <2>2, <2>3
    DEF IInv, Control, ThreadTypes, Hands, Joined, Counts, decVars, vsVars, endVars
<1> QED
  BY <1>1, <1>2, <1>3, <1>4, <1>5, <1>6 DEF Rendering

LEMMA ShutdownKeeps ==
  ASSUME IInv, Reset \/ Shutdown
  PROVE  IInv'
<1>m. mode.units \in Nat /\ mode.vsync \in BOOLEAN /\ mode.thread \in BOOLEAN
  BY ModeFacts DEF IInv, Control, ThreadTypes
<1>t. Frames /\ Control /\ FrameTypes /\ Len(pacing) \in Nat
  BY DEF IInv, Frames, FrameTypes
<1>1. CASE Reset
  <2>1. Frames'
    BY <1>1, <1>t, FramesRest DEF Reset, frameVars, mainOnly, vsVars, rtVars
  <2> QED
    BY <1>1, <1>t, <2>1
    DEF Reset, MainFree, IInv, Control, ThreadTypes, Hands, Joined, Counts, mainOnly, vsVars, rtVars
<1>2. CASE StopPacer
  <2>1. Frames'
    BY <1>2, <1>t, FramesRest DEF StopPacer, frameVars, mainOnly, vsVars, rtVars
  <2> QED
    BY <1>2, <1>t, <2>1
    DEF StopPacer, IInv, FrameTypes, Control, ThreadTypes, Hands, Joined, Counts, mainOnly, vsVars,
        rtVars
<1>3. CASE StopVsync
  <2>1. Frames'
    BY <1>3, <1>t, FramesRest DEF StopVsync, frameVars, mainOnly, vsVars, rtVars
  <2> QED
    BY <1>3, <1>t, <1>m, <2>1
    DEF StopVsync, WakeVsync, IInv, Control, ThreadTypes, Hands, Joined, Counts, mainOnly, vsVars,
        rtVars
<1>4. CASE StopRender
  <2>1. Frames'
    BY <1>4, <1>t, FramesRest DEF StopRender, frameVars, mainOnly, vsVars, rtVars
  <2> QED
    BY <1>4, <1>t, <1>m, <2>1
    DEF StopRender, WakeRender, IInv, Control, ThreadTypes, Hands, Joined, Counts, mainOnly, vsVars,
        rtVars
<1>5. CASE FreeRest
  <2>1. vs = "ended" /\ dec = "ended" /\ rt \in {"top", "ended"}
    BY <1>5, <1>t, <1>m DEF FreeRest, Control, Joined
  <2>2. vsHand = 0 /\ rtHand = 0
    BY <1>t, <2>1 DEF Control, Hands
  <2>3. Frames'
    BY <1>5, <1>t, <2>2, FreeRestKeeps
  <2>4. /\ pacing' = <<>> /\ render' = <<>> /\ deferred' = 0 /\ rt' = "ended" /\ main' = "done"
        /\ UNCHANGED <<mode, vsVars, units, started, codec, fails, resets, out, crashed, quit,
                       pending, renderHist, rtTarget, rtHand, dec, vs, events, stopping, missed>>
    BY <1>5 DEF FreeRest, mainOnly
  <2>5. ThreadTypes' /\ Hands' /\ Joined'
    BY <1>t, <2>1, <2>2, <2>4 DEF Control, ThreadTypes, Hands, Joined, vsVars
  <2>6. Len(pacing') = 0 /\ out \in Nat /\ events \in Nat
    BY <1>t, <2>4 DEF FrameTypes, Control, ThreadTypes
  <2>7. Counts'
    BY <1>t, <2>1, <2>4, <2>6 DEF Control, Counts
  <2> QED
    BY <2>3, <2>5, <2>7 DEF IInv, Control
<1> QED
  BY <1>1, <1>2, <1>3, <1>4, <1>5 DEF Shutdown

LEMMA NextIInv == IInv /\ [Next]_vars => IInv'
<1> SUFFICES ASSUME IInv, [Next]_vars PROVE IInv'
  OBVIOUS
<1>1. CASE DecoderThread \/ VsyncThread \/ Rendering \/ Reset \/ Shutdown
  BY <1>1, DecoderKeeps, VsyncKeeps, RenderingKeeps, ShutdownKeeps
<1>2. CASE UNCHANGED vars
  <2>1. Frames'
    BY <1>2, FramesRest DEF IInv, vars, frameVars, decVars, vsVars, rtVars
  <2> QED
    BY <1>2, <2>1
    DEF vars, IInv, Control, ThreadTypes, Hands, Joined, Counts, decVars, vsVars, rtVars, endVars
<1> QED
  BY <1>1, <1>2 DEF Next, Idle

LEMMA InitIInv == Init => IInv
<1> SUFFICES ASSUME Init PROVE IInv
  OBVIOUS
<1>1. mode.units \in Nat /\ mode.vsync \in BOOLEAN /\ mode.thread \in BOOLEAN /\ mode \in Modes
  BY ModeFacts DEF Init
<1>2. InQueue(<<>>) = {} /\ Increasing(<<>>) /\ Len(<<>>) = 0 /\ <<>> \in Seq(Nat \ {0})
      /\ <<>> \in Seq(BOOLEAN)
  BY DEF InQueue, Increasing
<1>3. Chain(0, 0, {}, 0, {}, 0)
  BY DEF Chain
<1>4. FrameTypes /\ Held = live
  BY <1>2 DEF Init, FrameTypes, Held
<1>5. Frames
  <2>1. render = <<>> /\ pacing = <<>> /\ deferred = 0 /\ rtHand = 0 /\ vsHand = 0 /\ out = 0
    BY DEF Init
  <2>2. Chain(deferred, rtHand, InQueue(render), vsHand, InQueue(pacing), out)
    BY <1>2, <1>3, <2>1
  <2>3. Len(render) <= MAX_QUEUED_FRAMES
    BY <1>2, <2>1 DEF MAX_QUEUED_FRAMES
  <2> QED
    BY <1>2, <1>4, <2>1, <2>2, <2>3 DEF Frames
<1>6. ThreadTypes
  <2>1. 0 \in 0..ResetThreshold /\ 0 \in 0..1 /\ 0 \in 0..2 /\ 0 \in 0..3 /\ 0 \in Nat
    BY PacerAssumption
  <2>2. pacingHist \in Seq(BOOLEAN) /\ renderHist \in Seq(BOOLEAN)
    BY <1>2 DEF Init
  <2> QED
    BY <1>1, <2>1, <2>2 DEF Init, ThreadTypes
<1>7. Hands /\ Joined
  BY <1>1 DEF Init, Hands, Joined
<1>8. Counts
  <2>1. 0 < ResetThreshold /\ 0 <= mode.units
    BY <1>1, PacerAssumption
  <2>2. vs # "notify" /\ dec # "notify" /\ events = 0 /\ Len(pacing) = 0 /\ out = 0
    BY <1>2 DEF Init
  <2> QED
    BY <2>1, <2>2 DEF Init, Counts
<1> QED
  BY <1>5, <1>6, <1>7, <1>8 DEF IInv, Control

-----------------------------------------------------------------------------
(* What follows from the invariant.                                        *)

\* An increasing queue holds as many frames as it has places.
LEMMA QueueCardinality ==
  ASSUME NEW q \in Seq(Nat \ {0}), Increasing(q)
  PROVE  IsFiniteSet(InQueue(q)) /\ Cardinality(InQueue(q)) = Len(q)
<1> DEFINE g == [i \in 1..Len(q) |-> q[i]]
<1>1. Len(q) \in Nat /\ DOMAIN q = 1..Len(q) /\ \A i \in 1..Len(q) : q[i] \in Nat \ {0}
  OBVIOUS
<1>2. ASSUME NEW i \in 1..Len(q), NEW j \in 1..Len(q), i # j
      PROVE  q[i] # q[j]
  <2>1. i < j \/ j < i
    BY <1>1, <1>2
  <2>2. q[i] < q[j] \/ q[j] < q[i]
    BY <1>1, <2>1 DEF Increasing
  <2> QED
    BY <1>1, <2>2
<1>3. g \in Bijection(1..Len(q), InQueue(q))
  <2>1. g \in [1..Len(q) -> InQueue(q)]
    BY <1>1 DEF InQueue
  <2>2. \A i, j \in 1..Len(q) : g[i] = g[j] => i = j
    BY <1>2
  <2>3. \A f \in InQueue(q) : \E i \in 1..Len(q) : g[i] = f
    BY <1>1 DEF InQueue
  <2> QED
    BY <2>1, <2>2, <2>3, Fun_IsBij
<1>4. ExistsBijection(1..Len(q), InQueue(q))
  BY <1>3 DEF ExistsBijection
<1>5. IsFiniteSet(1..Len(q)) /\ Cardinality(1..Len(q)) = Len(q)
  BY <1>1, FS_Interval
<1> QED
  BY <1>4, <1>5, FS_Bijection

\* A hand adds at most one frame.
LEMMA HandAdds ==
  ASSUME NEW S, IsFiniteSet(S), NEW h \in Nat, h # 0 => h \notin S
  PROVE  /\ IsFiniteSet(S \union ({h} \ {0}))
         /\ Cardinality(S \union ({h} \ {0})) = Cardinality(S) + Holds(h)
<1>1. CASE h = 0
  <2>1. S \union ({h} \ {0}) = S /\ Holds(h) = 0
    BY <1>1 DEF Holds
  <2>2. Cardinality(S) \in Nat
    BY FS_CardinalityType
  <2>3. Cardinality(S) = Cardinality(S) + 0
    BY <2>2
  <2> QED
    BY <2>1, <2>3
<1>2. CASE h # 0
  <2>1. S \union ({h} \ {0}) = S \union {h} /\ h \notin S
    BY <1>2
  <2>2. IsFiniteSet(S \union {h}) /\ Cardinality(S \union {h}) = Cardinality(S) + 1
    BY <2>1, FS_AddElement
  <2> QED
    BY <1>2, <2>1, <2>2 DEF Holds
<1> QED
  BY <1>1, <1>2

LEMMA OwnersCounted ==
  ASSUME Frames
  PROVE  Cardinality(live) = Places
<1> DEFINE R == InQueue(render)
           P == InQueue(pacing)
           A == R \union P
           B == A \union ({vsHand} \ {0})
           C == B \union ({rtHand} \ {0})
           D == C \union ({deferred} \ {0})
<1>t. /\ vsHand \in Nat /\ rtHand \in Nat /\ deferred \in Nat /\ out \in Nat
      /\ Len(render) \in Nat /\ Len(pacing) \in Nat
  BY DEF Frames, FrameTypes
<1>c. Chain(deferred, rtHand, R, vsHand, P, out)
  BY DEF Frames
<1>n. \A f \in A : f \in Nat \ {0}
  BY FrameNumbers
<1>1. IsFiniteSet(R) /\ Cardinality(R) = Len(render)
  BY QueueCardinality DEF Frames, FrameTypes
<1>2. IsFiniteSet(P) /\ Cardinality(P) = Len(pacing)
  BY QueueCardinality DEF Frames, FrameTypes
<1>3. R \cap P = {}
  BY <1>c, <1>n DEF Chain
<1>4. IsFiniteSet(A) /\ Cardinality(A) = Len(render) + Len(pacing)
  <2>1. IsFiniteSet(A) /\ Cardinality(A) = Cardinality(R) + Cardinality(P) - Cardinality(R \cap P)
    BY <1>1, <1>2, FS_Union
  <2>2. Cardinality(R \cap P) = 0
    BY <1>3, FS_EmptySet
  <2> QED
    BY <1>1, <1>2, <1>t, <2>1, <2>2
<1>5. /\ vsHand # 0 => vsHand \notin A
      /\ rtHand # 0 => rtHand \notin A /\ rtHand # vsHand
      /\ deferred # 0 => deferred \notin A /\ deferred # vsHand /\ deferred # rtHand
  BY <1>t, <1>c, <1>n DEF Chain
<1>6. IsFiniteSet(B) /\ Cardinality(B) = Cardinality(A) + Holds(vsHand)
  BY <1>t, <1>4, <1>5, HandAdds
<1>7. IsFiniteSet(C) /\ Cardinality(C) = Cardinality(B) + Holds(rtHand)
  BY <1>t, <1>5, <1>6, HandAdds
<1>8. Cardinality(D) = Cardinality(C) + Holds(deferred)
  BY <1>t, <1>5, <1>7, HandAdds
<1>9. live = D
  BY DEF Frames, Held
<1>10. Holds(vsHand) \in Nat /\ Holds(rtHand) \in Nat /\ Holds(deferred) \in Nat
  BY DEF Holds
<1> HIDE DEF A, B, C, D
<1> QED
  BY <1>t, <1>4, <1>6, <1>7, <1>8, <1>9, <1>10 DEF Places

LEMMA QueueBounded ==
  ASSUME NEW q \in Seq(Nat \ {0}), NEW n \in Nat, \A f \in InQueue(q) : f <= n
  PROVE  q \in Seq(1..n)
<1>1. Len(q) \in Nat /\ DOMAIN q = 1..Len(q) /\ \A i \in 1..Len(q) : q[i] \in Nat \ {0}
  OBVIOUS
<1>2. \A i \in 1..Len(q) : q[i] \in 1..n
  BY <1>1 DEF InQueue
<1> QED
  BY <1>1, <1>2

LEMMA TypesFollow == IInv => TypeOK
<1> SUFFICES ASSUME IInv PROVE TypeOK
  OBVIOUS
<1>t. /\ ThreadTypes /\ Counts /\ FrameTypes
      /\ Chain(deferred, rtHand, InQueue(render), vsHand, InQueue(pacing), out)
  BY DEF IInv, Control, Frames
<1>m. mode.units \in Nat /\ mode.units <= MaxUnits /\ mode.vsync \in BOOLEAN /\ MaxUnits \in Nat
  BY <1>t, ModeFacts, PacerAssumption DEF ThreadTypes
<1>1. out <= MaxUnits /\ units <= MaxUnits /\ codec <= MaxUnits /\ pending <= MaxUnits
  <2>1. /\ out \in Nat /\ units \in Nat /\ codec \in Nat /\ pending \in Nat
        /\ units <= mode.units /\ out + codec <= units /\ out + pending <= units
    BY <1>t DEF ThreadTypes, Counts, FrameTypes
  <2> QED
    BY <1>m, <2>1
<1>2. events <= MaxUnits
  <2>1. events \in Nat /\ out \in Nat /\ Len(pacing) \in Nat
    BY <1>t DEF ThreadTypes, FrameTypes
  <2>2. events <= out
    <3> DEFINE x == IF vs = "notify" THEN 1 ELSE 0
               y == IF dec = "notify" THEN 1 ELSE 0
    <3>1. x \in Nat /\ y \in Nat
      OBVIOUS
    <3>2. (mode.vsync => events + Len(pacing) + x <= out) /\ (~mode.vsync => events + y <= out)
      BY <1>t DEF Counts
    <3> HIDE DEF x, y
    <3>3. CASE mode.vsync
      BY <2>1, <3>1, <3>2, <3>3
    <3>4. CASE ~mode.vsync
      BY <2>1, <3>1, <3>2, <3>4
    <3> QED
      BY <3>3, <3>4
  <2> QED
    BY <1>m, <1>1, <2>1, <2>2
<1>3. \A f \in InQueue(render) \union InQueue(pacing) : f \in Nat \ {0} /\ f <= MaxUnits
  BY <1>t, <1>1, <1>m, FrameNumbers DEF Chain, FrameTypes, IInv
<1>4. pacing \in Seq(1..MaxUnits) /\ render \in Seq(1..MaxUnits)
  BY <1>t, <1>m, <1>3, QueueBounded DEF FrameTypes
<1>5. vsHand \in 0..MaxUnits /\ rtHand \in 0..MaxUnits /\ deferred \in 0..MaxUnits
  BY <1>t, <1>m, <1>1 DEF Chain, FrameTypes
<1>6. live \subseteq 1..MaxUnits
  BY <1>3, <1>5, <1>m DEF IInv, Frames, Held
<1>7. /\ units \in 0..MaxUnits /\ out \in 0..MaxUnits /\ codec \in 0..MaxUnits
      /\ pending \in 0..MaxUnits /\ events \in 0..MaxUnits
  BY <1>t, <1>m, <1>1, <1>2 DEF ThreadTypes, FrameTypes
<1> QED
  BY <1>t, <1>4, <1>5, <1>6, <1>7 DEF TypeOK, ThreadTypes

\* When the pacer is gone nothing is left.
LEMMA NothingLeft == IInv => (main = "done" => live = {})
<1> SUFFICES ASSUME IInv, main = "done" PROVE live = {}
  OBVIOUS
<1>1. pacing = <<>> /\ render = <<>> /\ deferred = 0 /\ vs = "ended" /\ rt = "ended"
  BY DEF IInv, Control, Joined
<1>2. vsHand = 0 /\ rtHand = 0
  BY <1>1 DEF IInv, Control, Hands
<1> QED
  BY <1>1, <1>2 DEF IInv, Frames, Held, InQueue

\* Two increasing queues, one behind the other.
LEMMA QueuesJoin ==
  ASSUME NEW p \in Seq(Nat), NEW q \in Seq(Nat), Increasing(p), Increasing(q),
         \A f \in InQueue(p), g \in InQueue(q) : f < g
  PROVE  p \o q \in Seq(Nat) /\ Increasing(p \o q) /\ InQueue(p \o q) = InQueue(p) \union InQueue(q)
<1>1. /\ Len(p) \in Nat /\ Len(q) \in Nat /\ DOMAIN p = 1..Len(p) /\ DOMAIN q = 1..Len(q)
      /\ p \o q \in Seq(Nat) /\ DOMAIN (p \o q) = 1..(Len(p) + Len(q))
      /\ \A i \in 1..Len(p) : (p \o q)[i] = p[i]
      /\ \A i \in 1..Len(q) : (p \o q)[Len(p) + i] = q[i]
  OBVIOUS
<1>2. ASSUME NEW i \in 1..(Len(p) + Len(q)), ~(i \in 1..Len(p))
      PROVE  /\ i - Len(p) \in 1..Len(q) /\ (p \o q)[i] = q[i - Len(p)]
             /\ q[i - Len(p)] \in InQueue(q)
  <2>1. i - Len(p) \in 1..Len(q) /\ Len(p) + (i - Len(p)) = i
    BY <1>1, <1>2
  <2> QED
    BY <1>1, <2>1 DEF InQueue
<1>3. ASSUME NEW i \in 1..(Len(p) + Len(q)), NEW j \in 1..(Len(p) + Len(q)), i < j
      PROVE  (p \o q)[i] < (p \o q)[j]
  <2>1. CASE j \in 1..Len(p)
    <3>1. i \in 1..Len(p)
      BY <1>1, <1>3, <2>1
    <3> QED
      BY <1>1, <1>3, <2>1, <3>1 DEF Increasing
  <2>2. CASE i \in 1..Len(p) /\ ~(j \in 1..Len(p))
    <3>1. (p \o q)[i] \in InQueue(p)
      BY <1>1, <2>2 DEF InQueue
    <3> QED
      BY <1>2, <2>2, <3>1
  <2>3. CASE ~(i \in 1..Len(p)) /\ ~(j \in 1..Len(p))
    <3>1. i - Len(p) < j - Len(p)
      BY <1>1, <1>3
    <3> QED
      BY <1>1, <1>2, <2>3, <3>1 DEF Increasing
  <2> QED
    BY <2>1, <2>2, <2>3
<1>4. InQueue(p \o q) = InQueue(p) \union InQueue(q)
  <2>1. \A i \in 1..Len(p) : i \in 1..(Len(p) + Len(q))
    BY <1>1
  <2>2. \A i \in 1..Len(q) : Len(p) + i \in 1..(Len(p) + Len(q))
    BY <1>1
  <2>3. InQueue(p) \subseteq InQueue(p \o q)
    BY <1>1, <2>1 DEF InQueue
  <2>4. InQueue(q) \subseteq InQueue(p \o q)
    BY <1>1, <2>2 DEF InQueue
  <2>5. ASSUME NEW i \in 1..(Len(p) + Len(q))
        PROVE  (p \o q)[i] \in InQueue(p) \union InQueue(q)
    <3>1. CASE i \in 1..Len(p)
      BY <1>1, <3>1 DEF InQueue
    <3> QED
      BY <1>2, <3>1
  <2>6. InQueue(p \o q) \subseteq InQueue(p) \union InQueue(q)
    BY <1>1, <2>5 DEF InQueue
  <2> QED
    BY <2>3, <2>4, <2>6
<1> QED
  BY <1>1, <1>3, <1>4 DEF Increasing

LEMMA OrderFollows == IInv => InOrder
<1> SUFFICES ASSUME IInv PROVE InOrder
  OBVIOUS
<1> DEFINE d == IF deferred = 0 THEN <<>> ELSE <<deferred>>
           r == IF rtHand = 0 THEN <<>> ELSE <<rtHand>>
<1>t. FrameTypes /\ Increasing(render) /\ Increasing(pacing)
  BY DEF IInv, Frames
<1>c. Chain(deferred, rtHand, InQueue(render), vsHand, InQueue(pacing), out)
  BY DEF IInv, Frames
<1>s. render \in Seq(Nat) /\ pacing \in Seq(Nat)
  <2>1. \A i \in 1..Len(render) : render[i] \in Nat
    BY <1>t DEF FrameTypes
  <2>2. \A i \in 1..Len(pacing) : pacing[i] \in Nat
    BY <1>t DEF FrameTypes
  <2> QED
    BY <1>t, <2>1, <2>2 DEF FrameTypes
<1>1. d \in Seq(Nat) /\ Increasing(d) /\ InQueue(d) = {deferred} \ {0}
  BY <1>t DEF FrameTypes, Increasing, InQueue
<1>2. r \in Seq(Nat) /\ Increasing(r) /\ InQueue(r) = {rtHand} \ {0}
  BY <1>t DEF FrameTypes, Increasing, InQueue
<1> HIDE DEF d, r
<1>3. /\ d \o r \in Seq(Nat) /\ Increasing(d \o r)
      /\ InQueue(d \o r) = ({deferred} \ {0}) \union ({rtHand} \ {0})
  <2>1. \A f \in InQueue(d), g \in InQueue(r) : f < g
    BY <1>1, <1>2, <1>c DEF Chain
  <2> QED
    BY <1>1, <1>2, <2>1, QueuesJoin
<1>4. /\ (d \o r) \o render \in Seq(Nat) /\ Increasing((d \o r) \o render)
      /\ InQueue((d \o r) \o render)
           = ({deferred} \ {0}) \union ({rtHand} \ {0}) \union InQueue(render)
  <2>1. \A f \in InQueue(d \o r), g \in InQueue(render) : f < g
    BY <1>3, <1>c DEF Chain
  <2> QED
    BY <1>3, <1>s, <1>t, <2>1, QueuesJoin
<1>5. Increasing(((d \o r) \o render) \o pacing)
  <2>1. \A f \in InQueue((d \o r) \o render), g \in InQueue(pacing) : f < g
    BY <1>4, <1>c DEF Chain
  <2> QED
    BY <1>4, <1>s, <1>t, <2>1, QueuesJoin
<1> QED
  BY <1>5 DEF InOrder, Increasing, d, r

LEMMA BoundFollows == IInv => FramesBounded
<1> SUFFICES ASSUME IInv, ~mode.vsync PROVE Cardinality(live) <= PACER_MAX_OUTSTANDING_FRAMES
  BY DEF FramesBounded
<1>1. pacing = <<>> /\ vsHand = 0
  BY DEF IInv, Control, Hands
<1>2. Len(render) \in Nat /\ Len(render) <= 3 /\ Len(pacing) = 0
  BY <1>1 DEF IInv, Frames, FrameTypes, MAX_QUEUED_FRAMES
<1>3. Holds(vsHand) = 0 /\ Holds(rtHand) \in 0..1 /\ Holds(deferred) \in 0..1
  BY <1>1 DEF Holds
<1>4. Cardinality(live) = Len(pacing) + Len(render) + Holds(vsHand) + Holds(rtHand) + Holds(deferred)
  BY OwnersCounted DEF IInv, Places
<1> QED
  BY <1>2, <1>3, <1>4 DEF PACER_MAX_OUTSTANDING_FRAMES

LEMMA Invariant == Spec => []IInv
BY InitIInv, NextIInv, PTL DEF Spec

\* Every frame the codec put out and that is not freed is in exactly one
\* queue, hand or on the screen, whatever the threads and the shutdown
\* interleave: none is leaked, freed twice, or used after it was freed
\* (Pacer::submitFrame, handleVsync, renderFrame, ~Pacer).
THEOREM FramesHaveOneOwner == Spec => []PacerInv
<1>1. IInv => PacerInv
  BY TypesFollow, NothingLeft, OwnersCounted DEF PacerInv, OwnedOnce, IInv, Frames
<1> QED
  BY <1>1, Invariant, PTL

\* Frames are shown in the order of the codec (the FIFO use of m_PacingQueue,
\* m_RenderQueue and m_DeferredFreeFrame).
THEOREM FramesStayInOrder == Spec => []InOrder
BY OrderFollows, Invariant, PTL

\* Without a V-sync source the pacer never holds more frames than
\* PACER_MAX_OUTSTANDING_FRAMES promises the codec's surface pool.
THEOREM FramesAreBounded == Spec => []FramesBounded
BY BoundFollows, Invariant, PTL
=============================================================================
