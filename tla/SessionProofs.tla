--------------------------- MODULE SessionProofs ---------------------------
(***************************************************************************)
(* Proofs about the streaming session, for any number of sessions and any  *)
(* bounds on what the user, the host and the signals do.                   *)
(***************************************************************************)
EXTENDS Session, FiniteSetTheorems, WellFoundedInduction, TLAPS

-----------------------------------------------------------------------------
(* Facts about queues.                                                     *)

\* The pairs of naturals in their order: well-founded, so that induction on
\* a sequence can be written with a least counterexample.
Below == {p \in Nat \X Nat : p[1] < p[2]}

LEMMA Least ==
  ASSUME NEW T \in SUBSET Nat, T # {}
  PROVE  \E x \in T : \A y \in T : x <= y
  <1>1. IsWellFoundedOn(Below, Nat)
    BY NatLessThanWellFounded DEF OpToRel, Below
  <1>2. PICK x \in T : \A y \in T : ~ (<<y, x>> \in Below)
    BY <1>1, WFMin
  <1>3. ASSUME NEW y \in T, y < x PROVE FALSE
    <2>1. <<y, x>> \in Nat \X Nat /\ <<y, x>>[1] = y /\ <<y, x>>[2] = x
      OBVIOUS
    <2>2. <<y, x>> \in Below
      BY <1>3, <2>1 DEF Below
    <2>3. QED
      BY <1>2, <2>2
  <1>4. QED
    <2>1. \A y \in T : y \in Nat /\ x \in Nat
      OBVIOUS
    <2>2. QED
      BY <1>3, <2>1

\* The i-th event and its barriers, after an event is appended.
LEMMA AppendFacts ==
  ASSUME NEW S, NEW q \in Seq(S), NEW e \in S
  PROVE  /\ Append(q, e) \in Seq(S) /\ Len(Append(q, e)) = Len(q) + 1
         /\ Len(q) \in Nat
         /\ \A i \in 1..Len(q) : Append(q, e)[i] = q[i]
         /\ Append(q, e)[Len(q) + 1] = e
  OBVIOUS

LEMMA TailFacts ==
  ASSUME NEW S, NEW q \in Seq(S), q # <<>>
  PROVE  /\ Tail(q) \in Seq(S) /\ Len(q) \in Nat /\ Len(q) > 0 /\ Len(Tail(q)) = Len(q) - 1
         /\ Head(q) = q[1] /\ Head(q) \in S
         /\ \A i \in 1..Len(Tail(q)) : Tail(q)[i] = q[i + 1]
  OBVIOUS

\* No value p is twice in q.
Once(q, p) == \A i, j \in 1..Len(q) : q[i] = p /\ q[j] = p => i = j

LEMMA ContainsAppend ==
  ASSUME NEW S, NEW q \in Seq(S), NEW e \in S, NEW p
  PROVE  /\ Contains(Append(q, e), p) <=> Contains(q, p) \/ e = p
         /\ Once(q, p) /\ (e = p => ~Contains(q, p)) => Once(Append(q, e), p)
  BY AppendFacts DEF Contains, Once

LEMMA ContainsTail ==
  ASSUME NEW S, NEW q \in Seq(S), q # <<>>, NEW p
  PROVE  /\ Contains(Tail(q), p) => Contains(q, p)
         /\ Head(q) # p => (Contains(Tail(q), p) <=> Contains(q, p))
         /\ Contains(q, Head(q))
         /\ Once(q, p) => Once(Tail(q), p)
         /\ Once(q, p) /\ Head(q) = p => ~Contains(Tail(q), p)
  <1>1. \A i \in 1..Len(Tail(q)) : i + 1 \in 1..Len(q) /\ Tail(q)[i] = q[i + 1]
    BY TailFacts
  <1>2. \A i \in 1..Len(q) : i = 1 \/ (i - 1 \in 1..Len(Tail(q)) /\ Tail(q)[i - 1] = q[i])
    BY TailFacts
  <1>3. 1 \in 1..Len(q) /\ Head(q) = q[1]
    BY TailFacts
  <1>4. QED
    BY <1>1, <1>2, <1>3 DEF Contains, Once

-----------------------------------------------------------------------------
(* Barriers.                                                               *)

LEMMA BarriersNat ==
  ASSUME NEW q, NEW n \in Nat
  PROVE  /\ IsFiniteSet({j \in 1..n : q[j] = "BARRIER"})
         /\ Barriers(q, n) \in Nat
  <1>1. IsFiniteSet(1..n)
    BY FS_Interval
  <1>2. IsFiniteSet({j \in 1..n : q[j] = "BARRIER"})
    BY <1>1, FS_Subset
  <1>3. QED
    BY <1>2, FS_CardinalityType DEF Barriers

\* The count depends on the first n events only.
LEMMA BarriersSame ==
  ASSUME NEW q, NEW r, NEW n \in Nat,
         \A j \in 1..n : (q[j] = "BARRIER" <=> r[j] = "BARRIER")
  PROVE  Barriers(q, n) = Barriers(r, n)
  <1>1. {j \in 1..n : q[j] = "BARRIER"} = {j \in 1..n : r[j] = "BARRIER"}
    OBVIOUS
  <1>2. QED
    BY <1>1 DEF Barriers

LEMMA BarriersZero ==
  ASSUME NEW q
  PROVE  Barriers(q, 0) = 0
  BY FS_EmptySet DEF Barriers

\* One more event.
LEMMA BarriersNext ==
  ASSUME NEW q, NEW n \in Nat
  PROVE  Barriers(q, n + 1) = Barriers(q, n) + (IF q[n + 1] = "BARRIER" THEN 1 ELSE 0)
  <1> DEFINE A == {j \in 1..n : q[j] = "BARRIER"}
             B == {j \in 1..(n + 1) : q[j] = "BARRIER"}
  <1>1. IsFiniteSet(A) /\ Cardinality(A) \in Nat
    BY BarriersNat DEF Barriers
  <1>2. n + 1 \notin A
    OBVIOUS
  <1>3. CASE q[n + 1] = "BARRIER"
    <2>1. B = A \union {n + 1}
      BY <1>3
    <2>2. Cardinality(B) = Cardinality(A) + 1
      BY <1>1, <1>2, <2>1, FS_AddElement
    <2>3. QED
      BY <1>3, <2>2 DEF Barriers
  <1>4. CASE q[n + 1] # "BARRIER"
    <2>1. B = A
      <3>1. \A j \in 1..(n + 1) : j = n + 1 \/ j \in 1..n
        OBVIOUS
      <3>2. QED
        BY <1>4, <3>1
    <2>2. Cardinality(B) = Cardinality(A)
      BY <2>1
    <2>3. QED
      BY <1>1, <1>4, <2>2 DEF Barriers
  <1>5. QED
    BY <1>3, <1>4

\* More events, more barriers.
LEMMA BarriersMore ==
  ASSUME NEW q, NEW n \in Nat, NEW m \in Nat, n <= m
  PROVE  Barriers(q, n) <= Barriers(q, m)
  <1>1. IsFiniteSet({j \in 1..m : q[j] = "BARRIER"})
    BY BarriersNat
  <1>2. {j \in 1..n : q[j] = "BARRIER"} \subseteq {j \in 1..m : q[j] = "BARRIER"}
    OBVIOUS
  <1>3. QED
    BY <1>1, <1>2, FS_Subset DEF Barriers

LEMMA BarriersAppend ==
  ASSUME NEW S, NEW q \in Seq(S), NEW e \in S
  PROVE  /\ \A n \in 0..Len(q) : Barriers(Append(q, e), n) = Barriers(q, n)
         /\ Barriers(Append(q, e), Len(q) + 1) = Barriers(q, Len(q)) + (IF e = "BARRIER" THEN 1 ELSE 0)
  <1>1. \A n \in 0..Len(q) : Barriers(Append(q, e), n) = Barriers(q, n)
    <2>1. TAKE n \in 0..Len(q)
    <2>2. \A j \in 1..n : Append(q, e)[j] = q[j]
      BY AppendFacts
    <2>3. n \in Nat
      BY AppendFacts
    <2>4. QED
      BY <2>2, <2>3, BarriersSame
  <1>2. Len(q) \in Nat /\ Append(q, e)[Len(q) + 1] = e
    BY AppendFacts
  <1>3. Barriers(Append(q, e), Len(q) + 1)
          = Barriers(Append(q, e), Len(q)) + (IF Append(q, e)[Len(q) + 1] = "BARRIER" THEN 1 ELSE 0)
    BY <1>2, BarriersNext
  <1>4. Len(q) \in 0..Len(q)
    BY <1>2
  <1>5. QED
    BY <1>1, <1>2, <1>3, <1>4

LEMMA BarriersTail ==
  ASSUME NEW S, NEW q \in Seq(S), q # <<>>, NEW n \in Nat, n < Len(q)
  PROVE  Barriers(q, n + 1) = Barriers(Tail(q), n) + (IF Head(q) = "BARRIER" THEN 1 ELSE 0)
  <1> DEFINE P(k) == Barriers(q, k + 1) = Barriers(Tail(q), k) + (IF Head(q) = "BARRIER" THEN 1 ELSE 0)
             Bad == {k \in 0..n : ~P(k)}
  <1>1. SUFFICES ASSUME Bad # {} PROVE FALSE
    OBVIOUS
  <1>2. PICK k \in Bad : \A j \in Bad : k <= j
    <2>1. Bad \in SUBSET Nat
      OBVIOUS
    <2>2. QED
      BY <1>1, <2>1, Least
  <1>3. P(0)
    <2>1. Barriers(q, 0 + 1) = Barriers(q, 0) + (IF q[0 + 1] = "BARRIER" THEN 1 ELSE 0)
      BY BarriersNext
    <2>2. Barriers(q, 0) = 0 /\ Barriers(Tail(q), 0) = 0
      BY BarriersZero
    <2>3. Head(q) = q[1]
      BY TailFacts
    <2>4. QED
      BY <2>1, <2>2, <2>3
  <1>4. k \in 0..n /\ k # 0 /\ k - 1 \in 0..n
    BY <1>2, <1>3
  <1>5. P(k - 1)
    BY <1>2, <1>4
  <1>6. Barriers(q, k + 1) = Barriers(q, k) + (IF q[k + 1] = "BARRIER" THEN 1 ELSE 0)
    BY <1>4, BarriersNext
  <1>7. Barriers(Tail(q), k) = Barriers(Tail(q), k - 1) + (IF Tail(q)[k] = "BARRIER" THEN 1 ELSE 0)
    <2>1. k - 1 \in Nat /\ (k - 1) + 1 = k
      BY <1>4
    <2>2. QED
      BY <2>1, BarriersNext
  <1>8. Tail(q)[k] = q[k + 1]
    BY <1>4, TailFacts
  <1>9. Barriers(q, k) \in Nat /\ Barriers(Tail(q), k - 1) \in Nat /\ Barriers(q, k + 1) \in Nat
    <2>1. k \in Nat /\ k - 1 \in Nat /\ k + 1 \in Nat
      BY <1>4
    <2>2. QED
      BY <2>1, BarriersNat
  <1>10. P(k)
    BY <1>4, <1>5, <1>6, <1>7, <1>8, <1>9
  <1>11. QED
    BY <1>2, <1>10

-----------------------------------------------------------------------------
(* The flush of the reset requests.                                        *)

Request == {"RESET", "STALE"}

\* g is what is kept of the first k events of q, for every k up to n.
Keeps(q, g, n) ==
  /\ g[0] = <<>>
  /\ \A i \in 1..n : g[i] = IF q[i] \in Request THEN g[i - 1] ELSE Append(g[i - 1], q[i])

LEMMA KeepsExists ==
  ASSUME NEW q \in Seq(EventType)
  PROVE  \E g \in [0..Len(q) -> Seq(EventType)] : Keeps(q, g, Len(q))
  <1> DEFINE P(k) == \E g \in [0..k -> Seq(EventType)] : Keeps(q, g, k)
             Bad == {k \in 0..Len(q) : ~P(k)}
  <1>0. Len(q) \in Nat /\ \A i \in 1..Len(q) : q[i] \in EventType
    OBVIOUS
  <1>1. SUFFICES ASSUME Bad # {} PROVE FALSE
    <2>1. Len(q) \in 0..Len(q)
      BY <1>0
    <2>2. QED
      BY <2>1
  <1>2. PICK k \in Bad : \A j \in Bad : k <= j
    <2>1. Bad \in SUBSET Nat
      OBVIOUS
    <2>2. QED
      BY <1>1, <2>1, Least
  <1>3. P(0)
    <2> DEFINE g == [i \in 0..0 |-> <<>>]
    <2>1. g \in [0..0 -> Seq(EventType)]
      OBVIOUS
    <2>2. Keeps(q, g, 0)
      BY DEF Keeps
    <2>3. QED
      BY <2>1, <2>2
  <1>4. k \in 1..Len(q) /\ k - 1 \in 0..Len(q) /\ k \in Nat
    <2> HIDE DEF P
    <2>1. k \in 0..Len(q) /\ ~P(k)
      BY <1>2
    <2>2. k # 0
      BY <1>3, <2>1
    <2>3. QED
      BY <1>0, <2>1, <2>2
  <1>5. P(k - 1)
    BY <1>2, <1>4
  <1>6. PICK g \in [0..(k - 1) -> Seq(EventType)] : Keeps(q, g, k - 1)
    BY <1>5
  <1> DEFINE last == IF q[k] \in Request THEN g[k - 1] ELSE Append(g[k - 1], q[k])
             h == [i \in 0..k |-> IF i < k THEN g[i] ELSE last]
  <1>7. last \in Seq(EventType)
    <2>1. g[k - 1] \in Seq(EventType) /\ q[k] \in EventType
      BY <1>0, <1>4, <1>6
    <2>2. QED
      BY <2>1
  <1>8. h \in [0..k -> Seq(EventType)]
    <2>1. \A i \in 0..k : i < k => i \in 0..(k - 1)
      BY <1>4
    <2>2. QED
      BY <1>6, <1>7, <2>1
  <1>9. Keeps(q, h, k)
    <2> HIDE DEF last
    <2>1. h[0] = <<>>
      BY <1>4, <1>6 DEF Keeps
    <2>2. \A i \in 1..(k - 1) : h[i] = g[i] /\ h[i - 1] = g[i - 1]
      BY <1>4
    <2>3. h[k] = last /\ h[k - 1] = g[k - 1]
      BY <1>4
    <2>4. \A i \in 1..k : i = k \/ i \in 1..(k - 1)
      BY <1>4
    <2>5. QED
      BY <1>6, <2>1, <2>2, <2>3, <2>4 DEF Keeps, last
  <1>10. P(k)
    <2> HIDE DEF h
    <2>1. QED
      BY <1>8, <1>9
  <1>11. QED
    BY <1>2, <1>10

\* Flushed() computes such a g.
LEMMA FlushedIs ==
  ASSUME NEW q \in Seq(EventType)
  PROVE  \E g : Keeps(q, g, Len(q)) /\ Flushed(q) = g[Len(q)]
  <1> DEFINE Kept(f) == [i \in 0..Len(q) |->
                IF i = 0 THEN <<>>
                ELSE IF q[i] \in {"RESET", "STALE"} THEN f[i - 1] ELSE Append(f[i - 1], q[i])]
             F == CHOOSE f : f = Kept(f)
  <1>0. Len(q) \in Nat
    OBVIOUS
  <1>1. PICK g \in [0..Len(q) -> Seq(EventType)] : Keeps(q, g, Len(q))
    BY KeepsExists
  <1>2. g = Kept(g)
    <2>1. \A i \in 0..Len(q) : g[i] = Kept(g)[i]
      <3>1. \A i \in 0..Len(q) : i = 0 \/ i \in 1..Len(q)
        BY <1>0
      <3>2. QED
        BY <1>1, <3>1 DEF Keeps, Request
    <2>2. QED
      BY <1>1, <2>1
  <1>3. F = Kept(F)
    BY <1>2
  <1>4. Flushed(q) = F[Len(q)]
    BY DEF Flushed
  <1>5. Keeps(q, F, Len(q))
    <2> HIDE DEF F
    <2>1. \A i \in 0..Len(q) : F[i] = Kept(F)[i]
      BY <1>3
    <2>2. QED
      BY <1>0, <2>1 DEF Keeps, Request
  <1>6. QED
    BY <1>4, <1>5

\* What is kept has no reset request, and all the barriers.
LEMMA FlushedFacts ==
  ASSUME NEW q \in Seq(EventType)
  PROVE  /\ Flushed(q) \in Seq(EventType)
         /\ ~Contains(Flushed(q), "STALE")
         /\ Barriers(Flushed(q), Len(Flushed(q))) = Barriers(q, Len(q))
  <1>0. Len(q) \in Nat /\ \A i \in 1..Len(q) : q[i] \in EventType
    OBVIOUS
  <1>1. PICK g : Keeps(q, g, Len(q)) /\ Flushed(q) = g[Len(q)]
    BY FlushedIs
  <1> DEFINE P(k) == /\ g[k] \in Seq(EventType)
                     /\ ~Contains(g[k], "STALE")
                     /\ Barriers(g[k], Len(g[k])) = Barriers(q, k)
             Bad == {k \in 0..Len(q) : ~P(k)}
  <1>2. SUFFICES ASSUME Bad # {} PROVE FALSE
    <2>1. Len(q) \in 0..Len(q)
      BY <1>0
    <2>2. QED
      BY <1>1, <2>1
  <1>3. PICK k \in Bad : \A j \in Bad : k <= j
    <2>1. Bad \in SUBSET Nat
      OBVIOUS
    <2>2. QED
      BY <1>2, <2>1, Least
  <1>4. P(0)
    <2>1. g[0] = <<>> /\ Len(<<>>) = 0 /\ <<>> \in Seq(EventType)
      BY <1>1 DEF Keeps
    <2>2. Barriers(g[0], 0) = 0 /\ Barriers(q, 0) = 0
      BY BarriersZero
    <2>3. QED
      BY <2>1, <2>2 DEF Contains
  <1>5. k \in 1..Len(q) /\ k - 1 \in 0..Len(q) /\ k - 1 \in Nat /\ (k - 1) + 1 = k
    BY <1>0, <1>3, <1>4
  <1>6. P(k - 1)
    BY <1>3, <1>5
  <1>7. g[k] = IF q[k] \in Request THEN g[k - 1] ELSE Append(g[k - 1], q[k])
    BY <1>1, <1>5 DEF Keeps
  <1>8. Barriers(q, k) = Barriers(q, k - 1) + (IF q[k] = "BARRIER" THEN 1 ELSE 0)
    BY <1>5, BarriersNext
  <1>9. Barriers(q, k - 1) \in Nat /\ q[k] \in EventType
    BY <1>0, <1>5, BarriersNat
  <1>10. CASE q[k] \in Request
    BY <1>3, <1>6, <1>7, <1>8, <1>9, <1>10 DEF Request
  <1>11. CASE q[k] \notin Request
    <2>1. g[k] = Append(g[k - 1], q[k])
      BY <1>7, <1>11
    <2>2. g[k] \in Seq(EventType) /\ Len(g[k]) = Len(g[k - 1]) + 1
      BY <1>6, <1>9, <2>1, AppendFacts
    <2>3. ~Contains(g[k], "STALE")
      BY <1>6, <1>9, <1>11, <2>1, ContainsAppend DEF Request
    <2>4. Barriers(g[k], Len(g[k - 1]) + 1) = Barriers(g[k - 1], Len(g[k - 1])) + (IF q[k] = "BARRIER" THEN 1 ELSE 0)
      BY <1>6, <1>9, <2>1, BarriersAppend
    <2>5. P(k)
      BY <1>6, <1>8, <2>2, <2>3, <2>4
    <2>6. QED
      BY <1>3, <2>5
  <1>12. QED
    BY <1>10, <1>11

LEMMA OrphanedFacts ==
  ASSUME NEW q \in Seq(EventType)
  PROVE  /\ Orphaned(q) \in Seq(EventType)
         /\ Len(Orphaned(q)) = Len(q)
         /\ \A i \in 1..Len(q) : Orphaned(q)[i] = IF q[i] = "RESET" THEN "STALE" ELSE q[i]
         /\ \A n \in 0..Len(q) : Barriers(Orphaned(q), n) = Barriers(q, n)
  <1>1. DOMAIN q = 1..Len(q) /\ Len(q) \in Nat /\ \A i \in 1..Len(q) : q[i] \in EventType
    OBVIOUS
  <1>2. Orphaned(q) = [i \in 1..Len(q) |-> IF q[i] = "RESET" THEN "STALE" ELSE q[i]]
    BY <1>1 DEF Orphaned
  <1>3. Orphaned(q) \in Seq(EventType) /\ Len(Orphaned(q)) = Len(q)
    BY <1>1, <1>2 DEF EventType
  <1>4. \A i \in 1..Len(q) : Orphaned(q)[i] = IF q[i] = "RESET" THEN "STALE" ELSE q[i]
    BY <1>2
  <1>5. ASSUME NEW n \in 0..Len(q) PROVE Barriers(Orphaned(q), n) = Barriers(q, n)
    <2>1. n \in Nat /\ \A j \in 1..n : j \in 1..Len(q)
      BY <1>1
    <2>2. QED
      BY <1>4, <2>1, BarriersSame
  <1>6. QED
    BY <1>3, <1>4, <1>5

-----------------------------------------------------------------------------
(* What the queue owes the SDL loop.                                       *)

\* No more flushes are under way than barriers are queued.
Settled(q, f) == f <= Barriers(q, Len(q))

\* Something in q brings the decoder back (see BringsBack).
Back(q, f) ==
  \E i \in 1..Len(q) :
    \/ q[i] \in {"RESET", "STALE", "QUIT"}
    \/ q[i] \in {"SHOWN", "SIZE"} /\ f <= Barriers(q, i)

LEMMA SettledAppend ==
  ASSUME NEW q \in Seq(EventType), NEW e \in EventType, NEW f \in Int, Settled(q, f)
  PROVE  /\ Settled(Append(q, e), f)
         /\ e = "BARRIER" => Settled(Append(q, e), f + 1)
  <1>1. Len(Append(q, e)) = Len(q) + 1 /\ Len(q) \in Nat
    BY AppendFacts
  <1>2. Barriers(q, Len(q)) \in Nat
    BY <1>1, BarriersNat
  <1>3. Barriers(Append(q, e), Len(q) + 1) = Barriers(q, Len(q)) + (IF e = "BARRIER" THEN 1 ELSE 0)
    BY BarriersAppend
  <1>4. QED
    BY <1>1, <1>2, <1>3 DEF Settled

LEMMA SettledTail ==
  ASSUME NEW q \in Seq(EventType), q # <<>>, NEW f \in Int, Settled(q, f)
  PROVE  /\ Head(q) = "BARRIER" => Settled(Tail(q), f - 1)
         /\ Head(q) # "BARRIER" => Settled(Tail(q), f)
  <1>1. Len(Tail(q)) = Len(q) - 1 /\ Len(q) - 1 \in Nat /\ Len(q) \in Nat /\ (Len(q) - 1) + 1 = Len(q)
    BY TailFacts
  <1>2. Barriers(q, Len(q)) = Barriers(Tail(q), Len(q) - 1) + (IF Head(q) = "BARRIER" THEN 1 ELSE 0)
    BY <1>1, BarriersTail
  <1>3. Barriers(Tail(q), Len(q) - 1) \in Nat
    BY <1>1, BarriersNat
  <1>4. QED
    BY <1>1, <1>2, <1>3 DEF Settled

LEMMA SettledRest ==
  ASSUME NEW q \in Seq(EventType), NEW f \in Int, Settled(q, f)
  PROVE  Settled(Orphaned(q), f) /\ Settled(Flushed(q), f)
  <1>1. Len(q) \in 0..Len(q)
    BY Len(q) \in Nat
  <1>2. Len(Orphaned(q)) = Len(q) /\ Barriers(Orphaned(q), Len(q)) = Barriers(q, Len(q))
    BY <1>1, OrphanedFacts
  <1>3. Barriers(Flushed(q), Len(Flushed(q))) = Barriers(q, Len(q))
    BY FlushedFacts
  <1>4. QED
    BY <1>2, <1>3 DEF Settled

\* A new event leaves what was promised, and a window event is promise enough.
LEMMA BackAppend ==
  ASSUME NEW q \in Seq(EventType), NEW e \in EventType, NEW f \in Int
  PROVE  /\ Back(q, f) => Back(Append(q, e), f)
         /\ Settled(q, f) /\ e \in {"SHOWN", "SIZE"} => Back(Append(q, e), f)
  <1>1. Len(q) \in Nat /\ Len(Append(q, e)) = Len(q) + 1 /\ Append(q, e)[Len(q) + 1] = e
        /\ \A i \in 1..Len(q) : Append(q, e)[i] = q[i]
    BY AppendFacts
  <1>2. \A i \in 1..Len(q) : Barriers(Append(q, e), i) = Barriers(q, i)
    BY BarriersAppend
  <1>3. Settled(Append(q, e), f) \/ ~Settled(q, f)
    BY SettledAppend
  <1>4. Len(q) + 1 \in 1..Len(Append(q, e)) /\ \A i \in 1..Len(q) : i \in 1..Len(Append(q, e))
    BY <1>1
  <1>5. ASSUME Back(q, f) PROVE Back(Append(q, e), f)
    BY <1>1, <1>2, <1>4, <1>5 DEF Back
  <1>6. ASSUME Settled(q, f), e \in {"SHOWN", "SIZE"} PROVE Back(Append(q, e), f)
    BY <1>1, <1>3, <1>4, <1>6 DEF Back, Settled
  <1>7. QED
    BY <1>5, <1>6

\* Taking the first event keeps the promise, unless that event was it.
LEMMA BackTail ==
  ASSUME NEW q \in Seq(EventType), q # <<>>, NEW f \in Int, Back(q, f),
         Head(q) \notin {"RESET", "STALE", "QUIT"}
  PROVE  /\ Head(q) = "BARRIER" => Back(Tail(q), f - 1)
         /\ Head(q) # "BARRIER" /\ ~(Head(q) \in {"SHOWN", "SIZE"} /\ f <= 0) => Back(Tail(q), f)
  <1>1. Len(Tail(q)) = Len(q) - 1 /\ Len(q) \in Nat /\ Head(q) = q[1]
        /\ \A i \in 1..Len(Tail(q)) : Tail(q)[i] = q[i + 1]
    BY TailFacts
  <1>2. PICK i \in 1..Len(q) :
          \/ q[i] \in {"RESET", "STALE", "QUIT"}
          \/ q[i] \in {"SHOWN", "SIZE"} /\ f <= Barriers(q, i)
    BY DEF Back
  <1>3. CASE i = 1
    <2>1. Head(q) \in {"SHOWN", "SIZE"} /\ f <= Barriers(q, 1)
      BY <1>1, <1>2, <1>3
    <2>2. Barriers(q, 1) = 0
      <3>1. Barriers(q, 0 + 1) = Barriers(q, 0) + (IF q[0 + 1] = "BARRIER" THEN 1 ELSE 0)
        BY BarriersNext
      <3>2. QED
        BY <1>1, <2>1, <3>1, BarriersZero
    <2>3. QED
      BY <2>1, <2>2
  <1>4. CASE i # 1
    <2>1. i - 1 \in 1..Len(Tail(q)) /\ i - 1 \in Nat /\ i - 1 < Len(q) /\ (i - 1) + 1 = i
      BY <1>1, <1>4
    <2>2. Tail(q)[i - 1] = q[i]
      BY <1>1, <2>1
    <2>3. Barriers(q, i) = Barriers(Tail(q), i - 1) + (IF Head(q) = "BARRIER" THEN 1 ELSE 0)
      BY <2>1, BarriersTail
    <2>4. Barriers(Tail(q), i - 1) \in Nat
      BY <2>1, BarriersNat
    <2>5. ASSUME Head(q) = "BARRIER" PROVE Back(Tail(q), f - 1)
      <3>1. q[i] \in {"RESET", "STALE", "QUIT"} \/ (q[i] \in {"SHOWN", "SIZE"} /\ f - 1 <= Barriers(Tail(q), i - 1))
        BY <1>2, <2>3, <2>4, <2>5
      <3>2. QED
        BY <2>1, <2>2, <3>1 DEF Back
    <2>6. ASSUME Head(q) # "BARRIER" PROVE Back(Tail(q), f)
      <3>1. q[i] \in {"RESET", "STALE", "QUIT"} \/ (q[i] \in {"SHOWN", "SIZE"} /\ f <= Barriers(Tail(q), i - 1))
        BY <1>2, <2>3, <2>4, <2>6
      <3>2. QED
        BY <2>1, <2>2, <3>1 DEF Back
    <2>7. QED
      BY <2>5, <2>6
  <1>5. QED
    BY <1>3, <1>4

\* SDL_PushEvent() while the session holds video always queues.
LEMMA PushedFacts ==
  ASSUME NEW q \in Seq(EventType), NEW e \in EventType
  PROVE  /\ Pushed(q, e) \in Seq(EventType)
         /\ video = TRUE => Pushed(q, e) = Append(q, e)
         /\ e # "STALE" /\ ~Contains(q, "STALE") => ~Contains(Pushed(q, e), "STALE")
  <1>1. Pushed(q, e) \in {q, Append(q, e)}
    BY DEF Pushed
  <1>2. video = TRUE => Pushed(q, e) = Append(q, e)
    BY DEF Pushed
  <1>3. Append(q, e) \in Seq(EventType)
    BY AppendFacts
  <1>4. e # "STALE" /\ ~Contains(q, "STALE") => ~Contains(Append(q, e), "STALE")
    BY ContainsAppend
  <1>5. QED
    BY <1>1, <1>2, <1>3, <1>4

-----------------------------------------------------------------------------
(* The inductive invariant.                                                *)

SessionRecord ==
  [unexpected : BOOLEAN, exit : BOOLEAN, ok : BOOLEAN, cancelled : BOOLEAN, flush : Int]

Connection ==
  [phase : {"down", "starting", "up"}, frame : BOOLEAN, term : BOOLEAN, hdr : BOOLEAN]

Budget == [sessions : 0..MaxSessions, inputs : Nat, signals : Nat, hdr : Nat]

\* The values of the variables that are not records or sequences.
Types ==
  /\ platform \in Platforms /\ cli \in BOOLEAN /\ quitAfter \in BOOLEAN
  /\ main \in {"ui", "launching", "acquire", "connecting", "loop", "recreate",
               "unlock", "returning", "exited"}
  /\ cur \in 0..MaxSessions /\ active \in 0..MaxSessions /\ sem \in 0..1
  /\ async \in {"idle", "http", "li", "wait"}
  /\ decoder \in {"none", "sdr", "hdr"}
  /\ cleanup \in {"idle", "run", "stop", "stop_quit", "quit", "exit"}
  /\ sig \in [last : 0..MaxSessions, quit : BOOLEAN]
  /\ error \in BOOLEAN /\ dialog \in BOOLEAN

\* What is left of the bounds: sessions are never numbered past theirs.
Bounds == left \in Budget /\ cur + left.sessions <= MaxSessions

SesTypes == ses \in [Id -> SessionRecord]

ConnTypes == conn \in Connection

QueueTypes == posted \in Seq(Post) /\ queue \in Seq(EventType)

\* The main thread works on the active session up to the end of exec(), the
\* clean-up task has it from there on; a session that is not active is new.
Owner ==
  /\ active = 0 <=> sem = 1
  /\ cleanup # "idle" => active # 0
  /\ main \in {"connecting", "loop", "recreate", "unlock"} =>
       active = cur /\ cur # 0 /\ cleanup = "idle"
  /\ main \in {"ui", "launching", "acquire", "returning"} /\ active # 0 => cleanup # "idle"
  /\ main \in {"launching", "acquire"} => cur # 0
  /\ main \in {"launching", "acquire", "connecting", "loop", "recreate", "unlock"} => video = TRUE
  /\ \A s \in Id : s # active => ses[s] = NewSession

\* The connection lives inside the active session and the decoder inside the
\* connection; a session that may stream has its connection.
Lives ==
  /\ conn.phase # "down" => active # 0
  /\ async # "idle" => main \in {"connecting", "exited"}
  /\ async = "wait" => conn.phase = "up"
  /\ main \in {"loop", "recreate", "unlock"} => conn.phase = "up"
  /\ main = "connecting" =>
       /\ ses[cur].flush = 0
       /\ ses[cur].ok = TRUE => conn.phase = "up" /\ async = "idle"
  /\ decoder # "none" => main \in {"loop", "unlock", "exited"} /\ active = cur /\ conn.phase = "up"
  /\ main = "unlock" => decoder # "none"

\* The end of the connecting thread and the end of the session are posted
\* once each, to a main thread that waits for them.
Announced ==
  /\ Once(posted, "exec") /\ Once(posted, "finished")
  /\ Contains(posted, "exec") => main \in {"connecting", "exited"} /\ async = "idle"
  /\ Contains(posted, "finished") =>
       main \in {"returning", "exited"} /\ cleanup \in {"stop", "exit", "idle"}
  /\ main \in {"ui", "launching", "acquire"} => cleanup \in {"stop", "exit", "idle"}

\* No reset request of a deleted decoder outlives the next one's creation,
\* and no more flushes are under way than barriers are queued.
Requests ==
  /\ decoder # "none" \/ main = "recreate" => ~Contains(queue, "STALE")
  /\ main \in {"loop", "recreate", "unlock"} => Settled(queue, ses[cur].flush)

ComesBack ==
  main = "loop" /\ decoder = "none" /\ minimized = FALSE => Back(queue, ses[cur].flush)

\* The decoder has the host's mode from its creation on.
Applied ==
  main \in {"loop", "unlock"} /\ decoder # "none" /\ hdrRace = FALSE => decoder = HdrMode(conn.hdr)

Flags == video \in BOOLEAN /\ nav \in BOOLEAN /\ minimized \in BOOLEAN /\ hdrRace \in BOOLEAN

IInv ==
  /\ Types /\ Flags /\ Bounds /\ SesTypes /\ ConnTypes /\ QueueTypes /\ Owner
  /\ Lives /\ Announced /\ Requests /\ ComesBack /\ Applied

-----------------------------------------------------------------------------
(* What the steps of the invariance proof share.                           *)

\* The main thread in the SDL loop holds video and the active session.
LEMMA LoopFacts ==
  ASSUME IInv, main \in {"loop", "recreate", "unlock"}
  PROVE  /\ video = TRUE /\ active = cur /\ cur \in Id
         /\ ses[cur] \in SessionRecord /\ ses[cur].flush \in Int
         /\ queue \in Seq(EventType) /\ Settled(queue, ses[cur].flush)
  <1>1. cur \in Id /\ active = cur /\ video = TRUE
    BY DEF IInv, Types, Owner, Id
  <1>2. ses[cur] \in SessionRecord
    BY <1>1 DEF IInv, SesTypes
  <1>3. QED
    BY <1>1, <1>2 DEF IInv, SessionRecord, QueueTypes, Requests

\* The session of a connection that is up.
LEMMA ActiveFacts ==
  ASSUME IInv, active # 0
  PROVE  active \in Id /\ ses[active] \in SessionRecord
  <1>1. active \in Id
    BY DEF IInv, Types, Id
  <1>2. QED
    BY <1>1 DEF IInv, SesTypes

\* displayLaunchError() and then exec(), posted in this order.
LEMMA ErrorAndExec ==
  ASSUME NEW q \in Seq(Post)
  PROVE  /\ q \o <<"error", "exec">> \in Seq(Post)
         /\ Contains(q \o <<"error", "exec">>, "finished") <=> Contains(q, "finished")
         /\ Once(q, "finished") => Once(q \o <<"error", "exec">>, "finished")
         /\ Once(q, "exec") /\ ~Contains(q, "exec") => Once(q \o <<"error", "exec">>, "exec")
  <1>1. "error" \in Post /\ "exec" \in Post
    BY DEF Post
  <1> DEFINE r == Append(q, "error")
  <1>2. r \in Seq(Post)
    BY <1>1, AppendFacts
  <1>3. q \o <<"error", "exec">> = Append(r, "exec")
    OBVIOUS
  <1>4. Append(r, "exec") \in Seq(Post)
    BY <1>1, <1>2, AppendFacts
  <1>5. \A p \in {"finished", "exec"} :
          /\ Contains(r, p) <=> Contains(q, p)
          /\ Once(q, p) => Once(r, p)
    BY <1>1, ContainsAppend
  <1> HIDE DEF r
  <1>6. /\ Contains(Append(r, "exec"), "finished") <=> Contains(r, "finished")
        /\ Once(r, "finished") => Once(Append(r, "exec"), "finished")
        /\ Once(r, "exec") /\ ~Contains(r, "exec") => Once(Append(r, "exec"), "exec")
    BY <1>1, <1>2, ContainsAppend
  <1>7. QED
    BY <1>3, <1>4, <1>5, <1>6


\* What a signal does: a second one exits, one without a session quits, and
\* one that finds a session interrupts it.
SignalRest ==
  /\ left.signals > 0 /\ left' = [left EXCEPT !.signals = @ - 1]
  /\ UNCHANGED <<fixed, quitAfter, cur, active, sem, async, video, nav, decoder,
                 minimized, cleanup, ui, hdrRace>>

SignalExits == main' = "exited" /\ SignalRest /\ UNCHANGED <<ses, conn, posted, queue, sig>>

SignalQuits ==
  /\ active = 0 /\ posted' = Append(posted, "quit") /\ sig' = [sig EXCEPT !.quit = TRUE]
  /\ SignalRest /\ UNCHANGED <<main, ses, conn, queue>>

SignalInterrupts(term) ==
  /\ active # 0 /\ sig' = [last |-> active, quit |-> term]
  /\ ses' = [ses EXCEPT ![active].exit = @ \/ term, ![active].cancelled = TRUE]
  /\ queue' = Pushed(queue, "QUIT")
  /\ SignalRest /\ UNCHANGED <<main, conn, posted>>

LEMMA SignalCases ==
  ASSUME NEW term \in BOOLEAN, Signal(term)
  PROVE  SignalExits \/ SignalQuits \/ SignalInterrupts(term)
  BY DEF Signal, SignalExits, SignalQuits, SignalInterrupts, SignalRest

LEMMA InitializeFailsKeeps ==
  ASSUME IInv, main # "exited", InitializeFails
  PROVE  IInv'
  <1>1. Types'
    BY SessionAssumption DEF IInv, Types, Bounds, Budget, InitializeFails, NewStream, fixed
  <1>2. Flags'
    BY DEF IInv, Flags, InitializeFails, NewStream, fixed
  <1>3. Bounds'
    <2>1. left \in Budget /\ left.sessions \in 0..MaxSessions /\ cur \in 0..MaxSessions
          /\ cur + left.sessions <= MaxSessions
      BY DEF IInv, Types, Bounds, Budget
    <2>2. left.sessions > 0 /\ left' = [left EXCEPT !.sessions = left.sessions - 1] /\ cur' = cur + 1
      BY DEF InitializeFails, NewStream, fixed
    <2>3. left' \in Budget /\ left'.sessions = left.sessions - 1
      BY <2>1, <2>2, SessionAssumption DEF Budget
    <2>4. QED
      BY <2>1, <2>2, <2>3, SessionAssumption DEF Bounds
  <1>4. QueueTypes'
    BY DEF IInv, QueueTypes, Post, InitializeFails, NewStream, fixed
  <1>5. Owner'
    BY DEF IInv, Owner, InitializeFails, NewStream, fixed
  <1>6. Lives'
    BY DEF IInv, Lives, InitializeFails, NewStream, fixed
  <1>7. Announced'
    BY DEF IInv, Announced, InitializeFails, NewStream, fixed
  <1>8. Requests'
    BY DEF IInv, Requests, Lives, InitializeFails, NewStream, fixed
  <1>9. ComesBack'
    BY DEF IInv, ComesBack, InitializeFails, NewStream, fixed
  <1>10. Applied'
    BY DEF IInv, Applied, InitializeFails, NewStream, fixed
  <1>11. (SesTypes /\ ConnTypes)'
    BY DEF IInv, SesTypes, ConnTypes, InitializeFails, NewStream, fixed
  <1>12. QED
    BY <1>1, <1>2, <1>3, <1>4, <1>5, <1>6, <1>7, <1>8, <1>9, <1>10, <1>11 DEF IInv

LEMMA InitializeKeeps ==
  ASSUME IInv, main # "exited", Initialize
  PROVE  IInv'
  <1>1. Types'
    BY SessionAssumption DEF IInv, Types, Bounds, Budget, Initialize, NewStream, fixed, ui
  <1>2. Flags'
    BY DEF IInv, Flags, Initialize, NewStream, fixed, ui
  <1>3. Bounds'
    <2>1. left \in Budget /\ left.sessions \in 0..MaxSessions /\ cur \in 0..MaxSessions
          /\ cur + left.sessions <= MaxSessions
      BY DEF IInv, Types, Bounds, Budget
    <2>2. left.sessions > 0 /\ left' = [left EXCEPT !.sessions = left.sessions - 1] /\ cur' = cur + 1
      BY DEF Initialize, NewStream, fixed, ui
    <2>3. left' \in Budget /\ left'.sessions = left.sessions - 1
      BY <2>1, <2>2, SessionAssumption DEF Budget
    <2>4. QED
      BY <2>1, <2>2, <2>3, SessionAssumption DEF Bounds
  <1>4. QueueTypes'
    BY DEF IInv, QueueTypes, Post, Initialize, NewStream, fixed, ui
  <1>5. Owner'
    BY DEF IInv, Types, Owner, Initialize, NewStream, fixed, ui
  <1>6. Lives'
    BY DEF IInv, Lives, Initialize, NewStream, fixed, ui
  <1>7. Announced'
    BY DEF IInv, Announced, Initialize, NewStream, fixed, ui
  <1>8. Requests'
    BY DEF IInv, Requests, Lives, Initialize, NewStream, fixed, ui
  <1>9. ComesBack'
    BY DEF IInv, ComesBack, Initialize, NewStream, fixed, ui
  <1>10. Applied'
    BY DEF IInv, Applied, Initialize, NewStream, fixed, ui
  <1>11. (SesTypes /\ ConnTypes)'
    BY DEF IInv, SesTypes, ConnTypes, Initialize, NewStream, fixed, ui
  <1>12. QED
    BY <1>1, <1>2, <1>3, <1>4, <1>5, <1>6, <1>7, <1>8, <1>9, <1>10, <1>11 DEF IInv

LEMMA StartTimerKeeps ==
  ASSUME IInv, main # "exited", StartTimer
  PROVE  IInv'
  <1>1. Types'
    BY DEF IInv, Types, StartTimer, fixed, ui
  <1>2. Owner'
    BY DEF IInv, Owner, StartTimer, fixed, ui
  <1>3. Lives'
    BY DEF IInv, Lives, StartTimer, fixed, ui
  <1>4. Announced'
    BY DEF IInv, Announced, StartTimer, fixed, ui
  <1>5. Requests'
    BY DEF IInv, Requests, StartTimer, fixed, ui
  <1>6. ComesBack'
    BY DEF IInv, ComesBack, StartTimer, fixed, ui
  <1>7. Applied'
    BY DEF IInv, Applied, StartTimer, fixed, ui
  <1>8. (Flags /\ Bounds /\ SesTypes /\ ConnTypes /\ QueueTypes)'
    BY DEF IInv, Flags, Bounds, SesTypes, ConnTypes, QueueTypes, StartTimer, fixed, ui
  <1>9. QED
    BY <1>1, <1>2, <1>3, <1>4, <1>5, <1>6, <1>7, <1>8 DEF IInv

LEMMA StartKeeps ==
  ASSUME IInv, main # "exited", Start
  PROVE  IInv'
  <1>1. Types'
    BY DEF IInv, Types, Start, fixed, ui
  <1>2. Owner'
    BY DEF IInv, Types, Owner, SesTypes, Id, Start, fixed, ui
  <1>3. Lives'
    BY DEF IInv, Types, Owner, Lives, NewSession, Id, Start, fixed, ui
  <1>4. Announced'
    BY DEF IInv, Announced, Start, fixed, ui
  <1>5. Requests'
    BY DEF IInv, Requests, Start, fixed, ui
  <1>6. ComesBack'
    BY DEF IInv, ComesBack, Start, fixed, ui
  <1>7. Applied'
    BY DEF IInv, Applied, Start, fixed, ui
  <1>8. (Flags /\ Bounds /\ SesTypes /\ ConnTypes /\ QueueTypes)'
    BY DEF IInv, Flags, Bounds, SesTypes, ConnTypes, QueueTypes, Start, fixed, ui
  <1>9. QED
    BY <1>1, <1>2, <1>3, <1>4, <1>5, <1>6, <1>7, <1>8 DEF IInv

LEMMA StartAppFailsKeeps ==
  ASSUME IInv, main # "exited", StartAppFails
  PROVE  IInv'
  <1>1. Types'
    BY DEF IInv, Types, StartAppFails, asyncOnly, fixed, ui
  <1>2. QueueTypes'
    BY DEF IInv, QueueTypes, Post, StartAppFails, asyncOnly, fixed, ui
  <1>3. Lives'
    BY DEF IInv, Lives, StartAppFails, asyncOnly, fixed, ui
  <1>4. Announced'
    <2>1. posted' = posted \o <<"error", "exec">> /\ async # "idle" /\ async' = "idle"
          /\ main' = main /\ cleanup' = cleanup
      BY DEF StartAppFails, asyncOnly, fixed, ui
    <2>2. posted \in Seq(Post)
      BY DEF IInv, QueueTypes
    <2>3. main = "connecting" /\ ~Contains(posted, "exec")
      BY <2>1 DEF IInv, Lives, Announced
    <2>4. QED
      BY <2>1, <2>2, <2>3, ErrorAndExec DEF IInv, Announced
  <1>5. (Flags /\ Bounds /\ SesTypes /\ ConnTypes /\ Owner /\ Requests /\ ComesBack /\ Applied)'
    BY DEF IInv, Flags, Bounds, SesTypes, ConnTypes, Owner, Requests, ComesBack, Applied, StartAppFails, asyncOnly, fixed, ui
  <1>6. QED
    BY <1>1, <1>2, <1>3, <1>4, <1>5 DEF IInv

LEMMA StartAppKeeps ==
  ASSUME IInv, main # "exited", StartApp
  PROVE  IInv'
  <1>1. Types'
    BY DEF IInv, Types, StartApp, asyncOnly, fixed, ui
  <1>2. ConnTypes'
    BY DEF IInv, ConnTypes, Connection, NoConn, StartApp, asyncOnly, fixed, ui
  <1>3. Lives'
    BY DEF IInv, Owner, Lives, StartApp, asyncOnly, fixed, ui
  <1>4. Announced'
    BY DEF IInv, Announced, StartApp, asyncOnly, fixed, ui
  <1>5. Applied'
    BY DEF IInv, Lives, Applied, StartApp, asyncOnly, fixed, ui
  <1>6. (Flags /\ Bounds /\ SesTypes /\ QueueTypes /\ Owner /\ Requests /\ ComesBack)'
    BY DEF IInv, Flags, Bounds, SesTypes, QueueTypes, Owner, Requests, ComesBack, StartApp, asyncOnly, fixed, ui
  <1>7. QED
    BY <1>1, <1>2, <1>3, <1>4, <1>5, <1>6 DEF IInv

LEMMA StageFailsKeeps ==
  ASSUME IInv, main # "exited", StageFails
  PROVE  IInv'
  <1>1. Types'
    BY DEF IInv, Types, StageFails, asyncOnly, fixed, ui
  <1>2. ConnTypes'
    BY DEF IInv, ConnTypes, Connection, StageFails, asyncOnly, fixed, ui
  <1>3. QueueTypes'
    BY DEF IInv, QueueTypes, Post, StageFails, asyncOnly, fixed, ui
  <1>4. Lives'
    BY DEF IInv, Lives, StageFails, asyncOnly, fixed, ui
  <1>5. Announced'
    <2>1. posted' = posted \o <<"error", "exec">> /\ async # "idle" /\ async' = "idle"
          /\ main' = main /\ cleanup' = cleanup
      BY DEF StageFails, asyncOnly, fixed, ui
    <2>2. posted \in Seq(Post)
      BY DEF IInv, QueueTypes
    <2>3. main = "connecting" /\ ~Contains(posted, "exec")
      BY <2>1 DEF IInv, Lives, Announced
    <2>4. QED
      BY <2>1, <2>2, <2>3, ErrorAndExec DEF IInv, Announced
  <1>6. Applied'
    BY DEF IInv, Applied, StageFails, asyncOnly, fixed, ui
  <1>7. (Flags /\ Bounds /\ SesTypes /\ Owner /\ Requests /\ ComesBack)'
    BY DEF IInv, Flags, Bounds, SesTypes, Owner, Requests, ComesBack, StageFails, asyncOnly, fixed, ui
  <1>8. QED
    BY <1>1, <1>2, <1>3, <1>4, <1>5, <1>6, <1>7 DEF IInv

LEMMA ConnectedKeeps ==
  ASSUME IInv, main # "exited", Connected
  PROVE  IInv'
  <1>1. Types'
    BY DEF IInv, Types, Connected, asyncOnly, fixed, ui
  <1>2. ConnTypes'
    BY DEF IInv, ConnTypes, Connection, Connected, asyncOnly, fixed, ui
  <1>3. Lives'
    BY DEF IInv, Owner, Lives, Connected, asyncOnly, fixed, ui
  <1>4. Announced'
    BY DEF IInv, Announced, Connected, asyncOnly, fixed, ui
  <1>5. Applied'
    BY DEF IInv, Applied, Connected, asyncOnly, fixed, ui
  <1>6. (Flags /\ Bounds /\ SesTypes /\ QueueTypes /\ Owner /\ Requests /\ ComesBack)'
    BY DEF IInv, Flags, Bounds, SesTypes, QueueTypes, Owner, Requests, ComesBack, Connected, asyncOnly, fixed, ui
  <1>7. QED
    BY <1>1, <1>2, <1>3, <1>4, <1>5, <1>6 DEF IInv

LEMMA FirstFrameWaitKeeps ==
  ASSUME IInv, main # "exited", FirstFrameWait
  PROVE  IInv'
  <1>1. Types'
    BY DEF IInv, Types, FirstFrameWait, asyncOnly, fixed, ui
  <1>2. SesTypes'
    BY DEF IInv, SesTypes, SessionRecord, ConnTypes, Connection, FirstFrameWait, asyncOnly, fixed, ui
  <1>3. QueueTypes'
    BY DEF IInv, QueueTypes, Post, FirstFrameWait, asyncOnly, fixed, ui
  <1>4. Owner'
    BY DEF IInv, Owner, FirstFrameWait, asyncOnly, fixed, ui
  <1>5. Lives'
    BY DEF IInv, Lives, FirstFrameWait, asyncOnly, fixed, ui
  <1>6. Announced'
    <2>1. posted' = Append(posted, "exec") /\ async # "idle" /\ async' = "idle"
          /\ main' = main /\ cleanup' = cleanup
      BY DEF FirstFrameWait, asyncOnly, fixed, ui
    <2>2. posted \in Seq(Post) /\ "exec" \in Post
      BY DEF IInv, QueueTypes, Post
    <2>3. main = "connecting" /\ ~Contains(posted, "exec")
      BY <2>1 DEF IInv, Lives, Announced
    <2>4. /\ Contains(posted', "finished") <=> Contains(posted, "finished")
          /\ Once(posted, "finished") => Once(posted', "finished")
          /\ Once(posted, "exec") => Once(posted', "exec")
      BY <2>1, <2>2, <2>3, ContainsAppend
    <2>5. QED
      BY <2>1, <2>3, <2>4 DEF IInv, Announced
  <1>7. Requests'
    BY DEF IInv, Requests, FirstFrameWait, asyncOnly, fixed, ui
  <1>8. ComesBack'
    BY DEF IInv, ComesBack, FirstFrameWait, asyncOnly, fixed, ui
  <1>9. (Flags /\ Bounds /\ ConnTypes /\ Applied)'
    BY DEF IInv, Flags, Bounds, ConnTypes, Applied, FirstFrameWait, asyncOnly, fixed, ui
  <1>10. QED
    BY <1>1, <1>2, <1>3, <1>4, <1>5, <1>6, <1>7, <1>8, <1>9 DEF IInv

LEMMA FirstFrameKeeps ==
  ASSUME IInv, main # "exited", FirstFrame
  PROVE  IInv'
  <1>1. ConnTypes'
    BY DEF IInv, ConnTypes, Connection, FirstFrame, asyncOnly, fixed, ui
  <1>2. Lives'
    BY DEF IInv, Lives, FirstFrame, asyncOnly, fixed, ui
  <1>3. Applied'
    BY DEF IInv, Applied, FirstFrame, asyncOnly, fixed, ui
  <1>4. (Types /\ Flags /\ Bounds /\ SesTypes /\ QueueTypes /\ Owner /\ Announced /\ Requests /\ ComesBack)'
    BY DEF IInv, Types, Flags, Bounds, SesTypes, QueueTypes, Owner, Announced, Requests, ComesBack, FirstFrame, asyncOnly, fixed, ui
  <1>5. QED
    BY <1>1, <1>2, <1>3, <1>4 DEF IInv

LEMMA ConnectionTerminatedKeeps ==
  ASSUME IInv, main # "exited", NEW graceful \in BOOLEAN, ConnectionTerminated(graceful)
  PROVE  IInv'
  <1>1. SesTypes'
    <2>1. active \in Id /\ ses[active] \in SessionRecord
      <3>1. active # 0
        BY DEF IInv, Lives, ConnectionTerminated
      <3>2. QED
        BY <3>1, ActiveFacts
    <2>2. ses' = [ses EXCEPT ![active] =
                    [@ EXCEPT !.unexpected = ses[active].unexpected \/ ~graceful, !.cancelled = TRUE]]
      BY DEF ConnectionTerminated
    <2>3. (ses[active].unexpected \/ ~graceful) \in BOOLEAN
      BY <2>1 DEF SessionRecord
    <2>4. [ses[active] EXCEPT !.unexpected = ses[active].unexpected \/ ~graceful, !.cancelled = TRUE]
            \in SessionRecord
      BY <2>1, <2>3 DEF SessionRecord
    <2>5. QED
      BY <2>1, <2>2, <2>4 DEF IInv, SesTypes
  <1>2. ConnTypes'
    BY DEF IInv, ConnTypes, Connection, ConnectionTerminated, fixed, ui
  <1>3. QueueTypes'
    BY PushedFacts, AppendFacts, TailFacts, OrphanedFacts, FlushedFacts DEF IInv, QueueTypes, Post, EventType, AfterVideoQuit, ConnectionTerminated, fixed, ui
  <1>4. Owner'
    BY DEF IInv, Owner, SesTypes, ConnectionTerminated, fixed, ui
  <1>5. Lives'
    BY DEF IInv, Types, Owner, Lives, SesTypes, SessionRecord, Id, ConnectionTerminated, fixed, ui
  <1>6. Announced'
    BY ContainsAppend DEF IInv, Announced, QueueTypes, Post, ConnectionTerminated, fixed, ui
  <1>7. Requests'
    <2>1. /\ conn.phase = "up" /\ main' = main /\ decoder' = decoder /\ cur' = cur
          /\ queue' = Pushed(queue, "QUIT")
          /\ ses' = [ses EXCEPT
                 ![active].unexpected = @ \/ ~graceful,
                 ![active].cancelled = TRUE]
      BY DEF ConnectionTerminated, fixed, ui
    <2>2. queue \in Seq(EventType) /\ "QUIT" \in EventType
      BY DEF IInv, QueueTypes, EventType
    <2>3. ASSUME main \in {"loop", "recreate", "unlock"} PROVE Settled(queue', ses'[cur].flush)
      <3>1. queue' = Append(queue, "QUIT")
        BY <2>1, <2>2, <2>3, LoopFacts, PushedFacts
      <3>2. ses'[cur].flush = ses[cur].flush
        BY <2>1, <2>3, LoopFacts DEF IInv, SesTypes, SessionRecord
      <3>3. QED
        BY <2>2, <2>3, <3>1, <3>2, LoopFacts, SettledAppend
    <2>4. ~Contains(queue, "STALE") => ~Contains(queue', "STALE")
      BY <2>1, <2>2, PushedFacts
    <2>5. QED
      BY <2>1, <2>3, <2>4 DEF IInv, Requests
  <1>8. ComesBack'
    <2>1. /\ main' = main /\ decoder' = decoder /\ cur' = cur /\ minimized' = minimized
          /\ queue' = Pushed(queue, "QUIT")
          /\ ses' = [ses EXCEPT
                 ![active].unexpected = @ \/ ~graceful,
                 ![active].cancelled = TRUE]
      BY DEF ConnectionTerminated, fixed, ui
    <2>2. SUFFICES ASSUME main = "loop", decoder = "none", minimized = FALSE
                   PROVE  Back(queue', ses'[cur].flush)
      BY <2>1 DEF ComesBack
    <2>3. "QUIT" \in EventType
      BY DEF EventType
    <2>4. queue' = Append(queue, "QUIT")
      BY <2>1, <2>2, <2>3, LoopFacts, PushedFacts
    <2>5. ses'[cur].flush = ses[cur].flush
      BY <2>1, <2>2, LoopFacts DEF IInv, SesTypes, SessionRecord
    <2>6. Back(queue, ses[cur].flush)
      BY <2>2 DEF IInv, ComesBack
    <2>7. QED
      BY <2>2, <2>3, <2>4, <2>5, <2>6, LoopFacts, BackAppend
  <1>9. Applied'
    BY DEF IInv, Applied, ConnectionTerminated, fixed, ui
  <1>10. (Types /\ Flags /\ Bounds)'
    BY DEF IInv, Types, Flags, Bounds, ConnectionTerminated, fixed, ui
  <1>11. QED
    BY <1>1, <1>2, <1>3, <1>4, <1>5, <1>6, <1>7, <1>8, <1>9, <1>10 DEF IInv

LEMMA SetHdrModeKeeps ==
  ASSUME IInv, main # "exited", SetHdrMode
  PROVE  IInv'
  <1>1. Types'
    <2>1. decoder' \in {"none", "sdr", "hdr"}
      BY DEF IInv, Types, HdrMode, SetHdrMode, fixed, ui
    <2>2. UNCHANGED <<platform, cli, quitAfter, main, cur, active, sem, async, cleanup, sig, error, dialog>>
      BY DEF SetHdrMode, fixed, ui
    <2>3. QED
      BY <2>1, <2>2 DEF IInv, Types
  <1>2. Flags'
    BY DEF IInv, Flags, SetHdrMode, fixed, ui
  <1>3. Bounds'
    BY DEF IInv, Bounds, Budget, SetHdrMode, fixed, ui
  <1>4. ConnTypes'
    BY DEF IInv, ConnTypes, Connection, SetHdrMode, fixed, ui
  <1>5. Lives'
    <2>1. /\ decoder' = "none" <=> decoder = "none"
          /\ conn'.phase = conn.phase
          /\ UNCHANGED <<active, async, main, ses, cur>>
      BY DEF IInv, ConnTypes, Connection, HdrMode, SetHdrMode, fixed, ui
    <2>2. QED
      BY <2>1 DEF IInv, Lives
  <1>6. Requests'
    BY DEF IInv, Requests, SetHdrMode, fixed, ui
  <1>7. ComesBack'
    <2>1. decoder' = "none" => decoder = "none"
      BY DEF HdrMode, SetHdrMode, fixed, ui
    <2>2. UNCHANGED <<main, minimized, queue, ses, cur>>
      BY DEF SetHdrMode, fixed, ui
    <2>3. QED
      BY <2>1, <2>2 DEF IInv, ComesBack
  <1>8. Applied'
    BY DEF IInv, Applied, ConnTypes, Connection, HdrMode, DecoderLocked, SetHdrMode, fixed, ui
  <1>9. (SesTypes /\ QueueTypes /\ Owner /\ Announced)'
    BY DEF IInv, SesTypes, QueueTypes, Owner, Announced, SetHdrMode, fixed, ui
  <1>10. QED
    BY <1>1, <1>2, <1>3, <1>4, <1>5, <1>6, <1>7, <1>8, <1>9 DEF IInv

LEMMA ExecFailsKeeps ==
  ASSUME IInv, main # "exited", ExecFails
  PROVE  IInv'
  <1>1. Types'
    BY DEF IInv, Types, ExecFails, EndExec, fixed, ui
  <1>2. Flags'
    BY DEF IInv, Flags, ExecFails, EndExec, fixed, ui
  <1>3. QueueTypes'
    BY OrphanedFacts DEF IInv, QueueTypes, AfterVideoQuit, ExecFails, EndExec, fixed, ui
  <1>4. Owner'
    BY DEF IInv, Owner, ExecFails, EndExec, fixed, ui
  <1>5. Lives'
    <2>1. async = "idle"
      <3>1. posted \in Seq(Post) /\ posted # <<>> /\ Head(posted) = "exec"
        BY DEF IInv, QueueTypes, ExecFails, EndExec, fixed, ui
      <3>2. Contains(posted, "exec")
        BY <3>1, ContainsTail
      <3>3. QED
        BY <3>2 DEF IInv, Announced
    <2>2. QED
      BY <2>1 DEF IInv, Lives, ExecFails, EndExec, fixed, ui
  <1>6. Announced'
    BY ContainsTail DEF IInv, Announced, QueueTypes, Post, ExecFails, EndExec, fixed, ui
  <1>7. Requests'
    BY DEF IInv, Requests, ExecFails, EndExec, fixed, ui
  <1>8. ComesBack'
    BY DEF IInv, ComesBack, ExecFails, EndExec, fixed, ui
  <1>9. Applied'
    BY DEF IInv, Applied, ExecFails, EndExec, fixed, ui
  <1>10. (Bounds /\ SesTypes /\ ConnTypes)'
    BY DEF IInv, Bounds, SesTypes, ConnTypes, ExecFails, EndExec, fixed, ui
  <1>11. QED
    BY <1>1, <1>2, <1>3, <1>4, <1>5, <1>6, <1>7, <1>8, <1>9, <1>10 DEF IInv

LEMMA EnterLoopKeeps ==
  ASSUME IInv, main # "exited", EnterLoop
  PROVE  IInv'
  <1>1. Types'
    BY DEF IInv, Types, EnterLoop, fixed, ui
  <1>2. Flags'
    BY DEF IInv, Flags, EnterLoop, fixed, ui
  <1>3. SesTypes'
    BY DEF IInv, SesTypes, SessionRecord, EnterLoop, fixed, ui
  <1>4. QueueTypes'
    BY TailFacts, PushedFacts DEF IInv, QueueTypes, EventType, EnterLoop, fixed, ui
  <1>5. Owner'
    BY DEF IInv, Owner, SesTypes, EnterLoop, fixed, ui
  <1>6. Lives'
    BY DEF IInv, Lives, EnterLoop, fixed, ui
  <1>7. Announced'
    BY ContainsTail DEF IInv, Announced, QueueTypes, Post, EnterLoop, fixed, ui
  <1>8. Requests'
    <2>1. /\ main = "connecting" /\ main' = "loop" /\ decoder' = decoder /\ cur' = cur
          /\ queue' = Pushed(queue, "SHOWN")
          /\ ses' = [ses EXCEPT ![cur].unexpected = FALSE]
      BY DEF EnterLoop, fixed, ui
    <2>2. cur \in Id /\ video = TRUE /\ decoder = "none" /\ ses[cur].flush = 0
      BY <2>1 DEF IInv, Types, Owner, Lives, Id
    <2>3. queue \in Seq(EventType) /\ "SHOWN" \in EventType
      BY DEF IInv, QueueTypes, EventType
    <2>4. queue' = Append(queue, "SHOWN")
      BY <2>1, <2>2, <2>3, PushedFacts
    <2>5. ses'[cur].flush = ses[cur].flush
      BY <2>1, <2>2 DEF IInv, SesTypes, SessionRecord
    <2>6. Settled(queue, 0)
      <3>1. Len(queue) \in Nat
        BY <2>3
      <3>2. Barriers(queue, Len(queue)) \in Nat
        BY <3>1, BarriersNat
      <3>3. QED
        BY <3>2 DEF Settled
    <2>7. Settled(queue', 0)
      BY <2>3, <2>4, <2>6, SettledAppend
    <2>8. QED
      BY <2>1, <2>2, <2>5, <2>7 DEF Requests
  <1>9. ComesBack'
    <2>1. /\ main = "connecting" /\ main' = "loop" /\ decoder' = decoder /\ cur' = cur
          /\ queue' = Pushed(queue, "SHOWN")
          /\ ses' = [ses EXCEPT ![cur].unexpected = FALSE]
      BY DEF EnterLoop, fixed, ui
    <2>2. cur \in Id /\ video = TRUE /\ decoder = "none" /\ ses[cur].flush = 0
      BY <2>1 DEF IInv, Types, Owner, Lives, Id
    <2>3. queue \in Seq(EventType) /\ "SHOWN" \in EventType
      BY DEF IInv, QueueTypes, EventType
    <2>4. queue' = Append(queue, "SHOWN")
      BY <2>1, <2>2, <2>3, PushedFacts
    <2>5. ses'[cur].flush = ses[cur].flush
      BY <2>1, <2>2 DEF IInv, SesTypes, SessionRecord
    <2>6. Settled(queue, 0)
      <3>1. Len(queue) \in Nat
        BY <2>3
      <3>2. Barriers(queue, Len(queue)) \in Nat
        BY <3>1, BarriersNat
      <3>3. QED
        BY <3>2 DEF Settled
    <2>7. Back(queue', 0)
      BY <2>3, <2>4, <2>6, BackAppend
    <2>8. QED
      BY <2>1, <2>2, <2>5, <2>7 DEF ComesBack
  <1>10. Applied'
    BY DEF IInv, Lives, Applied, EnterLoop, fixed, ui
  <1>11. (Bounds /\ ConnTypes)'
    BY DEF IInv, Bounds, ConnTypes, EnterLoop, fixed, ui
  <1>12. QED
    BY <1>1, <1>2, <1>3, <1>4, <1>5, <1>6, <1>7, <1>8, <1>9, <1>10, <1>11 DEF IInv

LEMMA HandleQuitKeeps ==
  ASSUME IInv, main # "exited", HandleQuit
  PROVE  IInv'
  <1>1. Types'
    BY DEF IInv, Types, HandleQuit, EndExec, Takes, loopOnly, fixed, ui
  <1>2. Flags'
    BY DEF IInv, Flags, HandleQuit, EndExec, Takes, loopOnly, fixed, ui
  <1>3. QueueTypes'
    <2>1. queue \in Seq(EventType) /\ queue # <<>> /\ posted' = posted
          /\ queue' = AfterVideoQuit(Orphaned(Tail(queue)))
      BY DEF IInv, QueueTypes, HandleQuit, EndExec, Takes, loopOnly, fixed, ui
    <2>2. Tail(queue) \in Seq(EventType)
      BY <2>1, TailFacts
    <2>3. Orphaned(Tail(queue)) \in Seq(EventType)
      BY <2>2, OrphanedFacts
    <2>4. queue' \in {Orphaned(Tail(queue)), <<>>}
      BY <2>1 DEF AfterVideoQuit
    <2>5. <<>> \in Seq(EventType) /\ posted \in Seq(Post)
      BY DEF IInv, QueueTypes
    <2>6. QED
      BY <2>1, <2>3, <2>4, <2>5 DEF QueueTypes
  <1>4. Owner'
    BY DEF IInv, Owner, HandleQuit, EndExec, Takes, loopOnly, fixed, ui
  <1>5. Lives'
    BY DEF IInv, Lives, HandleQuit, EndExec, Takes, loopOnly, fixed, ui
  <1>6. Announced'
    BY DEF IInv, Announced, HandleQuit, EndExec, Takes, loopOnly, fixed, ui
  <1>7. Requests'
    BY DEF IInv, Requests, HandleQuit, EndExec, Takes, loopOnly, fixed, ui
  <1>8. ComesBack'
    BY DEF IInv, ComesBack, HandleQuit, EndExec, Takes, loopOnly, fixed, ui
  <1>9. Applied'
    BY DEF IInv, Applied, HandleQuit, EndExec, Takes, loopOnly, fixed, ui
  <1>10. (Bounds /\ SesTypes /\ ConnTypes)'
    BY DEF IInv, Bounds, SesTypes, ConnTypes, HandleQuit, EndExec, Takes, loopOnly, fixed, ui
  <1>11. QED
    BY <1>1, <1>2, <1>3, <1>4, <1>5, <1>6, <1>7, <1>8, <1>9, <1>10 DEF IInv

LEMMA HandleBarrierKeeps ==
  ASSUME IInv, main # "exited", HandleBarrier
  PROVE  IInv'
  <1>1. SesTypes'
    <2>1. cur \in Id /\ ses[cur] \in SessionRecord /\ ses[cur].flush \in Int
      BY LoopFacts DEF HandleBarrier, Takes
    <2>2. ses' = [ses EXCEPT ![cur].flush = @ - 1]
      BY DEF HandleBarrier
    <2>3. [ses[cur] EXCEPT !.flush = @ - 1] \in SessionRecord
      BY <2>1 DEF SessionRecord
    <2>4. QED
      BY <2>1, <2>2, <2>3 DEF IInv, SesTypes
  <1>2. QueueTypes'
    BY DEF IInv, QueueTypes, Post, HandleBarrier, Takes, loopOnly, fixed, ui
  <1>3. Owner'
    BY DEF IInv, Owner, HandleBarrier, Takes, loopOnly, fixed, ui
  <1>4. Lives'
    BY DEF IInv, Lives, HandleBarrier, Takes, loopOnly, fixed, ui
  <1>5. Requests'
    <2>1. /\ main = "loop" /\ main' = main /\ cur' = cur /\ queue # <<>>
          /\ Head(queue) = "BARRIER" /\ queue' = Tail(queue) /\ decoder' = decoder
          /\ minimized' = minimized /\ ses' = [ses EXCEPT ![cur].flush = @ - 1]
      BY DEF HandleBarrier, Takes, loopOnly, fixed, ui
    <2>2. /\ queue \in Seq(EventType) /\ cur \in Id /\ video = TRUE
          /\ ses[cur].flush \in Int /\ Settled(queue, ses[cur].flush)
      BY <2>1, LoopFacts
    <2>3. Tail(queue) \in Seq(EventType)
      BY <2>1, <2>2, TailFacts
    <2>4. ses'[cur].flush = ses[cur].flush - 1
      BY <2>1, <2>2 DEF IInv, SesTypes, SessionRecord
    <2>5. Settled(queue', ses'[cur].flush)
      BY <2>1, <2>2, <2>4, SettledTail
    <2>6. ~Contains(queue, "STALE") => ~Contains(queue', "STALE")
      BY <2>1, <2>2, ContainsTail
    <2>7. QED
      BY <2>1, <2>5, <2>6 DEF IInv, Requests
  <1>6. ComesBack'
    <2>1. /\ main = "loop" /\ main' = main /\ cur' = cur /\ queue # <<>>
          /\ Head(queue) = "BARRIER" /\ queue' = Tail(queue) /\ decoder' = decoder
          /\ minimized' = minimized /\ ses' = [ses EXCEPT ![cur].flush = @ - 1]
      BY DEF HandleBarrier, Takes, loopOnly, fixed, ui
    <2>2. /\ queue \in Seq(EventType) /\ cur \in Id /\ video = TRUE
          /\ ses[cur].flush \in Int /\ Settled(queue, ses[cur].flush)
      BY <2>1, LoopFacts
    <2>3. Tail(queue) \in Seq(EventType)
      BY <2>1, <2>2, TailFacts
    <2>4. ses'[cur].flush = ses[cur].flush - 1
      BY <2>1, <2>2 DEF IInv, SesTypes, SessionRecord
    <2>5. Back(queue, ses[cur].flush) => Back(queue', ses'[cur].flush)
      BY <2>1, <2>2, <2>4, BackTail
    <2>6. QED
      BY <2>1, <2>5 DEF IInv, ComesBack
  <1>7. (Types /\ Flags /\ Bounds /\ ConnTypes /\ Announced /\ Applied)'
    BY DEF IInv, Types, Flags, Bounds, ConnTypes, Announced, Applied, HandleBarrier, Takes, loopOnly, fixed, ui
  <1>8. QED
    BY <1>1, <1>2, <1>3, <1>4, <1>5, <1>6, <1>7 DEF IInv

LEMMA HandleQuitComboKeeps ==
  ASSUME IInv, main # "exited", HandleQuitCombo
  PROVE  IInv'
  <1>1. Types'
    BY DEF IInv, Types, HandleQuitCombo, Takes, loopOnly, fixed, ui
  <1>2. SesTypes'
    <2>1. PICK x \in BOOLEAN : ses' = [ses EXCEPT ![cur].exit = x]
      <3>1. main = "loop" /\ ses' = [ses EXCEPT ![cur].exit = @ \/ Head(queue) = "KEY_EXIT"]
        BY DEF HandleQuitCombo, Takes, loopOnly, fixed, ui
      <3>2. (ses[cur].exit \/ Head(queue) = "KEY_EXIT") \in BOOLEAN
        OBVIOUS
      <3>3. QED
        BY <3>1, <3>2
    <2>2. cur \in Id
      BY LoopFacts DEF HandleQuitCombo, Takes, loopOnly, fixed, ui
    <2>3. QED
      BY <2>1, <2>2 DEF IInv, SesTypes, SessionRecord
  <1>3. QueueTypes'
    BY TailFacts, PushedFacts DEF IInv, QueueTypes, EventType, HandleQuitCombo, Takes, loopOnly, fixed, ui
  <1>4. Owner'
    BY DEF IInv, Owner, HandleQuitCombo, Takes, loopOnly, fixed, ui
  <1>5. Lives'
    BY DEF IInv, Lives, HandleQuitCombo, Takes, loopOnly, fixed, ui
  <1>6. Requests'
    <2>1. /\ main = "loop" /\ main' = main /\ cur' = cur /\ queue # <<>>
          /\ Head(queue) \in {"KEY_QUIT", "KEY_EXIT"} /\ queue' = Pushed(Tail(queue), "QUIT")
          /\ decoder' = decoder /\ minimized' = minimized
          /\ ses' = [ses EXCEPT ![cur].exit = @ \/ Head(queue) = "KEY_EXIT"]
      BY DEF HandleQuitCombo, Takes, loopOnly, fixed, ui
    <2>2. /\ queue \in Seq(EventType) /\ cur \in Id /\ video = TRUE
          /\ ses[cur].flush \in Int /\ Settled(queue, ses[cur].flush)
      BY <2>1, LoopFacts
    <2>3. Tail(queue) \in Seq(EventType)
      BY <2>1, <2>2, TailFacts
    <2>4. ses'[cur].flush = ses[cur].flush /\ "QUIT" \in EventType
      BY <2>1, <2>2 DEF IInv, SesTypes, SessionRecord, EventType
    <2>5. queue' = Append(Tail(queue), "QUIT")
      BY <2>1, <2>2, <2>3, <2>4, PushedFacts
    <2>6. Settled(Tail(queue), ses[cur].flush)
      BY <2>1, <2>2, SettledTail
    <2>7. Settled(queue', ses'[cur].flush)
      BY <2>2, <2>3, <2>4, <2>5, <2>6, SettledAppend
    <2>8. ~Contains(queue, "STALE") => ~Contains(queue', "STALE")
      <3>1. ~Contains(queue, "STALE") => ~Contains(Tail(queue), "STALE")
        BY <2>1, <2>2, ContainsTail
      <3>2. ~Contains(Tail(queue), "STALE") => ~Contains(queue', "STALE")
        BY <2>3, <2>4, <2>5, ContainsAppend
      <3>3. QED
        BY <3>1, <3>2
    <2>9. QED
      BY <2>1, <2>7, <2>8 DEF IInv, Requests
  <1>7. ComesBack'
    <2>1. /\ main = "loop" /\ main' = main /\ cur' = cur /\ queue # <<>>
          /\ Head(queue) \in {"KEY_QUIT", "KEY_EXIT"} /\ queue' = Pushed(Tail(queue), "QUIT")
          /\ decoder' = decoder /\ minimized' = minimized
          /\ ses' = [ses EXCEPT ![cur].exit = @ \/ Head(queue) = "KEY_EXIT"]
      BY DEF HandleQuitCombo, Takes, loopOnly, fixed, ui
    <2>2. /\ queue \in Seq(EventType) /\ cur \in Id /\ video = TRUE
          /\ ses[cur].flush \in Int /\ Settled(queue, ses[cur].flush)
      BY <2>1, LoopFacts
    <2>3. Tail(queue) \in Seq(EventType)
      BY <2>1, <2>2, TailFacts
    <2>4. ses'[cur].flush = ses[cur].flush /\ "QUIT" \in EventType
      BY <2>1, <2>2 DEF IInv, SesTypes, SessionRecord, EventType
    <2>5. queue' = Append(Tail(queue), "QUIT")
      BY <2>1, <2>2, <2>3, <2>4, PushedFacts
    <2>6. Back(queue, ses[cur].flush) => Back(Tail(queue), ses[cur].flush)
      BY <2>1, <2>2, BackTail
    <2>7. Back(Tail(queue), ses[cur].flush) => Back(queue', ses'[cur].flush)
      BY <2>2, <2>3, <2>4, <2>5, BackAppend
    <2>8. QED
      BY <2>1, <2>6, <2>7 DEF IInv, ComesBack
  <1>8. (Flags /\ Bounds /\ ConnTypes /\ Announced /\ Applied)'
    BY DEF IInv, Flags, Bounds, ConnTypes, Announced, Applied, HandleQuitCombo, Takes, loopOnly, fixed, ui
  <1>9. QED
    BY <1>1, <1>2, <1>3, <1>4, <1>5, <1>6, <1>7, <1>8 DEF IInv

LEMMA ToggleFullscreenKeeps ==
  ASSUME IInv, main # "exited", ToggleFullscreen
  PROVE  IInv'
  <1>1. Types'
    BY DEF IInv, Types, ToggleFullscreen, Takes, loopOnly, fixed, ui
  <1>2. QueueTypes'
    BY PushedFacts, AppendFacts, TailFacts, OrphanedFacts, FlushedFacts DEF IInv, QueueTypes, Post, EventType, AfterVideoQuit, ToggleFullscreen, Takes, loopOnly, fixed, ui
  <1>3. Lives'
    BY DEF IInv, Lives, ToggleFullscreen, Takes, loopOnly, fixed, ui
  <1>4. Requests'
    <2>1. /\ main = "loop" /\ main' = main /\ cur' = cur /\ queue # <<>>
          /\ Head(queue) = "KEY_FULL" /\ minimized' = minimized /\ ses' = ses
          /\ decoder' \in {decoder, "none"}
          /\ queue' = Pushed(IF DestroysOnToggle THEN Orphaned(Tail(queue)) ELSE Tail(queue), "SIZE")
          /\ ~DestroysOnToggle => decoder' = decoder
          /\ DestroysOnToggle => decoder' = "none"
      BY DEF ToggleFullscreen, Takes, loopOnly, fixed, ui
    <2>2. /\ queue \in Seq(EventType) /\ cur \in Id /\ video = TRUE
          /\ ses[cur].flush \in Int /\ Settled(queue, ses[cur].flush)
      BY <2>1, LoopFacts
    <2>3. Tail(queue) \in Seq(EventType)
      BY <2>1, <2>2, TailFacts
    <2>4. PICK q \in {Orphaned(Tail(queue)), Tail(queue)} :
            queue' = Pushed(q, "SIZE") /\ (~DestroysOnToggle => q = Tail(queue))
      BY <2>1
    <2>5. q \in Seq(EventType) /\ "SIZE" \in EventType
      BY <2>3, <2>4, OrphanedFacts DEF EventType
    <2>6. queue' = Append(q, "SIZE")
      BY <2>2, <2>4, <2>5, PushedFacts
    <2>7. Settled(q, ses[cur].flush)
      <3>1. Settled(Tail(queue), ses[cur].flush)
        BY <2>1, <2>2, SettledTail
      <3>2. QED
        BY <2>2, <2>3, <2>4, <3>1, SettledRest
    <2>8. Settled(queue', ses[cur].flush)
      BY <2>2, <2>5, <2>6, <2>7, SettledAppend
    <2>9. ~DestroysOnToggle /\ ~Contains(queue, "STALE") => ~Contains(queue', "STALE")
      <3>1. ~Contains(queue, "STALE") => ~Contains(Tail(queue), "STALE")
        BY <2>1, <2>2, ContainsTail
      <3>2. ~Contains(q, "STALE") => ~Contains(queue', "STALE")
        BY <2>5, <2>6, ContainsAppend
      <3>3. QED
        BY <2>4, <3>1, <3>2
    <2>10. QED
      BY <2>1, <2>8, <2>9 DEF IInv, Requests
  <1>5. ComesBack'
    <2>1. /\ main = "loop" /\ main' = main /\ cur' = cur /\ queue # <<>>
          /\ Head(queue) = "KEY_FULL" /\ minimized' = minimized /\ ses' = ses
          /\ decoder' \in {decoder, "none"}
          /\ queue' = Pushed(IF DestroysOnToggle THEN Orphaned(Tail(queue)) ELSE Tail(queue), "SIZE")
          /\ ~DestroysOnToggle => decoder' = decoder
          /\ DestroysOnToggle => decoder' = "none"
      BY DEF ToggleFullscreen, Takes, loopOnly, fixed, ui
    <2>2. /\ queue \in Seq(EventType) /\ cur \in Id /\ video = TRUE
          /\ ses[cur].flush \in Int /\ Settled(queue, ses[cur].flush)
      BY <2>1, LoopFacts
    <2>3. Tail(queue) \in Seq(EventType)
      BY <2>1, <2>2, TailFacts
    <2>4. PICK q \in {Orphaned(Tail(queue)), Tail(queue)} :
            queue' = Pushed(q, "SIZE") /\ (~DestroysOnToggle => q = Tail(queue))
      BY <2>1
    <2>5. q \in Seq(EventType) /\ "SIZE" \in EventType
      BY <2>3, <2>4, OrphanedFacts DEF EventType
    <2>6. queue' = Append(q, "SIZE")
      BY <2>2, <2>4, <2>5, PushedFacts
    <2>7. Settled(q, ses[cur].flush)
      <3>1. Settled(Tail(queue), ses[cur].flush)
        BY <2>1, <2>2, SettledTail
      <3>2. QED
        BY <2>2, <2>3, <2>4, <3>1, SettledRest
    <2>8. Back(queue', ses[cur].flush)
      BY <2>2, <2>5, <2>6, <2>7, BackAppend
    <2>9. QED
      BY <2>1, <2>8 DEF ComesBack
  <1>6. Applied'
    BY DEF IInv, Applied, ToggleFullscreen, Takes, loopOnly, fixed, ui
  <1>7. (Flags /\ Bounds /\ SesTypes /\ ConnTypes /\ Owner /\ Announced)'
    BY DEF IInv, Flags, Bounds, SesTypes, ConnTypes, Owner, Announced, ToggleFullscreen, Takes, loopOnly, fixed, ui
  <1>8. QED
    BY <1>1, <1>2, <1>3, <1>4, <1>5, <1>6, <1>7 DEF IInv

LEMMA IgnoreWindowEventKeeps ==
  ASSUME IInv, main # "exited", IgnoreWindowEvent
  PROVE  IInv'
  <1>1. QueueTypes'
    BY DEF IInv, QueueTypes, Post, IgnoreWindowEvent, Takes, loopOnly, fixed, ui
  <1>2. Requests'
    <2>1. /\ main = "loop" /\ main' = main /\ cur' = cur /\ queue # <<>>
          /\ Head(queue) \in {"SHOWN", "SIZE", "DISPLAY"} /\ minimized' = minimized /\ ses' = ses
          /\ decoder' = decoder /\ queue' = Tail(queue)
          /\ Recreating(Head(queue)) => decoder # "none"
      BY DEF IgnoreWindowEvent, Takes, loopOnly, fixed, ui
    <2>2. /\ queue \in Seq(EventType) /\ cur \in Id /\ video = TRUE
          /\ ses[cur].flush \in Int /\ Settled(queue, ses[cur].flush)
      BY <2>1, LoopFacts
    <2>3. Tail(queue) \in Seq(EventType)
      BY <2>1, <2>2, TailFacts
    <2>4. Settled(queue', ses[cur].flush)
      BY <2>1, <2>2, SettledTail
    <2>5. ~Contains(queue, "STALE") => ~Contains(queue', "STALE")
      BY <2>1, <2>2, ContainsTail
    <2>6. QED
      BY <2>1, <2>4, <2>5 DEF IInv, Requests
  <1>3. ComesBack'
    <2>1. /\ main = "loop" /\ main' = main /\ cur' = cur /\ queue # <<>>
          /\ Head(queue) \in {"SHOWN", "SIZE", "DISPLAY"} /\ minimized' = minimized /\ ses' = ses
          /\ decoder' = decoder /\ queue' = Tail(queue)
          /\ Recreating(Head(queue)) => decoder # "none"
      BY DEF IgnoreWindowEvent, Takes, loopOnly, fixed, ui
    <2>2. /\ queue \in Seq(EventType) /\ cur \in Id /\ video = TRUE
          /\ ses[cur].flush \in Int /\ Settled(queue, ses[cur].flush)
      BY <2>1, LoopFacts
    <2>3. Tail(queue) \in Seq(EventType)
      BY <2>1, <2>2, TailFacts
    <2>4. SUFFICES ASSUME decoder = "none", minimized = FALSE
                   PROVE  Back(queue', ses[cur].flush)
      BY <2>1 DEF ComesBack
    <2>5. Back(queue, ses[cur].flush)
      BY <2>1, <2>4 DEF IInv, ComesBack
    <2>6. ~(Head(queue) \in {"SHOWN", "SIZE"} /\ ses[cur].flush <= 0)
      BY <2>1, <2>4 DEF Recreating
    <2>7. QED
      BY <2>1, <2>2, <2>5, <2>6, BackTail
  <1>4. (Types /\ Flags /\ Bounds /\ SesTypes /\ ConnTypes /\ Owner /\ Lives /\ Announced /\ Applied)'
    BY DEF IInv, Types, Flags, Bounds, SesTypes, ConnTypes, Owner, Lives, Announced, Applied, IgnoreWindowEvent, Takes, loopOnly, fixed, ui
  <1>5. QED
    BY <1>1, <1>2, <1>3, <1>4 DEF IInv

LEMMA DestroyDecoderKeeps ==
  ASSUME IInv, main # "exited", DestroyDecoder
  PROVE  IInv'
  <1>1. Types'
    BY DEF IInv, Types, DestroyDecoder, Takes, loopOnly, fixed, ui
  <1>2. SesTypes'
    BY DEF IInv, SesTypes, SessionRecord, Types, Owner, Id, DestroyDecoder, Takes, loopOnly, fixed, ui
  <1>3. QueueTypes'
    BY PushedFacts, AppendFacts, TailFacts, OrphanedFacts, FlushedFacts DEF IInv, QueueTypes, Post, EventType, AfterVideoQuit, DestroyDecoder, Takes, loopOnly, fixed, ui
  <1>4. Owner'
    BY DEF IInv, Owner, DestroyDecoder, Takes, loopOnly, fixed, ui
  <1>5. Lives'
    BY DEF IInv, Lives, DestroyDecoder, Takes, loopOnly, fixed, ui
  <1>6. Announced'
    BY DEF IInv, Announced, DestroyDecoder, Takes, loopOnly, fixed, ui
  <1>7. Requests'
    <2>1. /\ main = "loop" /\ main' = "recreate" /\ cur' = cur /\ queue # <<>>
          /\ Head(queue) \in {"SHOWN", "SIZE", "DISPLAY", "RESET", "STALE"}
          /\ queue' = Flushed(Pushed(Tail(queue), "BARRIER"))
          /\ ses' = [ses EXCEPT ![cur].flush = @ + 1]
      BY DEF DestroyDecoder, Takes, loopOnly, fixed, ui
    <2>2. /\ queue \in Seq(EventType) /\ cur \in Id /\ video = TRUE
          /\ ses[cur].flush \in Int /\ Settled(queue, ses[cur].flush)
      BY <2>1, LoopFacts
    <2>3. Tail(queue) \in Seq(EventType) /\ "BARRIER" \in EventType
      BY <2>1, <2>2, TailFacts DEF EventType
    <2>4. ses'[cur].flush = ses[cur].flush + 1
      BY <2>1, <2>2 DEF IInv, SesTypes, SessionRecord
    <2> DEFINE q == Append(Tail(queue), "BARRIER")
    <2>5. q \in Seq(EventType) /\ queue' = Flushed(q)
      BY <2>1, <2>2, <2>3, AppendFacts, PushedFacts
    <2>6. Settled(Tail(queue), ses[cur].flush)
      BY <2>1, <2>2, SettledTail
    <2>7. Settled(q, ses[cur].flush + 1)
      BY <2>2, <2>3, <2>6, SettledAppend
    <2> HIDE DEF q
    <2>8. ses[cur].flush + 1 \in Int
      BY <2>2
    <2>9. Settled(queue', ses'[cur].flush) /\ ~Contains(queue', "STALE")
      BY <2>4, <2>5, <2>7, <2>8, SettledRest, FlushedFacts
    <2>10. QED
      BY <2>1, <2>9 DEF Requests
  <1>8. ComesBack'
    BY DEF IInv, ComesBack, DestroyDecoder, Takes, loopOnly, fixed, ui
  <1>9. Applied'
    BY DEF IInv, Applied, DestroyDecoder, Takes, loopOnly, fixed, ui
  <1>10. (Flags /\ Bounds /\ ConnTypes)'
    BY DEF IInv, Flags, Bounds, ConnTypes, DestroyDecoder, Takes, loopOnly, fixed, ui
  <1>11. QED
    BY <1>1, <1>2, <1>3, <1>4, <1>5, <1>6, <1>7, <1>8, <1>9, <1>10 DEF IInv

LEMMA ChooseDecoderKeeps ==
  ASSUME IInv, main # "exited", ChooseDecoder
  PROVE  IInv'
  <1>1. Types'
    <2>1. decoder' \in {"none", "sdr", "hdr"}
      BY DEF IInv, Types, HdrMode, ChooseDecoder, loopOnly, fixed, ui
    <2>2. main' = "unlock" /\ UNCHANGED <<platform, cli, quitAfter, cur, active, sem, async, cleanup, sig, error, dialog>>
      BY DEF ChooseDecoder, loopOnly, fixed, ui
    <2>3. QED
      BY <2>1, <2>2 DEF IInv, Types
  <1>2. Flags'
    BY DEF IInv, Flags, ChooseDecoder, loopOnly, fixed, ui
  <1>3. SesTypes'
    BY DEF IInv, SesTypes, SessionRecord, ChooseDecoder, loopOnly, fixed, ui
  <1>4. QueueTypes'
    BY PushedFacts DEF IInv, QueueTypes, EventType, ChooseDecoder, loopOnly, fixed, ui
  <1>5. Owner'
    BY DEF IInv, Owner, SesTypes, ChooseDecoder, loopOnly, fixed, ui
  <1>6. Lives'
    <2>1. /\ main = "recreate" /\ main' = "unlock" /\ decoder' # "none"
          /\ UNCHANGED <<active, async, conn, cur>>
      BY DEF HdrMode, ChooseDecoder, loopOnly, fixed, ui
    <2>2. active = cur
      BY <2>1, LoopFacts
    <2>3. QED
      BY <2>1, <2>2 DEF IInv, Lives
  <1>7. Announced'
    BY DEF IInv, Announced, ChooseDecoder, loopOnly, fixed, ui
  <1>8. Requests'
    <2>1. /\ main = "recreate" /\ main' = "unlock" /\ cur' = cur
          /\ \/ queue' = queue /\ ses' = ses
             \/ queue' = Pushed(queue, "BARRIER") /\ ses' = [ses EXCEPT ![cur].flush = @ + 1]
      BY DEF ChooseDecoder, loopOnly, fixed, ui
    <2>2. /\ queue \in Seq(EventType) /\ cur \in Id /\ video = TRUE
          /\ ses[cur].flush \in Int /\ Settled(queue, ses[cur].flush)
      BY <2>1, LoopFacts
    <2>3. ~Contains(queue, "STALE")
      BY <2>1 DEF IInv, Requests
    <2>4. CASE queue' = queue /\ ses' = ses
      BY <2>1, <2>2, <2>3, <2>4 DEF Requests
    <2>5. CASE queue' = Pushed(queue, "BARRIER") /\ ses' = [ses EXCEPT ![cur].flush = @ + 1]
      <3>1. "BARRIER" \in EventType
        BY DEF EventType
      <3>2. queue' = Append(queue, "BARRIER")
        BY <2>2, <2>5, <3>1, PushedFacts
      <3>3. ses'[cur].flush = ses[cur].flush + 1
        BY <2>2, <2>5 DEF IInv, SesTypes, SessionRecord
      <3>4. Settled(queue', ses'[cur].flush)
        BY <2>2, <3>1, <3>2, <3>3, SettledAppend
      <3>5. ~Contains(queue', "STALE")
        BY <2>2, <2>3, <3>1, <3>2, ContainsAppend
      <3>6. QED
        BY <2>1, <3>4, <3>5 DEF Requests
    <2>6. QED
      BY <2>1, <2>4, <2>5
  <1>9. ComesBack'
    BY DEF IInv, ComesBack, ChooseDecoder, loopOnly, fixed, ui
  <1>10. Applied'
    BY DEF IInv, Applied, ChooseDecoder, loopOnly, fixed, ui
  <1>11. (Bounds /\ ConnTypes)'
    BY DEF IInv, Bounds, ConnTypes, ChooseDecoder, loopOnly, fixed, ui
  <1>12. QED
    BY <1>1, <1>2, <1>3, <1>4, <1>5, <1>6, <1>7, <1>8, <1>9, <1>10, <1>11 DEF IInv

LEMMA UnlockDecoderKeeps ==
  ASSUME IInv, main # "exited", UnlockDecoder
  PROVE  IInv'
  <1>1. Types'
    BY DEF IInv, Types, UnlockDecoder, loopOnly, fixed, ui
  <1>2. Owner'
    BY DEF IInv, Owner, UnlockDecoder, loopOnly, fixed, ui
  <1>3. Lives'
    BY DEF IInv, Lives, UnlockDecoder, loopOnly, fixed, ui
  <1>4. Announced'
    BY DEF IInv, Announced, UnlockDecoder, loopOnly, fixed, ui
  <1>5. Requests'
    BY DEF IInv, Requests, UnlockDecoder, loopOnly, fixed, ui
  <1>6. ComesBack'
    BY DEF IInv, ComesBack, Lives, UnlockDecoder, loopOnly, fixed, ui
  <1>7. Applied'
    BY DEF IInv, Applied, UnlockDecoder, loopOnly, fixed, ui
  <1>8. (Flags /\ Bounds /\ SesTypes /\ ConnTypes /\ QueueTypes)'
    BY DEF IInv, Flags, Bounds, SesTypes, ConnTypes, QueueTypes, UnlockDecoder, loopOnly, fixed, ui
  <1>9. QED
    BY <1>1, <1>2, <1>3, <1>4, <1>5, <1>6, <1>7, <1>8 DEF IInv

LEMMA ChooseDecoderFailsKeeps ==
  ASSUME IInv, main # "exited", ChooseDecoderFails
  PROVE  IInv'
  <1>1. Types'
    BY DEF IInv, Types, ChooseDecoderFails, EndExec, loopOnly, fixed
  <1>2. Flags'
    BY DEF IInv, Flags, ChooseDecoderFails, EndExec, loopOnly, fixed
  <1>3. QueueTypes'
    BY OrphanedFacts DEF IInv, QueueTypes, AfterVideoQuit, ChooseDecoderFails, EndExec, loopOnly, fixed
  <1>4. Owner'
    BY DEF IInv, Owner, ChooseDecoderFails, EndExec, loopOnly, fixed
  <1>5. Lives'
    BY DEF IInv, Lives, ChooseDecoderFails, EndExec, loopOnly, fixed
  <1>6. Announced'
    BY DEF IInv, Announced, ChooseDecoderFails, EndExec, loopOnly, fixed
  <1>7. Requests'
    BY DEF IInv, Requests, ChooseDecoderFails, EndExec, loopOnly, fixed
  <1>8. ComesBack'
    BY DEF IInv, ComesBack, ChooseDecoderFails, EndExec, loopOnly, fixed
  <1>9. Applied'
    BY DEF IInv, Applied, ChooseDecoderFails, EndExec, loopOnly, fixed
  <1>10. (Bounds /\ SesTypes /\ ConnTypes)'
    BY DEF IInv, Bounds, SesTypes, ConnTypes, ChooseDecoderFails, EndExec, loopOnly, fixed
  <1>11. QED
    BY <1>1, <1>2, <1>3, <1>4, <1>5, <1>6, <1>7, <1>8, <1>9, <1>10 DEF IInv

LEMMA CleanupKeeps ==
  ASSUME IInv, main # "exited", Cleanup
  PROVE  IInv'
  <1>1. Types'
    BY DEF IInv, Types, Cleanup, cleanupOnly, fixed, ui
  <1>2. QueueTypes'
    BY DEF IInv, QueueTypes, Post, Cleanup, cleanupOnly, fixed, ui
  <1>3. Owner'
    BY DEF IInv, Owner, Cleanup, cleanupOnly, fixed, ui
  <1>4. Announced'
    <2>1. /\ cleanup = "run" /\ main' = main /\ async' = async
          /\ \/ cleanup' = "stop_quit" /\ posted' = Append(posted, "quitStarting")
             \/ cleanup' = "stop" /\ posted' = Append(posted, "finished")
      BY DEF Cleanup, cleanupOnly, fixed, ui
    <2>2. posted \in Seq(Post) /\ "finished" \in Post /\ "quitStarting" \in Post
      BY DEF IInv, QueueTypes, Post
    <2>3. ~Contains(posted, "finished") /\ main = "returning"
      BY <2>1 DEF IInv, Types, Owner, Announced
    <2>4. CASE cleanup' = "stop_quit" /\ posted' = Append(posted, "quitStarting")
      <3>1. \A p \in {"exec", "finished"} :
              (Contains(posted', p) <=> Contains(posted, p)) /\ (Once(posted, p) => Once(posted', p))
        BY <2>2, <2>4, ContainsAppend
      <3>2. QED
        BY <2>1, <2>3, <2>4, <3>1 DEF IInv, Announced
    <2>5. CASE cleanup' = "stop" /\ posted' = Append(posted, "finished")
      <3>1. /\ Contains(posted', "exec") <=> Contains(posted, "exec")
            /\ Once(posted, "exec") => Once(posted', "exec")
            /\ Once(posted, "finished") => Once(posted', "finished")
        BY <2>2, <2>3, <2>5, ContainsAppend
      <3>2. QED
        BY <2>1, <2>3, <2>5, <3>1 DEF IInv, Announced
    <2>6. QED
      BY <2>1, <2>4, <2>5
  <1>5. (Flags /\ Bounds /\ SesTypes /\ ConnTypes /\ Lives /\ Requests /\ ComesBack /\ Applied)'
    BY DEF IInv, Flags, Bounds, SesTypes, ConnTypes, Lives, Requests, ComesBack, Applied, Cleanup, cleanupOnly, fixed, ui
  <1>6. QED
    BY <1>1, <1>2, <1>3, <1>4, <1>5 DEF IInv

LEMMA StopConnectionKeeps ==
  ASSUME IInv, main # "exited", StopConnection
  PROVE  IInv'
  <1>1. Types'
    BY DEF IInv, Types, StopConnection, cleanupOnly, fixed, ui
  <1>2. ConnTypes'
    BY DEF IInv, ConnTypes, Connection, StopConnection, cleanupOnly, fixed, ui
  <1>3. Owner'
    BY DEF IInv, Owner, StopConnection, cleanupOnly, fixed, ui
  <1>4. Lives'
    BY DEF IInv, Owner, Lives, StopConnection, cleanupOnly, fixed, ui
  <1>5. Announced'
    BY DEF IInv, Announced, StopConnection, cleanupOnly, fixed, ui
  <1>6. Applied'
    BY DEF IInv, Applied, StopConnection, cleanupOnly, fixed, ui
  <1>7. (Flags /\ Bounds /\ SesTypes /\ QueueTypes /\ Requests /\ ComesBack)'
    BY DEF IInv, Flags, Bounds, SesTypes, QueueTypes, Requests, ComesBack, StopConnection, cleanupOnly, fixed, ui
  <1>8. QED
    BY <1>1, <1>2, <1>3, <1>4, <1>5, <1>6, <1>7 DEF IInv

LEMMA QuitAppKeeps ==
  ASSUME IInv, main # "exited", QuitApp
  PROVE  IInv'
  <1>1. Types'
    BY DEF IInv, Types, QuitApp, cleanupOnly, fixed, ui
  <1>2. QueueTypes'
    BY DEF IInv, QueueTypes, Post, QuitApp, cleanupOnly, fixed, ui
  <1>3. Owner'
    BY DEF IInv, Owner, QuitApp, cleanupOnly, fixed, ui
  <1>4. Announced'
    <2>1. cleanup = "quit" /\ cleanup' = "exit" /\ posted' = Append(posted, "finished")
          /\ main' = main /\ async' = async
      BY DEF QuitApp, cleanupOnly, fixed, ui
    <2>2. posted \in Seq(Post) /\ "finished" \in Post
      BY DEF IInv, QueueTypes, Post
    <2>3. ~Contains(posted, "finished") /\ main = "returning"
      BY <2>1 DEF IInv, Types, Owner, Announced
    <2>4. /\ Contains(posted', "exec") <=> Contains(posted, "exec")
          /\ Once(posted, "exec") => Once(posted', "exec")
          /\ Once(posted, "finished") => Once(posted', "finished")
      BY <2>1, <2>2, <2>3, ContainsAppend
    <2>5. QED
      BY <2>1, <2>3, <2>4 DEF IInv, Announced
  <1>5. (Flags /\ Bounds /\ SesTypes /\ ConnTypes /\ Lives /\ Requests /\ ComesBack /\ Applied)'
    BY DEF IInv, Flags, Bounds, SesTypes, ConnTypes, Lives, Requests, ComesBack, Applied, QuitApp, cleanupOnly, fixed, ui
  <1>6. QED
    BY <1>1, <1>2, <1>3, <1>4, <1>5 DEF IInv

LEMMA ReleaseKeeps ==
  ASSUME IInv, main # "exited", Release
  PROVE  IInv'
  <1>1. Types'
    <2>1. active # 0 /\ sem = 0
      BY DEF IInv, Types, Owner, Release, cleanupOnly, fixed, ui
    <2>2. active' = 0 /\ sem' = sem + 1 /\ cleanup' = "idle"
          /\ UNCHANGED <<platform, cli, quitAfter, main, cur, async, decoder, sig, error, dialog>>
      BY DEF Release, cleanupOnly, fixed, ui
    <2>3. QED
      BY <2>1, <2>2, SessionAssumption DEF IInv, Types
  <1>2. SesTypes'
    BY DEF IInv, SesTypes, SessionRecord, NewSession, ConnTypes, Connection, Types, Owner, Lives, Id, Release, cleanupOnly, fixed, ui
  <1>3. ConnTypes'
    BY DEF IInv, ConnTypes, Connection, NoConn, Release, cleanupOnly, fixed, ui
  <1>4. QueueTypes'
    BY DEF IInv, QueueTypes, Post, Release, cleanupOnly, fixed, ui
  <1>5. Owner'
    <2>1. active \in Id /\ sem = 0
      <3>1. active # 0 /\ sem = 0
        BY DEF IInv, Types, Owner, Release, cleanupOnly, fixed, ui
      <3>2. QED
        BY <3>1, ActiveFacts
    <2>2. active' = 0 /\ sem' = sem + 1 /\ cleanup' = "idle" /\ cleanup = "exit"
          /\ ses' = [ses EXCEPT ![active] = NewSession] /\ UNCHANGED <<main, cur, video>>
      BY DEF Release, cleanupOnly, fixed, ui
    <2>3. \A s \in Id : ses'[s] = NewSession
      BY <2>1, <2>2 DEF IInv, Owner, SesTypes
    <2>4. main \notin {"connecting", "loop", "recreate", "unlock"}
      BY <2>2 DEF IInv, Owner
    <2>5. QED
      BY <2>1, <2>2, <2>3, <2>4 DEF IInv, Owner
  <1>6. Lives'
    BY DEF IInv, Owner, Lives, NewSession, NoConn, Release, cleanupOnly, fixed, ui
  <1>7. Announced'
    <2>1. cleanup = "exit" /\ cleanup' = "idle" /\ posted' \in {posted, Append(posted, "quit")}
          /\ main' = main /\ async' = async
      BY DEF Release, cleanupOnly, fixed, ui
    <2>2. posted \in Seq(Post) /\ "quit" \in Post
      BY DEF IInv, QueueTypes, Post
    <2>3. \A p \in {"exec", "finished"} :
            /\ Contains(Append(posted, "quit"), p) <=> Contains(posted, p)
            /\ Once(posted, p) => Once(Append(posted, "quit"), p)
      BY <2>2, ContainsAppend
    <2>4. QED
      BY <2>1, <2>3 DEF IInv, Announced
  <1>8. Requests'
    BY DEF IInv, Requests, Owner, Release, cleanupOnly, fixed, ui
  <1>9. ComesBack'
    BY DEF IInv, ComesBack, Owner, Release, cleanupOnly, fixed, ui
  <1>10. Applied'
    BY DEF IInv, Owner, Lives, Applied, Release, cleanupOnly, fixed, ui
  <1>11. (Flags /\ Bounds)'
    BY DEF IInv, Flags, Bounds, Release, cleanupOnly, fixed, ui
  <1>12. QED
    BY <1>1, <1>2, <1>3, <1>4, <1>5, <1>6, <1>7, <1>8, <1>9, <1>10, <1>11 DEF IInv

LEMMA OnErrorKeeps ==
  ASSUME IInv, main # "exited", OnError
  PROVE  IInv'
  <1>1. Types'
    BY DEF IInv, Types, OnError, qtOnly, fixed
  <1>2. QueueTypes'
    BY DEF IInv, QueueTypes, Post, OnError, qtOnly, fixed
  <1>3. Announced'
    BY ContainsTail DEF IInv, Announced, QueueTypes, Post, OnError, qtOnly, fixed
  <1>4. (Flags /\ Bounds /\ SesTypes /\ ConnTypes /\ Owner /\ Lives /\ Requests /\ ComesBack /\ Applied)'
    BY DEF IInv, Flags, Bounds, SesTypes, ConnTypes, Owner, Lives, Requests, ComesBack, Applied, OnError, qtOnly, fixed
  <1>5. QED
    BY <1>1, <1>2, <1>3, <1>4 DEF IInv

LEMMA OnQuitStartingKeeps ==
  ASSUME IInv, main # "exited", OnQuitStarting
  PROVE  IInv'
  <1>1. Flags'
    BY DEF IInv, Flags, OnQuitStarting, qtOnly, fixed, ui
  <1>2. QueueTypes'
    BY DEF IInv, QueueTypes, Post, OnQuitStarting, qtOnly, fixed, ui
  <1>3. Announced'
    BY ContainsTail DEF IInv, Announced, QueueTypes, Post, OnQuitStarting, qtOnly, fixed, ui
  <1>4. (Types /\ Bounds /\ SesTypes /\ ConnTypes /\ Owner /\ Lives /\ Requests /\ ComesBack /\ Applied)'
    BY DEF IInv, Types, Bounds, SesTypes, ConnTypes, Owner, Lives, Requests, ComesBack, Applied, OnQuitStarting, qtOnly, fixed, ui
  <1>5. QED
    BY <1>1, <1>2, <1>3, <1>4 DEF IInv

LEMMA OnFinishedKeeps ==
  ASSUME IInv, main # "exited", OnFinished
  PROVE  IInv'
  <1>1. Types'
    BY DEF IInv, Types, OnFinished, Finished, qtOnly, fixed
  <1>2. Flags'
    BY DEF IInv, Flags, OnFinished, Finished, qtOnly, fixed
  <1>3. QueueTypes'
    BY DEF IInv, QueueTypes, Post, OnFinished, Finished, qtOnly, fixed
  <1>4. Owner'
    <2>1. main = "returning" /\ cleanup \in {"stop", "exit", "idle"}
      <3>1. posted \in Seq(Post) /\ posted # <<>> /\ Head(posted) = "finished"
        BY DEF IInv, QueueTypes, OnFinished, Finished, qtOnly, fixed
      <3>2. Contains(posted, "finished")
        BY <3>1, ContainsTail
      <3>3. QED
        BY <3>2 DEF IInv, Announced
    <2>2. QED
      BY <2>1 DEF IInv, Types, Owner, OnFinished, Finished, qtOnly, fixed
  <1>5. Lives'
    <2>1. main = "returning" /\ cleanup \in {"stop", "exit", "idle"}
      <3>1. posted \in Seq(Post) /\ posted # <<>> /\ Head(posted) = "finished"
        BY DEF IInv, QueueTypes, OnFinished, Finished, qtOnly, fixed
      <3>2. Contains(posted, "finished")
        BY <3>1, ContainsTail
      <3>3. QED
        BY <3>2 DEF IInv, Announced
    <2>2. QED
      BY <2>1 DEF IInv, Types, Owner, Lives, OnFinished, Finished, qtOnly, fixed
  <1>6. Announced'
    BY ContainsTail DEF IInv, Announced, QueueTypes, Post, OnFinished, Finished, qtOnly, fixed
  <1>7. Requests'
    BY DEF IInv, Requests, OnFinished, Finished, qtOnly, fixed
  <1>8. ComesBack'
    BY DEF IInv, ComesBack, OnFinished, Finished, qtOnly, fixed
  <1>9. Applied'
    BY DEF IInv, Applied, OnFinished, Finished, qtOnly, fixed
  <1>10. (Bounds /\ SesTypes /\ ConnTypes)'
    BY DEF IInv, Bounds, SesTypes, ConnTypes, OnFinished, Finished, qtOnly, fixed
  <1>11. QED
    BY <1>1, <1>2, <1>3, <1>4, <1>5, <1>6, <1>7, <1>8, <1>9, <1>10 DEF IInv

LEMMA OnQuitKeeps ==
  ASSUME IInv, main # "exited", OnQuit
  PROVE  IInv'
  <1>1. Types'
    BY DEF IInv, Types, OnQuit, qtOnly, fixed, ui
  <1>2. QueueTypes'
    BY DEF IInv, QueueTypes, Post, OnQuit, qtOnly, fixed, ui
  <1>3. Owner'
    BY DEF IInv, Owner, OnQuit, qtOnly, fixed, ui
  <1>4. Lives'
    BY DEF IInv, Lives, OnQuit, qtOnly, fixed, ui
  <1>5. Announced'
    BY ContainsTail DEF IInv, Announced, QueueTypes, Post, OnQuit, qtOnly, fixed, ui
  <1>6. Requests'
    BY DEF IInv, Requests, OnQuit, qtOnly, fixed, ui
  <1>7. ComesBack'
    BY DEF IInv, ComesBack, OnQuit, qtOnly, fixed, ui
  <1>8. Applied'
    BY DEF IInv, Applied, OnQuit, qtOnly, fixed, ui
  <1>9. (Flags /\ Bounds /\ SesTypes /\ ConnTypes)'
    BY DEF IInv, Flags, Bounds, SesTypes, ConnTypes, OnQuit, qtOnly, fixed, ui
  <1>10. QED
    BY <1>1, <1>2, <1>3, <1>4, <1>5, <1>6, <1>7, <1>8, <1>9 DEF IInv

LEMMA CloseDialogKeeps ==
  ASSUME IInv, main # "exited", CloseDialog
  PROVE  IInv'
  <1>1. Types'
    BY DEF IInv, Types, CloseDialog, qtOnly, fixed
  <1>2. Owner'
    BY DEF IInv, Owner, CloseDialog, qtOnly, fixed
  <1>3. Lives'
    BY DEF IInv, Lives, CloseDialog, qtOnly, fixed
  <1>4. Announced'
    BY DEF IInv, Announced, CloseDialog, qtOnly, fixed
  <1>5. Requests'
    BY DEF IInv, Requests, CloseDialog, qtOnly, fixed
  <1>6. ComesBack'
    BY DEF IInv, ComesBack, CloseDialog, qtOnly, fixed
  <1>7. Applied'
    BY DEF IInv, Applied, CloseDialog, qtOnly, fixed
  <1>8. (Flags /\ Bounds /\ SesTypes /\ ConnTypes /\ QueueTypes)'
    BY DEF IInv, Flags, Bounds, SesTypes, ConnTypes, QueueTypes, CloseDialog, qtOnly, fixed
  <1>9. QED
    BY <1>1, <1>2, <1>3, <1>4, <1>5, <1>6, <1>7, <1>8 DEF IInv

LEMMA PollGamepadsKeeps ==
  ASSUME IInv, main # "exited", PollGamepads
  PROVE  IInv'
  <1>1. Types'
    BY DEF IInv, Types, PollGamepads, qtOnly, fixed, ui
  <1>2. QueueTypes'
    BY DEF IInv, QueueTypes, Post, PollGamepads, qtOnly, fixed, ui
  <1>3. Owner'
    BY DEF IInv, Owner, PollGamepads, qtOnly, fixed, ui
  <1>4. Lives'
    BY DEF IInv, Lives, PollGamepads, qtOnly, fixed, ui
  <1>5. Announced'
    BY DEF IInv, Announced, PollGamepads, qtOnly, fixed, ui
  <1>6. Requests'
    <2>1. main \notin {"loop", "recreate", "unlock"} /\ main' \in {main, "exited"} /\ queue' = <<>>
      BY DEF InQt, PollGamepads, qtOnly, fixed, ui
    <2>2. ~Contains(<<>>, "STALE")
      BY DEF Contains
    <2>3. QED
      BY <2>1, <2>2 DEF Requests
  <1>7. ComesBack'
    <2>1. main' # "loop"
      BY DEF InQt, PollGamepads, qtOnly, fixed, ui
    <2>2. QED
      BY <2>1 DEF ComesBack
  <1>8. Applied'
    BY DEF IInv, Applied, PollGamepads, qtOnly, fixed, ui
  <1>9. (Flags /\ Bounds /\ SesTypes /\ ConnTypes)'
    BY DEF IInv, Flags, Bounds, SesTypes, ConnTypes, PollGamepads, qtOnly, fixed, ui
  <1>10. QED
    BY <1>1, <1>2, <1>3, <1>4, <1>5, <1>6, <1>7, <1>8, <1>9 DEF IInv

LEMMA SignalExitsKeeps ==
  ASSUME IInv, main # "exited", SignalExits
  PROVE  IInv'
  <1>1. Types'
    BY DEF IInv, Types, SignalExits, SignalRest, fixed, ui
  <1>2. Bounds'
    BY DEF IInv, Bounds, Budget, SignalExits, SignalRest, fixed, ui
  <1>3. Owner'
    BY DEF IInv, Owner, SignalExits, SignalRest, fixed, ui
  <1>4. Lives'
    BY DEF IInv, Lives, SignalExits, SignalRest, fixed, ui
  <1>5. Announced'
    BY DEF IInv, Announced, SignalExits, SignalRest, fixed, ui
  <1>6. Requests'
    BY DEF IInv, Requests, SignalExits, SignalRest, fixed, ui
  <1>7. ComesBack'
    BY DEF IInv, ComesBack, SignalExits, SignalRest, fixed, ui
  <1>8. Applied'
    BY DEF IInv, Applied, SignalExits, SignalRest, fixed, ui
  <1>9. (Flags /\ SesTypes /\ ConnTypes /\ QueueTypes)'
    BY DEF IInv, Flags, SesTypes, ConnTypes, QueueTypes, SignalExits, SignalRest, fixed, ui
  <1>10. QED
    BY <1>1, <1>2, <1>3, <1>4, <1>5, <1>6, <1>7, <1>8, <1>9 DEF IInv

LEMMA SignalQuitsKeeps ==
  ASSUME IInv, main # "exited", SignalQuits
  PROVE  IInv'
  <1>1. Types'
    <2>1. sig' = [sig EXCEPT !.quit = TRUE]
          /\ UNCHANGED <<platform, cli, quitAfter, main, cur, active, sem, async, decoder, cleanup, error, dialog>>
      BY DEF SignalQuits, SignalRest, fixed, ui
    <2>2. sig' \in [last : 0..MaxSessions, quit : BOOLEAN]
      BY <2>1 DEF IInv, Types
    <2>3. QED
      BY <2>1, <2>2 DEF IInv, Types
  <1>2. Bounds'
    BY DEF IInv, Bounds, Budget, SignalQuits, SignalRest, fixed, ui
  <1>3. QueueTypes'
    BY DEF IInv, QueueTypes, Post, SignalQuits, SignalRest, fixed, ui
  <1>4. Announced'
    <2>1. posted' = Append(posted, "quit") /\ UNCHANGED <<main, async, cleanup>>
      BY DEF SignalQuits, SignalRest, fixed, ui
    <2>2. posted \in Seq(Post) /\ "quit" \in Post
      BY DEF IInv, QueueTypes, Post
    <2>3. \A p \in {"exec", "finished"} :
            (Contains(posted', p) <=> Contains(posted, p)) /\ (Once(posted, p) => Once(posted', p))
      BY <2>1, <2>2, ContainsAppend
    <2>4. QED
      BY <2>1, <2>3 DEF IInv, Announced
  <1>5. (Flags /\ SesTypes /\ ConnTypes /\ Owner /\ Lives /\ Requests /\ ComesBack /\ Applied)'
    BY DEF IInv, Flags, SesTypes, ConnTypes, Owner, Lives, Requests, ComesBack, Applied, SignalQuits, SignalRest, fixed, ui
  <1>6. QED
    BY <1>1, <1>2, <1>3, <1>4, <1>5 DEF IInv

LEMMA SignalInterruptsKeeps ==
  ASSUME IInv, main # "exited", NEW term \in BOOLEAN, SignalInterrupts(term)
  PROVE  IInv'
  <1>1. Types'
    BY DEF IInv, Types, SignalInterrupts, SignalRest, fixed, ui
  <1>2. Bounds'
    BY DEF IInv, Bounds, Budget, SignalInterrupts, SignalRest, fixed, ui
  <1>3. SesTypes'
    <2>1. active \in Id
      BY ActiveFacts DEF SignalInterrupts, SignalRest, fixed, ui
    <2>2. PICK x \in BOOLEAN : ses' = [ses EXCEPT ![active].exit = x, ![active].cancelled = TRUE]
      <3>1. ses' = [ses EXCEPT ![active].exit = ses[active].exit \/ term, ![active].cancelled = TRUE]
        BY DEF SignalInterrupts, SignalRest, fixed, ui
      <3>2. (ses[active].exit \/ term) \in BOOLEAN
        OBVIOUS
      <3>3. QED
        BY <3>1, <3>2
    <2>3. QED
      BY <2>1, <2>2 DEF IInv, SesTypes, SessionRecord
  <1>4. ConnTypes'
    BY DEF IInv, ConnTypes, Connection, SignalInterrupts, SignalRest, fixed, ui
  <1>5. QueueTypes'
    BY PushedFacts DEF IInv, QueueTypes, EventType, SignalInterrupts, SignalRest, fixed, ui
  <1>6. Owner'
    BY DEF IInv, Owner, SesTypes, SignalInterrupts, SignalRest, fixed, ui
  <1>7. Lives'
    BY DEF IInv, Types, Owner, Lives, SesTypes, SessionRecord, Id, SignalInterrupts, SignalRest, fixed, ui
  <1>8. Requests'
    <2>1. /\ main' = main /\ decoder' = decoder /\ cur' = cur
          /\ queue' = Pushed(queue, "QUIT")
          /\ ses' = [ses EXCEPT ![active].exit = @ \/ term, ![active].cancelled = TRUE]
      BY DEF SignalInterrupts, SignalRest, fixed, ui
    <2>2. queue \in Seq(EventType) /\ "QUIT" \in EventType
      BY DEF IInv, QueueTypes, EventType
    <2>3. ASSUME main \in {"loop", "recreate", "unlock"} PROVE Settled(queue', ses'[cur].flush)
      <3>1. queue' = Append(queue, "QUIT")
        BY <2>1, <2>2, <2>3, LoopFacts, PushedFacts
      <3>2. ses'[cur].flush = ses[cur].flush
        BY <2>1, <2>3, LoopFacts DEF IInv, SesTypes, SessionRecord
      <3>3. QED
        BY <2>2, <2>3, <3>1, <3>2, LoopFacts, SettledAppend
    <2>4. ~Contains(queue, "STALE") => ~Contains(queue', "STALE")
      BY <2>1, <2>2, PushedFacts
    <2>5. QED
      BY <2>1, <2>3, <2>4 DEF IInv, Requests
  <1>9. ComesBack'
    <2>1. /\ main' = main /\ decoder' = decoder /\ cur' = cur /\ minimized' = minimized
          /\ queue' = Pushed(queue, "QUIT")
          /\ ses' = [ses EXCEPT ![active].exit = @ \/ term, ![active].cancelled = TRUE]
      BY DEF SignalInterrupts, SignalRest, fixed, ui
    <2>2. SUFFICES ASSUME main = "loop", decoder = "none", minimized = FALSE
                   PROVE  Back(queue', ses'[cur].flush)
      BY <2>1 DEF ComesBack
    <2>3. "QUIT" \in EventType
      BY DEF EventType
    <2>4. queue' = Append(queue, "QUIT")
      BY <2>1, <2>2, <2>3, LoopFacts, PushedFacts
    <2>5. ses'[cur].flush = ses[cur].flush
      BY <2>1, <2>2, LoopFacts DEF IInv, SesTypes, SessionRecord
    <2>6. Back(queue, ses[cur].flush)
      BY <2>2 DEF IInv, ComesBack
    <2>7. QED
      BY <2>2, <2>3, <2>4, <2>5, <2>6, LoopFacts, BackAppend
  <1>10. Applied'
    BY DEF IInv, Applied, SignalInterrupts, SignalRest, fixed, ui
  <1>11. (Flags /\ Announced)'
    BY DEF IInv, Flags, Announced, SignalInterrupts, SignalRest, fixed, ui
  <1>12. QED
    BY <1>1, <1>2, <1>3, <1>4, <1>5, <1>6, <1>7, <1>8, <1>9, <1>10, <1>11 DEF IInv

LEMMA InputKeeps ==
  ASSUME IInv, main # "exited", NEW e \in {"QUIT", "SIZE", "DISPLAY", "KEY_QUIT", "KEY_EXIT", "KEY_FULL"}, Input(e)
  PROVE  IInv'
  <1>1. Bounds'
    BY DEF IInv, Bounds, Budget, Input, windowOnly, fixed, ui
  <1>2. QueueTypes'
    BY PushedFacts DEF IInv, QueueTypes, EventType, Input, windowOnly, fixed, ui
  <1>3. Requests'
    <2>1. /\ main \in {"loop", "recreate", "unlock"} /\ main' = main /\ cur' = cur /\ ses' = ses
          /\ decoder' = decoder /\ minimized' = minimized /\ queue' = Pushed(queue, e)
      BY DEF InLoop, Input, windowOnly, fixed, ui
    <2>2. /\ queue \in Seq(EventType) /\ video = TRUE /\ ses[cur].flush \in Int
          /\ Settled(queue, ses[cur].flush)
      BY <2>1, LoopFacts
    <2>3. e \in EventType /\ e # "STALE"
      BY DEF EventType
    <2>4. queue' = Append(queue, e)
      BY <2>1, <2>2, <2>3, PushedFacts
    <2>5. Settled(queue', ses[cur].flush)
      BY <2>2, <2>3, <2>4, SettledAppend
    <2>6. ~Contains(queue, "STALE") => ~Contains(queue', "STALE")
      BY <2>2, <2>3, <2>4, ContainsAppend
    <2>7. QED
      BY <2>1, <2>5, <2>6 DEF IInv, Requests
  <1>4. ComesBack'
    <2>1. /\ main \in {"loop", "recreate", "unlock"} /\ main' = main /\ cur' = cur /\ ses' = ses
          /\ decoder' = decoder /\ minimized' = minimized /\ queue' = Pushed(queue, e)
      BY DEF InLoop, Input, windowOnly, fixed, ui
    <2>2. /\ queue \in Seq(EventType) /\ video = TRUE /\ ses[cur].flush \in Int
          /\ Settled(queue, ses[cur].flush)
      BY <2>1, LoopFacts
    <2>3. e \in EventType /\ e # "STALE"
      BY DEF EventType
    <2>4. queue' = Append(queue, e)
      BY <2>1, <2>2, <2>3, PushedFacts
    <2>5. Back(queue, ses[cur].flush) => Back(queue', ses[cur].flush)
      BY <2>2, <2>3, <2>4, BackAppend
    <2>6. QED
      BY <2>1, <2>5 DEF IInv, ComesBack
  <1>5. (Types /\ Flags /\ SesTypes /\ ConnTypes /\ Owner /\ Lives /\ Announced /\ Applied)'
    BY DEF IInv, Types, Flags, SesTypes, ConnTypes, Owner, Lives, Announced, Applied, Input, windowOnly, fixed, ui
  <1>6. QED
    BY <1>1, <1>2, <1>3, <1>4, <1>5 DEF IInv

LEMMA MinimizeKeeps ==
  ASSUME IInv, main # "exited", Minimize
  PROVE  IInv'
  <1>1. Flags'
    BY DEF IInv, Flags, Minimize, windowOnly, fixed, ui
  <1>2. Bounds'
    BY DEF IInv, Bounds, Budget, Minimize, windowOnly, fixed, ui
  <1>3. QueueTypes'
    BY PushedFacts DEF IInv, QueueTypes, EventType, Minimize, windowOnly, fixed, ui
  <1>4. Requests'
    <2>1. /\ main \in {"loop", "recreate", "unlock"} /\ main' = main /\ cur' = cur /\ ses' = ses
          /\ decoder' = decoder
          /\ \/ minimized = FALSE /\ minimized' = TRUE /\ queue' = queue
             \/ minimized = TRUE /\ queue' = Pushed(queue, "SIZE")
      BY DEF InLoop, IInv, Flags, Minimize, windowOnly, fixed, ui
    <2>2. /\ queue \in Seq(EventType) /\ video = TRUE /\ ses[cur].flush \in Int
          /\ Settled(queue, ses[cur].flush)
      BY <2>1, LoopFacts
    <2>3. "SIZE" \in EventType
      BY DEF EventType
    <2>4. Pushed(queue, "SIZE") = Append(queue, "SIZE")
      BY <2>2, <2>3, PushedFacts
    <2>5. Settled(Append(queue, "SIZE"), ses[cur].flush)
      BY <2>2, <2>3, SettledAppend
    <2>6. ~Contains(queue, "STALE") => ~Contains(Append(queue, "SIZE"), "STALE")
      BY <2>2, <2>3, ContainsAppend
    <2>7. QED
      BY <2>1, <2>2, <2>4, <2>5, <2>6 DEF IInv, Requests
  <1>5. ComesBack'
    <2>1. /\ main \in {"loop", "recreate", "unlock"} /\ main' = main /\ cur' = cur /\ ses' = ses
          /\ decoder' = decoder
          /\ \/ minimized = FALSE /\ minimized' = TRUE /\ queue' = queue
             \/ minimized = TRUE /\ queue' = Pushed(queue, "SIZE")
      BY DEF InLoop, IInv, Flags, Minimize, windowOnly, fixed, ui
    <2>2. /\ queue \in Seq(EventType) /\ video = TRUE /\ ses[cur].flush \in Int
          /\ Settled(queue, ses[cur].flush)
      BY <2>1, LoopFacts
    <2>3. "SIZE" \in EventType
      BY DEF EventType
    <2>4. Pushed(queue, "SIZE") = Append(queue, "SIZE")
      BY <2>2, <2>3, PushedFacts
    <2>5. Back(Append(queue, "SIZE"), ses[cur].flush)
      BY <2>2, <2>3, BackAppend
    <2>6. QED
      BY <2>1, <2>4, <2>5 DEF ComesBack
  <1>6. (Types /\ SesTypes /\ ConnTypes /\ Owner /\ Lives /\ Announced /\ Applied)'
    BY DEF IInv, Types, SesTypes, ConnTypes, Owner, Lives, Announced, Applied, Minimize, windowOnly, fixed, ui
  <1>7. QED
    BY <1>1, <1>2, <1>3, <1>4, <1>5, <1>6 DEF IInv

LEMMA DeviceLostKeeps ==
  ASSUME IInv, main # "exited", DeviceLost
  PROVE  IInv'
  <1>1. Bounds'
    BY DEF IInv, Bounds, Budget, DeviceLost, windowOnly, fixed, ui
  <1>2. QueueTypes'
    BY PushedFacts DEF IInv, QueueTypes, EventType, DeviceLost, windowOnly, fixed, ui
  <1>3. Requests'
    <2>1. /\ main \in {"loop", "recreate", "unlock"} /\ main' = main /\ cur' = cur /\ ses' = ses
          /\ decoder' = decoder /\ minimized' = minimized /\ queue' = Pushed(queue, "RESET")
      BY DEF InLoop, DeviceLost, windowOnly, fixed, ui
    <2>2. /\ queue \in Seq(EventType) /\ video = TRUE /\ ses[cur].flush \in Int
          /\ Settled(queue, ses[cur].flush)
      BY <2>1, LoopFacts
    <2>3. "RESET" \in EventType /\ "RESET" # "STALE"
      BY DEF EventType
    <2>4. queue' = Append(queue, "RESET")
      BY <2>1, <2>2, <2>3, PushedFacts
    <2>5. Settled(queue', ses[cur].flush)
      BY <2>2, <2>3, <2>4, SettledAppend
    <2>6. ~Contains(queue, "STALE") => ~Contains(queue', "STALE")
      BY <2>2, <2>3, <2>4, ContainsAppend
    <2>7. QED
      BY <2>1, <2>5, <2>6 DEF IInv, Requests
  <1>4. ComesBack'
    BY DEF IInv, ComesBack, DeviceLost, windowOnly, fixed, ui
  <1>5. (Types /\ Flags /\ SesTypes /\ ConnTypes /\ Owner /\ Lives /\ Announced /\ Applied)'
    BY DEF IInv, Types, Flags, SesTypes, ConnTypes, Owner, Lives, Announced, Applied, DeviceLost, windowOnly, fixed, ui
  <1>6. QED
    BY <1>1, <1>2, <1>3, <1>4, <1>5 DEF IInv

-----------------------------------------------------------------------------
(* The invariant is inductive.                                             *)

LEMMA InitIInv == Init => IInv
  <1>1. SUFFICES ASSUME Init PROVE IInv
    OBVIOUS
  <1>2. Types /\ Flags
    <2>1. sig \in [last : 0..MaxSessions, quit : BOOLEAN]
      BY <1>1, SessionAssumption DEF Init
    <2>2. cur \in 0..MaxSessions /\ active \in 0..MaxSessions /\ sem \in 0..1
      BY <1>1, SessionAssumption DEF Init
    <2>3. /\ platform \in Platforms /\ cli \in BOOLEAN /\ quitAfter \in BOOLEAN
          /\ main = "ui" /\ async = "idle" /\ decoder = "none" /\ cleanup = "idle"
      BY <1>1 DEF Init
    <2>4. Flags /\ error \in BOOLEAN /\ dialog \in BOOLEAN
      BY <1>1 DEF Init, Flags
    <2>5. QED
      BY <2>1, <2>2, <2>3, <2>4 DEF Types
  <1>3. Bounds
    BY <1>1, SessionAssumption DEF Init, Bounds, Budget
  <1>4. SesTypes /\ ConnTypes
    BY <1>1 DEF Init, SesTypes, ConnTypes, SessionRecord, Connection, NewSession, NoConn
  <1>5. QueueTypes
    BY <1>1 DEF Init, QueueTypes
  <1>6. Owner /\ Lives /\ Applied /\ ComesBack
    BY <1>1 DEF Init, Owner, Lives, Applied, ComesBack, NoConn, Id
  <1>7. Len(<<>>) = 0
    OBVIOUS
  <1>8. Announced /\ Requests
    BY <1>1, <1>7 DEF Init, Announced, Requests, Once, Contains
  <1>9. QED
    BY <1>2, <1>3, <1>4, <1>5, <1>6, <1>8 DEF IInv

LEMMA StepIInv ==
  ASSUME IInv, main # "exited", Step
  PROVE  IInv'
  <1>1. CASE Connect
    BY <1>1, StartAppFailsKeeps, StartAppKeeps, StageFailsKeeps, ConnectedKeeps, FirstFrameWaitKeeps DEF Connect
  <1>2. CASE Qt
    BY <1>2, OnErrorKeeps, OnQuitStartingKeeps, OnFinishedKeeps, OnQuitKeeps, ExecFailsKeeps, EnterLoopKeeps DEF Qt
  <1>3. CASE Loop
    BY <1>3, HandleQuitKeeps, HandleBarrierKeeps, HandleQuitComboKeeps, ToggleFullscreenKeeps, IgnoreWindowEventKeeps, DestroyDecoderKeeps DEF Loop
  <1>4. CASE Decoder
    BY <1>4, ChooseDecoderKeeps, ChooseDecoderFailsKeeps, UnlockDecoderKeeps DEF Decoder
  <1>5. CASE CleanupTask
    BY <1>5, CleanupKeeps, StopConnectionKeeps, QuitAppKeeps, ReleaseKeeps DEF CleanupTask
  <1>6. CASE Host
    BY <1>6, FirstFrameKeeps, ConnectionTerminatedKeeps DEF Host
  <1>7. CASE InitializeFails \/ Initialize \/ StartTimer \/ Start \/ SetHdrMode
    BY <1>7, InitializeFailsKeeps, InitializeKeeps, StartTimerKeeps, StartKeeps, SetHdrModeKeeps
  <1>8. CASE CloseDialog \/ PollGamepads \/ Minimize \/ DeviceLost
    BY <1>8, CloseDialogKeeps, PollGamepadsKeeps, MinimizeKeeps, DeviceLostKeeps
  <1>9. CASE \E term \in BOOLEAN : Signal(term)
    BY <1>9, SignalCases, SignalExitsKeeps, SignalQuitsKeeps, SignalInterruptsKeeps
  <1>10. CASE \E e \in {"QUIT", "SIZE", "DISPLAY", "KEY_QUIT", "KEY_EXIT", "KEY_FULL"} : Input(e)
    BY <1>10, InputKeeps
  <1>11. QED
    BY <1>1, <1>2, <1>3, <1>4, <1>5, <1>6, <1>7, <1>8, <1>9, <1>10 DEF Step

LEMMA NextIInv == IInv /\ [Next]_vars => IInv'
  <1>1. SUFFICES ASSUME IInv, [Next]_vars PROVE IInv'
    OBVIOUS
  <1>2. CASE UNCHANGED vars
    BY <1>1, <1>2 DEF IInv, Types, Flags, Bounds, SesTypes, ConnTypes, QueueTypes, Owner, Lives,
       Announced, Requests, ComesBack, Applied, vars
  <1>3. CASE main # "exited" /\ Step
    BY <1>1, <1>3, StepIInv
  <1>4. QED
    BY <1>1, <1>2, <1>3 DEF Next, Idle

LEMMA Invariant == Spec => []IInv
  BY InitIInv, NextIInv, PTL DEF Spec

-----------------------------------------------------------------------------
(* What the invariant says of the runs' properties.                        *)

LEMMA TypesFollow == IInv => TypeOK
  <1>1. SUFFICES ASSUME IInv PROVE TypeOK
    OBVIOUS
  <1>2. ASSUME NEW s \in Id
        PROVE  /\ ses[s].flush \in Int
               /\ \A f \in DOMAIN NewSession \ {"flush"} : ses[s][f] \in BOOLEAN
    <2>1. ses[s] \in SessionRecord
      BY <1>1, <1>2 DEF IInv, SesTypes
    <2>2. DOMAIN NewSession =
            {"unexpected", "exit", "ok", "cancelled", "flush"}
      BY DEF NewSession
    <2>3. /\ ses[s].flush \in Int /\ ses[s].unexpected \in BOOLEAN /\ ses[s].exit \in BOOLEAN
          /\ ses[s].ok \in BOOLEAN /\ ses[s].cancelled \in BOOLEAN
      BY <2>1 DEF SessionRecord
    <2>4. QED
      BY <2>2, <2>3
  <1>3. conn.phase \in {"down", "starting", "up"} /\ sig.last \in 0..MaxSessions
    BY <1>1 DEF IInv, ConnTypes, Connection, Types
  <1>4. QED
    BY <1>1, <1>2, <1>3 DEF IInv, Types, QueueTypes, TypeOK

LEMMA BackFollows == IInv => DecoderComesBack
  <1>1. SUFFICES ASSUME IInv, main = "loop", decoder = "none", minimized = FALSE
                 PROVE  \E i \in DOMAIN queue : BringsBack(i)
    BY DEF DecoderComesBack, IInv, Flags
  <1>2. Back(queue, ses[cur].flush)
    BY <1>1 DEF IInv, ComesBack
  <1>3. DOMAIN queue = 1..Len(queue)
    BY <1>1 DEF IInv, QueueTypes
  <1>4. QED
    BY <1>2, <1>3 DEF Back, BringsBack

\* Types, and one stream at a time: the connection belongs to the active
\* session and the decoder lives inside the connection, for any number of
\* sessions, signals and window events.
THEOREM OneStreamAtATime == Spec => []SessionInv
  <1>1. IInv => OneStream
    BY DEF IInv, Types, Owner, Lives, OneStream
  <1>2. QED
    BY <1>1, TypesFollow, Invariant, PTL DEF SessionInv

\* A decoder is never thrown away by a reset request of the one before it.
THEOREM ResetsAreFlushed == Spec => []NoStaleReset
  <1>1. IInv => NoStaleReset
    BY DEF IInv, Requests, NoStaleReset
  <1>2. QED
    BY <1>1, Invariant, PTL

\* In the loop without a decoder, what recreates it or ends the stream is
\* queued, whatever barriers, toggles and device losses came between.
THEOREM PictureComesBack == Spec => []DecoderComesBack
  BY BackFollows, Invariant, PTL

\* The decoder has the host's HDR mode whenever the lock is free, but for
\* the change that comes between its read and the unlock.
THEOREM HdrModeIsApplied == Spec => []HdrIsApplied
  <1>1. IInv => HdrIsApplied
    BY DEF IInv, Flags, Applied, HdrIsApplied
  <1>2. QED
    BY <1>1, Invariant, PTL
=============================================================================
