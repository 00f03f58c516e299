-------------------------- MODULE KillChainProofs --------------------------
(* Proofs about KillChain, for every value of its constants. *)
EXTENDS KillChain, FiniteSetTheorems, SequenceTheorems, TLAPS

USE ConstantsAssumption

-----------------------------------------------------------------------------
(* The inductive invariant. *)

(* The clock is never further than MaxSkew below the highest value shown. *)
ClockInv == now <= high /\ high - now <= MaxSkew

(* Nothing carries a timestamp from the future. *)
StampedBy(q, t) == \A i \in DOMAIN q : q[i].timestamp <= t

(* A sequence whose timestamps fall back by at most MaxSkew. *)
NearlySorted(q) ==
    \A i, j \in DOMAIN q : i < j => q[i].timestamp <= q[j].timestamp + MaxSkew

(* The deque followed by the events in flight is nearly sorted. *)
OrderInv ==
    \A s \in Src :
        /\ StampedBy(window[s], high)
        /\ StampedBy(pending[s], high)
        /\ NearlySorted(window[s])
        /\ NearlySorted(pending[s])
        /\ \A i \in DOMAIN window[s], j \in DOMAIN pending[s] :
              window[s][i].timestamp <= pending[s][j].timestamp + MaxSkew

WindowInv == \A s \in Src : Range(window[s]) \subseteq delivered[s]

IInv ==
    /\ TypeOK
    /\ ClockInv
    /\ OrderInv
    /\ WindowInv
    /\ RetainsFresh
    /\ IncidentSpan
    /\ TimelineOrdered

-----------------------------------------------------------------------------
(* The helpers of the correlator. *)

(* A non-empty set of naturals has a least element. *)
LEMMA LeastElement ==
    ASSUME NEW T \in SUBSET Nat, T # {}
    PROVE  \E x \in T : \A y \in T : x <= y
<1>1. PICK x \in T : \A y \in T : ~ (<<y, x>> \in OpToRel(<, Nat))
  BY NatLessThanWellFounded, WFMin
<1>2. \A y \in T : ~ (y < x)
  BY <1>1 DEF OpToRel
<1> QED
  BY <1>2

(* The loop of _prune_window terminates with a well-defined number of pops. *)
LEMMA PopCountExists ==
    ASSUME NEW w, NEW c \in Int, Len(w) \in Nat,
           \A i \in 1 .. Len(w) : w[i].timestamp \in Int
    PROVE  \E k \in 0 .. Len(w) : IsPopCount(w, c, k)
<1> DEFINE fresh == {i \in 1 .. Len(w) : w[i].timestamp >= c}
<1>1. CASE fresh = {}
  <2>1. IsPopCount(w, c, Len(w))
    BY <1>1 DEF IsPopCount
  <2> QED
    BY <2>1
<1>2. CASE fresh # {}
  <2>1. fresh \in SUBSET Nat
    OBVIOUS
  <2>2. PICK m \in fresh : \A i \in fresh : m <= i
    BY <1>2, <2>1, LeastElement
  <2>3. m - 1 \in 0 .. Len(w) /\ m - 1 + 1 = m
    BY <2>2
  <2>4. IsPopCount(w, c, m - 1)
    BY <2>2, <2>3 DEF IsPopCount
  <2> QED
    BY <2>3, <2>4
<1> QED
  BY <1>1, <1>2

LEMMA PopCountCorrect ==
    ASSUME NEW w \in Seq(Event), NEW c \in Int
    PROVE  /\ PopCount(w, c) \in 0 .. Len(w)
           /\ IsPopCount(w, c, PopCount(w, c))
<1>1. Len(w) \in Nat /\ \A i \in 1 .. Len(w) : w[i] \in Event
  BY ElementOfSeq, LenProperties
<1>2. \A i \in 1 .. Len(w) : w[i].timestamp \in Int
  BY <1>1 DEF Event, Time
<1> QED
  BY <1>1, <1>2, PopCountExists DEF PopCount

(* The rank of an event in its deque is a bijection onto 1 .. Len(w), so   *)
(* sorted() returns the events of the deque, in order of their timestamps. *)
LEMMA ChronologicalCorrect ==
    ASSUME NEW w \in Seq(Event)
    PROVE  /\ Chronological(w) \in Seq(Event)
           /\ Range(Chronological(w)) = Range(w)
           /\ \A i, j \in DOMAIN Chronological(w) :
                i < j => Chronological(w)[i].timestamp
                            <= Chronological(w)[j].timestamp
<1> DEFINE n == Len(w)
           rank == [i \in 1 .. n |-> Cardinality(NotAfter(w, i))]
           at(k) == CHOOSE i \in DOMAIN w : Cardinality(NotAfter(w, i)) = k
<1>1. n \in Nat /\ DOMAIN w = 1 .. n /\ \A i \in 1 .. n : w[i] \in Event
  BY ElementOfSeq, LenProperties
<1>2. \A i \in 1 .. n : w[i].timestamp \in Nat
  BY <1>1 DEF Event, Time
<1>3. IsFiniteSet(1 .. n) /\ Cardinality(1 .. n) = n
  <2> HIDE DEF n
  <2>1. 1 \in Int /\ n \in Int
    BY <1>1
  <2>2. /\ IsFiniteSet(1 .. n)
        /\ Cardinality(1 .. n) = IF 1 > n THEN 0 ELSE n - 1 + 1
    BY <2>1, FS_Interval
  <2> QED
    BY <1>1, <2>2
<1>4. \A i \in 1 .. n : /\ IsFiniteSet(NotAfter(w, i))
                        /\ NotAfter(w, i) \in SUBSET (1 .. n)
                        /\ i \in NotAfter(w, i)
                        /\ rank[i] \in 1 .. n
  <2> SUFFICES ASSUME NEW i \in 1 .. n
               PROVE  /\ IsFiniteSet(NotAfter(w, i))
                      /\ NotAfter(w, i) \in SUBSET (1 .. n)
                      /\ i \in NotAfter(w, i)
                      /\ rank[i] \in 1 .. n
    OBVIOUS
  <2>1. NotAfter(w, i) \in SUBSET (1 .. n) /\ i \in NotAfter(w, i)
    BY <1>1, <1>2 DEF NotAfter
  <2>2. IsFiniteSet(NotAfter(w, i)) /\ Cardinality(NotAfter(w, i)) <= n
    BY <1>3, <2>1, FS_Subset
  <2>3. Cardinality(NotAfter(w, i)) \in Nat /\ Cardinality(NotAfter(w, i)) # 0
    BY <2>1, <2>2, FS_CardinalityType, FS_EmptySet
  <2> QED
    BY <1>1, <2>1, <2>2, <2>3
<1>5. \A i, j \in 1 .. n : i # j /\ i \in NotAfter(w, j) => rank[i] < rank[j]
  <2> SUFFICES ASSUME NEW i \in 1 .. n, NEW j \in 1 .. n,
                      i # j, i \in NotAfter(w, j)
               PROVE  rank[i] < rank[j]
    OBVIOUS
  <2>1. NotAfter(w, i) \subseteq NotAfter(w, j) /\ j \notin NotAfter(w, i)
    BY <1>1, <1>2 DEF NotAfter
  <2>2. NotAfter(w, i) # NotAfter(w, j)
    BY <1>4, <2>1
  <2>3. Cardinality(NotAfter(w, i)) <= Cardinality(NotAfter(w, j))
        /\ Cardinality(NotAfter(w, i)) # Cardinality(NotAfter(w, j))
    BY <1>4, <2>1, <2>2, FS_Subset
  <2> QED
    BY <1>4, <2>3
<1>6. \A i, j \in 1 .. n : i \in NotAfter(w, j) \/ j \in NotAfter(w, i)
  BY <1>1, <1>2 DEF NotAfter
<1>7. rank \in Injection(1 .. n, 1 .. n)
  <2>1. rank \in [1 .. n -> 1 .. n]
    BY <1>4
  <2>2. \A i, j \in 1 .. n : rank[i] = rank[j] => i = j
    BY <1>4, <1>5, <1>6
  <2> QED
    BY <2>1, <2>2 DEF Injection, IsInjective
<1>8. \A k \in 1 .. n : \E i \in 1 .. n : rank[i] = k
  <2>1. rank \in Surjection(1 .. n, 1 .. n)
    BY <1>3, <1>7, FS_Injection, Zenon
  <2> QED
    BY <2>1 DEF Surjection
<1>9. \A k \in 1 .. n : at(k) \in 1 .. n /\ rank[at(k)] = k
  BY <1>1, <1>8
<1> HIDE DEF rank, at
<1>10. Chronological(w) = [k \in 1 .. n |-> w[at(k)]]
  BY DEF Chronological, at
<1>11. Chronological(w) \in Seq(Event)
  BY <1>1, <1>9, <1>10, SeqDef
<1>12. Range(Chronological(w)) = Range(w)
  <2>1. \A k \in 1 .. n : w[at(k)] \in Range(w)
    BY <1>1, <1>9 DEF Range
  <2>2. \A i \in 1 .. n : at(rank[i]) = i
    BY <1>4, <1>7, <1>9 DEF Injection, IsInjective
  <2>3. \A i \in 1 .. n : w[i] \in Range(Chronological(w))
    BY <1>4, <1>10, <2>2 DEF Range
  <2> QED
    BY <1>1, <1>10, <2>1, <2>3 DEF Range
<1>13. ASSUME NEW k \in 1 .. n, NEW m \in 1 .. n, k < m
       PROVE  w[at(k)].timestamp <= w[at(m)].timestamp
  <2>1. at(k) \in NotAfter(w, at(m))
    BY <1>1, <1>5, <1>6, <1>9, <1>13
  <2> QED
    BY <1>1, <1>2, <1>9, <2>1 DEF NotAfter
<1> QED
  BY <1>10, <1>11, <1>12, <1>13

(* What _prune_window leaves of a nearly sorted deque: every event not     *)
(* older than the cutoff, and none that is older by more than MaxSkew.     *)
LEMMA PruneCorrect ==
    ASSUME NEW q \in Seq(Event), NEW c \in Int, NearlySorted(q)
    PROVE  LET w == PruneWindow(q, c) IN
           /\ w \in Seq(Event)
           /\ NearlySorted(w)
           /\ Range(w) \subseteq Range(q)
           /\ \A e \in Range(q) : e.timestamp >= c => e \in Range(w)
           /\ \A e \in Range(w) : e.timestamp >= c - MaxSkew
<1> DEFINE k == PopCount(q, c)
           n == Len(q)
           w == PruneWindow(q, c)
<1>1. n \in Nat /\ DOMAIN q = 1 .. n /\ \A i \in 1 .. n : q[i] \in Event
  BY ElementOfSeq, LenProperties
<1>2. k \in 0 .. n /\ IsPopCount(q, c, k)
  BY PopCountCorrect
<1>3. /\ w \in Seq(Event)
      /\ Len(w) = n - k
      /\ \A i \in 1 .. n - k : w[i] = q[k + i]
  <2> HIDE DEF k
  <2>1. \A i \in k + 1 .. n : q[i] \in Event
    BY <1>1, <1>2
  <2>2. /\ SubSeq(q, k + 1, n) \in Seq(Event)
        /\ Len(SubSeq(q, k + 1, n)) = IF k + 1 <= n THEN n - (k + 1) + 1 ELSE 0
        /\ \A i \in 1 .. n - (k + 1) + 1 : SubSeq(q, k + 1, n)[i] = q[k + 1 + i - 1]
    BY <1>1, <1>2, <2>1, SubSeqProperties
  <2>3. w = SubSeq(q, k + 1, n)
    BY DEF PruneWindow, k
  <2> HIDE DEF n, w
  <2>4. n - (k + 1) + 1 = n - k /\ \A i \in 1 .. n - k : k + 1 + i - 1 = k + i
    BY <1>1, <1>2
  <2>5. (IF k + 1 <= n THEN n - (k + 1) + 1 ELSE 0) = n - k
    BY <1>1, <1>2
  <2> QED
    BY <2>2, <2>3, <2>4, <2>5
<1>4. DOMAIN w = 1 .. n - k
  BY <1>3, LenProperties
<1> HIDE DEF k, n, w
<1>5. \A i \in 1 .. n : q[i].timestamp \in Nat
  BY <1>1 DEF Event, Time
<1>6. NearlySorted(w)
  <2> SUFFICES ASSUME NEW i \in 1 .. n - k, NEW j \in 1 .. n - k, i < j
               PROVE  w[i].timestamp <= w[j].timestamp + MaxSkew
    BY <1>4 DEF NearlySorted
  <2>1. k + i \in 1 .. n /\ k + j \in 1 .. n /\ k + i < k + j
    BY <1>1, <1>2
  <2> QED
    BY <1>1, <1>3, <2>1 DEF NearlySorted
<1>7. Range(w) \subseteq Range(q)
  <2>1. \A i \in 1 .. n - k : k + i \in 1 .. n
    BY <1>1, <1>2
  <2> QED
    BY <1>1, <1>3, <1>4, <2>1 DEF Range
<1>8. ASSUME NEW e \in Range(q), e.timestamp >= c
      PROVE  e \in Range(w)
  <2>1. PICK i \in 1 .. n : e = q[i]
    BY <1>1 DEF Range
  <2>2. ~ (i \in 1 .. k)
    BY <1>2, <1>5, <1>8, <2>1 DEF IsPopCount
  <2>3. i - k \in 1 .. n - k /\ k + (i - k) = i
    BY <1>1, <1>2, <2>2
  <2> QED
    BY <1>3, <1>4, <2>1, <2>3 DEF Range
<1>9. ASSUME NEW e \in Range(w)
      PROVE  e.timestamp >= c - MaxSkew
  <2>1. PICK i \in 1 .. n - k : e = q[k + i]
    BY <1>3, <1>4, <1>9 DEF Range
  <2>2. k + 1 \in 1 .. n /\ k + i \in 1 .. n /\ k < n
    BY <1>1, <1>2
  <2>3. q[k + 1].timestamp >= c
    BY <1>2, <2>2 DEF IsPopCount, n
  <2>4. q[k + 1].timestamp <= q[k + i].timestamp + MaxSkew
    <3>1. CASE i = 1
      BY <1>5, <2>2, <3>1
    <3>2. CASE i # 1
      BY <1>1, <1>2, <2>2, <3>2 DEF NearlySorted
    <3> QED
      BY <3>1, <3>2
  <2> QED
    BY <1>5, <2>1, <2>2, <2>3, <2>4
<1> QED
  BY <1>3, <1>6, <1>7, <1>8, <1>9 DEF w

-----------------------------------------------------------------------------
(* The invariant holds initially and every action preserves it. *)

LEMMA InitIInv == Init => IInv
<1> SUFFICES ASSUME Init PROVE IInv
  OBVIOUS
<1>1. TypeOK
  BY DEF Init, TypeOK, Time
<1>2. ClockInv
  BY DEF Init, ClockInv
<1>3. OrderInv
  BY DEF Init, OrderInv, StampedBy, NearlySorted
<1>4. WindowInv /\ RetainsFresh
  BY DEF Init, WindowInv, RetainsFresh, Range
<1>5. IncidentSpan /\ TimelineOrdered
  BY DEF Init, IncidentSpan, TimelineOrdered
<1> QED
  BY <1>1, <1>2, <1>3, <1>4, <1>5 DEF IInv

(* Timestamps in the deques and in flight are naturals. *)
LEMMA Timestamps ==
    ASSUME TypeOK
    PROVE  /\ now \in Nat /\ high \in Nat
           /\ \A s \in Src : \A e \in delivered[s] : e.timestamp \in Nat
           /\ \A s \in Src : \A i \in DOMAIN window[s] :
                /\ window[s][i] \in Event
                /\ window[s][i].timestamp \in Nat
           /\ \A s \in Src : \A i \in DOMAIN pending[s] :
                /\ pending[s][i] \in Event
                /\ pending[s][i].timestamp \in Nat
<1>1. \A e \in Event : e.timestamp \in Nat
  BY DEF Event, Time
<1>2. \A q \in Seq(Event) : \A i \in DOMAIN q : q[i] \in Event
  BY ElementOfSeq, LenProperties
<1>3. now \in Nat /\ high \in Nat
  BY DEF TypeOK, Time
<1> QED
  BY <1>1, <1>2, <1>3 DEF TypeOK

LEMMA TickIInv == IInv /\ Tick => IInv'
<1> SUFFICES ASSUME IInv, Tick PROVE IInv'
  OBVIOUS
<1> USE DEF IInv
<1>0. now \in Time /\ high \in Time /\ now <= high /\ high - now <= MaxSkew
  BY DEF TypeOK, ClockInv
<1>1. /\ now \in Nat /\ high \in Nat /\ now' \in Nat /\ high' \in Nat
      /\ high' >= high /\ now' <= high' /\ high' - now' <= MaxSkew
      /\ now' \in Time /\ high' \in Time
  <2>1. CASE now + 1 > high
    BY <1>0, <2>1 DEF Tick, Time
  <2>2. CASE ~ (now + 1 > high)
    BY <1>0, <2>2 DEF Tick, Time
  <2> QED
    BY <2>1, <2>2
<1>2. UNCHANGED <<created, pending, window, incident, delivered>>
  BY DEF Tick
<1>3. TypeOK'
  BY <1>1, <1>2 DEF TypeOK
<1>4. ClockInv'
  BY <1>1 DEF ClockInv
<1>5. OrderInv'
  BY <1>1, <1>2, Timestamps DEF OrderInv, StampedBy, NearlySorted
<1>6. WindowInv' /\ IncidentSpan' /\ TimelineOrdered'
  BY <1>2 DEF WindowInv, IncidentSpan, TimelineOrdered
<1>7. RetainsFresh'
  BY <1>1, <1>2, Timestamps DEF RetainsFresh
<1> QED
  BY <1>3, <1>4, <1>5, <1>6, <1>7

LEMMA StepBackIInv == IInv /\ StepBack => IInv'
<1> SUFFICES ASSUME IInv, StepBack PROVE IInv'
  OBVIOUS
<1> USE DEF IInv
<1>1. /\ now' \in Time /\ now' < now /\ high - now' <= MaxSkew
      /\ now \in Nat /\ high \in Nat
  BY Timestamps DEF StepBack, TypeOK, Time
<1>2. UNCHANGED <<high, created, pending, window, incident, delivered>>
  BY DEF StepBack
<1>3. TypeOK'
  BY <1>1, <1>2 DEF TypeOK
<1>4. ClockInv'
  <2>1. now' <= high /\ high' = high
    BY <1>1, <1>2 DEF ClockInv, Time
  <2> QED
    BY <1>1, <2>1 DEF ClockInv
<1>5. OrderInv'
  BY <1>2 DEF OrderInv, StampedBy, NearlySorted
<1>6. WindowInv' /\ IncidentSpan' /\ TimelineOrdered' /\ RetainsFresh'
  BY <1>2 DEF WindowInv, IncidentSpan, TimelineOrdered, RetainsFresh
<1> QED
  BY <1>3, <1>4, <1>5, <1>6

LEMMA CreateIInv ==
    ASSUME IInv, NEW s \in Src, NEW event_type \in EventType,
           Create(s, event_type)
    PROVE  IInv'
<1> DEFINE e == [uuid |-> created, event_type |-> event_type, timestamp |-> now]
           q == pending[s]
<1> USE DEF IInv
<1>1. UNCHANGED <<now, high, window, incident, delivered>>
  BY DEF Create
<1>2. e \in Event /\ e.timestamp = now /\ created' \in 0 .. MaxEvents
  BY DEF Create, TypeOK, Event
<1>3. q \in Seq(Event) /\ Len(q) \in Nat /\ DOMAIN q = 1 .. Len(q)
  BY LenProperties DEF TypeOK
<1>4. pending' = [pending EXCEPT ![s] = Append(q, e)]
  BY DEF Create
<1> HIDE DEF e, q
<1>5. /\ Append(q, e) \in Seq(Event)
      /\ DOMAIN Append(q, e) = 1 .. Len(q) + 1
      /\ \A i \in 1 .. Len(q) : Append(q, e)[i] = q[i]
      /\ Append(q, e)[Len(q) + 1] = e
  BY <1>2, <1>3, AppendProperties, LenProperties
<1>6. /\ now \in Nat /\ high \in Nat /\ now <= high /\ high <= now + MaxSkew
      /\ \A i \in 1 .. Len(q) : q[i].timestamp \in Nat /\ q[i].timestamp <= high
  BY <1>3, Timestamps DEF ClockInv, OrderInv, StampedBy, q
<1>7. TypeOK'
  BY <1>1, <1>2, <1>4, <1>5 DEF TypeOK
<1>8. ClockInv'
  BY <1>1 DEF ClockInv
<1>9. OrderInv'
  <2>1. StampedBy(Append(q, e), high)
    BY <1>2, <1>3, <1>5, <1>6 DEF StampedBy
  <2>2. NearlySorted(Append(q, e))
    <3> SUFFICES ASSUME NEW i \in 1 .. Len(q) + 1, NEW j \in 1 .. Len(q) + 1, i < j
                 PROVE  Append(q, e)[i].timestamp
                            <= Append(q, e)[j].timestamp + MaxSkew
      BY <1>5 DEF NearlySorted
    <3>1. CASE j = Len(q) + 1
      BY <1>2, <1>3, <1>5, <1>6, <3>1
    <3>2. CASE j # Len(q) + 1
      BY <1>3, <1>5, <3>2 DEF OrderInv, NearlySorted, q
    <3> QED
      BY <3>1, <3>2
  <2>3. ASSUME NEW i \in DOMAIN window[s], NEW j \in DOMAIN Append(q, e)
        PROVE  window[s][i].timestamp <= Append(q, e)[j].timestamp + MaxSkew
    <3>1. window[s][i].timestamp \in Nat /\ window[s][i].timestamp <= high
      BY Timestamps DEF OrderInv, StampedBy
    <3>2. CASE j = Len(q) + 1
      BY <1>2, <1>5, <1>6, <3>1, <3>2
    <3>3. CASE j # Len(q) + 1
      BY <1>3, <1>5, <3>3 DEF OrderInv, q
    <3> QED
      BY <3>2, <3>3
  <2>4. pending'[s] = Append(q, e) /\ \A r \in Src \ {s} : pending'[r] = pending[r]
    BY <1>4 DEF TypeOK
  <2> QED
    BY <1>1, <2>1, <2>2, <2>3, <2>4 DEF OrderInv
<1>10. WindowInv' /\ IncidentSpan' /\ TimelineOrdered' /\ RetainsFresh'
  BY <1>1 DEF WindowInv, IncidentSpan, TimelineOrdered, RetainsFresh
<1> QED
  BY <1>7, <1>8, <1>9, <1>10

(* add_event preserves the invariant, and what it leaves in the deque is   *)
(* at most MaxSkew older than the window.                                  *)
LEMMA AddEventIInv ==
    ASSUME IInv, NEW s \in Src, AddEvent(s)
    PROVE  /\ IInv'
           /\ \A x \in Range(window'[s]) :
                x.timestamp \in Nat /\ x.timestamp >= now - WindowDuration - MaxSkew
<1> DEFINE p == pending[s]
           e == Head(p)
           q == Append(window[s], e)
           c == now - WindowDuration
           w == PruneWindow(q, c)
<1> USE DEF IInv
<1>1. UNCHANGED <<now, high, created>>
  BY DEF AddEvent
<1>2. /\ p # <<>>
      /\ pending' = [pending EXCEPT ![s] = Tail(p)]
      /\ delivered' = [delivered EXCEPT ![s] = delivered[s] \cup {e}]
      /\ window' = [window EXCEPT ![s] = w]
      /\ incident' = IF EvaluateKillChain(w) THEN {Escalate(s, w)} ELSE {}
  BY DEF AddEvent
<1>3. /\ p \in Seq(Event) /\ Len(p) \in Nat /\ DOMAIN p = 1 .. Len(p) /\ Len(p) >= 1
      /\ window[s] \in Seq(Event)
      /\ Len(window[s]) \in Nat /\ DOMAIN window[s] = 1 .. Len(window[s])
  BY <1>2, LenProperties, EmptySeq DEF TypeOK
<1>4. now \in Nat /\ high \in Nat /\ now <= high /\ high <= now + MaxSkew /\ c \in Int
  BY Timestamps DEF ClockInv
<1> HIDE DEF p, e, q, c, w
<1>5. /\ e \in Event /\ e = p[1]
      /\ Tail(p) \in Seq(Event)
      /\ DOMAIN Tail(p) = 1 .. Len(p) - 1
      /\ \A i \in 1 .. Len(p) - 1 : Tail(p)[i] = p[i + 1]
  BY <1>2, <1>3, HeadTailProperties, LenProperties DEF e
<1>6. /\ q \in Seq(Event)
      /\ DOMAIN q = 1 .. Len(window[s]) + 1
      /\ \A i \in 1 .. Len(window[s]) : q[i] = window[s][i]
      /\ q[Len(window[s]) + 1] = e
  BY <1>3, <1>5, AppendProperties, LenProperties DEF q
<1>7. /\ \A i \in 1 .. Len(p) : p[i].timestamp \in Nat /\ p[i].timestamp <= high
      /\ \A i \in 1 .. Len(window[s]) : /\ window[s][i].timestamp \in Nat
                                        /\ window[s][i].timestamp <= high
  BY <1>3, Timestamps DEF OrderInv, StampedBy, p
<1>8. StampedBy(q, high)
  BY <1>3, <1>5, <1>6, <1>7 DEF StampedBy
<1>9. NearlySorted(q)
  <2> SUFFICES ASSUME NEW i \in 1 .. Len(window[s]) + 1,
                      NEW j \in 1 .. Len(window[s]) + 1, i < j
               PROVE  q[i].timestamp <= q[j].timestamp + MaxSkew
    BY <1>6 DEF NearlySorted
  <2>1. CASE j = Len(window[s]) + 1
    BY <1>3, <1>5, <1>6, <2>1 DEF OrderInv, p
  <2>2. CASE j # Len(window[s]) + 1
    <3>1. i \in DOMAIN window[s] /\ j \in DOMAIN window[s]
      BY <1>3, <2>2
    <3>2. q[i] = window[s][i] /\ q[j] = window[s][j]
      BY <1>3, <1>6, <3>1
    <3> QED
      BY <3>1, <3>2 DEF OrderInv, NearlySorted
  <2> QED
    BY <2>1, <2>2
<1>10. /\ w \in Seq(Event)
       /\ NearlySorted(w)
       /\ Range(w) \subseteq Range(q)
       /\ \A x \in Range(q) : x.timestamp >= c => x \in Range(w)
       /\ \A x \in Range(w) : x.timestamp >= c - MaxSkew
  BY <1>4, <1>6, <1>9, PruneCorrect DEF w
<1>11. Range(q) = Range(window[s]) \cup {e}
  <2>1. \A x \in Range(q) : x \in Range(window[s]) \cup {e}
    BY <1>3, <1>6 DEF Range
  <2>2. \A x \in Range(window[s]) : x \in Range(q)
    BY <1>3, <1>6 DEF Range
  <2>3. e \in Range(q)
    BY <1>3, <1>6 DEF Range
  <2> QED
    BY <2>1, <2>2, <2>3
<1>12. /\ window'[s] = w /\ pending'[s] = Tail(p)
       /\ delivered'[s] = delivered[s] \cup {e}
       /\ \A r \in Src \ {s} : /\ window'[r] = window[r]
                               /\ pending'[r] = pending[r]
                               /\ delivered'[r] = delivered[r]
  BY <1>2 DEF TypeOK
<1>13. Escalate(s, w) \in Report /\ Escalate(s, w).timeline = Chronological(w)
  BY <1>10, ChronologicalCorrect DEF Escalate, Report, TypeOK
<1>14. \A x \in Range(w) : x.timestamp \in Nat /\ x.timestamp <= high
  <2>1. \A x \in Range(q) : x \in Event /\ x.timestamp <= high
    BY <1>6, <1>8, ElementOfSeq, LenProperties DEF StampedBy, Range
  <2> QED
    BY <1>10, <2>1 DEF Event, Time
<1>15. TypeOK'
  BY <1>1, <1>2, <1>5, <1>10, <1>13 DEF TypeOK
<1>16. ClockInv'
  BY <1>1 DEF ClockInv
<1>17. OrderInv'
  <2>1. StampedBy(w, high)
    BY <1>14 DEF StampedBy, Range
  <2>2. StampedBy(Tail(p), high)
    BY <1>3, <1>5, <1>7 DEF StampedBy
  <2>3. NearlySorted(Tail(p))
    <3> SUFFICES ASSUME NEW i \in 1 .. Len(p) - 1, NEW j \in 1 .. Len(p) - 1, i < j
                 PROVE  p[i + 1].timestamp <= p[j + 1].timestamp + MaxSkew
      BY <1>5 DEF NearlySorted
    <3>1. i + 1 \in 1 .. Len(p) /\ j + 1 \in 1 .. Len(p) /\ i + 1 < j + 1
      BY <1>3
    <3> QED
      BY <1>3, <3>1 DEF OrderInv, NearlySorted, p
  <2>4. ASSUME NEW i \in DOMAIN w, NEW j \in DOMAIN Tail(p)
        PROVE  w[i].timestamp <= Tail(p)[j].timestamp + MaxSkew
    <3>1. j + 1 \in 1 .. Len(p) /\ 1 < j + 1 /\ Tail(p)[j] = p[j + 1]
      BY <1>3, <1>5
    <3>2. w[i] \in Range(window[s]) \cup {e}
      BY <1>10, <1>11 DEF Range
    <3>3. CASE w[i] \in Range(window[s])
      BY <1>3, <3>1, <3>3 DEF OrderInv, Range, p
    <3>4. CASE w[i] = e
      BY <1>3, <1>5, <3>1, <3>4 DEF OrderInv, NearlySorted, p
    <3> QED
      BY <3>2, <3>3, <3>4
  <2> QED
    BY <1>1, <1>10, <1>12, <2>1, <2>2, <2>3, <2>4 DEF OrderInv
<1>18. WindowInv'
  BY <1>10, <1>11, <1>12 DEF WindowInv
<1>19. RetainsFresh'
  <2>1. ASSUME NEW x \in delivered[s] \cup {e}, x.timestamp >= high - WindowDuration
        PROVE  x \in Range(w)
    <3>1. x \in Range(q)
      BY <1>11, <2>1 DEF RetainsFresh
    <3>2. x.timestamp \in Nat
      BY <1>5, <2>1, Timestamps DEF Event, Time
    <3>3. x.timestamp >= c
      BY <1>4, <2>1, <3>2 DEF c
    <3> QED
      BY <1>10, <3>1, <3>3
  <2> QED
    BY <1>1, <1>12, <2>1 DEF RetainsFresh
<1>20. IncidentSpan'
  <2> SUFFICES ASSUME NEW i \in DOMAIN Chronological(w), NEW j \in DOMAIN Chronological(w)
               PROVE  Chronological(w)[j].timestamp - Chronological(w)[i].timestamp
                         <= WindowDuration + 2 * MaxSkew
    BY <1>2, <1>13 DEF IncidentSpan
  <2>1. Chronological(w)[i] \in Range(w) /\ Chronological(w)[j] \in Range(w)
    BY <1>10, ChronologicalCorrect DEF Range
  <2> QED
    BY <1>4, <1>10, <1>14, <2>1 DEF c
<1>21. TimelineOrdered'
  BY <1>2, <1>10, <1>13, ChronologicalCorrect DEF TimelineOrdered
<1>22. \A x \in Range(window'[s]) :
         x.timestamp \in Nat /\ x.timestamp >= now - WindowDuration - MaxSkew
  BY <1>10, <1>12, <1>14 DEF c
<1> QED
  BY <1>15, <1>16, <1>17, <1>18, <1>19, <1>20, <1>21, <1>22

LEMMA NextIInv == IInv /\ [Next]_vars => IInv'
<1> SUFFICES ASSUME IInv, [Next]_vars PROVE IInv'
  OBVIOUS
<1>1. CASE Tick
  BY <1>1, TickIInv
<1>2. CASE StepBack
  BY <1>2, StepBackIInv
<1>3. ASSUME NEW s \in Src, NEW event_type \in EventType, Create(s, event_type)
      PROVE  IInv'
  BY <1>3, CreateIInv
<1>4. ASSUME NEW s \in Src, AddEvent(s)
      PROVE  IInv'
  BY <1>4, AddEventIInv
<1>5. CASE UNCHANGED vars
  BY <1>5 DEF vars, IInv, TypeOK, ClockInv, OrderInv, StampedBy, NearlySorted,
              WindowInv, RetainsFresh, IncidentSpan, TimelineOrdered
<1> QED
  BY <1>1, <1>2, <1>3, <1>4, <1>5 DEF Next

(* The inductive invariant holds in every reachable state of the           *)
(* correlator: the clock, the order of the deques and of the events in     *)
(* flight, and the four properties proved from it below.                   *)
THEOREM Invariance == Spec => []IInv
<1> QED
  BY InitIInv, NextIInv, PTL DEF Spec

(* The correlator's state keeps its types. *)
THEOREM TypeCorrect == Spec => []TypeOK
<1>1. IInv => TypeOK
  BY DEF IInv
<1> QED
  BY <1>1, Invariance, PTL

(* _prune_window never takes away an event a later evaluation needs. *)
THEOREM FreshRetained == Spec => []RetainsFresh
<1>1. IInv => RetainsFresh
  BY DEF IInv
<1> QED
  BY <1>1, Invariance, PTL

(* The events of an incident lie within one window of each other, up to    *)
(* twice what the clock was set back.                                      *)
THEOREM SpanBounded == Spec => []IncidentSpan
<1>1. IInv => IncidentSpan
  BY DEF IInv
<1> QED
  BY <1>1, Invariance, PTL

(* The timeline of every report is in the order of the timestamps. *)
THEOREM TimelineSorted == Spec => []TimelineOrdered
<1>1. IInv => TimelineOrdered
  BY DEF IInv
<1> QED
  BY <1>1, Invariance, PTL

-----------------------------------------------------------------------------
(* The deque implements the sliding window over the complete history. *)

LEMMA SameStages ==
    ASSUME NEW events
    PROVE  SW!REQUIRED_STAGES \subseteq SW!Stages(events)
                <=> REQUIRED_STAGES \subseteq StagesOf(events)
<1>1. \A t : SW!get_stage(t) = get_stage(t)
  BY DEF SW!get_stage, get_stage, SW!STAGE_MAP, STAGE_MAP, SW!NoStage, NoStage
<1>2. SW!REQUIRED_STAGES = REQUIRED_STAGES /\ NoStage \notin REQUIRED_STAGES
  BY DEF SW!REQUIRED_STAGES, REQUIRED_STAGES, NoStage
<1> QED
  BY <1>1, <1>2 DEF SW!Stages, StagesOf

LEMMA DeliverStep ==
    ASSUME IInv, NEW s \in Src, AddEvent(s)
    PROVE  \E e \in Event : SW!Deliver(s, e)
<1> DEFINE seen == Range(window'[s])
           all == delivered'[s]
<1>0. PICK e \in Event : e = Head(pending[s])
  <2>1. pending[s] \in Seq(Event) /\ pending[s] # <<>>
    BY DEF AddEvent, IInv, TypeOK
  <2> QED
    BY <2>1, HeadTailProperties
<1>1. /\ pending[s] # <<>>
      /\ delivered' = [delivered EXCEPT ![s] = delivered[s] \cup {e}]
      /\ incident' = IF EvaluateKillChain(window'[s])
                     THEN {Escalate(s, window'[s])} ELSE {}
      /\ now' = now /\ high' = high
  BY <1>0 DEF AddEvent, IInv, TypeOK
<1>3. /\ IInv'
      /\ \A x \in seen : x.timestamp \in Nat
                         /\ x.timestamp >= now - WindowDuration - MaxSkew
  BY AddEventIInv
<1>4. /\ window'[s] \in Seq(Event)
      /\ seen \subseteq all
      /\ now \in Nat /\ high \in Nat /\ high <= now + MaxSkew
      /\ \A x \in all : x.timestamp \in Nat
      /\ \A x \in all : x.timestamp >= high - WindowDuration => x \in seen
  <2>1. window'[s] \in Seq(Event) /\ seen \subseteq all
    BY <1>3 DEF IInv, TypeOK, WindowInv
  <2>2. now \in Nat /\ high \in Nat /\ high <= now + MaxSkew
    BY Timestamps DEF IInv, ClockInv
  <2>3. \A x \in all : x.timestamp \in Nat
    BY <1>3 DEF IInv, TypeOK, Event, Time
  <2>4. \A x \in all : x.timestamp >= high - WindowDuration => x \in seen
    BY <1>1, <1>3 DEF IInv, RetainsFresh
  <2> QED
    BY <2>1, <2>2, <2>3, <2>4
<1> HIDE DEF seen, all
<1>5. seen \in SUBSET SW!AtMostOld(all, WindowDuration + MaxSkew)
  BY <1>3, <1>4 DEF SW!AtMostOld
<1>6. SW!AtMostOld(all, WindowDuration - MaxSkew) \subseteq seen
  <2> SUFFICES ASSUME NEW x \in all, now - x.timestamp <= WindowDuration - MaxSkew
               PROVE  x \in seen
    BY DEF SW!AtMostOld
  <2>1. x.timestamp >= high - WindowDuration
    BY <1>4
  <2> QED
    BY <1>4, <2>1
<1>7. {[source_ip |-> r.source_ip, generated_at |-> r.generated_at,
        events |-> Range(r.timeline)] : r \in incident'}
         = IF SW!REQUIRED_STAGES \subseteq SW!Stages(seen)
           THEN {[source_ip |-> s, generated_at |-> now, events |-> seen]} ELSE {}
  <2>1. EvaluateKillChain(window'[s])
            <=> SW!REQUIRED_STAGES \subseteq SW!Stages(seen)
    BY SameStages DEF EvaluateKillChain, seen
  <2>2. Range(Chronological(window'[s])) = seen
    BY <1>4, ChronologicalCorrect DEF seen
  <2>3. CASE EvaluateKillChain(window'[s])
    <3>1. incident' = {Escalate(s, window'[s])}
      BY <1>1, <2>3
    <3> QED
      BY <2>1, <2>2, <2>3, <3>1 DEF Escalate
  <2>4. CASE ~ EvaluateKillChain(window'[s])
    BY <1>1, <2>1, <2>4
  <2> QED
    BY <2>3, <2>4
<1>8. SW!Deliver(s, e)
  BY <1>1, <1>5, <1>6, <1>7 DEF SW!Deliver, all
<1> QED
  BY <1>8

(* Every behaviour of the correlator's deques, mapped to the reports' sets *)
(* of events, is a behaviour of the sliding window over the whole history: *)
(* an incident is raised exactly when the events of the window show the    *)
(* three stages, up to the uncertainty of the clock.                       *)
THEOREM Implementation == Spec => ImplementsSlidingWindow
<1>1. Init => SW!SWInit
  BY DEF Init, SW!SWInit
<1>2. IInv /\ IInv' /\ [Next]_vars => [SW!SWNext]_(SW!avars)
  <2> SUFFICES ASSUME IInv, IInv', [Next]_vars
               PROVE  SW!SWNext \/ UNCHANGED SW!avars
    OBVIOUS
  <2>1. CASE Tick \/ StepBack
    <3>1. now' \in Nat /\ UNCHANGED <<delivered, incident>>
      BY <2>1 DEF Tick, StepBack, IInv, TypeOK, Time
    <3> QED
      BY <3>1 DEF SW!SWNext, SW!Clock
  <2>2. ASSUME NEW s \in Src, NEW event_type \in EventType, Create(s, event_type)
        PROVE  UNCHANGED SW!avars
    BY <2>2 DEF Create, SW!avars
  <2>3. ASSUME NEW s \in Src, AddEvent(s)
        PROVE  SW!SWNext
    BY <2>3, DeliverStep DEF SW!SWNext
  <2>4. CASE UNCHANGED vars
    BY <2>4 DEF vars, SW!avars
  <2> QED
    BY <2>1, <2>2, <2>3, <2>4 DEF Next
<1> QED
  BY <1>1, <1>2, Invariance, PTL DEF Spec, ImplementsSlidingWindow, SW!SWSpec

=============================================================================
