--------------------------- MODULE EventBusProofs ---------------------------
(* Proofs about EventBus, for every number of threads, tasks and events    *)
(* and every maxsize; about Startup, the two threads of main.py that use   *)
(* the bus; and about Pipeline, where detectors and correlator do.         *)
EXTENDS Startup, Pipeline, FiniteSetTheorems, SequenceTheorems, TLAPS

USE BusAssumption DEF Publisher

-----------------------------------------------------------------------------
(* The inductive invariant. *)

(* A publisher holds at most one event, its own, stamped before now. *)
HeldInv ==
    \A p \in Publisher : held[p] # <<>> =>
        /\ held[p][1] \in Event
        /\ held[p][1].from = p
        /\ held[p][1].stamp < created

(* What was published is older than what its publisher holds or will build. *)
StampInv ==
    \A e \in accepted \cup refused :
        /\ e.stamp < created
        /\ held[e.from] # <<>> => e.stamp < held[e.from][1].stamp

(* Only threads go through the loop's ready list. *)
ReadyInv == \A i \in DOMAIN ready : ready[i].from \in Thread

IInv ==
    /\ TypeOK
    /\ HeldInv
    /\ StampInv
    /\ ReadyInv
    /\ PublisherOrder
    /\ NoLoss

-----------------------------------------------------------------------------
(* Sequences. *)

(* The concatenation of two sequences, element by element. *)
LEMMA ConcatAt ==
    ASSUME NEW S, NEW g \in Seq(S), NEW r \in Seq(S)
    PROVE  /\ g \o r \in Seq(S)
           /\ Len(g) \in Nat /\ Len(r) \in Nat
           /\ Len(g \o r) = Len(g) + Len(r)
           /\ DOMAIN (g \o r) = 1 .. Len(g) + Len(r)
           /\ \A i \in 1 .. Len(g) + Len(r) :
                (g \o r)[i] = IF i <= Len(g) THEN g[i] ELSE r[i - Len(g)]
           /\ Range(g \o r) = Range(g) \cup Range(r)
<1>1. /\ g \o r \in Seq(S)
      /\ Len(g) \in Nat /\ Len(r) \in Nat
      /\ Len(g \o r) = Len(g) + Len(r)
      /\ \A i \in 1 .. Len(g) + Len(r) :
            (g \o r)[i] = IF i <= Len(g) THEN g[i] ELSE r[i - Len(g)]
  BY ConcatProperties, LenProperties
<1>2. DOMAIN (g \o r) = 1 .. Len(g) + Len(r)
  BY <1>1, LenProperties
<1>3. Range(g \o r) = Range(g) \cup Range(r)
  BY RangeConcatenation
<1> QED
  BY <1>1, <1>2, <1>3

(* Moving the head of the second sequence to the end of the first leaves   *)
(* their concatenation unchanged: what a callback or a get does.           *)
LEMMA MoveHead ==
    ASSUME NEW S, NEW g \in Seq(S), NEW r \in Seq(S), r # <<>>
    PROVE  Append(g, Head(r)) \o Tail(r) = g \o r
<1> DEFINE h == Head(r)
<1>1. /\ h \in S /\ h = r[1] /\ Tail(r) \in Seq(S) /\ Len(Tail(r)) = Len(r) - 1
      /\ \A i \in 1 .. Len(r) - 1 : Tail(r)[i] = r[i + 1]
      /\ Len(r) \in Nat /\ Len(g) \in Nat /\ Len(r) >= 1
  BY HeadTailProperties, LenProperties, EmptySeq
<1>2. /\ Append(g, h) \in Seq(S) /\ Len(Append(g, h)) = Len(g) + 1
      /\ \A i \in 1 .. Len(g) : Append(g, h)[i] = g[i]
      /\ Append(g, h)[Len(g) + 1] = h
  BY <1>1, AppendProperties
<1> HIDE DEF h
<1>3. /\ Append(g, h) \o Tail(r) \in Seq(S) /\ g \o r \in Seq(S)
      /\ Len(Append(g, h) \o Tail(r)) = Len(g) + Len(r)
      /\ Len(g \o r) = Len(g) + Len(r)
  BY <1>1, <1>2, ConcatAt
<1>4. ASSUME NEW i \in 1 .. Len(g) + Len(r)
      PROVE  (Append(g, h) \o Tail(r))[i] = (g \o r)[i]
  <2>1. (g \o r)[i] = IF i <= Len(g) THEN g[i] ELSE r[i - Len(g)]
    BY ConcatAt
  <2>2. (Append(g, h) \o Tail(r))[i] =
           IF i <= Len(g) + 1 THEN Append(g, h)[i] ELSE Tail(r)[i - (Len(g) + 1)]
    BY <1>1, <1>2, ConcatAt
  <2>3. CASE i <= Len(g)
    BY <1>1, <1>2, <2>1, <2>2, <2>3
  <2>4. CASE i = Len(g) + 1
    BY <1>1, <1>2, <2>1, <2>2, <2>4
  <2>5. CASE i > Len(g) + 1
    <3>1. i - (Len(g) + 1) \in 1 .. Len(r) - 1 /\ i - (Len(g) + 1) + 1 = i - Len(g)
      BY <1>1, <2>5
    <3> QED
      BY <1>1, <2>1, <2>2, <2>5, <3>1
  <2> QED
    BY <1>1, <2>3, <2>4, <2>5
<1> QED
  BY <1>3, <1>4, SeqEqual DEF h

(* Appending to the second sequence appends to the concatenation. *)
LEMMA AppendConcat ==
    ASSUME NEW S, NEW g \in Seq(S), NEW r \in Seq(S), NEW e \in S
    PROVE  g \o Append(r, e) = Append(g \o r, e)
<1>1. <<e>> \in Seq(S)
  OBVIOUS
<1>2. Append(r, e) = r \o <<e>> /\ Append(g \o r, e) = (g \o r) \o <<e>>
  BY AppendIsConcat, ConcatAt
<1> QED
  BY <1>1, <1>2, ConcatAssociative

(* The elements of a sequence with one appended, or without its head. *)
LEMMA RangeAppendTail ==
    ASSUME NEW S, NEW r \in Seq(S)
    PROVE  /\ \A e \in S : Range(Append(r, e)) = Range(r) \cup {e}
           /\ r # <<>> => Range(r) = Range(Tail(r)) \cup {Head(r)}
<1>1. ASSUME NEW e \in S
      PROVE  Range(Append(r, e)) = Range(r) \cup {e}
  <2>1. /\ Len(r) \in Nat /\ DOMAIN r = 1 .. Len(r)
        /\ DOMAIN Append(r, e) = 1 .. Len(r) + 1
        /\ \A i \in 1 .. Len(r) : Append(r, e)[i] = r[i]
        /\ Append(r, e)[Len(r) + 1] = e
    BY AppendProperties, LenProperties
  <2>2. Range(Append(r, e)) \subseteq Range(r) \cup {e}
    BY <2>1 DEF Range
  <2>3. Range(r) \subseteq Range(Append(r, e)) /\ e \in Range(Append(r, e))
    BY <2>1 DEF Range
  <2> QED
    BY <2>2, <2>3
<1>2. ASSUME r # <<>>
      PROVE  Range(r) = Range(Tail(r)) \cup {Head(r)}
  <2>1. /\ Len(r) \in Nat /\ Len(r) >= 1 /\ Head(r) = r[1]
        /\ DOMAIN r = 1 .. Len(r) /\ DOMAIN Tail(r) = 1 .. Len(r) - 1
        /\ \A i \in 1 .. Len(r) - 1 : Tail(r)[i] = r[i + 1]
    BY <1>2, HeadTailProperties, LenProperties, EmptySeq
  <2>2. \A i \in 1 .. Len(r) - 1 : i + 1 \in 1 .. Len(r)
    BY <2>1
  <2>3. ASSUME NEW i \in 1 .. Len(r)
        PROVE  r[i] \in Range(Tail(r)) \cup {Head(r)}
    <3>1. CASE i = 1
      BY <2>1, <3>1
    <3>2. CASE i # 1
      <4>1. i - 1 \in 1 .. Len(r) - 1 /\ i - 1 + 1 = i
        BY <2>1, <3>2
      <4> QED
        BY <2>1, <4>1 DEF Range
    <3> QED
      BY <3>1, <3>2
  <2>4. Head(r) \in Range(r) /\ Range(Tail(r)) \subseteq Range(r)
    BY <2>1, <2>2 DEF Range
  <2>5. Range(r) \subseteq Range(Tail(r)) \cup {Head(r)}
    BY <2>1, <2>3 DEF Range
  <2> QED
    BY <2>4, <2>5
<1> QED
  BY <1>1, <1>2

(* The order of a stream of events. *)
Ordered(q) ==
    \A i, j \in DOMAIN q : i < j /\ q[i].from = q[j].from => q[i].stamp < q[j].stamp

(* Two events of one publisher in g and r, as parts of an ordered stream. *)
LEMMA OrderedConcat ==
    ASSUME NEW g \in Seq(Event), NEW r \in Seq(Event)
    PROVE  Ordered(g \o r) <=>
             /\ Ordered(g)
             /\ Ordered(r)
             /\ \A i \in DOMAIN g, j \in DOMAIN r :
                    g[i].from = r[j].from => g[i].stamp < r[j].stamp
<1> DEFINE m == Len(g)
           n == Len(r)
           q == g \o r
<1>1. /\ m \in Nat /\ n \in Nat
      /\ DOMAIN g = 1 .. m /\ DOMAIN r = 1 .. n /\ DOMAIN q = 1 .. m + n
      /\ \A i \in 1 .. m : q[i] = g[i]
      /\ \A j \in 1 .. n : q[m + j] = r[j]
  <2>1. /\ m \in Nat /\ n \in Nat
        /\ DOMAIN g = 1 .. m /\ DOMAIN r = 1 .. n /\ DOMAIN q = 1 .. m + n
        /\ \A i \in 1 .. m + n : q[i] = IF i <= m THEN g[i] ELSE r[i - m]
    BY ConcatAt, LenProperties
  <2> HIDE DEF m, n, q
  <2>2. ASSUME NEW i \in 1 .. m PROVE q[i] = g[i]
    BY <2>1
  <2>3. ASSUME NEW j \in 1 .. n PROVE q[m + j] = r[j]
    <3>1. m + j \in 1 .. m + n /\ ~ (m + j <= m) /\ m + j - m = j
      BY <2>1
    <3> QED
      BY <2>1, <3>1
  <2> QED
    BY <2>1, <2>2, <2>3
<1> HIDE DEF m, n, q
<1>2. ASSUME Ordered(q)
      PROVE  /\ Ordered(g)
             /\ Ordered(r)
             /\ \A i \in DOMAIN g, j \in DOMAIN r :
                    g[i].from = r[j].from => g[i].stamp < r[j].stamp
  <2>1. Ordered(g)
    BY <1>1, <1>2 DEF Ordered
  <2>2. Ordered(r)
    <3> SUFFICES ASSUME NEW i \in 1 .. n, NEW j \in 1 .. n, i < j,
                        r[i].from = r[j].from
                 PROVE  r[i].stamp < r[j].stamp
      BY <1>1 DEF Ordered
    <3>1. m + i \in 1 .. m + n /\ m + j \in 1 .. m + n /\ m + i < m + j
      BY <1>1
    <3> QED
      BY <1>1, <1>2, <3>1 DEF Ordered
  <2>3. ASSUME NEW i \in 1 .. m, NEW j \in 1 .. n, g[i].from = r[j].from
        PROVE  g[i].stamp < r[j].stamp
    <3>1. i \in 1 .. m + n /\ m + j \in 1 .. m + n /\ i < m + j
      BY <1>1
    <3> QED
      BY <1>1, <1>2, <2>3, <3>1 DEF Ordered
  <2> QED
    BY <1>1, <2>1, <2>2, <2>3
<1>3. ASSUME Ordered(g), Ordered(r),
             \A i \in DOMAIN g, j \in DOMAIN r :
                g[i].from = r[j].from => g[i].stamp < r[j].stamp
      PROVE  Ordered(q)
  <2> SUFFICES ASSUME NEW i \in 1 .. m + n, NEW j \in 1 .. m + n, i < j,
                      q[i].from = q[j].from
               PROVE  q[i].stamp < q[j].stamp
    BY <1>1 DEF Ordered
  <2>1. CASE j <= m
    <3>1. i \in 1 .. m /\ j \in 1 .. m
      BY <1>1, <2>1
    <3> QED
      BY <1>1, <1>3, <3>1 DEF Ordered
  <2>2. CASE i <= m /\ j > m
    <3>1. i \in 1 .. m /\ j - m \in 1 .. n /\ m + (j - m) = j
      BY <1>1, <2>2
    <3>2. q[i] = g[i] /\ q[j] = r[j - m]
      BY <1>1, <3>1
    <3> QED
      BY <1>1, <1>3, <3>1, <3>2
  <2>3. CASE i > m
    <3>1. i - m \in 1 .. n /\ j - m \in 1 .. n /\ i - m < j - m
          /\ m + (i - m) = i /\ m + (j - m) = j
      BY <1>1, <2>3
    <3>2. q[i] = r[i - m] /\ q[j] = r[j - m]
      BY <1>1, <3>1
    <3>3. \A a, b \in 1 .. n :
            a < b /\ r[a].from = r[b].from => r[a].stamp < r[b].stamp
      BY <1>1, <1>3, Zenon DEF Ordered
    <3>4. r[i - m].from = r[j - m].from
      BY <3>2
    <3>5. r[i - m].stamp < r[j - m].stamp
      BY <3>1, <3>3, <3>4, Zenon
    <3> QED
      BY <3>2, <3>5
  <2> QED
    BY <1>1, <2>1, <2>2, <2>3
<1> QED
  BY <1>2, <1>3 DEF q

(* A newer event appended to an ordered sequence. *)
LEMMA OrderedAppend ==
    ASSUME NEW g \in Seq(Event), NEW e \in Event, Ordered(g),
           \A x \in Range(g) : x.from = e.from => x.stamp < e.stamp
    PROVE  Ordered(Append(g, e))
<1>1. <<e>> \in Seq(Event) /\ DOMAIN <<e>> = {1} /\ <<e>>[1] = e
  OBVIOUS
<1>2. Ordered(<<e>>)
  BY <1>1 DEF Ordered
<1>3. \A i \in DOMAIN g, j \in DOMAIN <<e>> :
         g[i].from = <<e>>[j].from => g[i].stamp < <<e>>[j].stamp
  BY <1>1 DEF Range
<1>4. Ordered(g \o <<e>>)
  BY <1>1, <1>2, <1>3, OrderedConcat
<1> QED
  BY <1>4, AppendIsConcat

(* The head of an ordered sequence occurs once, and its tail is ordered. *)
LEMMA OrderedTail ==
    ASSUME NEW r \in Seq(Event), r # <<>>, Ordered(r)
    PROVE  Ordered(Tail(r)) /\ Head(r) \notin Range(Tail(r))
<1> DEFINE n == Len(r)
<1>1. /\ Tail(r) \in Seq(Event) /\ n \in Nat /\ n >= 1
      /\ DOMAIN r = 1 .. n /\ DOMAIN Tail(r) = 1 .. n - 1
      /\ \A i \in 1 .. n - 1 : Tail(r)[i] = r[i + 1]
      /\ Head(r) = r[1]
  BY HeadTailProperties, LenProperties, EmptySeq
<1>2. \A i \in 1 .. n : r[i].stamp \in Nat
  <2>1. \A i \in 1 .. n : r[i] \in Event
    BY ElementOfSeq
  <2> QED
    BY <2>1 DEF Event
<1> HIDE DEF n
<1>3. \A i \in 1 .. n - 1 : i + 1 \in 1 .. n /\ 1 \in 1 .. n /\ 1 < i + 1
  BY <1>1
<1>4. Ordered(Tail(r))
  BY <1>1, <1>3 DEF Ordered
<1>5. \A i \in 1 .. n - 1 : r[i + 1] # r[1]
  BY <1>1, <1>2, <1>3 DEF Ordered
<1> QED
  BY <1>1, <1>4, <1>5 DEF Range

-----------------------------------------------------------------------------
(* The invariant holds initially and every action preserves it. *)

LEMMA StreamFacts ==
    ASSUME TypeOK
    PROVE  /\ got \o queue \in Seq(Event)
           /\ Stream \in Seq(Event)
           /\ Stream = (got \o queue) \o ready
           /\ Range(Stream) = Range(got) \cup Range(queue) \cup Range(ready)
           /\ PublisherOrder <=> Ordered(Stream)
<1>1. got \in Seq(Event) /\ queue \in Seq(Event) /\ ready \in Seq(Event)
  BY DEF TypeOK
<1>2. got \o queue \in Seq(Event) /\ Range(got \o queue) = Range(got) \cup Range(queue)
  BY <1>1, ConcatAt
<1>3. /\ (got \o queue) \o ready \in Seq(Event)
      /\ Range((got \o queue) \o ready) = Range(got \o queue) \cup Range(ready)
  <2>1. \A g, r \in Seq(Event) : /\ g \o r \in Seq(Event)
                                 /\ Range(g \o r) = Range(g) \cup Range(r)
    BY ConcatAt
  <2> QED
    BY <1>1, <1>2, <2>1, Zenon
<1>4. Stream = (got \o queue) \o ready
  BY DEF Stream
<1>5. PublisherOrder <=> Ordered(Stream)
  BY DEF PublisherOrder, Ordered
<1> QED
  BY <1>2, <1>3, <1>4, <1>5

LEMMA InitIInv == Init => IInv
<1> SUFFICES ASSUME Init PROVE IInv
  OBVIOUS
<1>1. Stream = <<>>
  BY DEF Init, Stream
<1>2. TypeOK
  BY DEF Init, TypeOK, LoopState
<1>3. HeldInv /\ StampInv /\ ReadyInv
  BY DEF Init, HeldInv, StampInv, ReadyInv
<1>4. PublisherOrder
  BY <1>1 DEF PublisherOrder
<1>5. NoLoss
  BY <1>1 DEF Init, NoLoss, Range
<1> QED
  BY <1>2, <1>3, <1>4, <1>5 DEF IInv

(* The state of the loop is no part of the invariant, but for its type. *)
LEMMA LoopIInv ==
    ASSUME IInv, loop' \in LoopState,
           UNCHANGED <<created, held, ready, queue, got, accepted, refused, lost>>
    PROVE  IInv'
<1>1. Stream' = Stream
  BY DEF Stream
<1>2. TypeOK'
  BY DEF IInv, TypeOK
<1>3. HeldInv' /\ StampInv' /\ ReadyInv'
  BY DEF IInv, HeldInv, StampInv, ReadyInv
<1>4. PublisherOrder' /\ NoLoss'
  BY <1>1 DEF IInv, PublisherOrder, NoLoss
<1> QED
  BY <1>2, <1>3, <1>4 DEF IInv

LEMMA ConstructIInv ==
    ASSUME IInv, NEW t \in Publisher, Construct(t)
    PROVE  IInv'
<1> DEFINE e == [from |-> t, stamp |-> created]
<1>1. /\ UNCHANGED <<loop, ready, queue, got, accepted, refused, lost>>
      /\ held' = [held EXCEPT ![t] = <<e>>]
      /\ created' = created + 1 /\ created \in Nat /\ created' \in 0 .. MaxEvents
  BY DEF Construct, IInv, TypeOK
<1>2. Stream' = Stream
  BY <1>1 DEF Stream
<1>3. e \in Event /\ e.from = t /\ e.stamp = created
  BY DEF Event, IInv, TypeOK
<1>4. held'[t] = <<e>> /\ \A u \in Publisher \ {t} : held'[u] = held[u]
  BY <1>1 DEF IInv, TypeOK
<1> HIDE DEF e
<1>5. TypeOK'
  <2>1. <<e>> \in Seq(Event)
    BY <1>3
  <2> QED
    BY <1>1, <2>1 DEF IInv, TypeOK
<1>6. HeldInv'
  <2> SUFFICES ASSUME NEW u \in Publisher, held'[u] # <<>>
               PROVE  /\ held'[u][1] \in Event
                      /\ held'[u][1].from = u
                      /\ held'[u][1].stamp < created'
    BY DEF HeldInv
  <2>1. CASE u = t
    BY <1>1, <1>3, <1>4, <2>1
  <2>2. CASE u # t
    <3>1. /\ held'[u][1] \in Event /\ held'[u][1].from = u
          /\ held'[u][1].stamp < created
      BY <1>4, <2>2 DEF IInv, HeldInv
    <3> QED
      BY <1>1, <3>1 DEF Event
  <2> QED
    BY <2>1, <2>2
<1>7. StampInv'
  <2> SUFFICES ASSUME NEW x \in accepted \cup refused
               PROVE  /\ x.stamp < created'
                      /\ held'[x.from] # <<>> => x.stamp < held'[x.from][1].stamp
    BY <1>1 DEF StampInv
  <2>1. x.stamp < created /\ x.stamp \in Nat /\ x.from \in Publisher
    BY DEF IInv, StampInv, TypeOK, Event
  <2>2. x.stamp < created'
    BY <1>1, <2>1
  <2>3. ASSUME held'[x.from] # <<>>
        PROVE  x.stamp < held'[x.from][1].stamp
    <3>1. CASE x.from = t
      BY <1>3, <1>4, <2>1, <3>1
    <3>2. CASE x.from # t
      BY <1>4, <2>1, <2>3, <3>2 DEF IInv, StampInv
    <3> QED
      BY <3>1, <3>2
  <2> QED
    BY <2>2, <2>3
<1>8. ReadyInv' /\ PublisherOrder' /\ NoLoss'
  BY <1>1, <1>2 DEF IInv, ReadyInv, PublisherOrder, NoLoss
<1> QED
  BY <1>5, <1>6, <1>7, <1>8 DEF IInv

LEMMA PublishThreadsafeIInv ==
    ASSUME IInv, NEW t \in Thread, publish_threadsafe(t)
    PROVE  IInv'
<1> DEFINE e == held[t][1]
<1>1. /\ UNCHANGED <<loop, created, queue, got, lost>>
      /\ held[t] # <<>> /\ held' = [held EXCEPT ![t] = <<>>]
  BY DEF publish_threadsafe
<1>2. /\ e \in Event /\ e.from = t /\ e.stamp < created
      /\ \A x \in accepted \cup refused :
            x \in Event /\ (x.from = t => x.stamp < e.stamp)
  BY <1>1 DEF IInv, HeldInv, StampInv, TypeOK
<1>3. held'[t] = <<>> /\ \A u \in Publisher \ {t} : held'[u] = held[u]
  BY <1>1 DEF IInv, TypeOK
<1>4. \/ refused' = refused \cup {e} /\ UNCHANGED <<ready, accepted>>
      \/ /\ ready' = Append(ready, e) /\ accepted' = accepted \cup {e}
         /\ UNCHANGED refused
  BY DEF publish_threadsafe
<1> HIDE DEF e
<1>5. e \notin accepted \cup refused
  BY <1>2 DEF Event
<1>6. HeldInv'
  BY <1>1, <1>3 DEF IInv, HeldInv
<1>7. StampInv'
  <2> SUFFICES ASSUME NEW x \in accepted \cup refused \cup {e}
               PROVE  /\ x.stamp < created
                      /\ held'[x.from] # <<>> => x.stamp < held'[x.from][1].stamp
    BY <1>1, <1>4 DEF StampInv
  <2>1. CASE x = e
    BY <1>2, <1>3, <2>1
  <2>2. CASE x # e
    <3>1. x.from \in Publisher
      BY <1>2, <2>2 DEF Event
    <3> QED
      BY <1>3, <2>2, <3>1 DEF IInv, StampInv
  <2> QED
    BY <2>1, <2>2
<1>8. CASE refused' = refused \cup {e} /\ UNCHANGED <<ready, accepted>>
  <2>1. Stream' = Stream
    BY <1>1, <1>8 DEF Stream
  <2>2. TypeOK'
    BY <1>1, <1>2, <1>8 DEF IInv, TypeOK
  <2>3. NoLoss'
    BY <1>1, <1>5, <1>8, <2>1 DEF IInv, NoLoss
  <2>4. ReadyInv' /\ PublisherOrder'
    BY <1>1, <1>8, <2>1 DEF IInv, ReadyInv, PublisherOrder
  <2> QED
    BY <1>6, <1>7, <2>2, <2>3, <2>4 DEF IInv
<1>9. CASE /\ ready' = Append(ready, e) /\ accepted' = accepted \cup {e}
           /\ UNCHANGED refused
  <2>0. ready \in Seq(Event) /\ Append(ready, e) \in Seq(Event)
    BY <1>2, AppendProperties DEF IInv, TypeOK
  <2>1. TypeOK'
    BY <1>1, <1>2, <1>9, <2>0 DEF IInv, TypeOK
  <2>2. Stream' = Append(Stream, e) /\ Stream \in Seq(Event)
    <3>1. got \o queue \in Seq(Event) /\ Stream = (got \o queue) \o ready
          /\ Stream \in Seq(Event)
      BY StreamFacts DEF IInv
    <3>2. Stream' = (got \o queue) \o Append(ready, e)
      BY <1>1, <1>9 DEF Stream
    <3> QED
      BY <1>2, <2>0, <3>1, <3>2, AppendConcat
  <2>3. Range(Stream') = Range(Stream) \cup {e}
    BY <1>2, <2>2, RangeAppendTail
  <2>4. Range(Stream) \subseteq accepted
    BY DEF IInv, NoLoss
  <2>5. PublisherOrder'
    <3>1. Ordered(Stream)
      BY StreamFacts DEF IInv
    <3>2. \A x \in Range(Stream) : x.from = e.from => x.stamp < e.stamp
      BY <1>2, <2>4
    <3>3. Ordered(Append(Stream, e))
      BY <1>2, <2>2, <3>1, <3>2, OrderedAppend
    <3> QED
      BY <2>2, <3>3 DEF PublisherOrder, Ordered
  <2>6. NoLoss'
    BY <1>1, <1>5, <1>9, <2>3 DEF IInv, NoLoss
  <2>7. ReadyInv'
    <3>1. /\ Len(ready) \in Nat
          /\ DOMAIN ready = 1 .. Len(ready) /\ DOMAIN Append(ready, e) = 1 .. Len(ready) + 1
          /\ \A i \in 1 .. Len(ready) : Append(ready, e)[i] = ready[i]
          /\ Append(ready, e)[Len(ready) + 1] = e
      BY <1>2, <2>0, AppendProperties, LenProperties
    <3> QED
      BY <1>2, <1>9, <3>1 DEF IInv, ReadyInv
  <2> QED
    BY <1>6, <1>7, <2>1, <2>5, <2>6, <2>7 DEF IInv
<1> QED
  BY <1>4, <1>8, <1>9

LEMMA PutNowaitIInv ==
    ASSUME IInv, put_nowait
    PROVE  IInv'
<1> DEFINE h == Head(ready)
           gq == got \o queue
<1>1. /\ UNCHANGED <<loop, created, held, got, accepted, refused>>
      /\ ready # <<>> /\ ready' = Tail(ready)
  BY DEF put_nowait
<1>2. /\ got \in Seq(Event) /\ queue \in Seq(Event) /\ ready \in Seq(Event)
      /\ gq \in Seq(Event) /\ Stream \in Seq(Event) /\ Stream = gq \o ready
      /\ Range(Stream) = Range(got) \cup Range(queue) \cup Range(ready)
      /\ Ordered(Stream)
  BY StreamFacts DEF IInv, TypeOK
<1>3. h \in Event /\ Tail(ready) \in Seq(Event) /\ Range(ready) = Range(Tail(ready)) \cup {h}
  BY <1>1, <1>2, HeadTailProperties, RangeAppendTail
<1>4. \/ Full /\ lost' = lost \cup {h} /\ UNCHANGED queue
      \/ ~ Full /\ queue' = Append(queue, h) /\ UNCHANGED lost
  BY DEF put_nowait
<1> HIDE DEF h, gq
<1>5. HeldInv' /\ StampInv'
  BY <1>1 DEF IInv, HeldInv, StampInv
<1>6. ReadyInv'
  <2>1. \A x \in Range(ready) : x.from \in Thread
    BY DEF IInv, ReadyInv, Range
  <2>2. \A x \in Range(Tail(ready)) : x.from \in Thread
    BY <1>3, <2>1
  <2> QED
    BY <1>1, <2>2 DEF ReadyInv, Range
<1>7. CASE Full /\ lost' = lost \cup {h} /\ UNCHANGED queue
  <2>1. TypeOK'
    BY <1>1, <1>3, <1>7 DEF IInv, TypeOK
  <2>2. Stream' = gq \o Tail(ready)
    BY <1>1, <1>7 DEF Stream, gq
  <2>3. /\ Ordered(gq) /\ Ordered(ready)
        /\ \A i \in DOMAIN gq, j \in DOMAIN ready :
               gq[i].from = ready[j].from => gq[i].stamp < ready[j].stamp
    BY <1>2, OrderedConcat
  <2>4. Ordered(Tail(ready)) /\ h \notin Range(Tail(ready))
    BY <1>1, <1>2, <2>3, OrderedTail DEF h
  <2>5. \A x \in Range(gq), y \in Range(ready) : x.from = y.from => x.stamp < y.stamp
    BY <2>3 DEF Range
  <2>6. h \notin Range(gq)
    BY <1>3, <2>5 DEF Event
  <2>7. \A x \in Range(gq), y \in Range(Tail(ready)) : x.from = y.from => x.stamp < y.stamp
    BY <1>3, <2>5
  <2>8. \A i \in DOMAIN gq, j \in DOMAIN Tail(ready) :
            gq[i].from = Tail(ready)[j].from => gq[i].stamp < Tail(ready)[j].stamp
    BY <2>7 DEF Range
  <2>9. Ordered(gq \o Tail(ready))
    BY <1>2, <1>3, <2>3, <2>4, <2>8, OrderedConcat
  <2>10. PublisherOrder'
    BY <2>2, <2>9 DEF PublisherOrder, Ordered
  <2>11. /\ Range(Stream) = Range(gq) \cup Range(ready)
         /\ Range(Stream') = Range(gq) \cup Range(Tail(ready))
    <3>1. \A g, r \in Seq(Event) : Range(g \o r) = Range(g) \cup Range(r)
      BY ConcatAt
    <3> QED
      BY <1>2, <1>3, <2>2, <3>1, Zenon
  <2>12. NoLoss'
    <3>1. Range(Stream) = Range(Stream') \cup {h} /\ h \notin Range(Stream')
      BY <1>3, <2>4, <2>6, <2>11
    <3>2. MaxSize > 0
      BY <1>7 DEF Full
    <3> QED
      BY <1>1, <1>7, <3>1, <3>2 DEF IInv, NoLoss
  <2> QED
    BY <1>5, <1>6, <2>1, <2>10, <2>12 DEF IInv
<1>8. CASE ~ Full /\ queue' = Append(queue, h) /\ UNCHANGED lost
  <2>1. Append(queue, h) \in Seq(Event) /\ Len(Append(queue, h)) = Len(queue) + 1
    BY <1>2, <1>3, AppendProperties
  <2>2. TypeOK'
    BY <1>1, <1>3, <1>8, <2>1 DEF IInv, TypeOK
  <2>3. Stream' = Stream
    <3>1. Stream' = (got \o Append(queue, h)) \o Tail(ready)
      BY <1>1, <1>8 DEF Stream
    <3>2. got \o Append(queue, h) = Append(gq, h)
      BY <1>2, <1>3, AppendConcat DEF gq
    <3>3. Append(gq, h) \o Tail(ready) = gq \o ready
      BY <1>1, <1>2, MoveHead DEF h
    <3> QED
      BY <1>2, <3>1, <3>2, <3>3
  <2>4. PublisherOrder' /\ NoLoss'
    BY <1>1, <1>8, <2>3 DEF IInv, PublisherOrder, NoLoss
  <2> QED
    BY <1>5, <1>6, <2>2, <2>4 DEF IInv
<1> QED
  BY <1>4, <1>7, <1>8

LEMMA PublishIInv ==
    ASSUME IInv, NEW a \in Task, publish(a)
    PROVE  IInv'
<1> DEFINE e == held[a][1]
           gq == got \o queue
<1>1. /\ UNCHANGED <<loop, created, ready, got, refused, lost>>
      /\ held[a] # <<>> /\ held' = [held EXCEPT ![a] = <<>>]
      /\ queue' = Append(queue, e) /\ accepted' = accepted \cup {e}
  BY DEF publish
<1>2. /\ got \in Seq(Event) /\ queue \in Seq(Event) /\ ready \in Seq(Event)
      /\ gq \in Seq(Event) /\ Stream \in Seq(Event) /\ Stream = gq \o ready
      /\ Ordered(Stream)
  BY StreamFacts DEF IInv, TypeOK
<1>3. e \in Event /\ e.from = a /\ e.stamp < created /\ a \notin Thread /\ a \in Publisher
  BY <1>1 DEF IInv, HeldInv
<1>4. \A x \in accepted \cup refused : x \in Event /\ (x.from = a => x.stamp < e.stamp)
  BY <1>1 DEF IInv, StampInv, TypeOK
<1> HIDE DEF e, gq
<1>5. e \notin accepted \cup refused
  BY <1>3, <1>4 DEF Event
<1>6. Append(queue, e) \in Seq(Event)
  BY <1>2, <1>3, AppendProperties
<1>7. TypeOK'
  BY <1>1, <1>3, <1>6 DEF IInv, TypeOK
<1>8. held'[a] = <<>> /\ \A u \in Publisher \ {a} : held'[u] = held[u]
  BY <1>1 DEF IInv, TypeOK
<1>9. HeldInv' /\ StampInv'
  <2>1. HeldInv'
    BY <1>1, <1>8 DEF IInv, HeldInv
  <2>2. ASSUME NEW x \in accepted \cup refused \cup {e}
        PROVE  /\ x.stamp < created
               /\ held'[x.from] # <<>> => x.stamp < held'[x.from][1].stamp
    <3>1. CASE x = e
      BY <1>3, <1>8, <3>1
    <3>2. CASE x # e
      <4>1. x.from \in Publisher
        BY <1>4, <3>2 DEF Event
      <4> QED
        BY <1>8, <3>2, <4>1 DEF IInv, StampInv
    <3> QED
      BY <3>1, <3>2
  <2> QED
    BY <1>1, <2>1, <2>2 DEF StampInv
<1>10. ReadyInv'
  BY <1>1 DEF IInv, ReadyInv
<1>11. Stream' = Append(gq, e) \o ready /\ Append(gq, e) \in Seq(Event)
  <2>1. Stream' = (got \o Append(queue, e)) \o ready
    BY <1>1 DEF Stream
  <2>2. got \o Append(queue, e) = Append(gq, e)
    BY <1>2, <1>3, AppendConcat DEF gq
  <2> QED
    BY <1>2, <1>3, <2>1, <2>2, AppendProperties
<1>12. /\ Range(Stream) = Range(gq) \cup Range(ready)
       /\ Range(Append(gq, e)) = Range(gq) \cup {e}
  BY <1>2, <1>3, RangeConcatenation, RangeAppendTail
<1>13. Range(Stream') = Range(Append(gq, e)) \cup Range(ready)
  <2>1. \A g, r \in Seq(Event) : Range(g \o r) = Range(g) \cup Range(r)
    BY ConcatAt
  <2> QED
    BY <1>2, <1>11, <2>1, Zenon
<1>14. Range(Stream) \subseteq accepted
  BY DEF IInv, NoLoss
<1>15. PublisherOrder'
  <2>1. /\ Ordered(gq) /\ Ordered(ready)
        /\ \A i \in DOMAIN gq, j \in DOMAIN ready :
               gq[i].from = ready[j].from => gq[i].stamp < ready[j].stamp
    BY <1>2, OrderedConcat
  <2>2. \A x \in Range(gq), y \in Range(ready) : x.from = y.from => x.stamp < y.stamp
    BY <2>1 DEF Range
  <2>3. \A y \in Range(ready) : y.from \in Thread
    BY DEF IInv, ReadyInv, Range
  <2>4. \A x \in Range(Append(gq, e)), y \in Range(ready) :
            x.from = y.from => x.stamp < y.stamp
    BY <1>3, <1>12, <2>2, <2>3
  <2>5. \A i \in DOMAIN Append(gq, e), j \in DOMAIN ready :
            Append(gq, e)[i].from = ready[j].from => Append(gq, e)[i].stamp < ready[j].stamp
    BY <2>4 DEF Range
  <2>6. Ordered(Append(gq, e))
    <3>1. \A x \in Range(gq) : x.from = e.from => x.stamp < e.stamp
      BY <1>3, <1>4, <1>12, <1>14
    <3> QED
      BY <1>2, <1>3, <2>1, <3>1, OrderedAppend
  <2>7. Ordered(Append(gq, e) \o ready)
    BY <1>2, <1>11, <2>1, <2>5, <2>6, OrderedConcat
  <2> QED
    BY <1>11, <2>7 DEF PublisherOrder, Ordered
<1>16. NoLoss'
  BY <1>1, <1>5, <1>12, <1>13 DEF IInv, NoLoss
<1> QED
  BY <1>7, <1>9, <1>10, <1>15, <1>16 DEF IInv

LEMMA GetIInv ==
    ASSUME IInv, get
    PROVE  IInv'
<1>1. /\ UNCHANGED <<loop, created, held, ready, accepted, refused, lost>>
      /\ queue # <<>> /\ queue' = Tail(queue) /\ got' = Append(got, Head(queue))
  BY DEF get
<1>2. got \in Seq(Event) /\ queue \in Seq(Event)
  BY DEF IInv, TypeOK
<1>3. /\ Head(queue) \in Event /\ Tail(queue) \in Seq(Event)
      /\ Len(Tail(queue)) = Len(queue) - 1 /\ Len(queue) \in Nat
      /\ Append(got, Head(queue)) \in Seq(Event)
  BY <1>1, <1>2, HeadTailProperties, AppendProperties, LenProperties
<1>4. Stream' = Stream
  <2>1. Append(got, Head(queue)) \o Tail(queue) = got \o queue
    BY <1>1, <1>2, MoveHead
  <2> QED
    BY <1>1, <2>1 DEF Stream
<1>5. TypeOK'
  BY <1>1, <1>3 DEF IInv, TypeOK
<1>6. HeldInv' /\ StampInv' /\ ReadyInv'
  BY <1>1 DEF IInv, HeldInv, StampInv, ReadyInv
<1>7. PublisherOrder' /\ NoLoss'
  BY <1>1, <1>4 DEF IInv, PublisherOrder, NoLoss
<1> QED
  BY <1>5, <1>6, <1>7 DEF IInv

LEMMA NextIInv == IInv /\ [Next]_vars => IInv'
<1> SUFFICES ASSUME IInv, [Next]_vars PROVE IInv'
  OBVIOUS
<1>1. CASE bind_loop \/ StopLoop \/ CloseLoop \/ UNCHANGED vars
  <2>1. /\ loop' \in LoopState
        /\ UNCHANGED <<created, held, ready, queue, got, accepted, refused, lost>>
    BY <1>1 DEF bind_loop, StopLoop, CloseLoop, vars, LoopState, IInv, TypeOK
  <2> QED
    BY <2>1, LoopIInv
<1>2. ASSUME NEW p \in Publisher, Construct(p)
      PROVE  IInv'
  BY <1>2, ConstructIInv
<1>6. ASSUME NEW t \in Thread, publish_threadsafe(t)
      PROVE  IInv'
  BY <1>6, PublishThreadsafeIInv
<1>3. CASE put_nowait
  BY <1>3, PutNowaitIInv
<1>4. ASSUME NEW a \in Task, publish(a)
      PROVE  IInv'
  BY <1>4, PublishIInv
<1>5. CASE get
  BY <1>5, GetIInv
<1> QED
  BY <1>1, <1>2, <1>3, <1>4, <1>5, <1>6 DEF Next

(* The inductive invariant holds in every reachable state of the bus. *)
THEOREM Invariance == Spec => []IInv
<1> QED
  BY InitIInv, NextIInv, PTL DEF Spec

(* The bus's state keeps its types. *)
THEOREM TypeCorrect == Spec => []TypeOK
<1>1. IInv => TypeOK
  BY DEF IInv
<1> QED
  BY <1>1, Invariance, PTL

(* With any number of detector threads and coroutines, the events of each  *)
(* one go through call_soon_threadsafe, the queue and get in the order in  *)
(* which they were built, and at most once.                                *)
THEOREM OrderKept == Spec => []PublisherOrder
<1>1. IInv => PublisherOrder
  BY DEF IInv
<1> QED
  BY <1>1, Invariance, PTL

(* No accepted event disappears unless the queue is bounded, and a refused *)
(* or lost one never reaches the consumer.                                 *)
THEOREM NothingLost == Spec => []NoLoss
<1>1. IInv => NoLoss
  BY DEF IInv
<1> QED
  BY <1>1, Invariance, PTL

-----------------------------------------------------------------------------
(* The full stack: the main thread and the server thread on one bus. *)

(* engine_ready is set behind bind_loop and only read in front of the      *)
(* replay, and no step unbinds the engine.                                 *)
StackInv ==
    /\ drain \in {"bound", "draining", "cancelled"} => loop # "unbound"
    /\ engine_ready => loop # "unbound"
    /\ engine_ready \in BOOLEAN
    /\ NeverUnbound

LEMMA StackInitInv == StackInit => StackInv
BY DEF StackInit, Init, StackInv, NeverUnbound, Alive

(* A bound engine stays bound, and a closed loop closed, on every step of  *)
(* the server thread.                                                      *)
LEMMA ServerStepInv == StackInv /\ ServerStep => StackInv'
<1> SUFFICES ASSUME StackInv, ServerStep PROVE StackInv'
  OBVIOUS
<1> USE DEF StackInv, NeverUnbound, Alive
<1>1. UNCHANGED pc /\ Alive /\ refused = {}
  BY DEF ServerStep, Alive, lifespan_startup, ServerFails,
         drain_starts, drain_gets, run_callback, Listen,
         lifespan_shutdown, LoopEnds
<1>2. CASE lifespan_startup \/ ServerFails \/ Listen \/ lifespan_shutdown
  BY <1>1, <1>2 DEF lifespan_startup, ServerFails, Listen,
                    lifespan_shutdown, vars
<1>3. CASE drain_starts
  BY <1>1, <1>3 DEF drain_starts, bind_loop, vars
<1>4. CASE drain_gets \/ run_callback
  BY <1>1, <1>4 DEF drain_gets, run_callback, get, put_nowait
<1>5. CASE LoopEnds
  BY <1>1, <1>5 DEF LoopEnds, StopLoop, CloseLoop
<1> QED
  BY <1>2, <1>3, <1>4, <1>5 DEF ServerStep

(* A publish of the replay that raises ends it. *)
LEMMA CorrelatorMainInv == StackInv /\ correlator_main => StackInv'
<1> SUFFICES ASSUME StackInv, correlator_main PROVE StackInv'
  OBVIOUS
<1> USE DEF StackInv, NeverUnbound, Alive
<1>1. UNCHANGED <<server, drain, engine_ready>> /\ pc = "replay" /\ refused = {} /\ loop # "unbound"
  BY DEF correlator_main
<1>2. CASE Construct("main") /\ UNCHANGED pc
  BY <1>1, <1>2 DEF Construct
<1>3. CASE /\ publish_threadsafe("main")
           /\ pc' = IF refused' # refused THEN "raised" ELSE pc
  BY <1>1, <1>3 DEF publish_threadsafe
<1>4. CASE pc' \in {"join", "raised"} /\ UNCHANGED vars
  BY <1>1, <1>4 DEF vars
<1> QED
  BY <1>2, <1>3, <1>4 DEF correlator_main

LEMMA MainStepInv ==
    StackInv /\ (wait \/ prompt \/ join \/ KeyboardInterrupt) => StackInv'
<1> SUFFICES ASSUME StackInv, wait \/ prompt \/ join \/ KeyboardInterrupt
             PROVE  StackInv'
  OBVIOUS
<1> USE DEF StackInv, NeverUnbound, Alive
<1>1. UNCHANGED <<server, drain, engine_ready, loop, refused>> /\ (Alive' => Alive)
  BY DEF wait, prompt, join, KeyboardInterrupt, Alive, vars
<1>2. pc' \in {"prompt", "replay", "join"} => loop # "unbound"
  BY <1>1 DEF wait, prompt, join, KeyboardInterrupt
<1> QED
  BY <1>1, <1>2

(* engine_ready.wait in main.py: the replay never publishes to an engine   *)
(* without a loop, and a publish that the closed loop refuses ends it.     *)
THEOREM BoundBeforeReplay == StackSpec => []NeverUnbound
<1>1. StackInv /\ [StackNext]_stackVars => StackInv'
  <2> SUFFICES ASSUME StackInv, [StackNext]_stackVars PROVE StackInv'
    OBVIOUS
  <2>1. CASE UNCHANGED stackVars
    BY <2>1 DEF StackInv, NeverUnbound, Alive, stackVars, vars
  <2>2. CASE StackNext
    BY <2>2, ServerStepInv, CorrelatorMainInv, MainStepInv DEF StackNext
  <2> QED
    BY <2>1, <2>2
<1>2. StackInv => NeverUnbound
  BY DEF StackInv
<1> QED
  BY <1>1, <1>2, StackInitInv, PTL DEF StackSpec

-----------------------------------------------------------------------------
(* The detectors in front of the correlator. *)

Stamped == [from : Publisher, stamp : Nat]
Info    == [src : Src, event_type : EventType, timestamp : Int]
PEvent  == [uuid : Nat, event_type : EventType, timestamp : Int]

(* The type of an event is one that its source reports. *)
Fits(e, s) == s \in SrcOf(e.event_type)

(* Every event in the bus or in the drain task's hand has been described,  *)
(* and every source has only events of its own types.                      *)
PipeInv ==
    /\ now \in Int
    /\ created \in Nat
    /\ info \in Seq(Info) /\ Len(info) = created
    /\ \A n \in 1 .. Len(info) : Fits(info[n], info[n].src)
    /\ held \in [Publisher -> Seq(Stamped)]
    /\ \A p \in Publisher : held[p] # <<>> =>
          held[p][1] \in Stamped /\ held[p][1].stamp < created
    /\ ready \in Seq(Stamped) /\ \A i \in 1 .. Len(ready) : ready[i].stamp < created
    /\ queue \in Seq(Stamped) /\ \A i \in 1 .. Len(queue) : queue[i].stamp < created
    /\ got \in Seq(Stamped)
    /\ hand # <<>> => hand[1] \in Stamped /\ hand[1].stamp < created
    /\ window \in [Src -> Seq(PEvent)]
    /\ \A s \in Src : \A i \in 1 .. Len(window[s]) : Fits(window[s][i], s)
    /\ NeverEscalates

(* A non-empty set of naturals has a least element. *)
LEMMA LeastElement ==
    ASSUME NEW T \in SUBSET Nat, T # {}
    PROVE  \E x \in T : \A y \in T : x <= y
<1>1. PICK x \in T : \A y \in T : ~ (<<y, x>> \in OpToRel(<, Nat))
  BY NatLessThanWellFounded, WFMin
<1>2. \A y \in T : ~ (y < x)
  BY <1>1 DEF OpToRel
<1> QED
  BY <1>2

(* The loop of _prune_window terminates with a well-defined number of pops. *)
LEMMA PopCountExists ==
    ASSUME NEW w, NEW c \in Int, Len(w) \in Nat,
           \A i \in 1 .. Len(w) : w[i].timestamp \in Int
    PROVE  \E k \in 0 .. Len(w) : KC!IsPopCount(w, c, k)
<1> DEFINE fresh == {i \in 1 .. Len(w) : w[i].timestamp >= c}
<1>1. CASE fresh = {}
  <2>1. KC!IsPopCount(w, c, Len(w))
    BY <1>1 DEF KC!IsPopCount
  <2> QED
    BY <2>1
<1>2. CASE fresh # {}
  <2>1. fresh \in SUBSET Nat
    OBVIOUS
  <2>2. PICK m \in fresh : \A i \in fresh : m <= i
    BY <1>2, <2>1, LeastElement
  <2>3. m - 1 \in 0 .. Len(w) /\ m - 1 + 1 = m
    BY <2>2
  <2>4. KC!IsPopCount(w, c, m - 1)
    BY <2>2, <2>3 DEF KC!IsPopCount
  <2> QED
    BY <2>3, <2>4
<1> QED
  BY <1>1, <1>2

(* A source either never persists, or does nothing but persist.  (The      *)
(* misspelled stage of file_modified counts for nothing.)                  *)
LEMMA StagesOfSource ==
    ASSUME NEW s, NEW event_type \in EventType, s \in SrcOf(event_type)
    PROVE  IF s \in {"path", "pid=X comm=Y"}
           THEN KC!get_stage(event_type) \in {"persist", "persit"}
           ELSE KC!get_stage(event_type) \in {"recon", "exploit"}
<1> USE DEF SrcOf, SctpSrc, PayloadSrc, HijackSrc, FileSrc, BpfSrc,
            KC!get_stage, KC!STAGE_MAP
<1>1. CASE event_type = "sctp_init_flood"
  BY <1>1
<1>2. CASE event_type = "payload_scan_finding"
  BY <1>2
<1>3. CASE event_type = "tcp_hijack_seq_anomaly"
  BY <1>3
<1>4. CASE event_type = "file_created"
  BY <1>4
<1>5. CASE event_type = "file_modified"
  BY <1>5
<1>6. CASE event_type = "ebpf_unexpected_bpf_syscall"
  BY <1>6
<1> QED
  BY <1>1, <1>2, <1>3, <1>4, <1>5, <1>6 DEF EventType

(* No deque of one source shows the three stages. *)
LEMMA NoChain ==
    ASSUME NEW s, NEW w \in Seq(PEvent), \A i \in 1 .. Len(w) : Fits(w[i], s)
    PROVE  ~ KC!EvaluateKillChain(w)
<1>1. \A i \in 1 .. Len(w) : w[i].event_type \in EventType
  <2>1. \A i \in 1 .. Len(w) : w[i] \in PEvent
    BY ElementOfSeq
  <2> QED
    BY <2>1 DEF PEvent
<1>2. DOMAIN w = 1 .. Len(w)
  BY LenProperties
<1>3. KC!StagesOf(Range(w)) \subseteq {KC!get_stage(w[i].event_type) : i \in 1 .. Len(w)}
  BY <1>2 DEF KC!StagesOf, Range
<1>4. KC!StagesOf(Range(w)) \subseteq {"persist", "persit"}
      \/ KC!StagesOf(Range(w)) \subseteq {"recon", "exploit"}
  <2>1. CASE s \in {"path", "pid=X comm=Y"}
    <3>1. \A i \in 1 .. Len(w) : KC!get_stage(w[i].event_type) \in {"persist", "persit"}
      BY <1>1, <2>1, StagesOfSource DEF Fits
    <3> QED
      BY <1>3, <3>1
  <2>2. CASE s \notin {"path", "pid=X comm=Y"}
    <3>1. \A i \in 1 .. Len(w) : KC!get_stage(w[i].event_type) \in {"recon", "exploit"}
      BY <1>1, <2>2, StagesOfSource DEF Fits
    <3> QED
      BY <1>3, <3>1
  <2> QED
    BY <2>1, <2>2
<1> QED
  BY <1>4 DEF KC!EvaluateKillChain, KC!REQUIRED_STAGES, KC!Range, Range

(* _prune_window leaves a tail of the deque. *)
LEMMA PrunedFits ==
    ASSUME NEW s, NEW w \in Seq(PEvent), NEW c \in Int, \A i \in 1 .. Len(w) : Fits(w[i], s)
    PROVE  /\ KC!PruneWindow(w, c) \in Seq(PEvent)
           /\ \A i \in 1 .. Len(KC!PruneWindow(w, c)) : Fits(KC!PruneWindow(w, c)[i], s)
<1>1. Len(w) \in Nat /\ \A i \in 1 .. Len(w) : w[i] \in PEvent
  BY ElementOfSeq, LenProperties
<1>2. \A i \in 1 .. Len(w) : w[i].timestamp \in Int
  BY <1>1 DEF PEvent
<1>3. \E k \in 0 .. Len(w) : KC!IsPopCount(w, c, k)
  BY <1>1, <1>2, PopCountExists
<1> DEFINE k == KC!PopCount(w, c)
<1>4. k \in 0 .. Len(w)
  BY <1>3 DEF KC!PopCount
<1>5. KC!PruneWindow(w, c) = SubSeq(w, k + 1, Len(w))
  BY DEF KC!PruneWindow
<1> HIDE DEF k
<1> DEFINE m == k + 1
           n == Len(w)
           v == SubSeq(w, m, n)
<1>6. m \in Int /\ n \in Int
  BY <1>1, <1>4
<1>7. \A i \in m .. n : w[i] \in PEvent
  <2>1. \A i \in m .. n : i \in 1 .. Len(w)
    BY <1>1, <1>4
  <2> QED
    BY <1>1, <2>1
<1>8. \A i \in 1 .. n - m + 1 : m + i - 1 \in 1 .. Len(w)
  BY <1>1, <1>4
<1> HIDE DEF m, n
<1>9. /\ v \in Seq(PEvent)
      /\ Len(v) = IF m <= n THEN n - m + 1 ELSE 0
      /\ \A i \in 1 .. n - m + 1 : v[i] = w[m + i - 1]
  BY <1>6, <1>7, SubSeqProperties
<1> HIDE DEF v
<1>10. \A i \in 1 .. Len(v) : i \in 1 .. n - m + 1
  BY <1>6, <1>9
<1>11. \A i \in 1 .. Len(v) : Fits(v[i], s)
  BY <1>8, <1>9, <1>10
<1> QED
  BY <1>5, <1>9, <1>11 DEF v, m, n

LEMMA PipeInitInv == PipeInit => PipeInv
<1> SUFFICES ASSUME PipeInit PROVE PipeInv
  OBVIOUS
<1>1. Len(<<>>) = 0 /\ \A S : <<>> \in Seq(S)
  BY EmptySeq
<1>2. \A i : i \notin 1 .. 0
  OBVIOUS
<1> QED
  BY <1>1, <1>2 DEF PipeInit, Init, PipeInv, NeverEscalates

LEMMA PipeTickInv == PipeInv /\ Tick => PipeInv'
<1> SUFFICES ASSUME PipeInv, Tick PROVE PipeInv'
  OBVIOUS
<1>1. UNCHANGED <<info, hand, created, held, ready, queue, got, window, incident>>
  BY DEF Tick, corr, vars
<1>2. now' \in Int
  BY DEF PipeInv, Tick
<1> QED
  BY <1>1, <1>2 DEF PipeInv, NeverEscalates, Fits

LEMMA PipeConstructInv ==
    \A event_type \in EventType : PipeInv /\ Detect(event_type) => PipeInv'
<1> SUFFICES ASSUME NEW event_type \in EventType, PipeInv, Detect(event_type)
             PROVE  PipeInv'
  OBVIOUS
<1> DEFINE t == ThreadOf(event_type)
<1>1. t \in Thread
  BY PipelineAssumption DEF EventType, ThreadOf
<1>2. PICK src \in SrcOf(event_type) :
         info' = Append(info, [src |-> src, event_type |-> event_type, timestamp |-> now])
  BY DEF Detect
<1>3. /\ held' = [held EXCEPT ![t] = <<[from |-> t, stamp |-> created]>>]
      /\ created' = created + 1
      /\ UNCHANGED <<ready, queue, got, now, hand, window, incident>>
  BY DEF Detect, Construct, corr
<1> HIDE DEF t
<1> DEFINE e == [src |-> src, event_type |-> event_type, timestamp |-> now]
<1>4. e \in Info /\ Fits(e, e.src)
  BY DEF Info, Fits, Src, PipeInv
<1> HIDE DEF e
<1>5. /\ info' \in Seq(Info) /\ Len(info') = Len(info) + 1
      /\ \A n \in 1 .. Len(info) : info'[n] = info[n]
      /\ info'[Len(info) + 1] = e
  BY <1>2, <1>4, AppendProperties DEF PipeInv, e
<1>6. \A n \in 1 .. Len(info') : Fits(info'[n], info'[n].src)
  <2>1. Len(info) \in Nat /\ \A n \in 1 .. Len(info) + 1 : n \in 1 .. Len(info) \/ n = Len(info) + 1
    BY DEF PipeInv
  <2> QED
    BY <1>4, <1>5, <2>1 DEF PipeInv
<1>7. [from |-> t, stamp |-> created] \in Stamped
  BY <1>1 DEF PipeInv, Stamped
<1>8. held' \in [Publisher -> Seq(Stamped)]
  <2>1. <<[from |-> t, stamp |-> created]>> \in Seq(Stamped)
    BY <1>7
  <2> QED
    BY <1>3, <2>1 DEF PipeInv
<1>9. created \in Nat /\ created' \in Nat /\ created < created' /\ Len(info') = created'
  BY <1>3, <1>5 DEF PipeInv
<1>10. \A d \in Publisher : held'[d] # <<>> => held'[d][1] \in Stamped /\ held'[d][1].stamp < created'
  <2>1. held'[t][1] = [from |-> t, stamp |-> created]
    BY <1>1, <1>3 DEF PipeInv
  <2>2. \A d \in Publisher : d # t => held'[d] = held[d]
    BY <1>3 DEF PipeInv
  <2>3. \A d \in Publisher : d # t /\ held'[d] # <<>> => held'[d][1] \in Stamped /\ held'[d][1].stamp < created'
    <3>1. \A d \in Publisher : held[d] # <<>> => held[d][1] \in Stamped /\ held[d][1].stamp < created + 1
      BY <1>9 DEF PipeInv, Stamped
    <3> QED
      BY <1>3, <2>2, <3>1
  <2> QED
    BY <1>7, <1>9, <2>1, <2>3
<1>11. /\ \A i \in 1 .. Len(ready) : ready[i] \in Stamped
       /\ \A i \in 1 .. Len(queue) : queue[i] \in Stamped
  BY ElementOfSeq DEF PipeInv
<1>12. /\ \A i \in 1 .. Len(ready) : ready[i].stamp < created'
       /\ \A i \in 1 .. Len(queue) : queue[i].stamp < created'
       /\ hand # <<>> => hand[1].stamp < created'
  <2>1. \A x \in Stamped : x.stamp < created => x.stamp < created'
    BY <1>9 DEF Stamped
  <2>2. /\ \A i \in 1 .. Len(ready) : ready[i].stamp < created
        /\ \A i \in 1 .. Len(queue) : queue[i].stamp < created
        /\ hand # <<>> => hand[1] \in Stamped /\ hand[1].stamp < created
    BY DEF PipeInv
  <2> QED
    BY <1>11, <2>1, <2>2
<1> QED
  BY <1>3, <1>5, <1>6, <1>8, <1>9, <1>10, <1>12 DEF PipeInv, NeverEscalates, Fits

(* What call_soon_threadsafe, put_nowait and get move keeps its stamp. *)
LEMMA MoveKnown ==
    ASSUME NEW q \in Seq(Stamped), NEW e \in Stamped, NEW n \in Nat, e.stamp < n,
           \A i \in 1 .. Len(q) : q[i].stamp < n
    PROVE  /\ Append(q, e) \in Seq(Stamped)
           /\ \A i \in 1 .. Len(Append(q, e)) : Append(q, e)[i].stamp < n
<1>1. /\ Append(q, e) \in Seq(Stamped)
      /\ Len(Append(q, e)) = Len(q) + 1
      /\ \A i \in 1 .. Len(q) : Append(q, e)[i] = q[i]
      /\ Append(q, e)[Len(q) + 1] = e
  BY AppendProperties
<1>2. \A i \in 1 .. Len(q) + 1 : i \in 1 .. Len(q) \/ i = Len(q) + 1
  BY LenProperties
<1> QED
  BY <1>1, <1>2

LEMMA RestKnown ==
    ASSUME NEW q \in Seq(Stamped), q # <<>>, NEW n \in Nat,
           \A i \in 1 .. Len(q) : q[i].stamp < n
    PROVE  /\ Head(q) \in Stamped /\ Head(q).stamp < n
           /\ Tail(q) \in Seq(Stamped)
           /\ \A i \in 1 .. Len(Tail(q)) : Tail(q)[i].stamp < n
<1>1. /\ Head(q) \in Stamped /\ Head(q) = q[1]
      /\ Tail(q) \in Seq(Stamped)
      /\ Len(Tail(q)) = Len(q) - 1
      /\ \A i \in 1 .. Len(Tail(q)) : Tail(q)[i] = q[i + 1]
  BY HeadTailProperties
<1>2. Len(q) \in Nat \ {0} /\ 1 \in 1 .. Len(q)
  BY EmptySeq
<1>3. \A i \in 1 .. Len(Tail(q)) : i + 1 \in 1 .. Len(q)
  BY <1>1, <1>2
<1> QED
  BY <1>1, <1>2, <1>3

LEMMA PipeBusStepInv == PipeInv /\ BusStep => PipeInv'
<1> SUFFICES ASSUME PipeInv, BusStep PROVE PipeInv'
  OBVIOUS
<1>1. UNCHANGED <<now, info, hand, window, incident>>
  BY DEF BusStep, corr
<1>2. CASE bind_loop \/ StopLoop \/ CloseLoop
  <2>1. UNCHANGED <<created, held, ready, queue, got>>
    BY <1>2 DEF bind_loop, StopLoop, CloseLoop
  <2> QED
    BY <1>1, <2>1 DEF PipeInv, NeverEscalates, Fits
<1>3. CASE put_nowait
  <2>1. /\ UNCHANGED <<created, held, got>> /\ ready # <<>> /\ ready' = Tail(ready)
        /\ queue' \in {queue, Append(queue, Head(ready))}
    BY <1>3 DEF put_nowait
  <2>2. /\ Head(ready) \in Stamped /\ Head(ready).stamp < created
        /\ Tail(ready) \in Seq(Stamped)
        /\ \A i \in 1 .. Len(Tail(ready)) : Tail(ready)[i].stamp < created
    BY <2>1, RestKnown DEF PipeInv
  <2>3. /\ Append(queue, Head(ready)) \in Seq(Stamped)
        /\ \A i \in 1 .. Len(Append(queue, Head(ready))) : Append(queue, Head(ready))[i].stamp < created
    BY <2>2, MoveKnown DEF PipeInv
  <2>4. queue' \in Seq(Stamped) /\ \A i \in 1 .. Len(queue') : queue'[i].stamp < created
    BY <2>1, <2>3 DEF PipeInv
  <2> QED
    BY <1>1, <2>1, <2>2, <2>4 DEF PipeInv, NeverEscalates, Fits
<1>4. ASSUME NEW t \in Thread, publish_threadsafe(t)
      PROVE  PipeInv'
  <2>1. /\ UNCHANGED <<created, queue, got>> /\ held[t] # <<>>
        /\ held' = [held EXCEPT ![t] = <<>>]
        /\ ready' \in {ready, Append(ready, held[t][1])}
    BY <1>4 DEF publish_threadsafe
  <2>2. held[t][1] \in Stamped /\ held[t][1].stamp < created
    BY <1>4, <2>1 DEF PipeInv
  <2>3. /\ Append(ready, held[t][1]) \in Seq(Stamped)
        /\ \A i \in 1 .. Len(Append(ready, held[t][1])) : Append(ready, held[t][1])[i].stamp < created
    BY <2>2, MoveKnown DEF PipeInv
  <2>4. ready' \in Seq(Stamped) /\ \A i \in 1 .. Len(ready') : ready'[i].stamp < created
    BY <2>1, <2>3 DEF PipeInv
  <2>5. <<>> \in Seq(Stamped)
    BY EmptySeq
  <2>6. held' \in [Publisher -> Seq(Stamped)]
    BY <2>1, <2>5 DEF PipeInv
  <2>7. \A d \in Publisher : held'[d] # <<>> => held'[d] = held[d]
    BY <2>1 DEF PipeInv
  <2>8. \A d \in Publisher : held'[d] # <<>> => held'[d][1] \in Stamped /\ held'[d][1].stamp < created
    BY <2>7 DEF PipeInv
  <2> QED
    BY <1>1, <2>1, <2>4, <2>6, <2>8 DEF PipeInv, NeverEscalates, Fits
<1> QED
  BY <1>2, <1>3, <1>4 DEF BusStep

LEMMA PipeDrainGetInv == PipeInv /\ DrainGet => PipeInv'
<1> SUFFICES ASSUME PipeInv, DrainGet PROVE PipeInv'
  OBVIOUS
<1>1. /\ UNCHANGED <<now, info, window, incident, created, held, ready>>
      /\ queue # <<>> /\ queue' = Tail(queue)
      /\ hand' = <<got'[Len(got')]>> /\ got' = Append(got, Head(queue))
  BY DEF DrainGet, get, corr
<1>2. /\ Head(queue) \in Stamped /\ Head(queue).stamp < created
      /\ Tail(queue) \in Seq(Stamped)
      /\ \A i \in 1 .. Len(Tail(queue)) : Tail(queue)[i].stamp < created
  BY <1>1, RestKnown DEF PipeInv
<1>3. hand'[1] = Head(queue)
  <2>1. got \in Seq(Stamped)
    BY DEF PipeInv
  <2>2. Len(got') = Len(got) + 1 /\ got'[Len(got) + 1] = Head(queue)
    BY <1>1, <1>2, <2>1, AppendProperties
  <2> QED
    BY <1>1, <2>2
<1>4. got' \in Seq(Stamped)
  BY <1>1, <1>2, AppendProperties DEF PipeInv
<1> QED
  BY <1>1, <1>2, <1>3, <1>4 DEF PipeInv, NeverEscalates, Fits

(* add_event on the deque of the event's own source does not escalate. *)
LEMMA PipeDrainAddInv == PipeInv /\ DrainAdd => PipeInv'
<1> SUFFICES ASSUME PipeInv, DrainAdd PROVE PipeInv'
  OBVIOUS
<1> DEFINE n == hand[1].stamp + 1
           event == EventOf(hand[1].stamp)
           s == info[hand[1].stamp + 1].src
           q == Append(window[s], event)
           w == KC!PruneWindow(q, now - WindowDuration)
<1>1. /\ UNCHANGED <<now, info, created, held, ready, queue, got>>
      /\ hand # <<>> /\ hand' = <<>>
      /\ window' = [window EXCEPT ![s] = w]
      /\ incident' = IF KC!EvaluateKillChain(w) THEN {KC!Escalate(s, w)} ELSE {}
  BY DEF DrainAdd, vars
<1>2. n \in 1 .. Len(info) /\ hand[1].stamp \in Nat
  BY <1>1 DEF PipeInv, Stamped
<1>3. info[n] \in Info /\ Fits(info[n], info[n].src)
  BY <1>2, ElementOfSeq DEF PipeInv
<1>4. s \in Src /\ event \in PEvent /\ Fits(event, s)
  BY <1>2, <1>3 DEF Info, PEvent, EventOf, Fits
<1> HIDE DEF n, event, s
<1>5. /\ q \in Seq(PEvent)
      /\ \A i \in 1 .. Len(q) : Fits(q[i], s)
  <2>1. window[s] \in Seq(PEvent) /\ \A i \in 1 .. Len(window[s]) : Fits(window[s][i], s)
    BY <1>4 DEF PipeInv
  <2>2. /\ q \in Seq(PEvent) /\ Len(q) = Len(window[s]) + 1
        /\ \A i \in 1 .. Len(window[s]) : q[i] = window[s][i]
        /\ q[Len(window[s]) + 1] = event
    BY <1>4, <2>1, AppendProperties
  <2> HIDE DEF q
  <2>3. \A i \in 1 .. Len(window[s]) + 1 : i \in 1 .. Len(window[s]) \/ i = Len(window[s]) + 1
    BY <2>1, LenProperties
  <2> QED
    BY <1>4, <2>1, <2>2, <2>3
<1> HIDE DEF q
<1>6. now - WindowDuration \in Int
  BY PipelineAssumption DEF PipeInv
<1>7. w \in Seq(PEvent) /\ \A i \in 1 .. Len(w) : Fits(w[i], s)
  BY <1>5, <1>6, PrunedFits
<1> HIDE DEF w
<1>8. incident' = {}
  BY <1>1, <1>7, NoChain
<1>9. window' \in [Src -> Seq(PEvent)]
  BY <1>1, <1>7 DEF PipeInv
<1>10. \A r \in Src : \A i \in 1 .. Len(window'[r]) : Fits(window'[r][i], r)
  BY <1>1, <1>4, <1>7 DEF PipeInv
<1> QED
  BY <1>1, <1>8, <1>9, <1>10 DEF PipeInv, NeverEscalates, Fits

(* With the src values the detectors use, no interleaving of detectors,    *)
(* bus, clock and drain task makes add_event raise an incident.            *)
THEOREM NeverRaised == PipeSpec => []NeverEscalates
<1>1. PipeInv /\ [PipeNext]_(pipeVars) => PipeInv'
  <2> SUFFICES ASSUME PipeInv, [PipeNext]_(pipeVars) PROVE PipeInv'
    OBVIOUS
  <2>1. CASE UNCHANGED pipeVars
    BY <2>1 DEF pipeVars, corr, vars, PipeInv, NeverEscalates, Fits
  <2>2. CASE PipeNext
    BY <2>2, PipeTickInv, PipeConstructInv, PipeBusStepInv, PipeDrainGetInv, PipeDrainAddInv
       DEF PipeNext
  <2> QED
    BY <2>1, <2>2
<1>2. PipeInv => NeverEscalates
  BY DEF PipeInv
<1> QED
  BY <1>1, <1>2, PipeInitInv, PTL DEF PipeSpec
=============================================================================
