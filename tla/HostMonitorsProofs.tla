------------------------- MODULE HostMonitorsProofs -------------------------
(* Proofs about HostMonitors, for every set of file alerts and any number  *)
(* of events and calls.                                                    *)
EXTENDS HostMonitors, SequenceTheorems, TLAPS

USE HostAssumption

-----------------------------------------------------------------------------
(* The inductive invariant. *)

Occurrence(types) == [type : types, ignored : BOOLEAN, n : Nat]
Alert == [type : FileType \cup EbpfType, n : Nat]

TypeOK ==
    /\ main \in {"starting", "starting_consumer", "running", "stopping", "join_observer",
                 "join_ebpf", "join_consumer", "locking", "reporting", "done", "aborted"}
    /\ stop_event \in BOOLEAN
    /\ report \subseteq {FileType, EbpfType}
    /\ observer \in {"idle", "waiting", "publishing", "exited", "dead"}
    /\ observerStop \in BOOLEAN
    /\ fs \in Seq(Occurrence(FileType))
    /\ fsDone \in Seq(Occurrence(FileType))
    /\ ebpf \in {"none", "idle", "polling", "publishing", "exited"}
    /\ perf \in Seq(Occurrence(EbpfType))
    /\ due \in Nat
    /\ perfDone \in Seq(Occurrence(EbpfType))
    /\ consumer \in {"none", "idle", "getting", "locking", "holding", "exited"}
    /\ hand \in Seq(Alert)
    /\ ALERT_QUEUE \in Seq(Alert)
    /\ pushed \in Seq(Alert)
    /\ taken \in Nat
    /\ seen_types \subseteq FileType \cup EbpfType
    /\ lock \in {"free", "consumer", "main"}

(* Occurrences are numbered as they happen and handled in that order. *)
Numbered(done, waiting) ==
    /\ \A i \in 1 .. Len(done) : done[i].n = i
    /\ \A i \in 1 .. Len(waiting) : waiting[i].n = Len(done) + i

NumberInv == Numbered(fsDone, fs) /\ Numbered(perfDone, perf)

(* What the consumer has not taken is in the queue. *)
QueueInv ==
    /\ taken <= Len(pushed)
    /\ Len(ALERT_QUEUE) = Len(pushed) - taken
    /\ \A i \in 1 .. Len(ALERT_QUEUE) : ALERT_QUEUE[i] = pushed[taken + i]

(* The consumer holds the last alert it took exactly while it waits for    *)
(* the lock; the others are in seen_types.                                 *)
SeenInv ==
    /\ hand = IF consumer = "locking" THEN <<pushed[taken]>> ELSE <<>>
    /\ consumer = "locking" => taken >= 1
    /\ seen_types = {pushed[i].type : i \in 1 .. taken - Len(hand)}

(* Who holds the lock; the consumer exists from StartConsumer on. *)
LockInv ==
    /\ main \in {"starting", "starting_consumer"} => consumer = "none"
    /\ main = "reporting" => lock = "main"
    /\ consumer = "holding" => lock = "consumer"

(* The report covers seen_types from when main computes it on. *)
ReportInv ==
    main \in {"reporting", "done"} =>
        /\ \A side \in report : \E i \in 1 .. Len(pushed) : pushed[i].type \in side
        /\ \A type \in seen_types : \E side \in report : type \in side

IInv ==
    /\ TypeOK
    /\ NumberInv
    /\ HandledIsAlerted
    /\ QueueInv
    /\ SeenInv
    /\ LockInv
    /\ ReportInv
-----------------------------------------------------------------------------
(* Alerts and occurrences in step with each other. *)

(* AlertedInOrder for any sequence of alerts. *)
InOrder(alerts, types, done) ==
    /\ {a \in Range(alerts) : a.type \in types} =
          {[type |-> o.type, n |-> o.n] : o \in {d \in Range(done) : ~ d.ignored}}
    /\ \A i, j \in DOMAIN alerts :
          i < j /\ {alerts[i].type, alerts[j].type} \subseteq types
              => alerts[i].n < alerts[j].n

LEMMA RangeAppend ==
    ASSUME NEW S, NEW q \in Seq(S), NEW e \in S
    PROVE  Range(Append(q, e)) = Range(q) \cup {e}
<1>1. /\ Append(q, e) \in Seq(S)
      /\ Len(Append(q, e)) = Len(q) + 1
      /\ \A i \in 1 .. Len(q) : Append(q, e)[i] = q[i]
      /\ Append(q, e)[Len(q) + 1] = e
  BY AppendProperties
<1>2. /\ Len(q) \in Nat
      /\ DOMAIN q = 1 .. Len(q)
      /\ DOMAIN Append(q, e) = 1 .. Len(q) + 1
  BY <1>1, LenProperties
<1>3. \A i : i \in 1 .. Len(q) + 1 <=> i \in 1 .. Len(q) \/ i = Len(q) + 1
  BY <1>2
<1> QED
  BY <1>1, <1>2, <1>3 DEF Range

(* An occurrence that is ignored leaves no alert. *)
LEMMA IgnoredInOrder ==
    ASSUME NEW p, NEW types, NEW done \in Seq(Occurrence(types)),
           NEW o \in Occurrence(types), o.ignored, InOrder(p, types, done)
    PROVE  InOrder(p, types, Append(done, o))
<1>1. Range(Append(done, o)) = Range(done) \cup {o}
  BY RangeAppend
<1>2. {d \in Range(Append(done, o)) : ~ d.ignored} = {d \in Range(done) : ~ d.ignored}
  BY <1>1
<1> QED
  BY <1>2 DEF InOrder

(* An alert of the other side does not matter. *)
LEMMA OtherInOrder ==
    ASSUME NEW p \in Seq(Alert), NEW types, NEW done, NEW a \in Alert,
           a.type \notin types, InOrder(p, types, done)
    PROVE  InOrder(Append(p, a), types, done)
<1>1. Range(Append(p, a)) = Range(p) \cup {a}
  BY RangeAppend
<1>2. {b \in Range(Append(p, a)) : b.type \in types} = {b \in Range(p) : b.type \in types}
  BY <1>1
<1>3. /\ Append(p, a) \in Seq(Alert)
      /\ Len(Append(p, a)) = Len(p) + 1
      /\ \A i \in 1 .. Len(p) : Append(p, a)[i] = p[i]
      /\ Append(p, a)[Len(p) + 1] = a
  BY AppendProperties
<1>4. /\ Len(p) \in Nat /\ DOMAIN p = 1 .. Len(p)
      /\ DOMAIN Append(p, a) = 1 .. Len(p) + 1
  BY <1>3, LenProperties
<1>5. ASSUME NEW i \in DOMAIN Append(p, a), NEW j \in DOMAIN Append(p, a), i < j,
             {Append(p, a)[i].type, Append(p, a)[j].type} \subseteq types
      PROVE  Append(p, a)[i].n < Append(p, a)[j].n
  <2>1. i # Len(p) + 1 /\ j # Len(p) + 1
    BY <1>3, <1>5
  <2>2. i \in 1 .. Len(p) /\ j \in 1 .. Len(p)
    BY <1>4, <2>1
  <2> QED
    BY <1>3, <1>4, <1>5, <2>2 DEF InOrder
<1> QED
  BY <1>2, <1>5 DEF InOrder

(* An alert pushed with the occurrence it is about comes after the others. *)
LEMMA PushedInOrder ==
    ASSUME NEW p \in Seq(Alert), NEW types, types \subseteq FileType \cup EbpfType,
           NEW done \in Seq(Occurrence(types)), \A i \in 1 .. Len(done) : done[i].n = i,
           NEW o \in Occurrence(types), ~ o.ignored, o.n = Len(done) + 1,
           InOrder(p, types, done)
    PROVE  InOrder(Append(p, [type |-> o.type, n |-> o.n]), types, Append(done, o))
<1> DEFINE a == [type |-> o.type, n |-> o.n]
<1>0. a \in Alert /\ a.type \in types /\ a.n = Len(done) + 1
  BY DEF Alert, Occurrence
<1>1. {[type |-> x.type, n |-> x.n] : x \in {d \in Range(Append(done, o)) : ~ d.ignored}}
        = {[type |-> x.type, n |-> x.n] : x \in {d \in Range(done) : ~ d.ignored}} \cup {a}
  <2>1. Range(Append(done, o)) = Range(done) \cup {o}
    BY RangeAppend
  <2>2. {d \in Range(Append(done, o)) : ~ d.ignored}
           = {d \in Range(done) : ~ d.ignored} \cup {o}
    BY <2>1
  <2> QED
    BY <2>2
<1> HIDE DEF a
<1>2. {b \in Range(Append(p, a)) : b.type \in types}
        = {b \in Range(p) : b.type \in types} \cup {a}
  <2>1. Range(Append(p, a)) = Range(p) \cup {a}
    BY <1>0, RangeAppend
  <2> QED
    BY <1>0, <2>1
<1>3. /\ Append(p, a) \in Seq(Alert)
      /\ Len(Append(p, a)) = Len(p) + 1
      /\ \A i \in 1 .. Len(p) : Append(p, a)[i] = p[i]
      /\ Append(p, a)[Len(p) + 1] = a
  BY <1>0, AppendProperties
<1>4. /\ Len(p) \in Nat /\ DOMAIN p = 1 .. Len(p)
      /\ DOMAIN Append(p, a) = 1 .. Len(p) + 1
      /\ Len(done) \in Nat /\ DOMAIN done = 1 .. Len(done)
  BY <1>3, LenProperties
<1>5. ASSUME NEW i \in 1 .. Len(p), p[i].type \in types
      PROVE  p[i].n < a.n
  <2>1. p[i] \in Range(p)
    BY <1>4 DEF Range
  <2>2. PICK d \in Range(done) : p[i] = [type |-> d.type, n |-> d.n]
    BY <1>5, <2>1 DEF InOrder
  <2>3. PICK k \in 1 .. Len(done) : d = done[k]
    BY <1>4, <2>2 DEF Range
  <2>4. p[i].n = k
    BY <2>2, <2>3
  <2> QED
    BY <1>0, <1>4, <2>3, <2>4
<1>6. ASSUME NEW i \in DOMAIN Append(p, a), NEW j \in DOMAIN Append(p, a), i < j,
             {Append(p, a)[i].type, Append(p, a)[j].type} \subseteq types
      PROVE  Append(p, a)[i].n < Append(p, a)[j].n
  <2>1. i \in 1 .. Len(p)
    BY <1>4, <1>6
  <2>2. CASE j = Len(p) + 1
    BY <1>3, <1>5, <1>6, <2>1, <2>2
  <2>3. CASE j # Len(p) + 1
    <3>1. j \in 1 .. Len(p)
      BY <1>4, <2>3
    <3> QED
      BY <1>3, <1>4, <1>6, <2>1, <3>1 DEF InOrder
  <2> QED
    BY <2>2, <2>3
<1>7. InOrder(Append(p, a), types, Append(done, o))
  BY <1>1, <1>2, <1>6 DEF InOrder
<1> QED
  BY <1>7 DEF a

-----------------------------------------------------------------------------
(* Sequences of numbered occurrences. *)

(* A new occurrence gets the next number. *)
LEMMA NumberedArrival ==
    ASSUME NEW types, NEW done \in Seq(Occurrence(types)), NEW waiting \in Seq(Occurrence(types)),
           Numbered(done, waiting), NEW o \in Occurrence(types),
           o.n = Len(done) + Len(waiting) + 1
    PROVE  /\ Append(waiting, o) \in Seq(Occurrence(types))
           /\ Numbered(done, Append(waiting, o))
<1>1. /\ Append(waiting, o) \in Seq(Occurrence(types))
      /\ Len(Append(waiting, o)) = Len(waiting) + 1
      /\ \A i \in 1 .. Len(waiting) : Append(waiting, o)[i] = waiting[i]
      /\ Append(waiting, o)[Len(waiting) + 1] = o
  BY AppendProperties
<1>2. Len(waiting) \in Nat /\ Len(done) \in Nat
  BY LenProperties
<1>3. \A i \in 1 .. Len(Append(waiting, o)) : i \in 1 .. Len(waiting) \/ i = Len(waiting) + 1
  BY <1>1, <1>2
<1>4. \A i \in 1 .. Len(waiting) : waiting[i].n = Len(done) + i
  BY DEF Numbered
<1>5. o.n = Len(done) + (Len(waiting) + 1)
  BY <1>2
<1>6. \A i \in 1 .. Len(Append(waiting, o)) : Append(waiting, o)[i].n = Len(done) + i
  BY <1>1, <1>3, <1>4, <1>5
<1> QED
  BY <1>1, <1>6 DEF Numbered

(* The oldest waiting occurrence is the next to be handled. *)
LEMMA NumberedHandling ==
    ASSUME NEW types, NEW done \in Seq(Occurrence(types)), NEW waiting \in Seq(Occurrence(types)),
           Numbered(done, waiting), waiting # <<>>
    PROVE  /\ Head(waiting) \in Occurrence(types)
           /\ Head(waiting).n = Len(done) + 1
           /\ Tail(waiting) \in Seq(Occurrence(types))
           /\ Append(done, Head(waiting)) \in Seq(Occurrence(types))
           /\ Numbered(Append(done, Head(waiting)), Tail(waiting))
<1>1. /\ Head(waiting) \in Occurrence(types)
      /\ Head(waiting) = waiting[1]
      /\ Tail(waiting) \in Seq(Occurrence(types))
      /\ Len(Tail(waiting)) = Len(waiting) - 1
      /\ \A i \in 1 .. Len(Tail(waiting)) : Tail(waiting)[i] = waiting[i + 1]
  BY HeadTailProperties
<1>2. /\ Append(done, Head(waiting)) \in Seq(Occurrence(types))
      /\ Len(Append(done, Head(waiting))) = Len(done) + 1
      /\ \A i \in 1 .. Len(done) : Append(done, Head(waiting))[i] = done[i]
      /\ Append(done, Head(waiting))[Len(done) + 1] = Head(waiting)
  BY <1>1, AppendProperties
<1>3. Len(waiting) \in Nat \ {0} /\ Len(done) \in Nat
  BY EmptySeq, LenProperties
<1>4. Head(waiting).n = Len(done) + 1
  BY <1>1, <1>3 DEF Numbered
<1>5. \A i \in 1 .. Len(Append(done, Head(waiting))) : Append(done, Head(waiting))[i].n = i
  <2>1. \A i \in 1 .. Len(Append(done, Head(waiting))) : i \in 1 .. Len(done) \/ i = Len(done) + 1
    BY <1>2, <1>3
  <2> QED
    BY <1>2, <1>4, <2>1 DEF Numbered
<1>6. \A i \in 1 .. Len(Tail(waiting)) :
          Tail(waiting)[i].n = Len(Append(done, Head(waiting))) + i
  <2>1. \A i \in 1 .. Len(Tail(waiting)) : i + 1 \in 1 .. Len(waiting)
    BY <1>1, <1>3
  <2>2. \A i \in 1 .. Len(Tail(waiting)) : Tail(waiting)[i].n = Len(done) + (i + 1)
    BY <1>1, <2>1 DEF Numbered
  <2> QED
    BY <1>2, <1>3, <2>2
<1> QED
  BY <1>1, <1>2, <1>4, <1>5, <1>6 DEF Numbered

-----------------------------------------------------------------------------
(* Steps of the handlers and of their environment. *)

LEMMA InitialInv == Init => IInv
<1> SUFFICES ASSUME Init PROVE IInv
  OBVIOUS
<1> USE DEF Init
<1>1. TypeOK
  <2>1. \A S : <<>> \in Seq(S)
    BY EmptySeq
  <2> QED
    BY <2>1 DEF TypeOK
<1>2. NumberInv /\ QueueInv
  BY DEF NumberInv, Numbered, QueueInv
<1>3. HandledIsAlerted
  BY DEF HandledIsAlerted, AlertedInOrder, Range
<1>4. SeenInv
  <2>1. 1 .. taken - Len(hand) = {}
    OBVIOUS
  <2> QED
    BY <2>1 DEF SeenInv
<1>5. LockInv /\ ReportInv
  BY DEF LockInv, ReportInv
<1> QED
  BY <1>1, <1>2, <1>3, <1>4, <1>5 DEF IInv

(* What the consumer and main know survives a step that leaves the queue   *)
(* and both threads alone.                                                 *)
LEMMA ReadersUnchanged ==
    ASSUME IInv, UNCHANGED <<mainVars, consumerVars, lock, queueVars>>
    PROVE  QueueInv' /\ SeenInv' /\ LockInv' /\ ReportInv'
BY DEF IInv, QueueInv, SeenInv, LockInv, ReportInv, mainVars, consumerVars, queueVars

LEMMA FileEventStep ==
    ASSUME IInv, NEW type \in FileType, NEW ignored \in BOOLEAN, FileEvent(type, ignored)
    PROVE  IInv'
<1> DEFINE o == [type |-> type, ignored |-> ignored, n |-> Len(fsDone) + Len(fs) + 1]
<1>1. /\ fs' = Append(fs, o)
      /\ UNCHANGED <<mainVars, observer, observerStop, fsDone, ebpfVars,
                     consumerVars, lock, queueVars>>
  BY DEF FileEvent
<1>2. fs \in Seq(Occurrence(FileType)) /\ fsDone \in Seq(Occurrence(FileType))
      /\ Numbered(fsDone, fs)
  BY DEF IInv, TypeOK, NumberInv
<1>3. o \in Occurrence(FileType) /\ o.n = Len(fsDone) + Len(fs) + 1
  BY <1>2, LenProperties DEF Occurrence
<1> HIDE DEF o
<1>4. fs' \in Seq(Occurrence(FileType)) /\ Numbered(fsDone, fs')
  BY <1>1, <1>2, <1>3, NumberedArrival
<1>5. TypeOK' /\ NumberInv'
  BY <1>1, <1>4 DEF IInv, TypeOK, NumberInv, Numbered, mainVars, ebpfVars, consumerVars, queueVars
<1>6. HandledIsAlerted'
  BY <1>1 DEF IInv, HandledIsAlerted, AlertedInOrder, ebpfVars, queueVars
<1> QED
  BY <1>1, <1>5, <1>6, ReadersUnchanged DEF IInv

LEMMA BpfCallStep ==
    ASSUME IInv, NEW ignored \in BOOLEAN, BpfCall(ignored)
    PROVE  IInv'
<1>0. PICK type \in EbpfType :
          perf' = Append(perf, [type |-> type, ignored |-> ignored,
                                n |-> Len(perfDone) + Len(perf) + 1])
  BY DEF BpfCall
<1> DEFINE o == [type |-> type, ignored |-> ignored, n |-> Len(perfDone) + Len(perf) + 1]
<1>1. /\ perf' = Append(perf, o)
      /\ UNCHANGED <<mainVars, fileVars, ebpf, due, perfDone, consumerVars, lock, queueVars>>
  BY <1>0 DEF BpfCall
<1>2. perf \in Seq(Occurrence(EbpfType)) /\ perfDone \in Seq(Occurrence(EbpfType))
      /\ Numbered(perfDone, perf)
  BY DEF IInv, TypeOK, NumberInv
<1>3. o \in Occurrence(EbpfType) /\ o.n = Len(perfDone) + Len(perf) + 1
  BY <1>2, LenProperties DEF Occurrence
<1> HIDE DEF o
<1>4. perf' \in Seq(Occurrence(EbpfType)) /\ Numbered(perfDone, perf')
  BY <1>1, <1>2, <1>3, NumberedArrival
<1>5. TypeOK' /\ NumberInv'
  <2>1. TypeOK'
    BY <1>1, <1>4 DEF IInv, TypeOK, mainVars, fileVars, consumerVars, queueVars
  <2>2. Numbered(perfDone', perf') /\ UNCHANGED <<fs, fsDone>>
    BY <1>1, <1>4 DEF fileVars
  <2> QED
    BY <2>1, <2>2 DEF IInv, NumberInv, Numbered
<1>6. HandledIsAlerted'
  BY <1>1 DEF IInv, HandledIsAlerted, AlertedInOrder, fileVars, queueVars
<1> QED
  BY <1>1, <1>5, <1>6, ReadersUnchanged DEF IInv

(* push_alert appends to the queue and changes nothing the readers know. *)
LEMMA PushAlertKeeps ==
    ASSUME IInv, NEW o, [type |-> o.type, n |-> o.n] \in Alert, PushAlert(o),
           UNCHANGED <<mainVars, consumerVars, lock>>
    PROVE  /\ ALERT_QUEUE' \in Seq(Alert) /\ pushed' \in Seq(Alert)
           /\ QueueInv' /\ SeenInv' /\ LockInv' /\ ReportInv'
<1> DEFINE a == [type |-> o.type, n |-> o.n]
<1>1. ALERT_QUEUE' = Append(ALERT_QUEUE, a) /\ pushed' = Append(pushed, a) /\ a \in Alert
  BY DEF PushAlert
<1> HIDE DEF a
<1>2. /\ ALERT_QUEUE \in Seq(Alert) /\ Len(ALERT_QUEUE) \in Nat
      /\ pushed \in Seq(Alert) /\ Len(pushed) \in Nat
      /\ taken \in Nat
  BY LenProperties DEF IInv, TypeOK
<1>3. /\ ALERT_QUEUE' \in Seq(Alert)
      /\ Len(ALERT_QUEUE') = Len(ALERT_QUEUE) + 1
      /\ \A i \in 1 .. Len(ALERT_QUEUE) : ALERT_QUEUE'[i] = ALERT_QUEUE[i]
      /\ ALERT_QUEUE'[Len(ALERT_QUEUE) + 1] = a
  BY <1>1, <1>2, AppendProperties
<1>4. /\ pushed' \in Seq(Alert)
      /\ Len(pushed') = Len(pushed) + 1
      /\ \A i \in 1 .. Len(pushed) : pushed'[i] = pushed[i]
      /\ pushed'[Len(pushed) + 1] = a
  BY <1>1, <1>2, AppendProperties
<1>5. /\ taken <= Len(pushed)
      /\ Len(ALERT_QUEUE) = Len(pushed) - taken
      /\ \A i \in 1 .. Len(ALERT_QUEUE) : ALERT_QUEUE[i] = pushed[taken + i]
  BY DEF IInv, QueueInv
<1>6. UNCHANGED <<main, report, consumer, hand, seen_types, taken, lock>>
  BY DEF mainVars, consumerVars
<1>7. QueueInv'
  <2>1. ASSUME NEW i \in 1 .. Len(ALERT_QUEUE')
        PROVE  ALERT_QUEUE'[i] = pushed'[taken + i]
    <3>1. CASE i = Len(ALERT_QUEUE) + 1
      <4>1. taken + i = Len(pushed) + 1
        BY <1>2, <1>5, <3>1
      <4> QED
        BY <1>3, <1>4, <3>1, <4>1
    <3>2. CASE i # Len(ALERT_QUEUE) + 1
      <4>1. i \in 1 .. Len(ALERT_QUEUE) /\ taken + i \in 1 .. Len(pushed)
        BY <1>2, <1>3, <1>5, <3>2
      <4> QED
        BY <1>3, <1>4, <1>5, <4>1
    <3> QED
      BY <3>1, <3>2
  <2>2. taken <= Len(pushed') /\ Len(ALERT_QUEUE') = Len(pushed') - taken
    BY <1>2, <1>3, <1>4, <1>5
  <2> QED
    BY <1>6, <2>1, <2>2 DEF QueueInv
<1>8. SeenInv'
  <2>1. consumer = "locking" => taken >= 1 /\ pushed'[taken] = pushed[taken]
    <3>1. consumer = "locking" => taken >= 1
      BY DEF IInv, SeenInv
    <3> QED
      BY <1>2, <1>4, <1>5, <3>1
  <2>2. Len(hand) \in Nat
    BY LenProperties DEF IInv, TypeOK
  <2>3. \A i \in 1 .. taken - Len(hand) : pushed'[i] = pushed[i]
    BY <1>2, <1>4, <1>5, <2>2
  <2>4. {pushed'[i].type : i \in 1 .. taken - Len(hand)}
           = {pushed[i].type : i \in 1 .. taken - Len(hand)}
    BY <2>3
  <2> QED
    BY <1>6, <2>1, <2>4 DEF IInv, SeenInv
<1>9. LockInv'
  BY <1>6 DEF IInv, LockInv
<1>10. ReportInv'
  <2>1. \A i \in 1 .. Len(pushed) : i \in 1 .. Len(pushed') /\ pushed'[i] = pushed[i]
    BY <1>2, <1>4
  <2> QED
    BY <1>6, <2>1 DEF IInv, ReportInv
<1> QED
  BY <1>3, <1>4, <1>7, <1>8, <1>9, <1>10

LEMMA OnFileEventStep ==
    ASSUME IInv, OnFileEvent
    PROVE  IInv'
<1> DEFINE o == Head(fs)
<1>1. /\ fs # <<>>
      /\ fs' = Tail(fs)
      /\ fsDone' = Append(fsDone, o)
      /\ UNCHANGED <<mainVars, observerStop, ebpfVars, consumerVars, lock>>
      /\ observer' \in {"idle", "publishing"}
      /\ (o.ignored /\ UNCHANGED queueVars) \/ (~ o.ignored /\ PushAlert(o))
  BY DEF OnFileEvent, AlertFile
<1>2. /\ fs \in Seq(Occurrence(FileType)) /\ fsDone \in Seq(Occurrence(FileType))
      /\ Numbered(fsDone, fs) /\ pushed \in Seq(Alert)
      /\ InOrder(pushed, FileType, fsDone)
      /\ InOrder(pushed, EbpfType, perfDone)
  BY DEF IInv, TypeOK, NumberInv, HandledIsAlerted, AlertedInOrder, InOrder
<1>3. /\ o \in Occurrence(FileType)
      /\ o.n = Len(fsDone) + 1
      /\ fs' \in Seq(Occurrence(FileType))
      /\ fsDone' \in Seq(Occurrence(FileType))
      /\ Numbered(fsDone', fs')
  BY <1>1, <1>2, NumberedHandling
<1> HIDE DEF o
<1>4. NumberInv'
  BY <1>1, <1>3 DEF IInv, NumberInv, Numbered, ebpfVars
<1>5. CASE o.ignored /\ UNCHANGED queueVars
  <2>1. InOrder(pushed, FileType, fsDone')
    BY <1>1, <1>2, <1>3, <1>5, IgnoredInOrder
  <2>2. HandledIsAlerted'
    BY <1>1, <1>2, <1>5, <2>1 DEF HandledIsAlerted, AlertedInOrder, InOrder, ebpfVars, queueVars
  <2>3. QueueInv' /\ SeenInv' /\ LockInv' /\ ReportInv'
    BY <1>1, <1>5, ReadersUnchanged
  <2>4. TypeOK'
    BY <1>1, <1>3, <1>5 DEF IInv, TypeOK, mainVars, ebpfVars, consumerVars, queueVars
  <2> QED
    BY <1>4, <2>2, <2>3, <2>4 DEF IInv
<1>6. CASE ~ o.ignored /\ PushAlert(o)
  <2> DEFINE a == [type |-> o.type, n |-> o.n]
  <2>1. a \in Alert /\ a.type \in FileType /\ pushed' = Append(pushed, a)
    BY <1>3, <1>6 DEF Alert, Occurrence, PushAlert
  <2>2. InOrder(pushed', FileType, fsDone')
    BY <1>1, <1>2, <1>3, <1>6, <2>1, PushedInOrder DEF Numbered
  <2>3. /\ ALERT_QUEUE' \in Seq(Alert) /\ pushed' \in Seq(Alert)
        /\ QueueInv' /\ SeenInv' /\ LockInv' /\ ReportInv'
    BY <1>1, <1>6, <2>1, PushAlertKeeps
  <2> HIDE DEF a
  <2>4. InOrder(pushed', EbpfType, perfDone)
    BY <1>2, <2>1, OtherInOrder
  <2>5. HandledIsAlerted'
    BY <1>1, <2>2, <2>4 DEF HandledIsAlerted, AlertedInOrder, InOrder, ebpfVars
  <2>6. TypeOK'
    BY <1>1, <1>3, <2>3 DEF IInv, TypeOK, mainVars, ebpfVars, consumerVars
  <2> QED
    BY <1>4, <2>3, <2>5, <2>6 DEF IInv
<1> QED
  BY <1>1, <1>5, <1>6

LEMMA HandleEventStep ==
    ASSUME IInv, HandleEvent
    PROVE  IInv'
<1> DEFINE o == Head(perf)
<1>1. /\ perf # <<>>
      /\ perf' = Tail(perf)
      /\ perfDone' = Append(perfDone, o)
      /\ UNCHANGED <<mainVars, fileVars, consumerVars, lock>>
      /\ ebpf' \in {ebpf, "publishing"}
      /\ due' \in Nat
      /\ (o.ignored /\ UNCHANGED queueVars) \/ (~ o.ignored /\ PushAlert(o))
  BY DEF HandleEvent, IInv, TypeOK
<1>2. /\ perf \in Seq(Occurrence(EbpfType)) /\ perfDone \in Seq(Occurrence(EbpfType))
      /\ Numbered(perfDone, perf) /\ pushed \in Seq(Alert)
      /\ InOrder(pushed, FileType, fsDone)
      /\ InOrder(pushed, EbpfType, perfDone)
  BY DEF IInv, TypeOK, NumberInv, HandledIsAlerted, AlertedInOrder, InOrder
<1>3. /\ o \in Occurrence(EbpfType)
      /\ o.n = Len(perfDone) + 1
      /\ perf' \in Seq(Occurrence(EbpfType))
      /\ perfDone' \in Seq(Occurrence(EbpfType))
      /\ Numbered(perfDone', perf')
  BY <1>1, <1>2, NumberedHandling
<1> HIDE DEF o
<1>4. NumberInv'
  BY <1>1, <1>3 DEF IInv, NumberInv, Numbered, fileVars
<1>5. CASE o.ignored /\ UNCHANGED queueVars
  <2>1. InOrder(pushed, EbpfType, perfDone')
    BY <1>1, <1>2, <1>3, <1>5, IgnoredInOrder
  <2>2. HandledIsAlerted'
    BY <1>1, <1>2, <1>5, <2>1 DEF HandledIsAlerted, AlertedInOrder, InOrder, fileVars, queueVars
  <2>3. QueueInv' /\ SeenInv' /\ LockInv' /\ ReportInv'
    BY <1>1, <1>5, ReadersUnchanged
  <2>4. TypeOK'
    BY <1>1, <1>3, <1>5 DEF IInv, TypeOK, mainVars, fileVars, consumerVars, queueVars
  <2> QED
    BY <1>4, <2>2, <2>3, <2>4 DEF IInv
<1>6. CASE ~ o.ignored /\ PushAlert(o)
  <2> DEFINE a == [type |-> o.type, n |-> o.n]
  <2>1. a \in Alert /\ a.type \notin FileType /\ pushed' = Append(pushed, a)
    BY <1>3, <1>6 DEF Alert, Occurrence, PushAlert
  <2>2. InOrder(pushed', EbpfType, perfDone')
    BY <1>1, <1>2, <1>3, <1>6, <2>1, PushedInOrder DEF Numbered
  <2>3. /\ ALERT_QUEUE' \in Seq(Alert) /\ pushed' \in Seq(Alert)
        /\ QueueInv' /\ SeenInv' /\ LockInv' /\ ReportInv'
    BY <1>1, <1>6, <2>1, PushAlertKeeps
  <2> HIDE DEF a
  <2>4. InOrder(pushed', FileType, fsDone)
    BY <1>2, <2>1, OtherInOrder
  <2>5. HandledIsAlerted'
    BY <1>1, <2>2, <2>4 DEF HandledIsAlerted, AlertedInOrder, InOrder, fileVars
  <2>6. TypeOK'
    BY <1>1, <1>3, <2>3 DEF IInv, TypeOK, mainVars, fileVars, consumerVars
  <2> QED
    BY <1>4, <2>3, <2>5, <2>6 DEF IInv
<1> QED
  BY <1>1, <1>5, <1>6

-----------------------------------------------------------------------------
(* Steps of the consumer. *)

(* RemoveAt(q, 1) is the tail. *)
LEMMA RemoveFirstAlert ==
    ASSUME NEW q \in Seq(Alert), q # <<>>
    PROVE  RemoveAt(q, 1) = Tail(q)
<1>1. SubSeq(q, 1, 0) = <<>>
  BY SubSeqEmpty
<1>2. SubSeq(q, 2, Len(q)) = Tail(q) /\ Tail(q) \in Seq(Alert)
  BY TailIsSubSeq, HeadTailProperties
<1> QED
  BY <1>1, <1>2, ConcatEmptySeq DEF RemoveAt

LEMMA ConsumerGetStep ==
    ASSUME IInv, ConsumerGet
    PROVE  IInv'
<1>1. /\ Alive
      /\ consumer = "getting"
      /\ ALERT_QUEUE # <<>>
      /\ hand' = <<ALERT_QUEUE[1]>>
      /\ ALERT_QUEUE' = RemoveAt(ALERT_QUEUE, 1)
      /\ taken' = taken + 1
      /\ consumer' = "locking"
      /\ UNCHANGED <<mainVars, fileVars, ebpfVars, seen_types, lock, pushed>>
  BY DEF ConsumerGet, Position
<1>2. /\ ALERT_QUEUE \in Seq(Alert) /\ Len(ALERT_QUEUE) \in Nat \ {0}
      /\ pushed \in Seq(Alert) /\ Len(pushed) \in Nat
      /\ taken \in Nat
  BY <1>1, LenProperties, EmptySeq DEF IInv, TypeOK
<1>3. /\ ALERT_QUEUE' \in Seq(Alert)
      /\ Len(ALERT_QUEUE') = Len(ALERT_QUEUE) - 1
      /\ \A i \in 1 .. Len(ALERT_QUEUE') : ALERT_QUEUE'[i] = ALERT_QUEUE[i + 1]
  <2>1. ALERT_QUEUE' = Tail(ALERT_QUEUE)
    BY <1>1, <1>2, RemoveFirstAlert
  <2>2. /\ Tail(ALERT_QUEUE) \in Seq(Alert)
        /\ Len(Tail(ALERT_QUEUE)) = Len(ALERT_QUEUE) - 1
        /\ \A i \in 1 .. Len(Tail(ALERT_QUEUE)) : Tail(ALERT_QUEUE)[i] = ALERT_QUEUE[i + 1]
    BY <1>1, <1>2, HeadTailProperties
  <2> QED
    BY <2>1, <2>2
<1>4. /\ taken <= Len(pushed)
      /\ Len(ALERT_QUEUE) = Len(pushed) - taken
      /\ \A i \in 1 .. Len(ALERT_QUEUE) : ALERT_QUEUE[i] = pushed[taken + i]
  BY DEF IInv, QueueInv
<1>5. ALERT_QUEUE[1] = pushed[taken + 1] /\ ALERT_QUEUE[1] \in Alert
  BY <1>2, <1>4, ElementOfSeq
<1>6. hand' \in Seq(Alert) /\ Len(hand') = 1 /\ hand = <<>> /\ Len(hand) = 0
  BY <1>1, <1>5 DEF IInv, SeenInv
<1>7. TypeOK'
  BY <1>1, <1>2, <1>3, <1>6 DEF IInv, TypeOK, mainVars, fileVars, ebpfVars
<1>8. NumberInv' /\ HandledIsAlerted'
  BY <1>1 DEF IInv, NumberInv, Numbered, HandledIsAlerted, AlertedInOrder, fileVars, ebpfVars
<1>9. QueueInv'
  <2>1. ASSUME NEW i \in 1 .. Len(ALERT_QUEUE')
        PROVE  ALERT_QUEUE'[i] = pushed[taken + 1 + i]
    <3>1. i + 1 \in 1 .. Len(ALERT_QUEUE) /\ taken + (i + 1) = taken + 1 + i
      BY <1>2, <1>3
    <3> QED
      BY <1>3, <1>4, <3>1
  <2>2. /\ taken + 1 <= Len(pushed)
        /\ Len(ALERT_QUEUE') = Len(pushed) - (taken + 1)
    BY <1>2, <1>3, <1>4
  <2>3. taken' = taken + 1 /\ pushed' = pushed
    BY <1>1
  <2> QED
    BY <2>1, <2>2, <2>3 DEF QueueInv
<1>10. SeenInv'
  <2>1. taken' - Len(hand') = taken - Len(hand)
    BY <1>1, <1>2, <1>6
  <2> QED
    BY <1>1, <1>2, <1>5, <2>1 DEF IInv, SeenInv
<1>11. LockInv' /\ ReportInv'
  BY <1>1 DEF IInv, LockInv, ReportInv, mainVars
<1> QED
  BY <1>7, <1>8, <1>9, <1>10, <1>11 DEF IInv

(* The lock keeps the consumer from adding while main reports. *)
LEMMA ConsumerAddStep ==
    ASSUME IInv, ConsumerAdd
    PROVE  IInv' /\ main \notin {"reporting", "done"}
<1>1. /\ Alive
      /\ consumer = "locking" /\ consumer' = "holding"
      /\ lock = "free" /\ lock' = "consumer"
      /\ seen_types' = seen_types \cup {a.type : a \in Range(hand)}
      /\ hand' = <<>>
      /\ UNCHANGED <<mainVars, fileVars, ebpfVars, taken, queueVars>>
  BY DEF ConsumerAdd, Acquire
<1>2. main \notin {"reporting", "done"}
  BY <1>1 DEF IInv, LockInv, Alive
<1>3. /\ hand = <<pushed[taken]>> /\ Len(hand) = 1 /\ taken >= 1
      /\ taken \in Nat /\ taken <= Len(pushed) /\ Len(pushed) \in Nat
  BY <1>1, LenProperties DEF IInv, SeenInv, QueueInv, TypeOK
<1>4. Range(hand) = {pushed[taken]}
  BY <1>3 DEF Range
<1>5. seen_types' = {pushed[i].type : i \in 1 .. taken}
  <2>1. seen_types = {pushed[i].type : i \in 1 .. taken - 1}
    BY <1>3 DEF IInv, SeenInv
  <2>2. \A i : i \in 1 .. taken <=> i \in 1 .. taken - 1 \/ i = taken
    BY <1>3
  <2> QED
    BY <1>1, <1>4, <2>1, <2>2
<1>6. \A i \in 1 .. taken : pushed[i].type \in FileType \cup EbpfType
  <2>1. \A i \in 1 .. taken : i \in 1 .. Len(pushed)
    BY <1>3
  <2>2. \A i \in 1 .. Len(pushed) : pushed[i] \in Alert
    BY ElementOfSeq DEF IInv, TypeOK
  <2> QED
    BY <2>1, <2>2 DEF Alert
<1>7. TypeOK'
  BY <1>1, <1>5, <1>6, EmptySeq DEF IInv, TypeOK, mainVars, fileVars, ebpfVars, queueVars
<1>8. NumberInv' /\ HandledIsAlerted' /\ QueueInv'
  BY <1>1 DEF IInv, NumberInv, Numbered, HandledIsAlerted, AlertedInOrder, QueueInv,
              fileVars, ebpfVars, queueVars
<1>9. SeenInv'
  <2>1. Len(hand') = 0 /\ taken' - Len(hand') = taken
    BY <1>1, <1>3
  <2> QED
    BY <1>1, <1>5, <2>1 DEF SeenInv, queueVars
<1>10. LockInv' /\ ReportInv'
  BY <1>1, <1>2 DEF IInv, LockInv, ReportInv, mainVars
<1> QED
  BY <1>2, <1>7, <1>8, <1>9, <1>10 DEF IInv

-----------------------------------------------------------------------------
(* Steps that only move threads, the lock and main's report. *)

(* The sequences and seen_types stay as they are, and no thread begins or  *)
(* ends to hold an alert.                                                  *)
Quiet ==
    /\ UNCHANGED <<fs, fsDone, perf, perfDone, hand, ALERT_QUEUE, pushed, taken, seen_types>>
    /\ (consumer = "locking") = (consumer' = "locking")

LEMMA QuietKeeps ==
    ASSUME IInv, Quiet, TypeOK', LockInv', ReportInv'
    PROVE  IInv'
<1>1. NumberInv' /\ HandledIsAlerted' /\ QueueInv'
  BY DEF Quiet, IInv, NumberInv, Numbered, HandledIsAlerted, AlertedInOrder, QueueInv
<1>2. SeenInv'
  BY DEF Quiet, IInv, SeenInv
<1> QED
  BY <1>1, <1>2 DEF IInv

LEMMA ObserverQuiet ==
    ASSUME IInv, ObserverCheck \/ ObserverPublish \/ ObserverWakes
    PROVE  IInv'
<1>1. /\ UNCHANGED <<mainVars, observerStop, fs, fsDone, ebpfVars, consumerVars, lock, queueVars>>
      /\ observer' \in {"idle", "waiting", "exited", "dead"}
  BY DEF ObserverCheck, ObserverPublish, ObserverWakes
<1>2. Quiet
  BY <1>1 DEF Quiet, ebpfVars, consumerVars, queueVars
<1>3. TypeOK'
  BY <1>1 DEF IInv, TypeOK, mainVars, ebpfVars, consumerVars, queueVars
<1> QED
  BY <1>1, <1>2, <1>3, QuietKeeps, ReadersUnchanged

LEMMA EbpfQuiet ==
    ASSUME IInv, EbpfCheck \/ EbpfPublish \/ PollReturns
    PROVE  IInv'
<1>1. /\ UNCHANGED <<mainVars, fileVars, perf, perfDone, consumerVars, lock, queueVars>>
      /\ ebpf' \in {"idle", "polling", "exited"}
      /\ due' \in Nat
  BY LenProperties DEF EbpfCheck, EbpfPublish, PollReturns, AfterCallback, IInv, TypeOK
<1>2. Quiet
  BY <1>1 DEF Quiet, fileVars, consumerVars, queueVars
<1>3. TypeOK'
  BY <1>1 DEF IInv, TypeOK, mainVars, fileVars, consumerVars, queueVars
<1> QED
  BY <1>1, <1>2, <1>3, QuietKeeps, ReadersUnchanged

LEMMA ConsumerQuiet ==
    ASSUME IInv, ConsumerCheck \/ ConsumerTimeout \/ ConsumerRelease
    PROVE  IInv'
<1>1. /\ UNCHANGED <<mainVars, fileVars, ebpfVars, hand, seen_types, taken, queueVars>>
      /\ consumer' \in {"idle", "getting", "exited"}
      /\ consumer \in {"idle", "getting", "holding"}
      /\ lock' \in {lock, "free"}
      /\ lock' # lock => consumer = "holding"
  BY DEF ConsumerCheck, ConsumerTimeout, ConsumerRelease
<1>2. Quiet
  BY <1>1 DEF Quiet, fileVars, ebpfVars, queueVars
<1>3. TypeOK'
  BY <1>1 DEF IInv, TypeOK, mainVars, fileVars, ebpfVars, queueVars
<1>4. LockInv' /\ ReportInv'
  BY <1>1 DEF IInv, LockInv, ReportInv, mainVars, queueVars
<1> QED
  BY <1>2, <1>3, <1>4, QuietKeeps

LEMMA StartEbpfStep ==
    ASSUME IInv, StartEbpf
    PROVE  IInv'
<1>1. /\ UNCHANGED <<stop_event, report, fileVars, perf, due, perfDone,
                     consumerVars, lock, queueVars>>
      /\ main = "starting" /\ main' \in {"starting_consumer", "aborted"}
      /\ ebpf' \in {ebpf, "idle"}
  BY DEF StartEbpf
<1>2. Quiet
  BY <1>1 DEF Quiet, fileVars, consumerVars, queueVars
<1>3. TypeOK'
  BY <1>1 DEF IInv, TypeOK, fileVars, consumerVars, queueVars
<1>4. LockInv' /\ ReportInv'
  BY <1>1 DEF IInv, LockInv, ReportInv, consumerVars
<1> QED
  BY <1>2, <1>3, <1>4, QuietKeeps

LEMMA StartConsumerStep ==
    ASSUME IInv, StartConsumer
    PROVE  IInv'
<1>1. /\ UNCHANGED <<stop_event, report, fileVars, ebpfVars, hand, seen_types, taken,
                     lock, queueVars>>
      /\ main = "starting_consumer" /\ main' = "running"
      /\ consumer = "none" /\ consumer' = "idle"
  BY DEF StartConsumer, IInv, LockInv
<1>2. Quiet
  BY <1>1 DEF Quiet, fileVars, ebpfVars, queueVars
<1>3. TypeOK'
  BY <1>1 DEF IInv, TypeOK, fileVars, ebpfVars, queueVars
<1>4. LockInv' /\ ReportInv'
  BY <1>1 DEF LockInv, ReportInv
<1> QED
  BY <1>2, <1>3, <1>4, QuietKeeps

LEMMA StopSteps ==
    ASSUME IInv, Stop \/ StopObserver \/ JoinObserver \/ JoinEbpf \/ JoinConsumer
    PROVE  IInv'
<1>1. /\ UNCHANGED <<report, observer, fs, fsDone, ebpfVars, consumerVars, lock, queueVars>>
      /\ main' \in {"stopping", "join_observer", "join_ebpf", "join_consumer", "locking"}
      /\ stop_event' \in BOOLEAN /\ observerStop' \in BOOLEAN
  BY DEF Stop, StopObserver, ObserverStop, JoinObserver, JoinEbpf, JoinConsumer, fileVars,
         IInv, TypeOK
<1>2. Quiet
  BY <1>1 DEF Quiet, ebpfVars, consumerVars, queueVars
<1>3. TypeOK'
  BY <1>1 DEF IInv, TypeOK, ebpfVars, consumerVars, queueVars
<1>4. LockInv' /\ ReportInv'
  BY <1>1 DEF IInv, LockInv, ReportInv, consumerVars
<1> QED
  BY <1>2, <1>3, <1>4, QuietKeeps

(* Every type seen so far is on one of the two sides of the report. *)
LEMMA ReportStep ==
    ASSUME IInv, Report
    PROVE  IInv'
<1>1. /\ UNCHANGED <<stop_event, fileVars, ebpfVars, consumerVars, queueVars>>
      /\ main = "locking" /\ main' = "reporting"
      /\ lock = "free" /\ lock' = "main"
      /\ report' = {side \in {FileType, EbpfType} : side \cap seen_types # {}}
  BY DEF Report
<1>2. Quiet
  BY <1>1 DEF Quiet, fileVars, ebpfVars, consumerVars, queueVars
<1>3. TypeOK'
  BY <1>1 DEF IInv, TypeOK, fileVars, ebpfVars, consumerVars, queueVars
<1>4. LockInv'
  BY <1>1 DEF IInv, LockInv, consumerVars
<1>5. UNCHANGED <<seen_types, pushed>>
  BY <1>1 DEF consumerVars, queueVars
<1>6. ASSUME NEW side \in report'
      PROVE  \E i \in 1 .. Len(pushed) : pushed[i].type \in side
  <2>1. PICK type \in seen_types : type \in side
    BY <1>1, <1>6
  <2>2. PICK i \in 1 .. taken - Len(hand) : type = pushed[i].type
    BY <2>1 DEF IInv, SeenInv
  <2>3. Len(hand) \in Nat /\ taken \in Nat /\ Len(pushed) \in Nat /\ taken <= Len(pushed)
    BY LenProperties DEF IInv, TypeOK, QueueInv
  <2>4. i \in 1 .. Len(pushed)
    BY <2>2, <2>3
  <2> QED
    BY <2>1, <2>2, <2>4
<1>7. \A type \in seen_types : \E side \in report' : type \in side
  BY <1>1 DEF IInv, TypeOK
<1>8. ReportInv'
  BY <1>5, <1>6, <1>7 DEF ReportInv
<1> QED
  BY <1>2, <1>3, <1>4, <1>8, QuietKeeps

LEMMA ReturnStep ==
    ASSUME IInv, Return
    PROVE  IInv'
<1>1. /\ UNCHANGED <<stop_event, report, fileVars, ebpfVars, consumerVars, queueVars>>
      /\ main = "reporting" /\ main' = "done"
      /\ lock' = "free"
  BY DEF Return
<1>2. Quiet
  BY <1>1 DEF Quiet, fileVars, ebpfVars, consumerVars, queueVars
<1>3. TypeOK'
  BY <1>1 DEF IInv, TypeOK, fileVars, ebpfVars, consumerVars, queueVars
<1>4. LockInv' /\ ReportInv'
  BY <1>1 DEF IInv, LockInv, ReportInv, consumerVars, queueVars
<1> QED
  BY <1>2, <1>3, <1>4, QuietKeeps

-----------------------------------------------------------------------------
(* The theorems. *)

LEMMA NextStep ==
    ASSUME IInv, Next
    PROVE  IInv'
<1>1. CASE Observer
  BY <1>1, ObserverQuiet, OnFileEventStep DEF Observer
<1>2. CASE EbpfPoll
  BY <1>2, EbpfQuiet, HandleEventStep DEF EbpfPoll
<1>3. CASE Consumer
  BY <1>3, ConsumerQuiet, ConsumerGetStep, ConsumerAddStep DEF Consumer
<1>4. CASE Shutdown
  BY <1>4, StopSteps, ReportStep, ReturnStep DEF Shutdown
<1>5. CASE \E type \in FileType, ignored \in BOOLEAN : FileEvent(type, ignored)
  BY <1>5, FileEventStep
<1>6. CASE \E ignored \in BOOLEAN : BpfCall(ignored)
  BY <1>6, BpfCallStep
<1>7. CASE StartEbpf \/ StartConsumer \/ Stop
  BY <1>7, StartEbpfStep, StartConsumerStep, StopSteps
<1> QED
  BY <1>1, <1>2, <1>3, <1>4, <1>5, <1>6, <1>7 DEF Next

(* Any interleaving of the four threads keeps IInv. *)
THEOREM Invariance == Spec => []IInv
<1>1. Init => IInv
  BY InitialInv
<1>2. ASSUME IInv, [Next]_vars
      PROVE  IInv'
  <2>1. CASE UNCHANGED vars
    <3>1. UNCHANGED <<main, stop_event, report, observer, observerStop, fs, ebpf, perf,
                      due, consumer, hand, ALERT_QUEUE, seen_types, lock,
                      pushed, taken, fsDone, perfDone>>
      BY <2>1 DEF vars
    <3>2. Quiet /\ TypeOK' /\ LockInv' /\ ReportInv'
      BY <1>2, <3>1 DEF Quiet, IInv, TypeOK, LockInv, ReportInv
    <3> QED
      BY <1>2, <3>2, QuietKeeps
  <2> QED
    BY <1>2, <2>1, NextStep
<1> QED
  BY <1>1, <1>2, PTL DEF Spec

(* Threads, queues and the lock are always in one of their states. *)
THEOREM TypeCorrect == Spec => []TypeOK
BY Invariance, PTL DEF IInv

(* Each file event and each bpf() call that a handler looked at and did    *)
(* not ignore is in the order of alerts once, although publish_threadsafe  *)
(* raises behind every push_alert.                                         *)
THEOREM HandledAlerted == Spec => []HandledIsAlerted
BY Invariance, PTL DEF IInv

(* drain_queue takes the alerts in the order they were pushed, loses none  *)
(* and records each type; main's report is about what was recorded.        *)
THEOREM SeenIsExact == Spec => []SeenExact
<1>1. ASSUME IInv
      PROVE  SeenExact
  <2>1. /\ pushed \in Seq(Alert) /\ Len(pushed) \in Nat /\ DOMAIN pushed = 1 .. Len(pushed)
        /\ ALERT_QUEUE \in Seq(Alert) /\ Len(ALERT_QUEUE) \in Nat
        /\ taken \in Nat
    BY <1>1, LenProperties DEF IInv, TypeOK
  <2>2. /\ taken <= Len(pushed)
        /\ Len(ALERT_QUEUE) = Len(pushed) - taken
        /\ \A i \in 1 .. Len(ALERT_QUEUE) : ALERT_QUEUE[i] = pushed[taken + i]
    BY <1>1 DEF IInv, QueueInv
  <2>3. ALERT_QUEUE = SubSeq(pushed, taken + 1, Len(pushed))
    <3> DEFINE rest == SubSeq(pushed, taken + 1, Len(pushed))
    <3>1. \A i \in taken + 1 .. Len(pushed) : pushed[i] \in Alert
      BY <2>1, ElementOfSeq
    <3>2. taken + 1 \in Int /\ Len(pushed) \in Int
      BY <2>1
    <3>3. /\ rest \in Seq(Alert)
          /\ Len(rest) = IF taken + 1 <= Len(pushed) THEN Len(pushed) - (taken + 1) + 1 ELSE 0
          /\ \A i \in 1 .. Len(pushed) - (taken + 1) + 1 : rest[i] = pushed[taken + 1 + i - 1]
      BY <3>1, <3>2, SubSeqProperties
    <3> HIDE DEF rest
    <3>4. Len(rest) = Len(ALERT_QUEUE)
      <4>1. CASE taken + 1 <= Len(pushed)
        BY <2>1, <2>2, <3>3, <4>1
      <4>2. CASE ~ taken + 1 <= Len(pushed)
        <5>1. Len(pushed) = taken
          <6>1. \A m, n \in Nat : m <= n /\ ~ m + 1 <= n => n = m
            OBVIOUS
          <6>2. Len(pushed) \in Nat /\ taken \in Nat /\ taken <= Len(pushed)
            BY <2>1, <2>2
          <6> QED
            BY <4>2, <6>1, <6>2
        <5> QED
          BY <2>1, <2>2, <3>3, <4>2, <5>1
      <4> QED
        BY <4>1, <4>2
    <3>5. \A i \in 1 .. Len(ALERT_QUEUE) : ALERT_QUEUE[i] = rest[i]
      <4>1. ASSUME NEW i \in 1 .. Len(ALERT_QUEUE)
            PROVE  ALERT_QUEUE[i] = rest[i]
        <5>1. i \in 1 .. Len(pushed) - (taken + 1) + 1 /\ taken + 1 + i - 1 = taken + i
          BY <2>1, <2>2
        <5> QED
          BY <2>2, <3>3, <5>1
      <4> QED
        BY <4>1
    <3>6. ALERT_QUEUE = rest
      BY <2>1, <3>3, <3>4, <3>5, SeqEqual
    <3> QED
      BY <3>6 DEF rest
  <2>4. ASSUME main \in {"reporting", "done"}, NEW side \in report
        PROVE  \E a \in Range(pushed) : a.type \in side
    <3>1. PICK i \in 1 .. Len(pushed) : pushed[i].type \in side
      BY <1>1, <2>4 DEF IInv, ReportInv
    <3> QED
      BY <2>1, <3>1 DEF Range
  <2>5. ASSUME main \in {"reporting", "done"}, consumer = "exited", NEW i \in 1 .. taken
        PROVE  \E side \in report : pushed[i].type \in side
    <3>1. hand = <<>> /\ Len(hand) = 0
      BY <1>1, <2>5 DEF IInv, SeenInv
    <3>2. pushed[i].type \in seen_types
      BY <1>1, <2>1, <3>1 DEF IInv, SeenInv
    <3> QED
      BY <1>1, <2>5, <3>2 DEF IInv, ReportInv
  <2>6. seen_types = {pushed[i].type : i \in 1 .. taken - Len(hand)}
    BY <1>1 DEF IInv, SeenInv
  <2> QED
    BY <2>3, <2>4, <2>5, <2>6 DEF SeenExact
<1> QED
  BY <1>1, Invariance, PTL

(* seen_types_lock does its work: no step changes the set while main is    *)
(* computing its report from it.                                           *)
THEOREM ReportIsStable == Spec => StableReport
<1>1. ASSUME IInv, [Next]_vars
      PROVE  [main = "reporting" => seen_types' = seen_types]_vars
  <2>1. CASE ConsumerAdd
    BY <1>1, <2>1, ConsumerAddStep
  <2>2. CASE UNCHANGED vars
    BY <2>2
  <2>3. CASE Next /\ ~ ConsumerAdd
    BY <2>3 DEF Next, Observer, EbpfPoll, Consumer, Shutdown, FileEvent, BpfCall,
       ObserverCheck, OnFileEvent, ObserverPublish, ObserverWakes,
       EbpfCheck, HandleEvent, EbpfPublish, PollReturns,
       ConsumerCheck, ConsumerGet, ConsumerTimeout, ConsumerRelease,
       StartEbpf, StartConsumer, Stop, StopObserver, JoinObserver, JoinEbpf, JoinConsumer,
       Report, Return, consumerVars
  <2> QED
    BY <1>1, <2>1, <2>2, <2>3
<1> QED
  BY <1>1, Invariance, PTL DEF Spec, StableReport
=============================================================================
