-------------------------- MODULE TcpHijackProofs --------------------------
(***************************************************************************)
(* Proofs about TcpHijack, for every size of the sequence space, threshold *)
(* and number of connections.                                              *)
(*                                                                         *)
(* The argument: the baseline of a connection is never further behind its  *)
(* latest captured segment than that segment is long (LagInv), so the      *)
(* distance the code looks at, from the baseline, differs from the         *)
(* distance between the latest two segments by less than one segment.      *)
(* That it is inductive needs only the shape of the state.  A connection   *)
(* captured in order needs to know besides that the sender is exactly one  *)
(* segment after the latest captured one (InOrderInv).                     *)
(***************************************************************************)
EXTENDS TcpHijack, TLAPS

(* The baseline of every connection lags by less than the latest segment,  *)
(* whatever was captured.                                                  *)
LagInv ==
    \A k \in DOMAIN seq_registry : running =>
        \/ seq_registry[k] = last[k].seq
        \/ seq_delta(seq_registry[k], last[k].seq) < expected_bump(last[k])

(* The sender of a connection seen in order continues where the latest     *)
(* captured segment ends.                                                  *)
InOrderInv ==
    \A k \in Conn : traffic[k] = {} /\ captured[k] > 0 =>
        next[k] = Advance(last[k].seq, expected_bump(last[k]))

(* A connection of which nothing was captured has no alert. *)
FreshInv == \A k \in Conn : captured[k] = 0 => alerts[k] = 0

IInv ==
    /\ TypeOK
    /\ FreshInv
    /\ LagInv
    /\ InOrderInv
    /\ InOrderSilent
    /\ AlertPerAnomaly

-----------------------------------------------------------------------------
(* Arithmetic of sequence numbers. *)

(* seq_delta returns a distance: zero only between equal numbers, and less *)
(* than a whole turn.                                                      *)
LEMMA DeltaType ==
    ASSUME NEW a \in Seqno, NEW b \in Seqno
    PROVE  /\ seq_delta(a, b) \in 0 .. MAX_SEQ - 1
           /\ seq_delta(a, a) = 0
BY TcpAssumption DEF Seqno, seq_delta

(* Distances add up, but for a whole turn. *)
LEMMA DeltaAdd ==
    ASSUME NEW a \in Seqno, NEW b \in Seqno, NEW c \in Seqno
    PROVE  \/ seq_delta(a, c) = seq_delta(a, b) + seq_delta(b, c)
           \/ /\ seq_delta(a, c) = seq_delta(a, b) + seq_delta(b, c) - MAX_SEQ
              /\ seq_delta(a, b) + seq_delta(b, c) >= MAX_SEQ
BY TcpAssumption DEF Seqno, seq_delta

(* Advance goes exactly the distance that seq_delta measures. *)
LEMMA AdvanceDelta ==
    ASSUME NEW a \in Seqno, NEW n \in 0 .. MAX_SEQ - 1
    PROVE  /\ Advance(a, n) \in Seqno
           /\ seq_delta(a, Advance(a, n)) = n
BY TcpAssumption DEF Seqno, seq_delta, Advance

(* What a segment takes of the sequence space is less than all of it. *)
LEMMA BumpType ==
    ASSUME NEW seg \in Segment
    PROVE  /\ expected_bump(seg) \in 0 .. MaxPayload + 1
           /\ expected_bump(seg) \in 0 .. MAX_SEQ - 1
           /\ seg.seq \in Seqno
<1>1. seg.len \in 0 .. MaxPayload /\ seg.seq \in Seqno
  BY DEF Segment
<1>2. CASE seg.synfin
  BY <1>1, <1>2, TcpAssumption DEF expected_bump
<1>3. CASE ~ seg.synfin
  BY <1>1, <1>3, TcpAssumption DEF expected_bump
<1> QED
  BY <1>2, <1>3

-----------------------------------------------------------------------------
(* One segment: what process_packet does to the keys, and to the values of *)
(* the key it is called with.                                              *)
LEMMA PacketEffect ==
    ASSUME TypeOK, NEW k \in Conn, NEW seg \in Segment, process_packet(k, seg)
    PROVE  /\ captured' \in [Conn -> Nat]
           /\ captured'[k] = captured[k] + 1
           /\ \A x \in Conn \ {k} : captured'[x] = captured[x]
           /\ {x \in Conn : captured'[x] > 0} = {x \in Conn : captured[x] > 0} \cup {k}
           /\ last' \in [Conn -> Segment]
           /\ last'[k] = seg
           /\ \A x \in Conn \ {k} : last'[x] = last[x]
           /\ DOMAIN seq_registry = {x \in Conn : captured[x] > 0}
           /\ seq_registry' \in [{x \in Conn : captured[x] > 0} \cup {k} -> Seqno]
           /\ seq_registry'[k] = Baseline(k, seg)
           /\ \A x \in DOMAIN seq_registry \ {k} : seq_registry'[x] = seq_registry[x]
           /\ anomaly_count' \in [{x \in Conn : captured[x] > 0} \cup {k} -> Nat]
           /\ anomaly_count'[k] = Count(k, seg)
           /\ \A x \in DOMAIN seq_registry \ {k} : anomaly_count'[x] = anomaly_count[x]
<1> DEFINE D == {x \in Conn : captured[x] > 0}
<1>1. /\ captured \in [Conn -> Nat]
      /\ last \in [Conn -> Segment]
      /\ seq_registry \in [D -> Seqno]
      /\ anomaly_count \in [D -> Nat]
  BY DEF TypeOK
<1>2. /\ captured' \in [Conn -> Nat]
      /\ captured'[k] = captured[k] + 1
      /\ \A x \in Conn \ {k} : captured'[x] = captured[x]
      /\ last' \in [Conn -> Segment]
      /\ last'[k] = seg
      /\ \A x \in Conn \ {k} : last'[x] = last[x]
  BY <1>1 DEF process_packet
<1>3. {x \in Conn : captured'[x] > 0} = D \cup {k}
  BY <1>1, <1>2
<1>4. Baseline(k, seg) \in Seqno
  BY <1>1, BumpType DEF Baseline
<1>5. Count(k, seg) \in Nat
  BY <1>1 DEF Count
<1>6. /\ seq_registry' = Put(seq_registry, k, Baseline(k, seg))
      /\ anomaly_count' = Put(anomaly_count, k, Count(k, seg))
  BY DEF process_packet
<1> HIDE DEF D
<1>7. /\ seq_registry' \in [D \cup {k} -> Seqno]
      /\ seq_registry'[k] = Baseline(k, seg)
      /\ \A x \in D \ {k} : seq_registry'[x] = seq_registry[x]
  BY <1>1, <1>4, <1>6 DEF Put
<1>8. /\ anomaly_count' \in [D \cup {k} -> Nat]
      /\ anomaly_count'[k] = Count(k, seg)
      /\ \A x \in D \ {k} : anomaly_count'[x] = anomaly_count[x]
  BY <1>1, <1>5, <1>6 DEF Put
<1>9. DOMAIN seq_registry = D
  BY <1>1
<1> QED
  BY <1>2, <1>3, <1>7, <1>8, <1>9, Zenon DEF D

(* The keys of the dictionaries: at most the key of the segment is new. *)
LEMMA PacketDomain ==
    ASSUME TypeOK, NEW k \in Conn, NEW seg \in Segment, process_packet(k, seg)
    PROVE  /\ DOMAIN seq_registry' = DOMAIN seq_registry \cup {k}
           /\ DOMAIN seq_registry \subseteq Conn
<1>1. DOMAIN seq_registry = {x \in Conn : captured[x] > 0}
  BY PacketEffect
<1>2. seq_registry' \in [{x \in Conn : captured[x] > 0} \cup {k} -> Seqno]
  BY PacketEffect
<1> QED
  BY <1>1, <1>2

(* The shape of the detector's own variables survives a segment. *)
LEMMA PacketType ==
    ASSUME TypeOK, NEW k \in Conn, NEW seg \in Segment, process_packet(k, seg)
    PROVE  /\ seq_registry' \in [{x \in Conn : captured'[x] > 0} -> Seqno]
           /\ anomaly_count' \in [{x \in Conn : captured'[x] > 0} -> Nat]
           /\ bus' \in {"unbound", "open", "closed"}
           /\ running' \in BOOLEAN
           /\ alerts' \in [Conn -> Nat]
<1>1. /\ seq_registry' \in [{x \in Conn : captured'[x] > 0} -> Seqno]
      /\ anomaly_count' \in [{x \in Conn : captured'[x] > 0} -> Nat]
  BY PacketEffect, Zenon
<1>2. bus' \in {"unbound", "open", "closed"}
  BY DEF TypeOK, process_packet
<1>3. running' \in BOOLEAN
  BY Zenon DEF process_packet
<1>4. alerts' \in [Conn -> Nat]
  BY DEF TypeOK, process_packet
<1> QED
  BY <1>1, <1>2, <1>3, <1>4

(* The distance from the baseline to a new segment, compared with the      *)
(* distance from the latest one.                                           *)
LEMMA BaselineDistance ==
    ASSUME TypeOK, LagInv, running, NEW k \in DOMAIN seq_registry, NEW s \in Seqno
    PROVE  \E lag \in Nat :
              /\ lag = 0 \/ lag < expected_bump(last[k])
              /\ \/ seq_delta(seq_registry[k], s) = lag + seq_delta(last[k].seq, s)
                 \/ /\ seq_delta(seq_registry[k], s)
                          = lag + seq_delta(last[k].seq, s) - MAX_SEQ
                    /\ lag + seq_delta(last[k].seq, s) >= MAX_SEQ
<1>1. k \in Conn /\ seq_registry[k] \in Seqno /\ last[k] \in Segment
  BY DEF TypeOK
<1>2. last[k].seq \in Seqno
  BY <1>1, BumpType
<1>3. seq_delta(seq_registry[k], last[k].seq) \in Nat
  BY <1>1, <1>2, DeltaType, TcpAssumption
<1>4. \/ seq_delta(seq_registry[k], last[k].seq) = 0
      \/ seq_delta(seq_registry[k], last[k].seq) < expected_bump(last[k])
  BY <1>1, <1>2, DeltaType DEF LagInv
<1>5. \/ seq_delta(seq_registry[k], s)
            = seq_delta(seq_registry[k], last[k].seq) + seq_delta(last[k].seq, s)
      \/ /\ seq_delta(seq_registry[k], s)
               = seq_delta(seq_registry[k], last[k].seq) + seq_delta(last[k].seq, s) - MAX_SEQ
         /\ seq_delta(seq_registry[k], last[k].seq) + seq_delta(last[k].seq, s) >= MAX_SEQ
  BY <1>1, <1>2, DeltaAdd
<1> QED
  BY <1>3, <1>4, <1>5

-----------------------------------------------------------------------------
(* A segment keeps the baseline close. *)
LEMMA PacketTracks ==
    ASSUME TypeOK, LagInv, NEW k \in Conn, NEW seg \in Segment,
           process_packet(k, seg)
    PROVE  LagInv'
<1> SUFFICES ASSUME NEW x \in DOMAIN seq_registry', running'
             PROVE  \/ seq_registry'[x] = last'[x].seq
                    \/ seq_delta(seq_registry'[x], last'[x].seq) < expected_bump(last'[x])
  BY DEF LagInv, expected_bump, seq_delta
<1>1. CASE x = k
  <2>1. /\ seq_registry'[x] = Baseline(k, seg)
        /\ last'[x] = seg
    BY <1>1, PacketEffect
  <2>2. ~ Raises(k, seg)
    BY Zenon DEF process_packet
  <2>3. \/ Baseline(k, seg) = seg.seq
        \/ /\ Baseline(k, seg) = seq_registry[k]
           /\ k \in DOMAIN seq_registry
           /\ ~ (seq_delta(seq_registry[k], seg.seq) >= expected_bump(seg))
    BY <2>2, Zenon DEF Baseline
  <2>4. CASE k \in DOMAIN seq_registry
    <3>1. seq_delta(seq_registry[k], seg.seq) \in Int /\ expected_bump(seg) \in Int
      BY <2>4, BumpType, DeltaType, TcpAssumption DEF TypeOK
    <3> QED
      BY <2>1, <2>3, <3>1
  <2> QED
    BY <2>1, <2>3, <2>4
<1>2. CASE x # k
  <2>1. x \in DOMAIN seq_registry \ {k} /\ x \in Conn \ {k}
    BY <1>2, PacketEffect DEF TypeOK
  <2>2. seq_registry'[x] = seq_registry[x] /\ last'[x] = last[x]
    BY <2>1, PacketEffect, Zenon
  <2>3. running
    BY DEF process_packet
  <2> QED
    BY <2>1, <2>2, <2>3 DEF LagInv
<1> QED
  BY <1>1, <1>2

(* A segment keeps the count and the published alerts together. *)
LEMMA PacketAlerts ==
    ASSUME TypeOK, FreshInv, AlertPerAnomaly, NEW k \in Conn, NEW seg \in Segment,
           process_packet(k, seg)
    PROVE  FreshInv' /\ AlertPerAnomaly'
<1>1. /\ alerts \in [Conn -> Nat] /\ captured \in [Conn -> Nat]
      /\ DOMAIN seq_registry = {x \in Conn : captured[x] > 0}
      /\ anomaly_count \in [DOMAIN seq_registry -> Nat]
      /\ bus \in {"unbound", "open", "closed"}
  BY DEF TypeOK
<1>2. running /\ (running' <=> ~ Raises(k, seg))
  BY Zenon DEF process_packet
<1>3. \A x \in Conn \ {k} : alerts'[x] = alerts[x]
  BY <1>1 DEF process_packet
<1>4. alerts'[k] = IF Flagged(k, seg) /\ bus = "open" THEN alerts[k] + 1 ELSE alerts[k]
  BY <1>1 DEF process_packet
<1>5. FreshInv'
  <2> SUFFICES ASSUME NEW x \in Conn, captured'[x] = 0
               PROVE  alerts'[x] = 0
    BY DEF FreshInv
  <2>1. x # k
    <3>1. captured'[k] = captured[k] + 1
      BY PacketEffect
    <3> QED
      BY <1>1, <3>1
  <2>2. captured'[x] = captured[x] /\ alerts'[x] = alerts[x]
    BY <2>1, <1>3, PacketEffect
  <2> QED
    BY <2>2 DEF FreshInv
<1>6. ASSUME NEW x \in DOMAIN seq_registry'
      PROVE  \/ anomaly_count'[x] = alerts'[x]
             \/ /\ anomaly_count'[x] = alerts'[x] + 1 /\ ~ running'
                /\ x \in DOMAIN seq_registry'
                /\ seq_delta(seq_registry'[x], last'[x].seq) > SEQ_JUMP_THRESHOLD
  <2>1. CASE x # k
    <3>1. x \in DOMAIN seq_registry \ {k} /\ x \in Conn \ {k}
      <4>1. /\ DOMAIN seq_registry' = DOMAIN seq_registry \cup {k}
            /\ DOMAIN seq_registry \subseteq Conn
        BY PacketDomain, Zenon
      <4> QED
        BY <2>1, <1>6, <4>1
    <3>2. anomaly_count'[x] = anomaly_count[x] /\ alerts'[x] = alerts[x]
      BY <3>1, <1>3, PacketEffect, Zenon
    <3> QED
      BY <3>1, <3>2, <1>2 DEF AlertPerAnomaly
  <2>2. CASE x = k /\ k \notin DOMAIN seq_registry
    <3>1. anomaly_count'[k] = 0
      BY <2>2, PacketEffect DEF Count
    <3>2. alerts[k] = 0
      BY <2>2, <1>1 DEF FreshInv
    <3>3. ~ Flagged(k, seg)
      BY <2>2 DEF Flagged
    <3>4. alerts'[k] = 0
      BY <3>2, <3>3, <1>4
    <3> QED
      BY <2>2, <3>1, <3>4
  <2>3. CASE x = k /\ k \in DOMAIN seq_registry
    <3>1. anomaly_count[k] = alerts[k] /\ alerts[k] \in Nat
      BY <2>3, <1>1, <1>2 DEF AlertPerAnomaly
    <3>2. anomaly_count'[k] = IF Flagged(k, seg) THEN anomaly_count[k] + 1
                                                  ELSE anomaly_count[k]
      BY <2>3, PacketEffect DEF Count
    <3>3. CASE Flagged(k, seg) /\ bus = "open"
      BY <2>3, <3>1, <3>2, <3>3, <1>4
    <3>4. CASE Flagged(k, seg) /\ bus # "open"
      <4>1. Raises(k, seg)
        BY <3>4 DEF Raises
      <4>2. ~ running'
        BY <4>1, <1>2
      <4>3. seq_registry'[k] = seq_registry[k] /\ last'[k] = seg
        <5>1. seq_registry'[k] = Baseline(k, seg) /\ last'[k] = seg
          BY PacketEffect
        <5> QED
          BY <5>1, <4>1, <2>3 DEF Baseline
      <4>4. seq_delta(seq_registry[k], seg.seq) > SEQ_JUMP_THRESHOLD
        BY <3>4 DEF Flagged
      <4> QED
        BY <4>2, <4>3, <4>4, <1>6, <2>3, <3>1, <3>2, <3>4, <1>4
    <3>5. CASE ~ Flagged(k, seg)
      BY <2>3, <3>1, <3>2, <3>5, <1>4
    <3> QED
      BY <3>3, <3>4, <3>5, <1>1
  <2> QED
    BY <2>1, <2>2, <2>3
<1> QED
  BY <1>5, <1>6 DEF AlertPerAnomaly, Flagged, seq_delta

(* The next segment in order is not flagged. *)
LEMMA InOrderUnflagged ==
    ASSUME IInv, running, NEW k \in Conn, NEW seg \in Segment, seg.seq = next[k],
           traffic[k] = {}, 2 * (MaxPayload + 1) <= SEQ_JUMP_THRESHOLD + 1
    PROVE  ~ Flagged(k, seg)
<1> SUFFICES ASSUME k \in DOMAIN seq_registry
             PROVE  ~ (seq_delta(seq_registry[k], seg.seq) > SEQ_JUMP_THRESHOLD)
  BY DEF Flagged
<1>1. captured[k] > 0 /\ last[k] \in Segment
  BY DEF IInv, TypeOK
<1>2. expected_bump(last[k]) \in 0 .. MaxPayload + 1 /\ last[k].seq \in Seqno
      /\ expected_bump(last[k]) \in 0 .. MAX_SEQ - 1
  BY <1>1, BumpType
<1>3. seg.seq = Advance(last[k].seq, expected_bump(last[k]))
  BY <1>1 DEF IInv, InOrderInv
<1>4. seq_delta(last[k].seq, seg.seq) = expected_bump(last[k])
  BY <1>2, <1>3, AdvanceDelta
<1>5. seg.seq \in Seqno
  BY BumpType
<1>6. PICK lag \in Nat :
              /\ lag = 0 \/ lag < expected_bump(last[k])
              /\ \/ seq_delta(seq_registry[k], seg.seq) = lag + seq_delta(last[k].seq, seg.seq)
                 \/ /\ seq_delta(seq_registry[k], seg.seq)
                          = lag + seq_delta(last[k].seq, seg.seq) - MAX_SEQ
                    /\ lag + seq_delta(last[k].seq, seg.seq) >= MAX_SEQ
  BY <1>5, BaselineDistance DEF IInv
<1> QED
  BY <1>2, <1>4, <1>6, TcpAssumption

-----------------------------------------------------------------------------
(* The invariant. *)

LEMMA InitInv == Init => IInv
<1> SUFFICES ASSUME Init PROVE IInv
  OBVIOUS
<1>1. TypeOK
  <2>1. {k \in Conn : captured[k] > 0} = {}
    BY DEF Init
  <2>2. /\ seq_registry \in [{k \in Conn : captured[k] > 0} -> Seqno]
        /\ anomaly_count \in [{k \in Conn : captured[k] > 0} -> Nat]
    BY <2>1 DEF Init
  <2>3. next \in [Conn -> Seqno]
    BY TcpAssumption DEF Init, Seqno
  <2>4. last \in [Conn -> Segment]
    <3>1. [seq |-> 0, len |-> 0, synfin |-> FALSE] \in Segment
      BY TcpAssumption DEF Segment, Seqno
    <3> QED
      BY <3>1 DEF Init
  <2>5. running \in BOOLEAN
    BY Zenon DEF Init
  <2>6. /\ bus \in {"unbound", "open", "closed"}
        /\ sent \in [Conn -> SUBSET Segment]
        /\ captured \in [Conn -> Nat]
        /\ alerts \in [Conn -> Nat]
        /\ traffic \in [Conn -> SUBSET {"missed", "retransmitted", "injected"}]
    BY DEF Init
  <2> QED
    BY <2>2, <2>3, <2>4, <2>5, <2>6 DEF TypeOK
<1>2. DOMAIN seq_registry = {}
  BY DEF Init
<1>3. FreshInv /\ InOrderInv
  BY DEF Init, FreshInv, InOrderInv
<1>4. LagInv /\ InOrderSilent /\ AlertPerAnomaly
  BY <1>2 DEF LagInv, InOrderSilent, AlertPerAnomaly
<1> QED
  BY <1>1, <1>3, <1>4 DEF IInv

(* What a sender transmits leaves its own variables in shape. *)
LEMMA TransmitType ==
    ASSUME TypeOK, NEW k \in Conn, NEW seg \in Segment, Transmit(k, seg)
    PROVE  /\ next' \in [Conn -> Seqno]
           /\ sent' \in [Conn -> SUBSET Segment]
           /\ next'[k] = Advance(seg.seq, expected_bump(seg))
           /\ \A x \in Conn \ {k} : next'[x] = next[x]
<1>1. Advance(seg.seq, expected_bump(seg)) \in Seqno
  BY BumpType, AdvanceDelta
<1>2. next \in [Conn -> Seqno] /\ sent \in [Conn -> SUBSET Segment] /\ seg.seq = next[k]
  BY DEF TypeOK, Transmit
<1>3. next' = [next EXCEPT ![k] = Advance(seg.seq, expected_bump(seg))]
  BY <1>2 DEF Transmit
<1>4. sent' \in [Conn -> SUBSET Segment]
  BY <1>2 DEF Transmit
<1> QED
  BY <1>1, <1>2, <1>3, <1>4

(* Capturing a segment out of turn: Retransmit and Inject. *)
LEMMA OutOfTurn ==
    ASSUME IInv, NEW k \in Conn, NEW seg \in Segment, process_packet(k, seg),
           next' = next, sent' = sent,
           NEW what \in {"retransmitted", "injected"},
           traffic' = [traffic EXCEPT ![k] = @ \cup {what}]
    PROVE  IInv'
<1>1. TypeOK /\ FreshInv /\ LagInv /\ AlertPerAnomaly /\ InOrderInv /\ InOrderSilent
  BY DEF IInv
<1>2. traffic \in [Conn -> SUBSET {"missed", "retransmitted", "injected"}]
  BY <1>1 DEF TypeOK
<1>3. /\ traffic' \in [Conn -> SUBSET {"missed", "retransmitted", "injected"}]
      /\ traffic'[k] # {}
      /\ \A x \in Conn \ {k} : traffic'[x] = traffic[x]
  BY <1>2
<1>4. captured' \in [Conn -> Nat] /\ last' \in [Conn -> Segment]
  BY <1>1, PacketEffect
<1>5. next' \in [Conn -> Seqno] /\ sent' \in [Conn -> SUBSET Segment]
  BY <1>1 DEF TypeOK
<1>6. TypeOK'
  BY <1>1, <1>3, <1>4, <1>5, PacketType DEF TypeOK
<1>7. InOrderInv'
  <2> SUFFICES ASSUME NEW x \in Conn, traffic'[x] = {}, captured'[x] > 0
               PROVE  next'[x] = Advance(last'[x].seq, expected_bump(last'[x]))
    BY DEF InOrderInv, expected_bump, Advance
  <2>1. x \in Conn \ {k} /\ traffic[x] = {}
    BY <1>3
  <2>2. captured'[x] = captured[x] /\ last'[x] = last[x]
    BY <2>1, <1>1, PacketEffect
  <2> QED
    BY <1>1, <2>1, <2>2 DEF InOrderInv
<1>8. InOrderSilent'
  <2> SUFFICES ASSUME 2 * (MaxPayload + 1) <= SEQ_JUMP_THRESHOLD + 1,
                      NEW x \in DOMAIN seq_registry', traffic'[x] = {}
               PROVE  anomaly_count'[x] = 0
    BY DEF InOrderSilent
  <2>1. x \in DOMAIN seq_registry \ {k} /\ traffic[x] = {}
    BY <1>1, <1>3, PacketDomain
  <2>2. anomaly_count'[x] = anomaly_count[x]
    BY <1>1, <2>1, PacketEffect, Zenon
  <2> QED
    BY <1>1, <2>1, <2>2 DEF InOrderSilent
<1>9. FreshInv' /\ LagInv' /\ AlertPerAnomaly'
  BY <1>1, PacketTracks, PacketAlerts
<1> QED
  BY <1>6, <1>7, <1>8, <1>9 DEF IInv

LEMMA SendInv ==
    ASSUME IInv, NEW k \in Conn, NEW seg \in Segment, Send(k, seg)
    PROVE  IInv'
<1>1. TypeOK /\ FreshInv /\ LagInv /\ AlertPerAnomaly /\ InOrderInv /\ InOrderSilent
  BY DEF IInv
<1>2. Transmit(k, seg) /\ process_packet(k, seg) /\ traffic' = traffic
  BY DEF Send
<1>3. TypeOK'
  <2>1. next' \in [Conn -> Seqno] /\ sent' \in [Conn -> SUBSET Segment]
    BY <1>1, <1>2, TransmitType
  <2>2. captured' \in [Conn -> Nat] /\ last' \in [Conn -> Segment]
    BY <1>1, <1>2, PacketEffect
  <2> QED
    BY <1>1, <1>2, <2>1, <2>2, PacketType DEF TypeOK
<1>4. InOrderInv'
  <2> SUFFICES ASSUME NEW x \in Conn, traffic'[x] = {}, captured'[x] > 0
               PROVE  next'[x] = Advance(last'[x].seq, expected_bump(last'[x]))
    BY DEF InOrderInv, expected_bump, Advance
  <2>1. CASE x = k
    <3>1. last'[x] = seg /\ next'[x] = Advance(seg.seq, expected_bump(seg))
      BY <2>1, <1>1, <1>2, PacketEffect, TransmitType
    <3> QED
      BY <3>1
  <2>2. CASE x # k
    <3>1. captured'[x] = captured[x] /\ last'[x] = last[x]
      BY <2>2, <1>1, <1>2, PacketEffect
    <3>2. next'[x] = next[x]
      BY <2>2, <1>1, <1>2, TransmitType
    <3> QED
      BY <1>1, <1>2, <3>1, <3>2 DEF InOrderInv
  <2> QED
    BY <2>1, <2>2
<1>5. InOrderSilent'
  <2> SUFFICES ASSUME 2 * (MaxPayload + 1) <= SEQ_JUMP_THRESHOLD + 1,
                      NEW x \in DOMAIN seq_registry', traffic'[x] = {}
               PROVE  anomaly_count'[x] = 0
    BY DEF InOrderSilent
  <2>1. CASE x = k
    <3>1. running /\ seg.seq = next[k] /\ traffic[k] = {}
      BY <1>2, <2>1 DEF process_packet, Transmit
    <3>2. ~ Flagged(k, seg)
      BY <3>1, InOrderUnflagged
    <3>3. anomaly_count'[k] = Count(k, seg)
      BY <1>1, <1>2, PacketEffect
    <3>4. k \in DOMAIN seq_registry => anomaly_count[k] = 0
      BY <1>1, <3>1 DEF InOrderSilent
    <3> QED
      BY <2>1, <3>2, <3>3, <3>4 DEF Count
  <2>2. CASE x # k
    <3>1. x \in DOMAIN seq_registry \ {k}
      <4>1. DOMAIN seq_registry' = DOMAIN seq_registry \cup {k}
        BY <1>1, <1>2, PacketDomain, Zenon
      <4> QED
        BY <2>2, <4>1
    <3>2. anomaly_count'[x] = anomaly_count[x]
      BY <1>1, <1>2, <3>1, PacketEffect, Zenon
    <3> QED
      BY <1>1, <1>2, <3>1, <3>2 DEF InOrderSilent
  <2> QED
    BY <2>1, <2>2
<1>6. FreshInv' /\ LagInv' /\ AlertPerAnomaly'
  BY <1>1, <1>2, PacketTracks, PacketAlerts
<1> QED
  BY <1>3, <1>4, <1>5, <1>6 DEF IInv

LEMMA MissInv ==
    ASSUME IInv, NEW k \in Conn, NEW seg \in Segment, Miss(k, seg)
    PROVE  IInv'
<1>1. TypeOK /\ FreshInv /\ LagInv /\ AlertPerAnomaly /\ InOrderInv /\ InOrderSilent
  BY DEF IInv
<1>2. /\ seq_registry' = seq_registry /\ anomaly_count' = anomaly_count
      /\ bus' = bus /\ running' = running /\ last' = last
      /\ captured' = captured /\ alerts' = alerts
      /\ Transmit(k, seg)
      /\ traffic' = [traffic EXCEPT ![k] = @ \cup {"missed"}]
  BY DEF Miss
<1>3. traffic \in [Conn -> SUBSET {"missed", "retransmitted", "injected"}]
  BY <1>1 DEF TypeOK
<1>4. /\ traffic' \in [Conn -> SUBSET {"missed", "retransmitted", "injected"}]
      /\ traffic'[k] # {}
      /\ \A x \in Conn \ {k} : traffic'[x] = traffic[x]
  BY <1>2, <1>3
<1>5. /\ next' \in [Conn -> Seqno] /\ sent' \in [Conn -> SUBSET Segment]
      /\ \A x \in Conn \ {k} : next'[x] = next[x]
  BY <1>1, <1>2, TransmitType
<1>6. TypeOK'
  BY <1>1, <1>2, <1>4, <1>5 DEF TypeOK
<1>7. InOrderInv'
  BY <1>1, <1>2, <1>4, <1>5 DEF InOrderInv, expected_bump, Advance
<1>8. DOMAIN seq_registry \subseteq Conn
  BY <1>1 DEF TypeOK
<1>9. InOrderSilent'
  BY <1>1, <1>2, <1>4, <1>8 DEF InOrderSilent
<1>10. FreshInv' /\ LagInv' /\ AlertPerAnomaly'
  BY <1>1, <1>2 DEF FreshInv, LagInv, AlertPerAnomaly, Flagged, expected_bump, seq_delta
<1> QED
  BY <1>6, <1>7, <1>9, <1>10 DEF IInv

LEMMA CloseBusInv ==
    ASSUME IInv, CloseBus
    PROVE  IInv'
BY DEF IInv, CloseBus, TypeOK, FreshInv, LagInv, InOrderInv, InOrderSilent,
       AlertPerAnomaly, Flagged, expected_bump, seq_delta, Advance

LEMMA NextInv == IInv /\ [Next]_vars => IInv'
<1> SUFFICES ASSUME IInv, [Next]_vars PROVE IInv'
  OBVIOUS
<1>1. ASSUME NEW k \in Conn, NEW seg \in Segment, Send(k, seg) PROVE IInv'
  BY <1>1, SendInv
<1>2. ASSUME NEW k \in Conn, NEW seg \in Segment, Miss(k, seg) PROVE IInv'
  BY <1>2, MissInv
<1>3. ASSUME NEW k \in Conn, NEW seg \in Segment, Retransmit(k, seg) PROVE IInv'
  BY <1>3, OutOfTurn DEF Retransmit
<1>4. ASSUME NEW k \in Conn, NEW seg \in Segment, Inject(k, seg) PROVE IInv'
  BY <1>4, OutOfTurn DEF Inject
<1>5. CASE CloseBus
  BY <1>5, CloseBusInv
<1>6. CASE UNCHANGED vars
  BY <1>6 DEF vars, IInv, TypeOK, FreshInv, LagInv, InOrderInv, InOrderSilent,
              AlertPerAnomaly, Flagged, expected_bump, seq_delta, Advance
<1> QED
  BY <1>1, <1>2, <1>3, <1>4, <1>5, <1>6, Zenon DEF Next

(* The inductive invariant holds throughout. *)
THEOREM Invariance == Spec => []IInv
BY InitInv, NextInv, PTL DEF Spec

(* The variables keep their shape; the two dictionaries always have the    *)
(* same keys (TcpHijackDetector.process_packet).                           *)
THEOREM TypeCorrect == Spec => []TypeOK
<1>1. IInv => TypeOK
  BY DEF IInv
<1> QED
  BY <1>1, Invariance, PTL

(* The guarded update of seq_registry never lets the baseline of a         *)
(* connection captured in order, with gaps or without, fall behind its     *)
(* latest captured segment by more than that segment's length.             *)
THEOREM BaselineClose == Spec => []BaselineTracks
<1>1. IInv => BaselineTracks
  BY DEF IInv, LagInv, BaselineTracks
<1> QED
  BY <1>1, Invariance, PTL

(* A connection captured completely and in order never counts an anomaly,  *)
(* wherever in the sequence space it wraps around.                         *)
THEOREM InOrderNeverFlagged == Spec => []InOrderSilent
<1>1. IInv => InOrderSilent
  BY DEF IInv
<1> QED
  BY <1>1, Invariance, PTL

(* Every counted anomaly was published, but for the one whose publication  *)
(* raised and ended the capture with the baseline where it was.            *)
THEOREM AnomaliesPublished == Spec => []AlertPerAnomaly
<1>1. IInv => AlertPerAnomaly
  BY DEF IInv
<1> QED
  BY <1>1, Invariance, PTL

-----------------------------------------------------------------------------
(* A step in which something of k is captured is a call of process_packet. *)
LEMMA CapturedStep ==
    ASSUME TypeOK, [Next]_vars, NEW k \in Conn, captured'[k] > captured[k]
    PROVE  \E seg \in Segment : process_packet(k, seg)
<1>1. captured \in [Conn -> Nat]
  BY DEF TypeOK
<1>2. captured' # captured
  BY <1>1
<1>3. PICK x \in Conn, seg \in Segment : process_packet(x, seg)
  BY <1>2 DEF Next, vars, Send, Miss, Retransmit, Inject, CloseBus
<1>4. x = k
  <2> SUFFICES ASSUME x # k PROVE FALSE
    OBVIOUS
  <2>1. captured'[k] = captured[k]
    BY <1>3, PacketEffect
  <2> QED
    BY <2>1, <1>1
<1> QED
  BY <1>3, <1>4

(* The distance between two captured segments is less than a whole turn. *)
LEMMA DistanceType ==
    ASSUME IInv, [Next]_vars, NEW k \in DOMAIN seq_registry, captured'[k] > captured[k]
    PROVE  expected_bump(last[k]) \in Nat /\ Distance(k) \in 0 .. MAX_SEQ - 1
<1>1. k \in Conn /\ TypeOK
  BY DEF IInv, TypeOK
<1>2. PICK seg \in Segment : process_packet(k, seg)
  BY <1>1, CapturedStep
<1>3. last'[k] = seg /\ last[k] \in Segment
  BY <1>1, <1>2, PacketEffect DEF TypeOK
<1>4. last[k].seq \in Seqno /\ seg.seq \in Seqno
  BY <1>3, BumpType
<1>5. seq_delta(last[k].seq, seg.seq) \in 0 .. MAX_SEQ - 1
  BY <1>4, DeltaType
<1> QED
  BY <1>3, <1>5, BumpType, TcpAssumption DEF Distance

(* A step that captures a segment of a known connection counts an anomaly  *)
(* exactly when the distance from the baseline exceeds the threshold.      *)
LEMMA CountStep ==
    ASSUME IInv, [Next]_vars, NEW k \in DOMAIN seq_registry, captured'[k] > captured[k]
    PROVE  \E lag \in Nat :
              /\ lag = 0 \/ lag < expected_bump(last[k])
              /\ \/ /\ lag + Distance(k) > SEQ_JUMP_THRESHOLD
                    /\ lag + Distance(k) < MAX_SEQ
                    /\ anomaly_count'[k] = anomaly_count[k] + 1
                 \/ /\ lag + Distance(k) <= SEQ_JUMP_THRESHOLD
                    /\ anomaly_count'[k] = anomaly_count[k]
                 \/ lag + Distance(k) >= MAX_SEQ
<1>1. TypeOK /\ LagInv /\ k \in Conn
  BY DEF IInv, TypeOK
<1>2. PICK seg \in Segment : process_packet(k, seg)
  BY <1>1, CapturedStep
<1>3. last'[k] = seg /\ anomaly_count'[k] = Count(k, seg)
  BY <1>1, <1>2, PacketEffect
<1>4. running
  BY <1>2 DEF process_packet
<1>5. seg.seq \in Seqno
  BY BumpType
<1>6. PICK lag \in Nat :
              /\ lag = 0 \/ lag < expected_bump(last[k])
              /\ \/ seq_delta(seq_registry[k], seg.seq) = lag + seq_delta(last[k].seq, seg.seq)
                 \/ /\ seq_delta(seq_registry[k], seg.seq)
                          = lag + seq_delta(last[k].seq, seg.seq) - MAX_SEQ
                    /\ lag + seq_delta(last[k].seq, seg.seq) >= MAX_SEQ
  BY <1>1, <1>4, <1>5, BaselineDistance
<1>7. Distance(k) = seq_delta(last[k].seq, seg.seq)
  BY <1>3 DEF Distance
<1>8. /\ last[k].seq \in Seqno /\ seq_registry[k] \in Seqno
      /\ seq_delta(seq_registry[k], seg.seq) \in 0 .. MAX_SEQ - 1
      /\ seq_delta(last[k].seq, seg.seq) \in 0 .. MAX_SEQ - 1
  <2>1. last[k] \in Segment /\ seq_registry[k] \in Seqno
    BY <1>1 DEF TypeOK
  <2> QED
    BY <2>1, <1>5, BumpType, DeltaType
<1>9. anomaly_count'[k] = IF seq_delta(seq_registry[k], seg.seq) > SEQ_JUMP_THRESHOLD
                          THEN anomaly_count[k] + 1 ELSE anomaly_count[k]
  BY <1>3 DEF Count, Flagged
<1> QED
  BY <1>6, <1>7, <1>8, <1>9, TcpAssumption

(* A jump beyond the threshold from one captured segment to the next is    *)
(* always counted, whatever the baseline was (process_packet, line 61).    *)
THEOREM JumpsCounted == Spec => JumpDetected
<1>1. ASSUME IInv, [Next]_vars, NEW k \in DOMAIN seq_registry,
             captured'[k] > captured[k], Distance(k) > SEQ_JUMP_THRESHOLD,
             Distance(k) + expected_bump(last[k]) <= MAX_SEQ
      PROVE  anomaly_count'[k] = anomaly_count[k] + 1
  <2>1. expected_bump(last[k]) \in Nat /\ Distance(k) \in 0 .. MAX_SEQ - 1
    BY <1>1, DistanceType
  <2>2. PICK lag \in Nat :
              /\ lag = 0 \/ lag < expected_bump(last[k])
              /\ \/ /\ lag + Distance(k) > SEQ_JUMP_THRESHOLD
                    /\ lag + Distance(k) < MAX_SEQ
                    /\ anomaly_count'[k] = anomaly_count[k] + 1
                 \/ /\ lag + Distance(k) <= SEQ_JUMP_THRESHOLD
                    /\ anomaly_count'[k] = anomaly_count[k]
                 \/ lag + Distance(k) >= MAX_SEQ
    BY <1>1, CountStep, Zenon
  <2>3. lag + Distance(k) < MAX_SEQ
    <3>1. CASE lag = 0
      BY <2>1, <3>1, TcpAssumption
    <3>2. CASE lag < expected_bump(last[k])
      BY <1>1, <2>1, <3>2, TcpAssumption
    <3> QED
      BY <2>2, <3>1, <3>2
  <2> QED
    BY <1>1, <2>1, <2>2, <2>3, TcpAssumption
<1>2. IInv /\ [Next]_vars =>
        [\A k \in DOMAIN seq_registry :
            /\ captured'[k] > captured[k]
            /\ Distance(k) > SEQ_JUMP_THRESHOLD
            /\ Distance(k) + expected_bump(last[k]) <= MAX_SEQ
            => anomaly_count'[k] = anomaly_count[k] + 1]_vars
  BY <1>1, Zenon
<1> QED
  BY <1>2, Invariance, PTL DEF Spec, JumpDetected

(* Without foreign segments, a segment close after the one before it is    *)
(* never counted.                                                          *)
THEOREM StepsTolerated == Spec => StepTolerated
<1>1. ASSUME IInv, [Next]_vars, NEW k \in DOMAIN seq_registry,
             captured'[k] > captured[k], "injected" \notin traffic'[k],
             Distance(k) <= SEQ_JUMP_THRESHOLD,
             Distance(k) + expected_bump(last[k]) <= SEQ_JUMP_THRESHOLD + 1
      PROVE  anomaly_count'[k] = anomaly_count[k]
  <2>1. expected_bump(last[k]) \in Nat /\ Distance(k) \in 0 .. MAX_SEQ - 1
    BY <1>1, DistanceType
  <2>2. PICK lag \in Nat :
              /\ lag = 0 \/ lag < expected_bump(last[k])
              /\ \/ /\ lag + Distance(k) > SEQ_JUMP_THRESHOLD
                    /\ lag + Distance(k) < MAX_SEQ
                    /\ anomaly_count'[k] = anomaly_count[k] + 1
                 \/ /\ lag + Distance(k) <= SEQ_JUMP_THRESHOLD
                    /\ anomaly_count'[k] = anomaly_count[k]
                 \/ lag + Distance(k) >= MAX_SEQ
    BY <1>1, CountStep, Zenon
  <2>3. lag + Distance(k) <= SEQ_JUMP_THRESHOLD
    <3>1. CASE lag = 0
      BY <1>1, <2>1, <3>1, TcpAssumption
    <3>2. CASE lag < expected_bump(last[k])
      BY <1>1, <2>1, <3>2, TcpAssumption
    <3> QED
      BY <2>2, <3>1, <3>2
  <2> QED
    BY <2>1, <2>2, <2>3, TcpAssumption
<1>2. IInv /\ [Next]_vars =>
        [\A k \in DOMAIN seq_registry :
            /\ captured'[k] > captured[k]
            /\ "injected" \notin traffic'[k]
            /\ Distance(k) <= SEQ_JUMP_THRESHOLD
            /\ Distance(k) + expected_bump(last[k]) <= SEQ_JUMP_THRESHOLD + 1
            => anomaly_count'[k] = anomaly_count[k]]_vars
  BY <1>1, Zenon
<1> QED
  BY <1>2, Invariance, PTL DEF Spec, StepTolerated
=============================================================================
