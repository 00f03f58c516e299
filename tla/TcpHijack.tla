----------------------------- MODULE TcpHijack -----------------------------
(***************************************************************************)
(* TcpHijackDetector (xdr/network/tcp_detector.py) watching the segments   *)
(* of TCP connections, one sequence space per direction, modulo MAX_SEQ.   *)
(*                                                                         *)
(* A connection's sender transmits in order from next; the capture may     *)
(* miss segments (between two windows of run_live), see a segment again    *)
(* that the sender retransmits, and see segments with a foreign sequence   *)
(* number.  The first segment captured of a connection may be any.         *)
(*                                                                         *)
(* Not modelled: last_seen_time, which nothing reads, and the console      *)
(* output of _flag_hijack.                                                 *)
(***************************************************************************)
EXTENDS Integers, FiniteSets

CONSTANTS
    Conn,                 \* connection keys (src, dst, sport, dport)
    MAX_SEQ,              \* size of the sequence space, 2^32 in the code
    SEQ_JUMP_THRESHOLD,   \* 100000 in the code
    FirstSeq,             \* initial sequence numbers
    MaxPayload,           \* bound on the payload of a segment
    MaxSent,              \* bound on the segments with data per connection
    MaxPackets            \* bound on the segments captured per connection

ASSUME TcpAssumption ==
    /\ MAX_SEQ \in Nat \ {0}
    /\ SEQ_JUMP_THRESHOLD \in Nat
    /\ SEQ_JUMP_THRESHOLD < MAX_SEQ
    /\ FirstSeq \subseteq 0 .. MAX_SEQ - 1
    /\ MaxPayload \in Nat
    /\ MaxPayload + 1 < MAX_SEQ
    /\ MaxSent \in Nat
    /\ MaxPackets \in Nat

VARIABLES
    seq_registry,    \* self.seq_registry, a function on the keys present
    anomaly_count,   \* self.anomaly_count, on the same keys
    bus,             \* publish_threadsafe accepts ("open") or raises
    running,         \* FALSE after an exception ended the capture
    next,            \* next sequence number of each sender
    sent,            \* the segments with data each sender has sent
    last,            \* history: the latest captured segment of each key
    captured,        \* history: number of segments captured
    alerts,          \* history: number of events published
    traffic          \* history: what other than in-order segments occurred

vars == <<seq_registry, anomaly_count, bus, running,
          next, sent, last, captured, alerts, traffic>>

Seqno   == 0 .. MAX_SEQ - 1
Segment == [seq : Seqno, len : 0 .. MaxPayload, synfin : BOOLEAN]

-----------------------------------------------------------------------------
(* Fault: the distance in either direction, without wraparound. *)
seq_delta_Absolute(prev_seq, curr_seq) ==
    IF curr_seq < prev_seq THEN prev_seq - curr_seq ELSE curr_seq - prev_seq

(* Forward distance from prev_seq to curr_seq, accounting for wraparound. *)
seq_delta(prev_seq, curr_seq) ==
    IF curr_seq - prev_seq < 0 THEN curr_seq - prev_seq + MAX_SEQ
                               ELSE curr_seq - prev_seq

(* A SYN or FIN takes one sequence number. *)
expected_bump(seg) == seg.len + (IF seg.synfin THEN 1 ELSE 0)

(* The sequence number n places after seq. *)
Advance(seq, n) == IF seq + n < MAX_SEQ THEN seq + n ELSE seq + n - MAX_SEQ

(* The dictionary f with key k set to v. *)
Put(f, k, v) == [x \in DOMAIN f \cup {k} |-> IF x = k THEN v ELSE f[x]]

(* Fault: the segment's own length is taken off the distance. *)
Flagged_LessBump(key, seg) ==
    /\ key \in DOMAIN seq_registry
    /\ seq_delta(seq_registry[key], seg.seq) - expected_bump(seg) > SEQ_JUMP_THRESHOLD

(* Fault: a distance of exactly the threshold is flagged. *)
Flagged_AtThreshold(key, seg) ==
    /\ key \in DOMAIN seq_registry
    /\ seq_delta(seq_registry[key], seg.seq) >= SEQ_JUMP_THRESHOLD

Flagged(key, seg) ==
    /\ key \in DOMAIN seq_registry
    /\ seq_delta(seq_registry[key], seg.seq) > SEQ_JUMP_THRESHOLD

(* _flag_hijack ends in publish_threadsafe, whose exception leaves         *)
(* process_packet before the baseline is updated and ends the capture.     *)
Raises(key, seg) == Flagged(key, seg) /\ bus # "open"

(* Fault: "more than" for "at least" the expected bump. *)
Baseline_Strict(key, seg) ==
    IF \/ key \notin DOMAIN seq_registry
       \/ /\ seq_delta(seq_registry[key], seg.seq) > expected_bump(seg)
          /\ ~ Raises(key, seg)
    THEN seg.seq ELSE seq_registry[key]

(* Fault: the baseline is updated in front of the publishing. *)
Baseline_First(key, seg) ==
    IF \/ key \notin DOMAIN seq_registry
       \/ seq_delta(seq_registry[key], seg.seq) >= expected_bump(seg)
    THEN seg.seq ELSE seq_registry[key]

(* The baseline after process_packet. *)
Baseline(key, seg) ==
    IF \/ key \notin DOMAIN seq_registry
       \/ /\ seq_delta(seq_registry[key], seg.seq) >= expected_bump(seg)
          /\ ~ Raises(key, seg)
    THEN seg.seq ELSE seq_registry[key]

(* The count after process_packet. *)
Count(key, seg) ==
    IF key \notin DOMAIN seq_registry THEN 0
    ELSE IF Flagged(key, seg) THEN anomaly_count[key] + 1 ELSE anomaly_count[key]

process_packet(key, seg) ==
    /\ running
    /\ captured[key] < MaxPackets
    /\ seq_registry' = Put(seq_registry, key, Baseline(key, seg))
    /\ anomaly_count' = Put(anomaly_count, key, Count(key, seg))
    /\ running' = ~ Raises(key, seg)
    /\ alerts' = IF Flagged(key, seg) /\ bus = "open"
                 THEN [alerts EXCEPT ![key] = @ + 1] ELSE alerts
    /\ captured' = [captured EXCEPT ![key] = @ + 1]
    /\ last' = [last EXCEPT ![key] = seg]
    /\ UNCHANGED bus

-----------------------------------------------------------------------------
(* The capture of the full stack finds ENGINE bound (Startup.tla); one that*)
(* is run by itself, or by the tests, never does.                          *)
Init ==
    /\ seq_registry = [k \in {} |-> 0]
    /\ anomaly_count = [k \in {} |-> 0]
    /\ bus \in {"open", "unbound"}
    /\ running = TRUE
    /\ next \in [Conn -> FirstSeq]
    /\ sent = [k \in Conn |-> {}]
    /\ last = [k \in Conn |-> [seq |-> 0, len |-> 0, synfin |-> FALSE]]
    /\ captured = [k \in Conn |-> 0]
    /\ alerts = [k \in Conn |-> 0]
    /\ traffic = [k \in Conn |-> {}]

(* The sender transmits in order. *)
Transmit(k, seg) ==
    /\ seg.seq = next[k]
    /\ next' = [next EXCEPT ![k] = Advance(next[k], expected_bump(seg))]
    /\ \/ expected_bump(seg) = 0 /\ UNCHANGED sent
       \/ /\ expected_bump(seg) > 0
          /\ Cardinality(sent[k]) < MaxSent
          /\ sent' = [sent EXCEPT ![k] = @ \cup {seg}]

(* The sender's next segment is captured. *)
Send(k, seg) ==
    /\ Transmit(k, seg)
    /\ process_packet(k, seg)
    /\ UNCHANGED traffic

(* The sender's next segment passes while nobody captures. *)
Miss(k, seg) ==
    /\ Transmit(k, seg)
    /\ traffic' = [traffic EXCEPT ![k] = @ \cup {"missed"}]
    /\ UNCHANGED <<seq_registry, anomaly_count, bus, running, last, captured, alerts>>

(* A segment sent before is captured again, or for the first time. *)
Retransmit(k, seg) ==
    /\ seg \in sent[k]
    /\ process_packet(k, seg)
    /\ traffic' = [traffic EXCEPT ![k] = @ \cup {"retransmitted"}]
    /\ UNCHANGED <<next, sent>>

(* A segment that is not the sender's is captured. *)
Inject(k, seg) ==
    /\ process_packet(k, seg)
    /\ traffic' = [traffic EXCEPT ![k] = @ \cup {"injected"}]
    /\ UNCHANGED <<next, sent>>

(* The server's event loop, and with it the bus, goes away. *)
CloseBus ==
    /\ bus = "open"
    /\ bus' = "closed"
    /\ UNCHANGED <<seq_registry, anomaly_count, running,
                   next, sent, last, captured, alerts, traffic>>

Next ==
    \/ \E k \in Conn, seg \in Segment :
          Send(k, seg) \/ Miss(k, seg) \/ Retransmit(k, seg) \/ Inject(k, seg)
    \/ CloseBus

Spec == Init /\ [][Next]_vars

-----------------------------------------------------------------------------
(* Properties. *)

(* Every variable has its shape; the two dictionaries have the same keys,  *)
(* those of the connections captured.                                      *)
TypeOK ==
    /\ seq_registry \in [{k \in Conn : captured[k] > 0} -> Seqno]
    /\ anomaly_count \in [{k \in Conn : captured[k] > 0} -> Nat]
    /\ bus \in {"unbound", "open", "closed"}
    /\ running \in BOOLEAN
    /\ next \in [Conn -> Seqno]
    /\ sent \in [Conn -> SUBSET Segment]
    /\ last \in [Conn -> Segment]
    /\ captured \in [Conn -> Nat]
    /\ alerts \in [Conn -> Nat]
    /\ traffic \in [Conn -> SUBSET {"missed", "retransmitted", "injected"}]

(* Of a connection that is captured in order, with gaps or without, the    *)
(* baseline is the latest captured sequence number or lies behind it by    *)
(* less than that segment's length: not advancing on every segment never   *)
(* lets the baseline fall further and further behind.                      *)
BaselineTracks ==
    \A k \in DOMAIN seq_registry : running /\ traffic[k] \subseteq {"missed"} =>
        \/ seq_registry[k] = last[k].seq
        \/ seq_delta(seq_registry[k], last[k].seq) < expected_bump(last[k])

(* The forward distance between the latest two captured segments of k. *)
Distance(k) == seq_delta(last[k].seq, last'[k].seq)

(* A segment more than the threshold ahead of the one before it is counted *)
(* as an anomaly, whatever the traffic before, unless the distance comes   *)
(* within that segment's length of a whole turn of the sequence space.     *)
JumpDetected ==
    [][\A k \in DOMAIN seq_registry :
         /\ captured'[k] > captured[k]
         /\ Distance(k) > SEQ_JUMP_THRESHOLD
         /\ Distance(k) + expected_bump(last[k]) <= MAX_SEQ
         => anomaly_count'[k] = anomaly_count[k] + 1]_vars

(* A segment of the sender that follows the one before it closely enough   *)
(* is not counted, after a gap or a retransmission either: the slack is    *)
(* what the baseline may lag behind.                                       *)
StepTolerated ==
    [][\A k \in DOMAIN seq_registry :
         /\ captured'[k] > captured[k]
         /\ "injected" \notin traffic'[k]
         /\ Distance(k) <= SEQ_JUMP_THRESHOLD
         /\ Distance(k) + expected_bump(last[k]) <= SEQ_JUMP_THRESHOLD + 1
         => anomaly_count'[k] = anomaly_count[k]]_vars

(* A connection of which every segment was captured in order has no        *)
(* anomaly, provided two segments fit into the threshold.                  *)
InOrderSilent ==
    2 * (MaxPayload + 1) <= SEQ_JUMP_THRESHOLD + 1 =>
        \A k \in DOMAIN seq_registry : traffic[k] = {} => anomaly_count[k] = 0

(* Every counted anomaly was published as an event, but for the one whose  *)
(* publishing raised: that one ended the capture, and the baseline is still*)
(* the one from which it was measured.                                     *)
AlertPerAnomaly ==
    \A k \in DOMAIN seq_registry :
        \/ anomaly_count[k] = alerts[k]
        \/ anomaly_count[k] = alerts[k] + 1 /\ ~ running /\ Flagged(k, last[k])

(* tcp_detector.py 65-67: a spoofed SEQ jump does not become the baseline. *)
(* The jump here is the first foreign segment of a connection that was     *)
(* captured completely until then, and it was noticed.                     *)
SpoofedIsNoBaseline ==
    [][\A k \in DOMAIN seq_registry :
         /\ traffic[k] = {} /\ traffic'[k] = {"injected"}
         /\ anomaly_count'[k] > anomaly_count[k]
         => seq_registry'[k] = seq_registry[k]]_vars
=============================================================================
