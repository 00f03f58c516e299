--------------------------- MODULE CaptureProofs ---------------------------
(* Proofs about Capture, for every set of hosts and every bound. *)
EXTENDS Capture, SequenceTheorems, TLAPS

USE CaptureAssumption

-----------------------------------------------------------------------------
(* The inductive invariant. *)

Location == {"main", "sniff", "wrpcap", "packet", "log", "sctp", "tcp", "check",
             "reset", "done", "stopped", "failed"}

TypeOK ==
    /\ mode \in {"file", "live"}
    /\ verbose_log \in BOOLEAN
    /\ bus \in {"open", "unbound", "closed"}
    /\ pc \in Location
    /\ left \in Nat
    /\ pkt \in Packet
    /\ todo \in Nat
    /\ init_chunk_count \in [Host -> Nat]
    /\ keys \in Seq(Host)
    /\ unchecked \in Seq(Host)
    /\ windows \in Nat
    /\ inits \in [Host -> Nat]
    /\ floods \in [Host -> Nat]
    /\ anomalies \in Nat
    /\ events \in Nat

(* The dictionary counts the INIT chunks of this window, and its keys are  *)
(* the sources that sent one, each once.                                   *)
KeysInv ==
    /\ init_chunk_count = inits
    /\ \A h \in Host : inits[h] > 0 <=> \E i \in 1 .. Len(keys) : keys[i] = h
    /\ \A i, j \in 1 .. Len(keys) : keys[i] = keys[j] => i = j

(* The loop of check_thresholds has the last keys before it, and no one    *)
(* else has any.                                                           *)
UncheckedInv ==
    /\ Len(unchecked) <= Len(keys)
    /\ \A i \in 1 .. Len(unchecked) :
          unchecked[i] = keys[Len(keys) - Len(unchecked) + i]
    /\ pc \notin {"check", "stopped", "failed"} => unchecked = <<>>

(* A window begins with nothing counted. *)
WindowInv == pc \in {"main", "sniff", "wrpcap"} => \A h \in Host : inits[h] = 0

Jump == IF pkt.jump THEN 1 ELSE 0

(* What of the packet in hand is still to be published. *)
AccountInv ==
    verbose_log =>
        /\ events <= anomalies
        /\ anomalies <= events + todo + Jump
        /\ pc \in {"main", "sniff", "wrpcap", "packet", "check", "reset", "done"} =>
              events = anomalies
        /\ pc = "log" => anomalies = events + todo + Jump
        /\ pc \in {"sctp", "tcp"} => todo = 0 /\ anomalies = events + Jump

IInv ==
    /\ TypeOK
    /\ KeysInv
    /\ UncheckedInv
    /\ WindowInv
    /\ FloodExact
    /\ AccountInv
-----------------------------------------------------------------------------
(* The parts of the invariant that a step leaves alone. *)

LEMMA PacketShape ==
    ASSUME NEW p \in Packet
    PROVE  /\ p.findings \in Nat
           /\ p.jump \in BOOLEAN
           /\ p.src # "unknown" /\ p.layer \in {"SCTPChunkInit", "RawInit"} <=> IsInit(p)
           /\ IsInit(p) => p.src \in Host
<1>1. CASE p \in [src : Host, layer : {"SCTPChunkInit", "RawInit", "RawOther"},
                 findings : {0}, jump : {FALSE}]
  <2>1. p.jump \in BOOLEAN /\ p.findings = 0 /\ p.src \in Host
        /\ p.layer \in {"SCTPChunkInit", "RawInit", "RawOther"}
    BY <1>1, Zenon
  <2> QED
    BY <2>1 DEF IsInit
<1>2. CASE p \in [src : Host, layer : {"TCP"}, findings : 0 .. MaxFindings, jump : BOOLEAN]
  BY <1>2 DEF IsInit
<1>3. CASE p \in [src : {"unknown"}, layer : {"TCP"}, findings : 0 .. MaxFindings, jump : {FALSE}]
  <2>1. p.jump \in BOOLEAN /\ p.findings \in 0 .. MaxFindings /\ p.layer = "TCP"
    BY <1>3, Zenon
  <2> QED
    BY <2>1 DEF IsInit
<1>4. CASE p \in [src : {"unknown"}, layer : {"SCTPChunkInit"}, findings : {0}, jump : {FALSE}]
  <2>1. p.jump \in BOOLEAN /\ p.findings = 0 /\ p.src = "unknown"
    BY <1>4, Zenon
  <2> QED
    BY <2>1, CaptureAssumption DEF IsInit
<1> QED
  BY <1>1, <1>2, <1>3, <1>4 DEF Packet

LEMMA RangeIsElements ==
    ASSUME NEW q \in Seq(Host), NEW h
    PROVE  h \in Range(q) <=> \E i \in 1 .. Len(q) : q[i] = h
BY LenProperties DEF Range

(* No source is counted unless it is a key. *)
LEMMA KeysUnchanged ==
    ASSUME KeysInv, UNCHANGED <<init_chunk_count, keys, inits>>
    PROVE  KeysInv'
BY DEF KeysInv

(* A step within a window before the check finds and leaves no flood. *)
LEMMA NoFloodYet ==
    ASSUME IInv, pc \in {"main", "sniff", "wrpcap", "packet", "log", "sctp", "tcp"},
           pc' \in Location \ {"check", "reset", "done"}, UNCHANGED <<floods, unchecked>>
    PROVE  FloodExact'
<1>1. \A h \in Host : floods[h] = 0
  BY DEF IInv, FloodExact, Checked, Running
<1>2. unchecked' = <<>>
  BY DEF IInv, UncheckedInv
<1> QED
  BY <1>1, <1>2 DEF FloodExact, Checked, Running

LEMMA InitialInv == Init => IInv
<1> SUFFICES ASSUME Init PROVE IInv
  OBVIOUS
<1> USE DEF Init
<1>1. TypeOK
  <2>1. pkt \in Packet
    BY DEF Packet
  <2>2. Zero \in [Host -> Nat]
    BY DEF Zero
  <2> QED
    BY <2>1, <2>2 DEF TypeOK, Location
<1>2. KeysInv /\ UncheckedInv /\ WindowInv
  BY DEF KeysInv, UncheckedInv, WindowInv, Zero
<1>3. FloodExact
  BY DEF FloodExact, Checked, Running, Zero
<1>4. AccountInv
  BY DEF AccountInv, Jump
<1> QED
  BY <1>1, <1>2, <1>3, <1>4 DEF IInv

-----------------------------------------------------------------------------
(* The steps. *)

LEMMA MainStep ==
    ASSUME IInv, main
    PROVE  IInv'
<1> USE DEF main
<1>1. TypeOK'
  BY DEF IInv, TypeOK, Location, options, sctp, history
<1>2. KeysInv'
  BY KeysUnchanged DEF IInv, sctp, history
<1>3. UncheckedInv' /\ WindowInv' /\ AccountInv'
  BY DEF IInv, UncheckedInv, WindowInv, AccountInv, Jump, options, sctp, history
<1>4. FloodExact'
  BY NoFloodYet DEF Location, sctp, history
<1> QED
  BY <1>1, <1>2, <1>3, <1>4 DEF IInv

LEMMA SniffStep ==
    ASSUME IInv, sniff
    PROVE  IInv'
<1> USE DEF sniff
<1>1. TypeOK'
  BY DEF IInv, TypeOK, Location, options, sctp
<1>2. KeysInv'
  BY KeysUnchanged DEF IInv, sctp
<1>3. UncheckedInv' /\ WindowInv' /\ AccountInv'
  BY DEF IInv, UncheckedInv, WindowInv, AccountInv, Jump, options, sctp
<1>4. FloodExact'
  <2>1. \A h \in Host : floods[h] = 0 /\ inits[h] = 0
    BY DEF IInv, FloodExact, Checked, Running, WindowInv
  <2>2. unchecked' = <<>>
    BY DEF IInv, UncheckedInv, sctp
  <2> QED
    BY <2>1, <2>2 DEF FloodExact, Checked, Running
<1> QED
  BY <1>1, <1>2, <1>3, <1>4 DEF IInv

LEMMA WrpcapStep ==
    ASSUME IInv, wrpcap
    PROVE  IInv'
<1> USE DEF wrpcap
<1>1. TypeOK'
  BY DEF IInv, TypeOK, Location, options, sctp, history
<1>2. KeysInv'
  BY KeysUnchanged DEF IInv, sctp, history
<1>3. UncheckedInv' /\ WindowInv' /\ AccountInv'
  BY DEF IInv, UncheckedInv, WindowInv, AccountInv, Jump, options, sctp, history
<1>4. FloodExact'
  BY NoFloodYet DEF Location, sctp, history
<1> QED
  BY <1>1, <1>2, <1>3, <1>4 DEF IInv

LEMMA ProcessPacketStep ==
    ASSUME IInv, process_packet
    PROVE  IInv'
<1>0. /\ pc = "packet"
      /\ UNCHANGED <<mode, verbose_log, bus, init_chunk_count, keys,
                     windows, inits, floods, events>>
  BY DEF process_packet, options
<1>1. KeysInv'
  BY <1>0, KeysUnchanged DEF IInv
<1>2. CASE /\ left > 0
           /\ left' = left - 1
           /\ pkt' \in Packet
           /\ anomalies' = anomalies + pkt'.findings + (IF pkt'.jump THEN 1 ELSE 0)
           /\ IF verbose_log THEN pc' = "log" /\ todo' = pkt'.findings
                             ELSE pc' = "sctp" /\ todo' = 0
           /\ UNCHANGED unchecked
  <2>1. pkt'.findings \in Nat /\ pkt'.jump \in BOOLEAN
    BY <1>2, PacketShape
  <2>2. TypeOK'
    <3>1. left' \in Nat /\ anomalies' \in Nat
      BY <1>2, <2>1 DEF IInv, TypeOK
    <3>2. todo' \in Nat /\ pc' \in Location
      BY <1>2, <2>1 DEF Location
    <3> QED
      BY <1>0, <1>2, <3>1, <3>2 DEF IInv, TypeOK
  <2>3. UncheckedInv' /\ WindowInv'
    BY <1>0, <1>2 DEF IInv, UncheckedInv, WindowInv
  <2>4. AccountInv'
    BY <1>0, <1>2, <2>1 DEF IInv, TypeOK, AccountInv, Jump
  <2>5. FloodExact'
    BY <1>0, <1>2, NoFloodYet DEF Location
  <2> QED
    BY <1>1, <2>2, <2>3, <2>4, <2>5 DEF IInv
<1>3. CASE /\ left = 0
           /\ pc' = "check"
           /\ unchecked' = keys
           /\ UNCHANGED <<left, pkt, todo, anomalies>>
  <2>1. TypeOK'
    BY <1>0, <1>3 DEF IInv, TypeOK, Location
  <2>2. UncheckedInv' /\ WindowInv'
    BY <1>0, <1>3, LenProperties DEF IInv, TypeOK, UncheckedInv, WindowInv
  <2>3. AccountInv'
    BY <1>0, <1>3 DEF IInv, AccountInv, Jump
  <2>4. FloodExact'
    <3>1. \A h \in Host : floods[h] = 0
      BY <1>0 DEF IInv, FloodExact, Checked, Running
    <3>2. ASSUME NEW h \in Host, h \notin Range(keys)
          PROVE  inits[h] = 0
      <4>1. keys \in Seq(Host) /\ inits[h] \in Nat
        BY DEF IInv, TypeOK
      <4>2. ~ \E i \in 1 .. Len(keys) : keys[i] = h
        BY <3>2, <4>1, RangeIsElements
      <4> QED
        BY <4>1, <4>2 DEF IInv, KeysInv
    <3> QED
      BY <1>0, <1>3, <3>1, <3>2 DEF FloodExact, Checked, Running
  <2> QED
    BY <1>1, <2>1, <2>2, <2>3, <2>4 DEF IInv
<1> QED
  BY <1>2, <1>3 DEF process_packet

LEMMA LogPacketStep ==
    ASSUME IInv, log_packet
    PROVE  IInv'
<1>0. /\ pc = "log"
      /\ UNCHANGED <<mode, verbose_log, bus, left, pkt, init_chunk_count, keys,
                     windows, inits, anomalies, unchecked, floods>>
      /\ \/ todo = 0 /\ pc' = "sctp" /\ UNCHANGED <<todo, events>>
         \/ todo > 0 /\ pc' = "log" /\ todo' = todo - 1 /\ events' = events + 1
         \/ todo > 0 /\ pc' = "failed" /\ UNCHANGED <<todo, events>>
  BY DEF log_packet, Publish, options
<1>1. TypeOK'
  BY <1>0 DEF IInv, TypeOK, Location
<1>2. KeysInv'
  BY <1>0, KeysUnchanged DEF IInv
<1>3. UncheckedInv' /\ WindowInv'
  BY <1>0 DEF IInv, UncheckedInv, WindowInv
<1>4. AccountInv'
  <2>1. Jump \in Nat /\ Jump' = Jump
    BY <1>0 DEF Jump
  <2>2. todo \in Nat /\ events \in Nat /\ anomalies \in Nat
    BY DEF IInv, TypeOK
  <2>3. verbose_log => anomalies = events + todo + Jump
    BY <1>0 DEF IInv, AccountInv
  <2> QED
    BY <1>0, <2>1, <2>2, <2>3 DEF AccountInv
<1>5. FloodExact'
  BY <1>0, NoFloodYet DEF Location
<1> QED
  BY <1>1, <1>2, <1>3, <1>4, <1>5 DEF IInv

(* Both forms of an INIT chunk are counted, and a source becomes a key     *)
(* with its first one.                                                     *)
LEMMA SctpStep ==
    ASSUME IInv, sctp_process_packet
    PROVE  IInv'
<1>0. /\ pc = "sctp" /\ pc' = "tcp"
      /\ UNCHANGED <<mode, verbose_log, bus, left, pkt, todo, unchecked,
                     windows, floods, anomalies, events>>
  BY DEF sctp_process_packet, options
<1>1. AccountInv' /\ WindowInv'
  BY <1>0 DEF IInv, AccountInv, Jump, WindowInv
<1>2. FloodExact'
  BY <1>0, NoFloodYet DEF Location
<1>3. unchecked = <<>>
  BY <1>0 DEF IInv, UncheckedInv
<1>4. UncheckedInv' /\ TypeOK' /\ KeysInv'
  <2>1. CASE ~ IsInit(pkt)
    <3>1. UNCHANGED <<init_chunk_count, keys, inits>>
      BY <2>1, PacketShape DEF sctp_process_packet, IInv, TypeOK
    <3> QED
      BY <1>0, <1>3, <3>1, KeysUnchanged DEF IInv, TypeOK, Location, UncheckedInv
  <2>2. CASE IsInit(pkt)
    <3> DEFINE h == pkt.src
    <3>1. /\ h \in Host
          /\ init_chunk_count' = [init_chunk_count EXCEPT ![h] = @ + 1]
          /\ keys' = IF init_chunk_count[h] = 0 THEN Append(keys, h) ELSE keys
          /\ inits' = [inits EXCEPT ![h] = @ + 1]
      BY <2>2, PacketShape DEF sctp_process_packet, IInv, TypeOK
    <3> HIDE DEF h
    <3>2. /\ keys \in Seq(Host) /\ Len(keys) \in Nat
          /\ inits \in [Host -> Nat] /\ init_chunk_count = inits
      BY LenProperties DEF IInv, TypeOK, KeysInv
    <3>3. inits' \in [Host -> Nat] /\ init_chunk_count' = inits'
      BY <3>1, <3>2
    <3>4. \A g \in Host : inits'[g] = IF g = h THEN inits[g] + 1 ELSE inits[g]
      BY <3>1, <3>2
    <3>5. CASE inits[h] = 0
      <4>1. keys' = Append(keys, h)
        BY <3>1, <3>2, <3>5
      <4>2. /\ keys' \in Seq(Host)
            /\ Len(keys') = Len(keys) + 1
            /\ \A i \in 1 .. Len(keys) : keys'[i] = keys[i]
            /\ keys'[Len(keys) + 1] = h
        BY <3>1, <3>2, <4>1, AppendProperties
      <4>3. \A i \in 1 .. Len(keys') : i \in 1 .. Len(keys) \/ i = Len(keys) + 1
        BY <3>2, <4>2
      <4>4. \A i \in 1 .. Len(keys) : keys[i] # h
        BY <3>1, <3>2, <3>5 DEF IInv, KeysInv
      <4>5. ASSUME NEW g \in Host
            PROVE  inits'[g] > 0 <=> \E i \in 1 .. Len(keys') : keys'[i] = g
        <5>1. CASE g = h
          <6>1. inits'[g] > 0
            BY <3>2, <3>4, <5>1
          <6>2. Len(keys) + 1 \in 1 .. Len(keys')
            BY <3>2, <4>2
          <6> QED
            BY <4>2, <5>1, <6>1, <6>2
        <5>2. CASE g # h
          <6>1. inits[g] > 0 <=> \E i \in 1 .. Len(keys) : keys[i] = g
            BY DEF IInv, KeysInv
          <6>2. 1 .. Len(keys) \subseteq 1 .. Len(keys')
            BY <3>2, <4>2
          <6>3. (\E i \in 1 .. Len(keys') : keys'[i] = g)
                   <=> \E i \in 1 .. Len(keys) : keys[i] = g
            BY <4>2, <4>3, <5>2, <6>2
          <6> QED
            BY <3>4, <5>2, <6>1, <6>3
        <5> QED
          BY <5>1, <5>2
      <4>6. ASSUME NEW i \in 1 .. Len(keys'), NEW j \in 1 .. Len(keys'), keys'[i] = keys'[j]
            PROVE  i = j
        <5>1. \A m, n \in 1 .. Len(keys) : keys[m] = keys[n] => m = n
          BY DEF IInv, KeysInv
        <5> QED
          BY <4>2, <4>3, <4>4, <4>6, <5>1
      <4>7. KeysInv'
        BY <3>3, <4>5, <4>6 DEF KeysInv
      <4>8. TypeOK'
        BY <1>0, <3>3, <4>2 DEF IInv, TypeOK, Location
      <4>9. UncheckedInv'
        BY <1>0, <1>3, <3>2, <4>2 DEF UncheckedInv
      <4> QED
        BY <4>7, <4>8, <4>9
    <3>6. CASE inits[h] # 0
      <4>1. UNCHANGED keys
        BY <3>1, <3>2, <3>6
      <4>2. \A g \in Host : inits'[g] > 0 <=> inits[g] > 0
        BY <3>1, <3>2, <3>4, <3>6
      <4>3. KeysInv'
        BY <3>3, <4>1, <4>2 DEF IInv, KeysInv
      <4>4. TypeOK'
        BY <1>0, <3>3, <4>1 DEF IInv, TypeOK, Location
      <4>5. UncheckedInv'
        BY <1>0, <1>3, <4>1 DEF IInv, UncheckedInv
      <4> QED
        BY <4>3, <4>4, <4>5
    <3> QED
      BY <3>5, <3>6
  <2> QED
    BY <2>1, <2>2
<1> QED
  BY <1>1, <1>2, <1>4 DEF IInv

LEMMA TcpStep ==
    ASSUME IInv, tcp_process_packet
    PROVE  IInv'
<1>0. /\ pc = "tcp"
      /\ UNCHANGED <<mode, verbose_log, bus, left, pkt, init_chunk_count, keys,
                     windows, inits, anomalies, todo, unchecked, floods>>
      /\ \/ ~ pkt.jump /\ pc' = "packet" /\ UNCHANGED events
         \/ pkt.jump /\ pc' = "packet" /\ events' = events + 1
         \/ pkt.jump /\ pc' = "failed" /\ UNCHANGED events
  BY DEF tcp_process_packet, Publish, options
<1>1. TypeOK'
  BY <1>0 DEF IInv, TypeOK, Location
<1>2. KeysInv'
  BY <1>0, KeysUnchanged DEF IInv
<1>3. UncheckedInv' /\ WindowInv'
  BY <1>0 DEF IInv, UncheckedInv, WindowInv
<1>4. AccountInv'
  BY <1>0 DEF IInv, TypeOK, AccountInv, Jump
<1>5. FloodExact'
  BY <1>0, NoFloodYet DEF Location
<1> QED
  BY <1>1, <1>2, <1>3, <1>4, <1>5 DEF IInv

(* Where the loop of check_thresholds is left, the sources already looked  *)
(* at are a prefix of the keys.                                            *)
LEMMA PrefixReported ==
    ASSUME IInv, NEW i \in DOMAIN keys
    PROVE  /\ keys[i] \in Host
           /\ keys[i] \notin Range(unchecked) <=> i <= Len(keys) - Len(unchecked)
<1>1. /\ keys \in Seq(Host) /\ Len(keys) \in Nat /\ DOMAIN keys = 1 .. Len(keys)
      /\ unchecked \in Seq(Host) /\ Len(unchecked) \in Nat
      /\ Len(unchecked) <= Len(keys)
  BY LenProperties DEF IInv, TypeOK, UncheckedInv
<1>2. i \in 1 .. Len(keys) /\ keys[i] \in Host
  BY <1>1, ElementOfSeq
<1>3. \A k \in 1 .. Len(unchecked) :
          /\ unchecked[k] = keys[Len(keys) - Len(unchecked) + k]
          /\ Len(keys) - Len(unchecked) + k \in 1 .. Len(keys)
  BY <1>1 DEF IInv, UncheckedInv
<1>4. ASSUME i > Len(keys) - Len(unchecked)
      PROVE  keys[i] \in Range(unchecked)
  <2> DEFINE k == i - (Len(keys) - Len(unchecked))
  <2>1. k \in 1 .. Len(unchecked) /\ Len(keys) - Len(unchecked) + k = i
    BY <1>1, <1>2, <1>4
  <2> HIDE DEF k
  <2>2. unchecked[k] = keys[i]
    BY <1>3, <2>1
  <2> QED
    BY <1>1, <2>1, <2>2, RangeIsElements
<1>5. ASSUME keys[i] \in Range(unchecked)
      PROVE  i > Len(keys) - Len(unchecked)
  <2>1. PICK k \in 1 .. Len(unchecked) : unchecked[k] = keys[i]
    BY <1>1, <1>5, RangeIsElements
  <2>2. Len(keys) - Len(unchecked) + k = i
    BY <1>2, <1>3, <2>1 DEF IInv, KeysInv
  <2> QED
    BY <1>1, <2>2
<1> QED
  BY <1>1, <1>2, <1>4, <1>5

(* Between two turns of the loop the flooding sources are reported up to   *)
(* the one before it, and the source in hand has no report yet.            *)
LEMMA CheckStep ==
    ASSUME IInv, check_thresholds
    PROVE  IInv'
<1>0. /\ pc = "check"
      /\ UNCHANGED <<mode, verbose_log, bus, left, pkt, init_chunk_count, keys,
                     windows, inits, anomalies, todo, events>>
  BY DEF check_thresholds, Publish, options
<1>1. KeysInv'
  BY <1>0, KeysUnchanged DEF IInv
<1>2. /\ keys \in Seq(Host) /\ Len(keys) \in Nat
      /\ unchecked \in Seq(Host) /\ Len(unchecked) \in Nat
      /\ floods \in [Host -> Nat]
      /\ \A h \in Host : inits[h] \in Nat
  BY LenProperties DEF IInv, TypeOK
<1>3. \A h \in Host :
          floods[h] = IF h \notin Range(unchecked) /\ inits[h] > MaxInitChunks THEN 1 ELSE 0
  BY <1>0 DEF IInv, FloodExact, Running, Checked
<1>4. AccountInv' /\ WindowInv'
  <2>1. pc' \in {"done", "reset", "check", "failed"}
    BY <1>0 DEF check_thresholds, Publish
  <2>2. Jump \in Nat /\ Jump' = Jump
    BY <1>0 DEF Jump
  <2> QED
    BY <1>0, <2>1, <2>2 DEF IInv, TypeOK, AccountInv, WindowInv
<1>5. CASE /\ unchecked = <<>>
           /\ pc' = IF mode = "file" THEN "done" ELSE "reset"
           /\ UNCHANGED <<unchecked, floods>>
  <2>1. TypeOK' /\ UncheckedInv'
    BY <1>0, <1>5 DEF IInv, TypeOK, Location, UncheckedInv
  <2>2. Range(unchecked) = {}
    BY <1>5 DEF Range
  <2>3. FloodExact'
    BY <1>0, <1>3, <1>5, <2>2 DEF FloodExact, Running, Checked
  <2> QED
    BY <1>1, <1>4, <2>1, <2>3 DEF IInv
<1>6. CASE unchecked # <<>> /\ pc' = "failed" /\ UNCHANGED <<unchecked, floods>>
  <2>1. TypeOK' /\ UncheckedInv'
    BY <1>0, <1>6 DEF IInv, TypeOK, Location, UncheckedInv
  <2>3. FloodExact'
    BY <1>0, <1>3, <1>6, PrefixReported DEF FloodExact, Running
  <2> QED
    BY <1>1, <1>4, <2>1, <2>3 DEF IInv
<1>7. CASE /\ unchecked # <<>>
           /\ unchecked' = Tail(unchecked)
           /\ pc' = "check"
           /\ IF IsFlood(init_chunk_count[Head(unchecked)])
              THEN floods' = [floods EXCEPT ![Head(unchecked)] = @ + 1]
              ELSE UNCHANGED floods
  <2> DEFINE h == Head(unchecked)
  <2>1. /\ h \in Host /\ h = unchecked[1]
        /\ Len(unchecked) \in Nat \ {0}
        /\ unchecked' \in Seq(Host)
        /\ Len(unchecked') = Len(unchecked) - 1
        /\ \A i \in 1 .. Len(unchecked') : unchecked'[i] = unchecked[i + 1]
    BY <1>2, <1>7, HeadTailProperties, EmptySeq
  <2>2. IF inits[h] > MaxInitChunks THEN floods' = [floods EXCEPT ![h] = @ + 1]
                                    ELSE UNCHANGED floods
    BY <1>7 DEF IsFlood, IInv, KeysInv
  <2> HIDE DEF h
  <2>3. TypeOK'
    <3>1. floods' \in [Host -> Nat]
      <4>1. [floods EXCEPT ![h] = @ + 1] \in [Host -> Nat]
        BY <1>2, <2>1
      <4> QED
        BY <1>2, <2>2, <4>1
    <3> QED
      BY <1>0, <1>7, <2>1, <3>1 DEF IInv, TypeOK
  <2>4. UncheckedInv'
    BY <1>0, <1>2, <1>7, <2>1 DEF IInv, UncheckedInv
  <2>5. \A i, j \in 1 .. Len(unchecked) : unchecked[i] = unchecked[j] => i = j
    <3>1. \A k \in 1 .. Len(unchecked) :
              /\ unchecked[k] = keys[Len(keys) - Len(unchecked) + k]
              /\ Len(keys) - Len(unchecked) + k \in 1 .. Len(keys)
      BY <1>2 DEF IInv, UncheckedInv
    <3>2. \A k, l \in 1 .. Len(keys) : keys[k] = keys[l] => k = l
      BY DEF IInv, KeysInv
    <3>3. ASSUME NEW i \in 1 .. Len(unchecked), NEW j \in 1 .. Len(unchecked),
                 unchecked[i] = unchecked[j]
          PROVE  i = j
      <4>1. Len(keys) - Len(unchecked) + i = Len(keys) - Len(unchecked) + j
        BY <3>1, <3>2, <3>3
      <4> QED
        BY <1>2, <4>1
    <3> QED
      BY <3>3
  <2>6. \A g \in Host : g \in Range(unchecked') <=> g \in Range(unchecked) /\ g # h
    <3>1. TAKE g \in Host
    <3>2. g \in Range(unchecked') <=> \E i \in 1 .. Len(unchecked') : unchecked'[i] = g
      BY <2>1, RangeIsElements
    <3>3. g \in Range(unchecked) <=> \E i \in 1 .. Len(unchecked) : unchecked[i] = g
      BY <1>2, RangeIsElements
    <3>4. ASSUME NEW i \in 1 .. Len(unchecked'), unchecked'[i] = g
          PROVE  g \in Range(unchecked) /\ g # h
      <4>1. i + 1 \in 1 .. Len(unchecked) /\ i + 1 # 1 /\ 1 \in 1 .. Len(unchecked)
        BY <2>1
      <4> QED
        BY <2>1, <2>5, <3>3, <3>4, <4>1
    <3>5. ASSUME NEW i \in 1 .. Len(unchecked), unchecked[i] = g, g # h
          PROVE  g \in Range(unchecked')
      <4>1. i - 1 \in 1 .. Len(unchecked') /\ (i - 1) + 1 = i
        BY <2>1, <3>5
      <4> QED
        BY <2>1, <3>2, <3>5, <4>1
    <3> QED
      BY <3>2, <3>3, <3>4, <3>5
  <2>7. h \in Range(unchecked)
    BY <1>2, <2>1, RangeIsElements
  <2>8. FloodExact'
    <3>1. ASSUME NEW g \in Host
          PROVE  floods'[g] = IF g \notin Range(unchecked') /\ inits[g] > MaxInitChunks
                              THEN 1 ELSE 0
      <4>1. CASE g = h
        BY <1>2, <1>3, <2>1, <2>2, <2>6, <2>7, <4>1
      <4>2. CASE g # h
        <5>1. floods'[g] = floods[g]
          BY <1>2, <2>1, <2>2, <4>2
        <5> QED
          BY <1>3, <2>6, <4>2, <5>1
      <4> QED
        BY <4>1, <4>2
    <3> QED
      BY <1>0, <1>7, <3>1 DEF FloodExact, Running, Checked
  <2> QED
    BY <1>1, <1>4, <2>3, <2>4, <2>8 DEF IInv
<1> QED
  BY <1>0, <1>5, <1>6, <1>7 DEF check_thresholds, Publish

LEMMA ResetStep ==
    ASSUME IInv, reset_window
    PROVE  IInv'
<1> USE DEF reset_window, Emptied
<1>1. TypeOK'
  <2>1. Zero \in [Host -> Nat]
    BY DEF Zero
  <2> QED
    BY <2>1 DEF IInv, TypeOK, Location, options
<1>2. KeysInv' /\ WindowInv' /\ UncheckedInv'
  BY DEF IInv, KeysInv, WindowInv, UncheckedInv, Zero
<1>3. AccountInv'
  BY DEF IInv, AccountInv, Jump, options
<1>4. FloodExact'
  BY DEF FloodExact, Running, Checked, Zero
<1> QED
  BY <1>1, <1>2, <1>3, <1>4 DEF IInv

(* Ctrl+C stops the check where it is, like an event that is refused. *)
LEMMA InterruptStep ==
    ASSUME IInv, KeyboardInterrupt
    PROVE  IInv'
<1>0. /\ Running /\ pc' \in {"stopped", "failed"}
      /\ UNCHANGED <<mode, verbose_log, bus, left, pkt, todo, init_chunk_count, keys,
                     unchecked, windows, inits, floods, anomalies, events>>
  BY DEF KeyboardInterrupt, options, sctp, history
<1>1. TypeOK'
  BY <1>0 DEF IInv, TypeOK, Location
<1>2. KeysInv' /\ UncheckedInv' /\ WindowInv' /\ AccountInv'
  BY <1>0 DEF IInv, KeysInv, UncheckedInv, WindowInv, AccountInv, Jump
<1>3. FloodExact'
  <2>1. CASE unchecked = <<>>
    BY <1>0, <2>1 DEF FloodExact, Running
  <2>2. CASE unchecked # <<>>
    <3>1. pc = "check"
      BY <1>0, <2>2 DEF IInv, UncheckedInv, Running
    <3>2. \A h \in Host :
             floods[h] = IF h \notin Range(unchecked) /\ inits[h] > MaxInitChunks THEN 1 ELSE 0
      BY <1>0, <3>1 DEF IInv, FloodExact, Checked
    <3> QED
      BY <1>0, <3>2, PrefixReported DEF IInv, TypeOK, FloodExact, Running
  <2> QED
    BY <2>1, <2>2
<1> QED
  BY <1>1, <1>2, <1>3 DEF IInv

LEMMA CloseBusStep ==
    ASSUME IInv, CloseBus
    PROVE  IInv'
<1>0. /\ bus' = "closed"
      /\ UNCHANGED <<mode, verbose_log, pc, left, pkt, todo, init_chunk_count, keys,
                     unchecked, windows, inits, floods, anomalies, events>>
  BY DEF CloseBus, options, thread, sctp, history
<1>1. TypeOK'
  BY <1>0 DEF IInv, TypeOK
<1> QED
  BY <1>0, <1>1 DEF IInv, KeysInv, UncheckedInv, WindowInv, AccountInv, Jump,
                    FloodExact, Running, Checked

-----------------------------------------------------------------------------
(* The theorems. *)

(* A refused event, Ctrl+C or a closing loop at any step keeps IInv. *)
THEOREM Invariance == Spec => []IInv
<1>1. Init => IInv
  BY InitialInv
<1>2. ASSUME IInv, [Next]_vars
      PROVE  IInv'
  <2>1. CASE UNCHANGED vars
    <3>1. UNCHANGED <<mode, verbose_log, bus, pc, left, pkt, todo, init_chunk_count, keys,
                      unchecked, windows, inits, floods, anomalies, events>>
      BY <2>1 DEF vars, options, thread, sctp, history
    <3> QED
      BY <1>2, <3>1 DEF IInv, TypeOK, KeysInv, UncheckedInv, WindowInv, AccountInv, Jump,
                        FloodExact, Running, Checked
  <2>2. CASE Step
    BY <1>2, <2>2, MainStep, SniffStep, WrpcapStep, ProcessPacketStep, LogPacketStep,
       SctpStep, TcpStep, CheckStep, ResetStep DEF Step
  <2> QED
    BY <1>2, <2>1, <2>2, InterruptStep, CloseBusStep DEF Next
<1> QED
  BY <1>1, <1>2, PTL DEF Spec

(* The counters, the dictionary and the loops have their types. *)
THEOREM TypeCorrect == Spec => []TypeOK
BY Invariance, PTL DEF IInv

(* check_thresholds publishes exactly one event for each source over the   *)
(* threshold of its window and none for the others, for any number of      *)
(* sources and windows; an exception in the loop leaves a prefix.          *)
THEOREM FloodsExact == Spec => []FloodExact
BY Invariance, PTL DEF IInv

(* log_packet and the TCP detector publish each finding and each jump      *)
(* once; a bus that raises costs at most the rest of the packet in hand.   *)
THEOREM FindingsArePublished == Spec => []FindingsPublished
<1>1. IInv => FindingsPublished
  BY DEF IInv, TypeOK, AccountInv, Jump, FindingsPublished
<1> QED
  BY <1>1, Invariance, PTL

=============================================================================
