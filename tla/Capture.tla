------------------------------ MODULE Capture ------------------------------
(***************************************************************************)
(* The capture thread: XdrCorrelator (xdr/correlator.py) drives            *)
(* PcapInvestigator.log_packet, SctpFloodDetector and TcpHijackDetector    *)
(* over the packets of a pcap file, or of one live window after another.   *)
(*                                                                         *)
(* One thread does everything, but it is not alone: the event loop behind  *)
(* ENGINE can go away between any two events it publishes, which makes     *)
(* publish_threadsafe raise in the middle of a packet or of a loop, and    *)
(* Ctrl+C can come at any step.                                            *)
(*                                                                         *)
(* A packet is what the detectors tell apart: its layers, how many         *)
(* findings scan_payload returns for it (PayloadScan.tla) and whether its  *)
(* sequence number is a jump (TcpHijack.tla).                              *)
(***************************************************************************)
EXTENDS Integers, Sequences, Functions

CONSTANTS
    Host,             \* IPv4 sources
    MaxInitChunks,    \* max_init_chunks
    MaxFindings,      \* bound on the findings of one payload
    MaxPackets,       \* bound on the packets of a file or window
    MaxWindows        \* bound on the live windows

ASSUME CaptureAssumption ==
    /\ MaxInitChunks \in Nat
    /\ MaxFindings \in Nat
    /\ MaxPackets \in Nat
    /\ MaxWindows \in Nat
    /\ "unknown" \notin Host

VARIABLES
    mode,               \* investigator.capture_type()
    verbose_log,        \* not --quiet
    bus,                \* does publish_threadsafe accept ("open") or raise
    pc,                 \* where the capture thread is
    left,               \* packets of the file or window not yet processed
    pkt,                \* the packet in hand
    todo,               \* findings of that packet not yet published
    init_chunk_count,   \* self.init_chunk_count, 0 for an absent key
    keys,               \* the keys of that dictionary, in insertion order
    unchecked,          \* the keys the loop of check_thresholds has before it
    windows,            \* history: live windows opened
    inits,              \* history: INIT chunks per IPv4 source in this window
    floods,             \* history: flood events published in this window
    anomalies,          \* history: findings and jumps in the packets processed
    events              \* history: events published about those

thread  == <<pc, left, pkt, todo>>
sctp    == <<init_chunk_count, keys, unchecked>>
options == <<mode, verbose_log>>
history == <<windows, inits, floods, anomalies, events>>
vars    == <<options, bus, thread, sctp, history>>

(* SCTP packets that scapy dissects down to the INIT chunk (over IPv6, too)*)
(* or leaves Raw above IP protocol 132, with an INIT or something else at  *)
(* byte 12, and TCP packets over IPv4 and IPv6.                            *)
Packet ==
    [src : Host, layer : {"SCTPChunkInit", "RawInit", "RawOther"},
     findings : {0}, jump : {FALSE}]
    \cup [src : {"unknown"}, layer : {"SCTPChunkInit"}, findings : {0}, jump : {FALSE}]
    \cup [src : Host, layer : {"TCP"}, findings : 0 .. MaxFindings, jump : BOOLEAN]
    \cup [src : {"unknown"}, layer : {"TCP"}, findings : 0 .. MaxFindings, jump : {FALSE}]

Zero == [h \in Host |-> 0]

(* An exception leaves every loop; in run_live only Ctrl+C is caught. *)
Running == pc \notin {"done", "stopped", "failed"}

-----------------------------------------------------------------------------
(* SctpFloodDetector. *)

(* Fault: only the dissected form is recognised. *)
IsInit_Dissected(p) == p.src \in Host /\ p.layer = "SCTPChunkInit"

(* The two tests of process_packet; without an IP layer it returns first. *)
IsInit(p) == p.src \in Host /\ p.layer \in {"SCTPChunkInit", "RawInit"}

IsFlood(count) == count > MaxInitChunks

(* Fault: the new window starts with the old counts. *)
Emptied_Kept == UNCHANGED <<init_chunk_count, keys>>

(* self.init_chunk_count = defaultdict(int) *)
Emptied == init_chunk_count' = Zero /\ keys' = <<>>

-----------------------------------------------------------------------------

(* ENGINE.publish_threadsafe, after which the thread goes on at next; or   *)
(* it raises and nobody above catches it.                                  *)
Publish(published, next) ==
    \/ bus = "open" /\ published /\ pc' = next
    \/ /\ bus # "open"
       /\ pc' = "failed"
       /\ UNCHANGED <<todo, unchecked, floods, events>>

Init ==
    /\ mode \in {"file", "live"}
    /\ verbose_log \in BOOLEAN
    /\ bus \in {"open", "unbound"}
    /\ pc = "main"
    /\ left = 0
    /\ pkt = [src |-> "unknown", layer |-> "TCP", findings |-> 0, jump |-> FALSE]
    /\ todo = 0
    /\ init_chunk_count = Zero
    /\ keys = <<>>
    /\ unchecked = <<>>
    /\ windows = 0
    /\ inits = Zero
    /\ floods = Zero
    /\ anomalies = 0
    /\ events = 0

(* main: ElfParser may exit (ElfParser.tla), rdpcap may raise; otherwise   *)
(* the file is in memory, or live capture begins.                          *)
main ==
    /\ pc = "main"
    /\ \/ pc' = "failed" /\ UNCHANGED left
       \/ mode = "file" /\ pc' = "packet" /\ left' \in 0 .. MaxPackets
       \/ mode = "live" /\ pc' = "sniff" /\ UNCHANGED left
    /\ UNCHANGED <<options, bus, pkt, todo, sctp, history>>

(* sniff() returns the packets of one window, or raises.  (scapy may answer*)
(* Ctrl+C by returning early: that is a short window.)                     *)
sniff ==
    /\ pc = "sniff"
    /\ windows < MaxWindows
    /\ windows' = windows + 1
    /\ \/ pc' = "failed" /\ UNCHANGED left
       \/ /\ left' \in 0 .. MaxPackets
          /\ pc' = IF left' > 0 THEN "wrpcap" ELSE "reset"
    /\ UNCHANGED <<options, bus, pkt, todo, sctp,
                   inits, floods, anomalies, events>>

(* The window is appended to live_capture.pcap before anything looks at it;*)
(* a full disk ends the capture.                                           *)
wrpcap ==
    /\ pc = "wrpcap"
    /\ pc' \in {"packet", "failed"}
    /\ UNCHANGED <<options, bus, left, pkt, todo, sctp, history>>

(* process_packet of the next packet begins, with log_packet unless the    *)
(* run is quiet; after the last one, check_thresholds begins.              *)
process_packet ==
    /\ pc = "packet"
    /\ \/ /\ left > 0
          /\ left' = left - 1
          /\ pkt' \in Packet
          /\ anomalies' = anomalies + pkt'.findings + (IF pkt'.jump THEN 1 ELSE 0)
          /\ IF verbose_log THEN pc' = "log" /\ todo' = pkt'.findings
                            ELSE pc' = "sctp" /\ todo' = 0
          /\ UNCHANGED unchecked
       \/ /\ left = 0
          /\ pc' = "check"
          /\ unchecked' = keys
          /\ UNCHANGED <<left, pkt, todo, anomalies>>
    /\ UNCHANGED <<options, bus, init_chunk_count, keys,
                   windows, inits, floods, events>>

(* Fault: log_packet publishes the first finding only. *)
log_packet_First ==
    /\ pc = "log"
    /\ \/ todo = 0 /\ pc' = "sctp" /\ UNCHANGED <<todo, unchecked, floods, events>>
       \/ /\ todo > 0
          /\ Publish(todo' = 0 /\ events' = events + 1
                        /\ UNCHANGED <<unchecked, floods>>, "sctp")
    /\ UNCHANGED <<options, bus, left, pkt, init_chunk_count, keys,
                   windows, inits, anomalies>>

(* The loop of log_packet over the findings, one event each. *)
log_packet ==
    /\ pc = "log"
    /\ \/ todo = 0 /\ pc' = "sctp" /\ UNCHANGED <<todo, unchecked, floods, events>>
       \/ /\ todo > 0
          /\ Publish(todo' = todo - 1 /\ events' = events + 1
                        /\ UNCHANGED <<unchecked, floods>>, "log")
    /\ UNCHANGED <<options, bus, left, pkt, init_chunk_count, keys,
                   windows, inits, anomalies>>

(* SctpFloodDetector.process_packet *)
sctp_process_packet ==
    /\ pc = "sctp"
    /\ pc' = "tcp"
    /\ IF IsInit(pkt)
       THEN /\ init_chunk_count' = [init_chunk_count EXCEPT ![pkt.src] = @ + 1]
            /\ keys' = IF init_chunk_count[pkt.src] = 0 THEN Append(keys, pkt.src) ELSE keys
       ELSE UNCHANGED <<init_chunk_count, keys>>
    /\ inits' = IF pkt.src # "unknown" /\ pkt.layer \in {"SCTPChunkInit", "RawInit"}
                THEN [inits EXCEPT ![pkt.src] = @ + 1] ELSE inits
    /\ UNCHANGED <<options, bus, left, pkt, todo, unchecked,
                   windows, floods, anomalies, events>>

(* TcpHijackDetector.process_packet *)
tcp_process_packet ==
    /\ pc = "tcp"
    /\ \/ /\ ~ pkt.jump
          /\ pc' = "packet"
          /\ UNCHANGED <<todo, unchecked, floods, events>>
       \/ /\ pkt.jump
          /\ Publish(events' = events + 1 /\ UNCHANGED <<todo, unchecked, floods>>, "packet")
    /\ UNCHANGED <<options, bus, left, pkt, init_chunk_count, keys,
                   windows, inits, anomalies>>

(* The loop of check_thresholds; after it a file is done. *)
check_thresholds ==
    /\ pc = "check"
    /\ \/ /\ unchecked = <<>>
          /\ pc' = IF mode = "file" THEN "done" ELSE "reset"
          /\ UNCHANGED <<todo, unchecked, floods, events>>
       \/ /\ unchecked # <<>>
          /\ ~ IsFlood(init_chunk_count[Head(unchecked)])
          /\ unchecked' = Tail(unchecked)
          /\ UNCHANGED <<pc, todo, floods, events>>
       \/ /\ unchecked # <<>>
          /\ IsFlood(init_chunk_count[Head(unchecked)])
          /\ Publish(/\ floods' = [floods EXCEPT ![Head(unchecked)] = @ + 1]
                     /\ unchecked' = Tail(unchecked)
                     /\ UNCHANGED <<todo, events>>, "check")
    /\ UNCHANGED <<options, bus, left, pkt, init_chunk_count, keys,
                   windows, inits, anomalies>>

(* reset_window, also when the window had no packets. *)
reset_window ==
    /\ pc = "reset"
    /\ pc' = "sniff"
    /\ Emptied
    /\ inits' = Zero /\ floods' = Zero
    /\ UNCHANGED <<options, bus, left, pkt, todo, unchecked, windows, anomalies, events>>

(* Ctrl+C.  run_live catches it; what the window has counted is not looked *)
(* at any more.                                                            *)
KeyboardInterrupt ==
    /\ Running
    /\ pc' = IF mode = "live" /\ pc # "main" THEN "stopped" ELSE "failed"
    /\ UNCHANGED <<options, bus, left, pkt, todo, sctp, history>>

(* The server's event loop is closed. *)
CloseBus ==
    /\ bus = "open"
    /\ bus' = "closed"
    /\ UNCHANGED <<options, thread, sctp, history>>

Step ==
    \/ main \/ sniff \/ wrpcap
    \/ process_packet \/ log_packet \/ sctp_process_packet \/ tcp_process_packet
    \/ check_thresholds \/ reset_window

Next == Step \/ KeyboardInterrupt \/ CloseBus

Spec == Init /\ [][Next]_vars

(* The thread goes on as long as it can; sniff returns after its timeout.  *)
FairSpec == Spec /\ WF_vars(Step)

-----------------------------------------------------------------------------
(* Properties. *)

(* Has the loop of check_thresholds passed the source in this window? *)
Checked(h) ==
    \/ pc \in {"reset", "done"}
    \/ pc = "check" /\ h \notin Range(unchecked)

(* A flood event is published for a source exactly when it sent more INIT  *)
(* chunks than allowed in this very window, once, and whatever the other   *)
(* sources did: no chunk is forgotten or carried over into a later window. *)
(* A check that raises leaves a prefix: the sources before the one whose   *)
(* event was refused were reported, it and the later ones were not.        *)
FloodExact ==
    /\ Running => \A h \in Host :
          floods[h] = IF Checked(h) /\ inits[h] > MaxInitChunks THEN 1 ELSE 0
    /\ pc = "failed" /\ unchecked # <<>> => \A i \in DOMAIN keys :
          floods[keys[i]] = IF inits[keys[i]] > MaxInitChunks
                               /\ i <= Len(keys) - Len(unchecked) THEN 1 ELSE 0

(* Between two packets everything the payload scan and the TCP detector    *)
(* found so far has been published, once each; a raising bus leaves at most*)
(* what remained of the packet in hand.                                    *)
FindingsPublished ==
    verbose_log =>
        /\ pc \in {"packet", "check", "reset", "sniff", "done"} => events = anomalies
        /\ events <= anomalies
        /\ anomalies - events <= todo + (IF pkt.jump THEN 1 ELSE 0)

(* A source over the threshold is reported before its window is over,      *)
(* unless the capture ends first.                                          *)
FloodAlerted ==
    \A h \in Host :
        inits[h] > MaxInitChunks ~> floods[h] > 0 \/ pc \in {"stopped", "failed"}
=============================================================================
