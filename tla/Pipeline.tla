------------------------------ MODULE Pipeline ------------------------------
(***************************************************************************)
(* Detectors, bus and correlator together: the detector threads stamp and  *)
(* publish events with the src each of them uses, EventBus carries them to *)
(* the drain task, and the task gives them to add_event one by one while   *)
(* the clock goes on.                                                      *)
(*                                                                         *)
(* KillChain assumes that the events of one source arrive in the order in  *)
(* which they were built; here that follows from the bus and from no two   *)
(* threads using the same src.  The loop may stop and be closed at any     *)
(* moment.                                                                 *)
(***************************************************************************)
EXTENDS EventBus, SequencesExt

CONSTANTS
    WindowDuration,   \* KillChainCorrelator.window_duration
    MaxTime           \* bound on the wall clock

ASSUME PipelineAssumption ==
    /\ WindowDuration \in Nat
    /\ MaxTime \in Nat
    /\ {"capture", "observer", "ebpf"} \subseteq Thread

VARIABLES
    now,              \* time.time()
    info,             \* what the event with stamp n says is info[n + 1]
    hand,             \* the event the drain task has got and not yet added
    added,            \* history: stamps of the events given to add_event
    window, incident, delivered   \* KillChain

corr     == <<window, incident, delivered>>
pipeVars == <<now, info, hand, added, corr, vars>>

(* What the detectors put into src, by kind: an IP address, or "unknown"   *)
(* for a payload over IPv6; the two ends of a connection; a path; a        *)
(* process.  Deleted and moved files have no stage and are left out.       *)
SctpSrc    == {"ip"}
PayloadSrc == {"ip", "unknown"}
HijackSrc  == {"ip:port -> ip: port"}
FileSrc    == {"path"}
BpfSrc     == {"pid=X comm=Y"}

(* Fault: all detectors name the machine they run on. *)
SrcOf_Machine(event_type) == {"machine"}

SrcOf(event_type) ==
    CASE event_type = "sctp_init_flood" -> SctpSrc
      [] event_type = "payload_scan_finding" -> PayloadSrc
      [] event_type = "tcp_hijack_seq_anomaly" -> HijackSrc
      [] event_type \in {"file_created", "file_modified"} -> FileSrc
      [] event_type = "ebpf_unexpected_bpf_syscall" -> BpfSrc

(* The thread that publishes it. *)
ThreadOf(event_type) ==
    CASE event_type \in {"sctp_init_flood", "payload_scan_finding",
                         "tcp_hijack_seq_anomaly"} -> "capture"
      [] event_type \in {"file_created", "file_modified"} -> "observer"
      [] event_type = "ebpf_unexpected_bpf_syscall" -> "ebpf"

EventType == {"sctp_init_flood", "payload_scan_finding", "tcp_hijack_seq_anomaly",
              "file_created", "file_modified", "ebpf_unexpected_bpf_syscall"}
Src       == UNION {SrcOf(event_type) : event_type \in EventType}

(* The event with a stamp, as the correlator sees it. *)
EventOf(n) == [uuid |-> n, event_type |-> info[n + 1].event_type,
               timestamp |-> info[n + 1].timestamp]

(* On their way from a detector to the correlator, to KillChain, is every  *)
(* event built and not yet added, oldest first.                            *)
KC == INSTANCE KillChain WITH
    MaxSkew <- 0,
    high <- now,
    pending <- [s \in Src |->
        LET open == {n \in 0 .. created - 1 : info[n + 1].src = s /\ n \notin added}
            inOrder == SetToSortSeq(open, <)
        IN  [i \in DOMAIN inOrder |-> EventOf(inOrder[i])]]

-----------------------------------------------------------------------------
PipeInit ==
    /\ Init
    /\ now = 0
    /\ info = <<>>
    /\ hand = <<>>
    /\ added = {}
    /\ window    = [s \in Src |-> <<>>]
    /\ incident  = {}
    /\ delivered = [s \in Src |-> {}]

Tick ==
    /\ now < MaxTime
    /\ now' = now + 1
    /\ UNCHANGED <<info, hand, added, corr, vars>>

(* A detector builds an event; main.py lets them start when engine_ready   *)
(* says that the loop is bound (Startup.tla).                              *)
Detect(event_type) ==
    /\ loop # "unbound"
    /\ Construct(ThreadOf(event_type))
    /\ \E src \in SrcOf(event_type) :
          info' = Append(info, [src |-> src, event_type |-> event_type, timestamp |-> now])
    /\ UNCHANGED <<now, hand, added, corr>>

(* The engine's and the loop's own steps, and the detectors' publishing.   *)
BusStep ==
    /\ \/ bind_loop \/ StopLoop \/ CloseLoop \/ put_nowait
       \/ \E t \in Thread : publish_threadsafe(t)
    /\ UNCHANGED <<now, info, hand, added, corr>>

(* event = await ENGINE.get() *)
DrainGet ==
    /\ hand = <<>>
    /\ get
    /\ hand' = <<got'[Len(got')]>>
    /\ UNCHANGED <<now, info, added, corr>>

(* await kill_chain.add_event(event), after the broadcast. *)
DrainAdd ==
    /\ hand # <<>>
    /\ loop = "running"
    /\ hand' = <<>>
    /\ added' = added \cup {hand[1].stamp}
    /\ LET event == EventOf(hand[1].stamp)
           s     == info[hand[1].stamp + 1].src
           w     == KC!PruneWindow(Append(window[s], event), now - WindowDuration)
       IN  /\ window' = [window EXCEPT ![s] = w]
           /\ incident' = IF KC!EvaluateKillChain(w) THEN {KC!Escalate(s, w)} ELSE {}
           /\ delivered' = [delivered EXCEPT ![s] = @ \cup {event}]
    /\ UNCHANGED <<now, info, vars>>

PipeNext ==
    \/ Tick
    \/ \E event_type \in EventType : Detect(event_type)
    \/ BusStep
    \/ DrainGet
    \/ DrainAdd

PipeSpec == PipeInit /\ [][PipeNext]_pipeVars

-----------------------------------------------------------------------------
(* Properties. *)

(* The three parts together do what KillChain says: the events of a source *)
(* get to add_event in the order of their creation, and their timestamps   *)
(* are judged against a clock that has gone on since.                      *)
ImplementsKillChain == KC!Spec

(* README, Limitations: the detectors of the three vectors never use the   *)
(* same src, so that no combination of their events, in whatever order and *)
(* however close together, raises an incident.                             *)
NeverEscalates == incident = {}
=============================================================================
