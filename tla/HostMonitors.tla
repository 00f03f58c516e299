---------------------------- MODULE HostMonitors ----------------------------
(***************************************************************************)
(* run_host_monitors.py: the threads of the host-side program.             *)
(*                                                                         *)
(*   - the Observer thread of the watchdog library, which calls the        *)
(*     handlers of XdrFileWatchdog (xdr/host/file_watchdog.py);            *)
(*   - ebpf-poll, which calls BpfSyscallWatcher._handle_event              *)
(*     (xdr/host/ebpf_hooks.py);                                           *)
(*   - queue-consumer, which drains ALERT_QUEUE (xdr/core/alert_queue.py); *)
(*   - main, which starts them, waits, stops them and prints a report.     *)
(*                                                                         *)
(* Both handlers push an alert and then publish a SecurityEvent.  No event *)
(* loop runs in this program and nobody calls ENGINE.bind_loop, so         *)
(* publish_threadsafe raises every time (EventBus.tla, loop "unbound").    *)
(*                                                                         *)
(* External, from their use here: the Observer (an exception of a handler  *)
(* ends its thread; stop() is noticed between two events and wakes a       *)
(* thread that waits), BCC (an exception of a perf-buffer callback is      *)
(* printed and dropped; the kprobe and the perf buffer lose nothing),      *)
(* queue.Queue and threading.                                              *)
(***************************************************************************)
EXTENDS Integers, Sequences, SequencesExt

CONSTANTS
    FileType,        \* alert types of XdrFileWatchdog, one per handler
    MaxFileEvents,   \* bound on the file system events
    MaxCalls         \* bound on the bpf() calls

EbpfType == {"ebpf_unexpected_bpf_syscall"}

ASSUME HostAssumption ==
    /\ MaxFileEvents \in Nat
    /\ MaxCalls \in Nat
    /\ FileType \cap EbpfType = {}

VARIABLES
    main,          \* where main() is
    stop_event,    \* the threading.Event that main sets
    report,        \* the two answers main prints, as a set of sides
    observer,      \* the Observer thread
    observerStop,  \* has Observer.stop() been called
    fs,            \* file system events waiting for the Observer
    ebpf,          \* the ebpf-poll thread
    perf,          \* bpf() calls waiting in the perf buffer
    due,           \* of these, what perf_buffer_poll must still read
    consumer,      \* the queue-consumer thread
    hand,          \* the alert it holds, a sequence of at most one
    ALERT_QUEUE,   \* the shared queue
    seen_types,    \* the set shared by queue-consumer and main
    lock,          \* who holds seen_types_lock
    pushed,        \* history: every alert put into ALERT_QUEUE, in order
    taken,         \* history: number of alerts the consumer got
    fsDone,        \* history: the file system events handed to a handler
    perfDone       \* history: the calls handed to _handle_event

vars == <<main, stop_event, report, observer, observerStop, fs, ebpf, perf,
          due, consumer, hand, ALERT_QUEUE, seen_types, lock,
          pushed, taken, fsDone, perfDone>>

mainVars     == <<main, stop_event, report>>
fileVars     == <<observer, observerStop, fs, fsDone>>
ebpfVars     == <<ebpf, perf, due, perfDone>>
consumerVars == <<consumer, hand, seen_types, taken>>
queueVars    == <<ALERT_QUEUE, pushed>>

Alive == main \notin {"done", "aborted"}

-----------------------------------------------------------------------------
Init ==
    /\ main = "starting"
    /\ stop_event = FALSE
    /\ report = {}
    /\ observer = "idle"
    /\ observerStop = FALSE
    /\ fs = <<>>
    /\ ebpf = "none"
    /\ perf = <<>>
    /\ due = 0
    /\ consumer = "none"
    /\ hand = <<>>
    /\ ALERT_QUEUE = <<>>
    /\ seen_types = {}
    /\ lock = "free"
    /\ pushed = <<>>
    /\ taken = 0
    /\ fsDone = <<>>
    /\ perfDone = <<>>

-----------------------------------------------------------------------------
(* The environment.  ignored: the handler will return at once (a directory;*)
(* a whitelisted pid or a descendant of this process).                     *)

(* Something happens in the watched directory. *)
FileEvent(type, ignored) ==
    /\ Alive
    /\ ~ observerStop
    /\ Len(fsDone) + Len(fs) < MaxFileEvents
    /\ fs' = Append(fs, [type |-> type, ignored |-> ignored,
                         n |-> Len(fsDone) + Len(fs) + 1])
    /\ UNCHANGED <<mainVars, observer, observerStop, fsDone, ebpfVars,
                   consumerVars, lock, queueVars>>

(* A process calls bpf(). *)
BpfCall(ignored) ==
    /\ Alive
    /\ ebpf # "none"
    /\ Len(perfDone) + Len(perf) < MaxCalls
    /\ \E type \in EbpfType :
          perf' = Append(perf, [type |-> type, ignored |-> ignored,
                                n |-> Len(perfDone) + Len(perf) + 1])
    /\ UNCHANGED <<mainVars, fileVars, ebpf, due, perfDone, consumerVars, lock, queueVars>>

(* push_alert *)
PushAlert(o) ==
    /\ ALERT_QUEUE' = Append(ALERT_QUEUE, [type |-> o.type, n |-> o.n])
    /\ pushed' = Append(pushed, [type |-> o.type, n |-> o.n])

-----------------------------------------------------------------------------
(* The Observer thread. *)

ObserverCheck ==
    /\ Alive
    /\ observer = "idle"
    /\ observer' = IF observerStop THEN "exited" ELSE "waiting"
    /\ UNCHANGED <<mainVars, observerStop, fs, fsDone, ebpfVars, consumerVars,
                   lock, queueVars>>

(* Fault: the handler publishes before it pushes the alert. *)
AlertFile_PublishFirst(o) == observer' = "dead" /\ UNCHANGED queueVars

AlertFile(o) == PushAlert(o) /\ observer' = "publishing"

(* on_created, on_modified, on_deleted or on_moved, up to publish. *)
OnFileEvent ==
    /\ Alive
    /\ observer = "waiting"
    /\ fs # <<>>
    /\ fs' = Tail(fs)
    /\ fsDone' = Append(fsDone, Head(fs))
    /\ \/ /\ Head(fs).ignored
          /\ observer' = "idle"
          /\ UNCHANGED queueVars
       \/ /\ ~ Head(fs).ignored
          /\ AlertFile(Head(fs))
    /\ UNCHANGED <<mainVars, observerStop, ebpfVars, consumerVars, lock>>

(* publish_threadsafe raises, the handler does not catch it, the thread    *)
(* ends.                                                                   *)
ObserverPublish ==
    /\ Alive
    /\ observer = "publishing"
    /\ observer' = "dead"
    /\ UNCHANGED <<mainVars, observerStop, fs, fsDone, ebpfVars, consumerVars,
                   lock, queueVars>>

(* stop() wakes a thread that waits for an event. *)
ObserverWakes ==
    /\ Alive
    /\ observer = "waiting"
    /\ observerStop
    /\ fs = <<>>
    /\ observer' = "idle"
    /\ UNCHANGED <<mainVars, observerStop, fs, fsDone, ebpfVars, consumerVars,
                   lock, queueVars>>

-----------------------------------------------------------------------------
(* ebpf-poll: run_ebpf_poll_loop. *)

EbpfCheck ==
    /\ Alive
    /\ ebpf = "idle"
    /\ \/ stop_event /\ ebpf' = "exited" /\ UNCHANGED due
       \/ ~ stop_event /\ ebpf' = "polling" /\ due' = Len(perf)
    /\ UNCHANGED <<mainVars, fileVars, perf, perfDone, consumerVars, lock, queueVars>>

(* perf_buffer_poll calls _handle_event for a record. *)
HandleEvent ==
    /\ Alive
    /\ ebpf = "polling"
    /\ perf # <<>>
    /\ perf' = Tail(perf)
    /\ perfDone' = Append(perfDone, Head(perf))
    /\ due' = IF due > 0 THEN due - 1 ELSE 0
    /\ \/ /\ Head(perf).ignored
          /\ UNCHANGED <<ebpf, queueVars>>
       \/ /\ ~ Head(perf).ignored
          /\ PushAlert(Head(perf))
          /\ ebpf' = "publishing"
    /\ UNCHANGED <<mainVars, fileVars, consumerVars, lock>>

(* Fault: the exception gets out of perf_buffer_poll and ends the thread. *)
AfterCallback_Escapes == "exited"

(* An exception of the callback is printed by BCC, which goes on polling. *)
AfterCallback == "polling"

(* publish_threadsafe raises inside the callback. *)
EbpfPublish ==
    /\ Alive
    /\ ebpf = "publishing"
    /\ ebpf' = AfterCallback
    /\ UNCHANGED <<mainVars, fileVars, perf, due, perfDone, consumerVars, lock, queueVars>>

(* perf_buffer_poll returns when its 200 ms are over or it has read what   *)
(* was there: later records may be read with them or stay for the next one.*)
PollReturns ==
    /\ Alive
    /\ ebpf = "polling"
    /\ due = 0
    /\ ebpf' = "idle"
    /\ UNCHANGED <<mainVars, fileVars, perf, due, perfDone, consumerVars, lock, queueVars>>

-----------------------------------------------------------------------------
(* queue-consumer: drain_queue. *)

ConsumerCheck ==
    /\ Alive
    /\ consumer = "idle"
    /\ consumer' = IF stop_event THEN "exited" ELSE "getting"
    /\ UNCHANGED <<mainVars, fileVars, ebpfVars, hand, seen_types, taken, lock, queueVars>>

(* Fault: a LifoQueue. *)
Position_Newest == Len(ALERT_QUEUE)

(* The alert that queue.Queue hands out. *)
Position == 1

(* ALERT_QUEUE.get returns an alert ... *)
ConsumerGet ==
    /\ Alive
    /\ consumer = "getting"
    /\ ALERT_QUEUE # <<>>
    /\ hand' = <<ALERT_QUEUE[Position]>>
    /\ ALERT_QUEUE' = RemoveAt(ALERT_QUEUE, Position)
    /\ taken' = taken + 1
    /\ consumer' = "locking"
    /\ UNCHANGED <<mainVars, fileVars, ebpfVars, seen_types, lock, pushed>>

(* ... or raises queue.Empty. *)
ConsumerTimeout ==
    /\ Alive
    /\ consumer = "getting"
    /\ ALERT_QUEUE = <<>>
    /\ consumer' = "idle"
    /\ UNCHANGED <<mainVars, fileVars, ebpfVars, hand, seen_types, taken, lock, queueVars>>

(* Fault: the consumer adds without the lock. *)
Acquire_Not == consumer' = "idle" /\ UNCHANGED lock

Acquire == lock = "free" /\ lock' = "consumer" /\ consumer' = "holding"

(* with lock: seen_types.add *)
ConsumerAdd ==
    /\ Alive
    /\ consumer = "locking"
    /\ Acquire
    /\ seen_types' = seen_types \cup {a.type : a \in Range(hand)}
    /\ hand' = <<>>
    /\ UNCHANGED <<mainVars, fileVars, ebpfVars, taken, queueVars>>

(* The lock is released and the alert printed. *)
ConsumerRelease ==
    /\ Alive
    /\ consumer = "holding"
    /\ lock' = "free"
    /\ consumer' = "idle"
    /\ UNCHANGED <<mainVars, fileVars, ebpfVars, hand, seen_types, taken, queueVars>>

-----------------------------------------------------------------------------
(* main.  fs_watchdog.start() has returned in the initial state. *)

(* BpfSyscallWatcher() attaches the probe and ebpf-poll is started, or the *)
(* constructor raises and the program ends with it.                        *)
StartEbpf ==
    /\ main = "starting"
    /\ \/ main' = "starting_consumer" /\ ebpf' = "idle"
       \/ main' = "aborted" /\ UNCHANGED ebpf
    /\ UNCHANGED <<stop_event, report, fileVars, perf, due, perfDone,
                   consumerVars, lock, queueVars>>

StartConsumer ==
    /\ main = "starting_consumer"
    /\ main' = "running"
    /\ consumer' = "idle"
    /\ UNCHANGED <<stop_event, report, fileVars, ebpfVars, hand, seen_types, taken,
                   lock, queueVars>>

(* Ctrl+C, or --duration is over: stop_event.set(). *)
Stop ==
    /\ main = "running"
    /\ stop_event' = TRUE
    /\ main' = "stopping"
    /\ UNCHANGED <<report, fileVars, ebpfVars, consumerVars, lock, queueVars>>

(* Fault: XdrFileWatchdog.stop joins without stopping. *)
ObserverStop_Forgotten == UNCHANGED observerStop

ObserverStop == observerStop' = TRUE

(* fs_watchdog.stop(): observer.stop() ... *)
StopObserver ==
    /\ main = "stopping"
    /\ ObserverStop
    /\ main' = "join_observer"
    /\ UNCHANGED <<stop_event, report, observer, fs, fsDone, ebpfVars, consumerVars,
                   lock, queueVars>>

(* ... and observer.join(), without a timeout. *)
JoinObserver ==
    /\ main = "join_observer"
    /\ observer \in {"exited", "dead"}
    /\ main' = "join_ebpf"
    /\ UNCHANGED <<stop_event, report, fileVars, ebpfVars, consumerVars, lock, queueVars>>

(* join(timeout=2) returns when the thread has ended, and also when not. *)
JoinEbpf ==
    /\ main = "join_ebpf"
    /\ main' = "join_consumer"
    /\ UNCHANGED <<stop_event, report, fileVars, ebpfVars, consumerVars, lock, queueVars>>

JoinConsumer ==
    /\ main = "join_consumer"
    /\ main' = "locking"
    /\ UNCHANGED <<stop_event, report, fileVars, ebpfVars, consumerVars, lock, queueVars>>

(* with seen_types_lock: the report is computed and printed. *)
Report ==
    /\ main = "locking"
    /\ lock = "free"
    /\ lock' = "main"
    /\ report' = {side \in {FileType, EbpfType} : side \cap seen_types # {}}
    /\ main' = "reporting"
    /\ UNCHANGED <<stop_event, fileVars, ebpfVars, consumerVars, queueVars>>

(* main returns, and the daemon threads end with it. *)
Return ==
    /\ main = "reporting"
    /\ lock' = "free"
    /\ main' = "done"
    /\ UNCHANGED <<stop_event, report, fileVars, ebpfVars, consumerVars, queueVars>>

-----------------------------------------------------------------------------
Observer == ObserverCheck \/ OnFileEvent \/ ObserverPublish \/ ObserverWakes
EbpfPoll == EbpfCheck \/ HandleEvent \/ EbpfPublish \/ PollReturns
Consumer == ConsumerCheck \/ ConsumerGet \/ ConsumerTimeout \/ ConsumerAdd \/ ConsumerRelease
Shutdown == StopObserver \/ JoinObserver \/ JoinEbpf \/ JoinConsumer \/ Report \/ Return

Next ==
    \/ \E type \in FileType, ignored \in BOOLEAN : FileEvent(type, ignored)
    \/ \E ignored \in BOOLEAN : BpfCall(ignored)
    \/ Observer \/ EbpfPoll \/ Consumer
    \/ StartEbpf \/ StartConsumer \/ Stop \/ Shutdown

Spec == Init /\ [][Next]_vars

(* The operating system schedules every thread that can go on; the lock is *)
(* free again and again, and whoever waits for it gets it in the end.      *)
(* Nothing has to happen on the host, and nobody has to press Ctrl+C.      *)
FairSpec ==
    /\ Spec
    /\ WF_vars(Observer) /\ WF_vars(EbpfPoll) /\ WF_vars(Consumer) /\ WF_vars(Shutdown)
    /\ SF_vars(ConsumerAdd) /\ SF_vars(Report)

-----------------------------------------------------------------------------
(* Properties. *)

(* The alerts of these types are those of the occurrences handled, except  *)
(* the ignored, once each and in the order in which they happened.         *)
AlertedInOrder(types, done) ==
    /\ {a \in Range(pushed) : a.type \in types} =
          {[type |-> o.type, n |-> o.n] : o \in {d \in Range(done) : ~ d.ignored}}
    /\ \A i, j \in DOMAIN pushed :
          i < j /\ {pushed[i].type, pushed[j].type} \subseteq types
              => pushed[i].n < pushed[j].n

(* Every occurrence that reached a handler and is not to be ignored has    *)
(* its alert in the queue, once and in order, although each publish raises *)
(* and the two handlers interleave: push_alert comes before publish.       *)
HandledIsAlerted ==
    /\ AlertedInOrder(FileType, fsDone)
    /\ AlertedInOrder(EbpfType, perfDone)

(* seen_types is exactly what the consumer got, but for the alert it holds,*)
(* and the alerts it did not get are still in the queue; main's report     *)
(* never claims a side that sent nothing, and if the consumer has ended    *)
(* when main looks, it covers all that the consumer got.                   *)
SeenExact ==
    /\ seen_types = {pushed[i].type : i \in 1 .. taken - Len(hand)}
    /\ ALERT_QUEUE = SubSeq(pushed, taken + 1, Len(pushed))
    /\ main \in {"reporting", "done"} =>
          /\ \A side \in report : \E a \in Range(pushed) : a.type \in side
          /\ consumer = "exited" =>
                \A i \in 1 .. taken : \E side \in report : pushed[i].type \in side

(* While main computes its report, seen_types does not change under it,    *)
(* though the consumer may have outlived its join.                         *)
StableReport == [][main = "reporting" => seen_types' = seen_types]_vars

(* After Ctrl+C the program ends: no join and no lock waits for ever.      *)
ShutsDown == stop_event ~> main = "done"

(* A bpf() call not to be ignored is alerted before the program is told to *)
(* stop: the exceptions of publish do not stop the poll.                   *)
CallAlerted ==
    \A n \in 1 .. MaxCalls :
        (\E o \in Range(perf) : o.n = n /\ ~ o.ignored)
            ~> stop_event \/ \E a \in Range(pushed) : a.type \in EbpfType /\ a.n = n

-----------------------------------------------------------------------------
(* What the repository says of the program, and the code does not do. *)

(* file_watchdog.py lines 17-18: "Watches a directory tree for file        *)
(* create/modify/delete events and pushes a standardized alert dict into   *)
(* the shared ALERT_QUEUE for each."                                       *)
FileAlerted ==
    \A n \in 1 .. MaxFileEvents :
        (\E o \in Range(fs) : o.n = n /\ ~ o.ignored)
            ~> \/ main \notin {"starting", "starting_consumer", "running"}
               \/ \E a \in Range(pushed) : a.type \in FileType /\ a.n = n
=============================================================================
