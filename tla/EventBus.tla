------------------------------ MODULE EventBus ------------------------------
(***************************************************************************)
(* CorrelationEngine (xdr/core/event_bus.py): detectors in operating       *)
(* system threads publish SecurityEvents to one consumer on an asyncio     *)
(* event loop.                                                             *)
(*                                                                         *)
(* publish_threadsafe only schedules queue.put_nowait on the loop; the     *)
(* event is in the loop's list of ready callbacks until the loop runs the  *)
(* callback.  publish is a coroutine of the loop and puts directly.        *)
(*                                                                         *)
(* External, modelled from their use here: the loop's ready list           *)
(* (call_soon_threadsafe appends and raises when the loop is closed, the   *)
(* loop runs the callbacks in order, an exception of a callback is logged  *)
(* and dropped) and asyncio.Queue (put_nowait raises QueueFull, put waits  *)
(* for room, get waits for an element; maxsize 0 means no bound).          *)
(***************************************************************************)
EXTENDS Integers, Sequences, Functions

CONSTANTS
    Thread,      \* detector threads, callers of publish_threadsafe
    Task,        \* coroutines of the loop, callers of publish
    MaxSize,     \* CorrelationEngine(maxsize); ENGINE has 0
    MaxEvents    \* bound on the number of events created

ASSUME BusAssumption ==
    /\ MaxSize \in Nat
    /\ MaxEvents \in Nat
    /\ Thread \cap Task = {}

VARIABLES
    loop,        \* self._loop and the state of that loop
    created,     \* number of events created so far, the clock of the stamps
    held,        \* built and not yet published, at most one per publisher
    ready,       \* the loop's ready callbacks put_nowait(event), in order
    queue,       \* self.queue
    got,         \* history: what get() returned, in order
    accepted,    \* history: events whose publish call returned normally
    refused,     \* history: events whose publish_threadsafe raised
    lost         \* history: events whose put_nowait raised QueueFull

vars == <<loop, created, held, ready, queue, got, accepted, refused, lost>>

Publisher == Thread \cup Task

(* stamp stands for the timestamp and the uuid: it tells the order in      *)
(* which the SecurityEvents were constructed.                              *)
Event == [from : Publisher, stamp : 0 .. MaxEvents]

LoopState == {"unbound", "running", "stopped", "closed"}

Full == MaxSize > 0 /\ Len(queue) >= MaxSize

-----------------------------------------------------------------------------
Init ==
    /\ loop = "unbound"
    /\ created = 0
    /\ held = [p \in Thread \cup Task |-> <<>>]
    /\ ready = <<>>
    /\ queue = <<>>
    /\ got = <<>>
    /\ accepted = {}
    /\ refused = {}
    /\ lost = {}

(* bind_loop, called inside the running loop. *)
bind_loop ==
    /\ loop = "unbound"
    /\ loop' = "running"
    /\ UNCHANGED <<created, held, ready, queue, got, accepted, refused, lost>>

(* The server's loop ends: first it runs no more callbacks, then it is     *)
(* closed.  In between call_soon_threadsafe still accepts callbacks.       *)
StopLoop ==
    /\ loop = "running"
    /\ loop' = "stopped"
    /\ UNCHANGED <<created, held, ready, queue, got, accepted, refused, lost>>

CloseLoop ==
    /\ loop = "stopped"
    /\ loop' = "closed"
    /\ UNCHANGED <<created, held, ready, queue, got, accepted, refused, lost>>

(* A detector thread, or a coroutine that the loop runs, builds a          *)
(* SecurityEvent, which takes its timestamp...                             *)
Construct(p) ==
    /\ p \in Task => loop = "running"
    /\ held[p] = <<>>
    /\ created < MaxEvents
    /\ held' = [held EXCEPT ![p] = <<[from |-> p, stamp |-> created]>>]
    /\ created' = created + 1
    /\ UNCHANGED <<loop, ready, queue, got, accepted, refused, lost>>

(* ... and the thread publishes it, some time later.  Without a loop, or   *)
(* with a closed one, the call raises and the event goes nowhere.          *)
publish_threadsafe(t) ==
    /\ held[t] # <<>>
    /\ held' = [held EXCEPT ![t] = <<>>]
    /\ \/ /\ loop \in {"unbound", "closed"}
          /\ refused' = refused \cup {held[t][1]}
          /\ UNCHANGED <<ready, accepted>>
       \/ /\ loop \in {"running", "stopped"}
          /\ ready' = Append(ready, held[t][1])
          /\ accepted' = accepted \cup {held[t][1]}
          /\ UNCHANGED refused
    /\ UNCHANGED <<loop, created, queue, got, lost>>

(* Fault: a full queue makes room by dropping its oldest event. *)
put_nowait_DropsOldest ==
    /\ loop = "running"
    /\ ready # <<>>
    /\ ready' = Tail(ready)
    /\ queue' = Append(IF Full THEN Tail(queue) ELSE queue, Head(ready))
    /\ UNCHANGED <<loop, created, held, got, accepted, refused, lost>>

(* The loop runs its oldest ready callback, queue.put_nowait. *)
put_nowait ==
    /\ loop = "running"
    /\ ready # <<>>
    /\ ready' = Tail(ready)
    /\ IF Full
       THEN lost' = lost \cup {Head(ready)} /\ UNCHANGED queue
       ELSE queue' = Append(queue, Head(ready)) /\ UNCHANGED lost
    /\ UNCHANGED <<loop, created, held, got, accepted, refused>>

(* The coroutine awaits put, with its event in hand until there is room: a *)
(* callback of the loop may take the place that a get has made.            *)
publish(a) ==
    /\ loop = "running"
    /\ held[a] # <<>>
    /\ ~ Full
    /\ held' = [held EXCEPT ![a] = <<>>]
    /\ queue' = Append(queue, held[a][1])
    /\ accepted' = accepted \cup {held[a][1]}
    /\ UNCHANGED <<loop, created, ready, got, refused, lost>>

(* Fault: the newest event first. *)
get_Newest ==
    /\ loop = "running"
    /\ queue # <<>>
    /\ got' = Append(got, queue[Len(queue)])
    /\ queue' = SubSeq(queue, 1, Len(queue) - 1)
    /\ UNCHANGED <<loop, created, held, ready, accepted, refused, lost>>

(* Fault: get returns only when a second event waits. *)
get_WaitsForTwo ==
    /\ loop = "running"
    /\ Len(queue) > 1
    /\ got' = Append(got, Head(queue))
    /\ queue' = Tail(queue)
    /\ UNCHANGED <<loop, created, held, ready, accepted, refused, lost>>

(* The consumer's await get() returns. *)
get ==
    /\ loop = "running"
    /\ queue # <<>>
    /\ got' = Append(got, Head(queue))
    /\ queue' = Tail(queue)
    /\ UNCHANGED <<loop, created, held, ready, accepted, refused, lost>>

Next ==
    \/ bind_loop
    \/ StopLoop
    \/ CloseLoop
    \/ \E p \in Publisher : Construct(p)
    \/ \E t \in Thread : publish_threadsafe(t)
    \/ put_nowait
    \/ \E a \in Task : publish(a)
    \/ get

Spec == Init /\ [][Next]_vars

(* A running loop gets round to its callbacks and to the consumer.         *)
(* Nothing forces a thread to publish or the loop to be bound.             *)
FairSpec == Spec /\ WF_vars(put_nowait) /\ WF_vars(get)

-----------------------------------------------------------------------------
(* Properties. *)

(* Every variable has its shape. *)
TypeOK ==
    /\ loop \in LoopState
    /\ created \in 0 .. MaxEvents
    /\ held \in [Publisher -> Seq(Event)]
    /\ ready \in Seq(Event)
    /\ queue \in Seq(Event)
    /\ got \in Seq(Event)
    /\ accepted \subseteq Event
    /\ refused \subseteq Event
    /\ lost \subseteq Event

(* Everything on its way through the bus, oldest first. *)
Stream == got \o queue \o ready

(* The events of one publisher leave the bus in the order in which they    *)
(* were built, and none leaves it twice, whatever the other publishers do: *)
(* the order _prune_window relies on.                                      *)
PublisherOrder ==
    \A i, j \in DOMAIN Stream :
        i < j /\ Stream[i].from = Stream[j].from => Stream[i].stamp < Stream[j].stamp

(* An event whose publish call returned is somewhere in the bus or was     *)
(* returned by get; only a bounded queue loses one.  An event whose        *)
(* publish call raised, or that was lost, never shows up later.            *)
NoLoss ==
    /\ accepted = Range(Stream) \cup lost
    /\ accepted \cap refused = {}
    /\ lost \cap Range(Stream) = {}
    /\ MaxSize = 0 => lost = {}

(* An event whose publish call returned is handed to the consumer, unless  *)
(* the queue was full or the loop stops first.                             *)
Delivery ==
    \A p \in Publisher, n \in 0 .. MaxEvents :
        LET e == [from |-> p, stamp |-> n]
        IN  e \in accepted ~> e \in Range(got) \cup lost \/ loop \in {"stopped", "closed"}

=============================================================================
