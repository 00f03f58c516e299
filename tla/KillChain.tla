----------------------------- MODULE KillChain -----------------------------
(***************************************************************************)
(* KillChainCorrelator (xdr/correlation/kill_chain_rules.py) together with *)
(* the two things its answers depend on: the wall clock time.time(), which *)
(* stamps the events and computes the cutoff, and the delay an event       *)
(* spends in the correlation engine between its creation by a detector and *)
(* add_event.                                                              *)
(*                                                                         *)
(* Events of one source are created by one detector thread and the bus is  *)
(* first-in first-out, so each source has a FIFO of events in flight; the  *)
(* flows of two sources interleave freely (EventBus.tla is the bus).       *)
(*                                                                         *)
(* time.time() may be set back while the program runs.  MaxSkew bounds how *)
(* far it ever falls below the highest value it has shown; with MaxSkew = 0*)
(* the clock is monotonic.                                                 *)
(***************************************************************************)
EXTENDS Integers, Sequences, FiniteSets, Functions, StageMap

CONSTANTS
    Src,              \* values of SecurityEvent.src
    EventType,        \* the event types that occur
    WindowDuration,   \* KillChainCorrelator.window_duration
    MaxSkew,          \* see above
    MaxTime,          \* bound on the wall clock
    MaxEvents         \* bound on the number of events ever created

ASSUME ConstantsAssumption ==
    /\ WindowDuration \in Nat
    /\ MaxSkew \in Nat
    /\ MaxTime \in Nat
    /\ MaxEvents \in Nat

VARIABLES
    now,         \* time.time()
    high,        \* the highest value time.time() has shown
    created,     \* number of SecurityEvents created, the source of uuids
    pending,     \* [Src -> Seq(Event)]: created and not yet given to add_event
    window,      \* self._window; an absent key is the empty deque
    incident,    \* the reports dispatched by the latest call of add_event
    delivered    \* history: every event add_event has been called with

vars == <<now, high, created, pending, window, incident, delivered>>

Time   == 0 .. MaxTime
Event  == [uuid : 0 .. MaxEvents, event_type : EventType, timestamp : Time]
Report == [source_ip : Src, generated_at : Time, timeline : Seq(Event)]

-----------------------------------------------------------------------------
(* The helpers of the correlator. *)

(* Fault: an event exactly as old as the window is popped too. *)
IsPopCount_Inclusive(w, cutoff, k) ==
    /\ \A i \in 1 .. k : w[i].timestamp <= cutoff
    /\ k < Len(w) => w[k + 1].timestamp > cutoff

(* How many events the loop of _prune_window pops: it stops at the first   *)
(* event that is not older than the cutoff, or when the deque is empty.    *)
IsPopCount(w, cutoff, k) ==
    /\ \A i \in 1 .. k : w[i].timestamp < cutoff
    /\ k < Len(w) => w[k + 1].timestamp >= cutoff

PopCount(w, cutoff) == CHOOSE k \in 0 .. Len(w) : IsPopCount(w, cutoff, k)

(* Fault: "if" for "while", at most one event is popped. *)
PruneWindow_Once(w, cutoff) ==
    IF w[1].timestamp < cutoff THEN Tail(w) ELSE w

PruneWindow(w, cutoff) == SubSeq(w, PopCount(w, cutoff) + 1, Len(w))

(* _evaluate_kill_chain on a deque; the None of unmapped types is dropped. *)
StagesOf(events) == {get_stage(e.event_type) : e \in events} \ {NoStage}

EvaluateKillChain(w) == REQUIRED_STAGES \subseteq StagesOf(Range(w))

(* sorted(window, key=timestamp) is stable: an event comes after the ones  *)
(* with a smaller timestamp and the earlier ones with the same timestamp.  *)
NotAfter(w, i) ==
    {j \in DOMAIN w : \/ w[j].timestamp < w[i].timestamp
                      \/ w[j].timestamp = w[i].timestamp /\ j <= i}

(* Fault: the deque's own order. *)
Chronological_Unsorted(w) == w

Chronological(w) ==
    [k \in 1 .. Len(w) |->
        w[CHOOSE i \in DOMAIN w : Cardinality(NotAfter(w, i)) = k]]

(* Fault: the report is stamped with the cutoff. *)
Escalate_AtCutoff(s, w) ==
    [source_ip |-> s, generated_at |-> now - WindowDuration,
     timeline |-> Chronological(w)]

(* The report of _escalate.  Its severity summary is left out. *)
Escalate(s, w) ==
    [source_ip |-> s, generated_at |-> now, timeline |-> Chronological(w)]

-----------------------------------------------------------------------------
Init ==
    /\ now = 0
    /\ high = 0
    /\ created = 0
    /\ pending   = [s \in Src |-> <<>>]
    /\ window    = [s \in Src |-> <<>>]
    /\ incident  = {}
    /\ delivered = [s \in Src |-> {}]

(* Time passes. *)
Tick ==
    /\ now < MaxTime
    /\ now' = now + 1
    /\ high' = IF now + 1 > high THEN now + 1 ELSE high
    /\ UNCHANGED <<created, pending, window, incident, delivered>>

(* The wall clock is set back. *)
StepBack ==
    /\ \E t \in 0 .. now - 1 : high - t <= MaxSkew /\ now' = t
    /\ UNCHANGED <<high, created, pending, window, incident, delivered>>

(* A detector builds a SecurityEvent, which takes its timestamp there and  *)
(* then, and publishes it.                                                 *)
Create(s, event_type) ==
    /\ created < MaxEvents
    /\ created' = created + 1
    /\ pending' = [pending EXCEPT ![s] = Append(@,
            [uuid |-> created, event_type |-> event_type, timestamp |-> now])]
    /\ UNCHANGED <<now, high, window, incident, delivered>>

(* Fault: the window is cleared once it has escalated. *)
AddEvent_Clears(s) ==
    /\ pending[s] # <<>>
    /\ pending' = [pending EXCEPT ![s] = Tail(@)]
    /\ delivered' = [delivered EXCEPT ![s] = @ \cup {Head(pending[s])}]
    /\ LET w == PruneWindow(Append(window[s], Head(pending[s])),
                            now - WindowDuration)
       IN  IF EvaluateKillChain(w)
           THEN /\ window' = [window EXCEPT ![s] = <<>>]
                /\ incident' = {Escalate(s, w)}
           ELSE /\ window' = [window EXCEPT ![s] = w]
                /\ incident' = {}
    /\ UNCHANGED <<now, high, created>>

(* One call of add_event: append, prune against the clock of this moment,  *)
(* evaluate, and escalate.  The window is kept after an escalation.        *)
AddEvent(s) ==
    /\ pending[s] # <<>>
    /\ pending' = [pending EXCEPT ![s] = Tail(@)]
    /\ delivered' = [delivered EXCEPT ![s] = @ \cup {Head(pending[s])}]
    /\ LET w == PruneWindow(Append(window[s], Head(pending[s])),
                            now - WindowDuration)
       IN  /\ window' = [window EXCEPT ![s] = w]
           /\ incident' = IF EvaluateKillChain(w) THEN {Escalate(s, w)} ELSE {}
    /\ UNCHANGED <<now, high, created>>

Next ==
    \/ Tick
    \/ StepBack
    \/ \E s \in Src, event_type \in EventType : Create(s, event_type)
    \/ \E s \in Src : AddEvent(s)

Spec == Init /\ [][Next]_vars

-----------------------------------------------------------------------------
(* Properties. *)

(* Every variable keeps the shape the Python objects have. *)
TypeOK ==
    /\ now \in Time
    /\ high \in Time
    /\ created \in 0 .. MaxEvents
    /\ pending \in [Src -> Seq(Event)]
    /\ window \in [Src -> Seq(Event)]
    /\ incident \subseteq Report
    /\ delivered \in [Src -> SUBSET Event]

(* _prune_window never takes away an event that some later evaluation      *)
(* could still need: whatever add_event was given and is not older than    *)
(* the window at the highest time shown is still in the deque.             *)
RetainsFresh ==
    \A s \in Src : \A e \in delivered[s] :
        e.timestamp >= high - WindowDuration => e \in Range(window[s])

(* The events of one incident lie within one window of each other, give or *)
(* take what the clock was set back: an event from before the window does  *)
(* not hide behind the head of the deque at which the loop stops.          *)
IncidentSpan ==
    \A r \in incident : \A i, j \in DOMAIN r.timeline :
        r.timeline[j].timestamp - r.timeline[i].timestamp
            <= WindowDuration + 2 * MaxSkew

(* The timeline of a report is in the order in which the events happened,  *)
(* even when they entered the deque in another order.                      *)
TimelineOrdered ==
    \A r \in incident : \A i, j \in DOMAIN r.timeline :
        i < j => r.timeline[i].timestamp <= r.timeline[j].timestamp

(* The deque implements the sliding window over the complete history. *)
SW == INSTANCE SlidingWindow WITH
        Skew <- MaxSkew,
        incident <- {[source_ip |-> r.source_ip, generated_at |-> r.generated_at,
                      events |-> Range(r.timeline)] : r \in incident}

ImplementsSlidingWindow == SW!SWSpec

(* What stage_map.py's docstring promises ("file_created/file modified ->  *)
(* persist"): when the events in the window show the three stages, as that *)
(* list assigns them, add_event raises an incident.                        *)
DocumentedDetection ==
    [][\A s \in Src :
         /\ delivered'[s] # delivered[s]
         /\ REQUIRED_STAGES \subseteq
                {DocumentedStage(e.event_type) : e \in Range(window'[s])}
         => incident' # {}]_vars
=============================================================================
