--------------------------- MODULE SlidingWindow ---------------------------
(***************************************************************************)
(* What the correlator promises, with no deque and no pruning: it keeps    *)
(* every event it was ever given and, at each new one, looks at the events *)
(* of that source that are at most WindowDuration old.  An incident is     *)
(* raised exactly when those events show every required stage.             *)
(*                                                                         *)
(* A clock that may be set back by Skew makes "at most WindowDuration old" *)
(* uncertain by Skew in both directions: the events surely in the window   *)
(* must be looked at, the ones surely outside must not, and the            *)
(* implementation is free on those between.  With Skew = 0 nothing is free.*)
(***************************************************************************)
EXTENDS Integers, StageMap

CONSTANTS Src, Event, WindowDuration, Skew

VARIABLES now, delivered, incident

avars == <<now, delivered, incident>>

(* The events of a set that are at most age old. *)
AtMostOld(events, age) == {e \in events : now - e.timestamp <= age}

Stages(events) == {get_stage(e.event_type) : e \in events}

SWInit ==
    /\ now = 0
    /\ delivered = [s \in Src |-> {}]
    /\ incident = {}

Clock == now' \in Nat /\ UNCHANGED <<delivered, incident>>

Deliver(s, e) ==
    /\ delivered' = [delivered EXCEPT ![s] = @ \cup {e}]
    /\ \E seen \in SUBSET AtMostOld(delivered'[s], WindowDuration + Skew) :
          /\ AtMostOld(delivered'[s], WindowDuration - Skew) \subseteq seen
          /\ incident' =
                IF REQUIRED_STAGES \subseteq Stages(seen)
                THEN {[source_ip |-> s, generated_at |-> now, events |-> seen]}
                ELSE {}
    /\ UNCHANGED now

SWNext == Clock \/ \E s \in Src, e \in Event : Deliver(s, e)

SWSpec == SWInit /\ [][SWNext]_avars
=============================================================================
