----------------------------- MODULE Dashboard -----------------------------
(***************************************************************************)
(* api/main.py: the tasks of the dashboard's event loop.                   *)
(*                                                                         *)
(*   - drain_engine_to_dashboard takes an event off the correlation engine,*)
(*     broadcasts it, hands it to the kill-chain correlator, and broadcasts*)
(*     the incident if the correlator escalates;                           *)
(*   - inject_event_to_dashboard broadcasts a message of its own;          *)
(*   - one websocket_endpoint per browser: accept, register, then wait for *)
(*     messages until the browser is gone.                                 *)
(*                                                                         *)
(* Tasks interleave only where one awaits.  A broadcast awaits each        *)
(* send_text in turn over a snapshot of active_connections, so browsers    *)
(* come and go in the middle of it.  The correlator's own state is in      *)
(* KillChain.tla; here an event escalates or not, as it pleases.           *)
(*                                                                         *)
(* External, from their use here: the WebSocket (accept, send_text that    *)
(* may fail or be buffered once the peer is gone, receive_text that raises *)
(* WebSocketDisconnect, or another exception on an unexpected frame).      *)
(***************************************************************************)
EXTENDS Integers, Sequences, SequencesExt, FiniteSets

CONSTANTS
    Client,      \* browsers, each opening one WebSocket
    Injector,    \* calls of inject_event_to_dashboard
    MaxEvents    \* bound on the events that reach the engine

ASSUME DashboardAssumption == MaxEvents \in Nat /\ "drain" \notin Injector

Broadcaster == {"drain"} \cup Injector

VARIABLES
    published,            \* events put into the engine's queue, numbered 1, 2, ...
    fetched,              \* how many of them drain has got
    added,                \* history: the events given to kill_chain.add_event
    phase,                \* where each broadcasting task is
    targets,              \* what is left of each task's snapshot
    active_connections,   \* EventBusManager.active_connections
    endpoint,             \* where each websocket_endpoint is
    peer,                 \* is the browser's end of the connection up
    log,                  \* history: the messages drain has started to broadcast:
                          \* event n, or the incident that event n completed
    joined,               \* history: Len(log) when the client registered
    received              \* history: drain's messages each browser received

vars == <<published, fetched, added, phase, targets, active_connections,
          endpoint, peer, log, joined, received>>

drainVars  == <<published, fetched, added>>
clientVars == <<endpoint, peer, joined>>

-----------------------------------------------------------------------------
(* Fault: the connection is kept. *)
Disconnect_Keeps(connections, c) == connections

(* EventBusManager.disconnect; a connection no longer registered is fine. *)
Disconnect(connections, c) == RemoveFirst(connections, c)

Init ==
    /\ published = 0
    /\ fetched = 0
    /\ added = <<>>
    /\ phase = [b \in Broadcaster |-> "idle"]
    /\ targets = [b \in Broadcaster |-> <<>>]
    /\ active_connections = <<>>
    /\ endpoint = [c \in Client |-> "none"]
    /\ peer = [c \in Client |-> "up"]
    /\ log = <<>>
    /\ joined = [c \in Client |-> 0]
    /\ received = [c \in Client |-> <<>>]

(* A detector's event arrives in the engine's queue (EventBus.tla). *)
Publish ==
    /\ published < MaxEvents
    /\ published' = published + 1
    /\ UNCHANGED <<fetched, added, phase, targets, active_connections,
                   clientVars, log, received>>

(* EventBusManager.broadcast up to its first await: take the snapshot. *)
StartBroadcast(b, p) ==
    /\ phase' = [phase EXCEPT ![b] = p]
    /\ targets' = [targets EXCEPT ![b] = active_connections]

(* Fault: only the latest event is looked at. *)
NextEvent_Latest == published

NextEvent == fetched + 1

(* await ENGINE.get() returns and the broadcast of the event begins. *)
DrainGet ==
    /\ phase["drain"] = "idle"
    /\ fetched < published
    /\ fetched' = NextEvent
    /\ StartBroadcast("drain", "event")
    /\ log' = Append(log, [kind |-> "event", n |-> NextEvent])
    /\ UNCHANGED <<published, added, active_connections, clientVars, received>>

(* kill_chain.add_event of the event in hand; an escalation is broadcast by on_incident. *)
DrainAdd ==
    /\ phase["drain"] = "event"
    /\ targets["drain"] = <<>>
    /\ added' = Append(added, fetched)
    /\ \/ /\ phase' = [phase EXCEPT !["drain"] = "idle"]
          /\ UNCHANGED <<targets, log>>
       \/ /\ StartBroadcast("drain", "incident")
          /\ log' = Append(log, [kind |-> "incident", n |-> fetched])
    /\ UNCHANGED <<published, fetched, active_connections, clientVars, received>>

(* The broadcast of an incident is over: back to get(). *)
DrainLoop ==
    /\ phase["drain"] = "incident"
    /\ targets["drain"] = <<>>
    /\ phase' = [phase EXCEPT !["drain"] = "idle"]
    /\ UNCHANGED <<drainVars, targets, active_connections, clientVars, log, received>>

(* lifespan's task.cancel(): CancelledError at whatever drain awaits, which*)
(* broadcast's "except Exception" does not catch.                          *)
Cancel ==
    /\ phase["drain"] # "cancelled"
    /\ phase' = [phase EXCEPT !["drain"] = "cancelled"]
    /\ targets' = [targets EXCEPT !["drain"] = <<>>]
    /\ UNCHANGED <<drainVars, active_connections, clientVars, log, received>>

Inject(b) ==
    /\ phase[b] = "idle"
    /\ StartBroadcast(b, "inject")
    /\ UNCHANGED <<drainVars, active_connections, clientVars, log, received>>

InjectReturn(b) ==
    /\ phase[b] = "inject"
    /\ targets[b] = <<>>
    /\ phase' = [phase EXCEPT ![b] = "done"]
    /\ UNCHANGED <<drainVars, targets, active_connections, clientVars, log, received>>

(* A send_text of a broadcast returns.  A browser that is up gets the      *)
(* message; for one that is gone the message was only buffered.  On a      *)
(* WebSocket whose endpoint has ended send_text always raises.             *)
SendOk(b) ==
    /\ targets[b] # <<>>
    /\ endpoint[Head(targets[b])] = "open"
    /\ targets' = [targets EXCEPT ![b] = Tail(@)]
    /\ LET c == Head(targets[b])
       IN  received' = IF peer[c] = "up" /\ b = "drain"
                       THEN [received EXCEPT ![c] = Append(@, log[Len(log)])]
                       ELSE received
    /\ UNCHANGED <<drainVars, phase, active_connections, clientVars, log>>

(* Fault: the loop runs over the list itself, so that removing the failed  *)
(* connection skips the one after it.                                      *)
OnSendError_Skips(b, c) ==
    /\ active_connections' = Disconnect(active_connections, c)
    /\ targets' = [targets EXCEPT ![b] = SubSeq(@, 3, Len(@))]
    /\ UNCHANGED phase

(* Fault: the oldest connection is removed, not the failed one. *)
OnSendError_RemovesFirst(b, c) ==
    /\ active_connections' = SubSeq(active_connections, 2, Len(active_connections))
    /\ targets' = [targets EXCEPT ![b] = Tail(@)]
    /\ UNCHANGED phase

(* Fault: the exception is not caught and ends the broadcasting task. *)
OnSendError_Escapes(b, c) ==
    /\ phase' = [phase EXCEPT ![b] = "done"]
    /\ targets' = [targets EXCEPT ![b] = <<>>]
    /\ UNCHANGED active_connections

(* except Exception: the connection is dropped from the list. *)
OnSendError(b, c) ==
    /\ active_connections' = Disconnect(active_connections, c)
    /\ targets' = [targets EXCEPT ![b] = Tail(@)]
    /\ UNCHANGED phase

(* A send_text raises. *)
SendFail(b) ==
    /\ targets[b] # <<>>
    /\ peer[Head(targets[b])] = "gone"
    /\ OnSendError(b, Head(targets[b]))
    /\ UNCHANGED <<drainVars, clientVars, log, received>>

-----------------------------------------------------------------------------
(* The browsers and their endpoints. *)

(* connect: await websocket.accept() ... *)
Connect(c) ==
    /\ endpoint[c] = "none"
    /\ endpoint' = [endpoint EXCEPT ![c] = "accepting"]
    /\ UNCHANGED <<drainVars, phase, targets, active_connections, peer, log, joined, received>>

(* ... and once that returned, register. *)
Accepted(c) ==
    /\ endpoint[c] = "accepting"
    /\ endpoint' = [endpoint EXCEPT ![c] = "open"]
    /\ active_connections' = Append(active_connections, c)
    /\ joined' = [joined EXCEPT ![c] = Len(log)]
    /\ UNCHANGED <<drainVars, phase, targets, peer, log, received>>

(* accept raises because the browser is gone: never registered. *)
AcceptFails(c) ==
    /\ endpoint[c] = "accepting"
    /\ peer[c] = "gone"
    /\ endpoint' = [endpoint EXCEPT ![c] = "ended"]
    /\ UNCHANGED <<drainVars, phase, targets, active_connections, peer, log,
                   joined, received>>

(* The browser closes, or its machine or network dies. *)
PeerGone(c) ==
    /\ endpoint[c] \in {"accepting", "open"}
    /\ peer[c] = "up"
    /\ peer' = [peer EXCEPT ![c] = "gone"]
    /\ UNCHANGED <<drainVars, phase, targets, active_connections, endpoint, log,
                   joined, received>>

(* receive_text raises WebSocketDisconnect. *)
EndpointDisconnect(c) ==
    /\ endpoint[c] = "open"
    /\ peer[c] = "gone"
    /\ endpoint' = [endpoint EXCEPT ![c] = "ended"]
    /\ active_connections' = Disconnect(active_connections, c)
    /\ UNCHANGED <<drainVars, phase, targets, peer, log, joined, received>>

(* receive_text raises anything else: the handler ends without disconnect, *)
(* the server closes the socket, and the connection stays in the list.     *)
EndpointCrash(c) ==
    /\ endpoint[c] = "open"
    /\ peer[c] = "up"
    /\ endpoint' = [endpoint EXCEPT ![c] = "ended"]
    /\ peer' = [peer EXCEPT ![c] = "gone"]
    /\ UNCHANGED <<drainVars, phase, targets, active_connections, log,
                   joined, received>>

Next ==
    \/ Publish
    \/ DrainGet \/ DrainAdd \/ DrainLoop \/ Cancel
    \/ \E b \in Injector : Inject(b) \/ InjectReturn(b)
    \/ \E b \in Broadcaster : SendOk(b) \/ SendFail(b)
    \/ \E c \in Client :
          \/ Connect(c) \/ Accepted(c) \/ AcceptFails(c)
          \/ PeerGone(c) \/ EndpointDisconnect(c) \/ EndpointCrash(c)

Spec == Init /\ [][Next]_vars

(* The loop schedules every task that can go on, every send_text returns   *)
(* or raises (the server's keep-alive ends a stalled connection), and an   *)
(* endpoint learns that its browser is gone.  Nobody has to connect, to    *)
(* publish or to inject, and nothing has to fail.                          *)
FairSpec ==
    /\ Spec
    /\ WF_vars(DrainGet) /\ WF_vars(DrainAdd) /\ WF_vars(DrainLoop)
    /\ \A b \in Broadcaster : WF_vars(SendOk(b) \/ SendFail(b))
    /\ \A c \in Client : WF_vars(EndpointDisconnect(c))

-----------------------------------------------------------------------------
(* Properties. *)

(* How much of the log a registered client must have: all of it since it   *)
(* joined, but for the message that drain is on its way to send it.        *)
Due(c) == Len(log) - joined[c] - (IF c \in Range(targets["drain"]) THEN 1 ELSE 0)

(* Every registered browser that is up has received exactly what was       *)
(* broadcast since it registered, each message once and in order, whoever  *)
(* else joined, left or failed in the middle of a broadcast.  (After a     *)
(* cancel the last broadcast may be cut short.)                            *)
FeedExact ==
    \A c \in Range(active_connections) :
        peer[c] = "up" /\ phase["drain"] # "cancelled" =>
            received[c] = SubSeq(log, joined[c] + 1, joined[c] + Due(c))

(* A browser that is up and whose endpoint still serves it is registered,  *)
(* once: no failure of another connection silently cuts it off, and no     *)
(* message is sent to it twice.                                            *)
ServedIsRegistered ==
    \A c \in Client : endpoint[c] = "open" /\ peer[c] = "up" =>
        Cardinality({i \in DOMAIN active_connections : active_connections[i] = c}) = 1

(* The correlator sees every event once and in the order of the queue, and *)
(* only after its broadcast; a cancel loses at most the event in hand.     *)
CorrelatedInOrder ==
    /\ \A i \in DOMAIN added : added[i] = i
    /\ Len(added) \in {fetched, fetched - 1}
    /\ Len(added) < fetched => phase["drain"] \in {"event", "cancelled"}

(* An event in the queue reaches the correlator, however the browsers      *)
(* behave, unless the server shuts down.                                   *)
EventCorrelated ==
    \A n \in 1 .. MaxEvents :
        published >= n ~> Len(added) >= n \/ phase["drain"] = "cancelled"

(* A browser that is gone does not stay registered: its endpoint removes   *)
(* it, and when the endpoint ended without doing so, the broadcast of the  *)
(* next event does.                                                        *)
GoneIsRemoved ==
    \A c \in Client :
        /\ c \in Range(active_connections)
        /\ peer[c] = "gone"
        /\ endpoint[c] = "open" \/ fetched < published
        ~> c \notin Range(active_connections) \/ phase["drain"] = "cancelled"
=============================================================================
