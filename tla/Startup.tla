------------------------------ MODULE Startup -------------------------------
(***************************************************************************)
(* The full stack (main.py): the main thread starts the server in a daemon *)
(* thread, waits for engine_ready, asks for Enter and replays, publishing  *)
(* through the ENGINE that the server's drain task has bound (EventBus).   *)
(*                                                                         *)
(* External: uvicorn runs the start-up hook, which creates the drain task, *)
(* and opens its port only then; when the port is taken it runs the        *)
(* shutdown hook, closes its loop and ends the thread.  The process ends   *)
(* with the main thread, and everything in it.                             *)
(*                                                                         *)
(* Of the bus's threads only "main" publishes here; ENGINE has MaxSize 0.  *)
(***************************************************************************)
EXTENDS EventBus

VARIABLES
    server,          \* the server thread
    drain,           \* drain_engine_to_dashboard
    engine_ready,    \* the threading.Event
    pc               \* the main thread

stackVars == <<server, drain, engine_ready, pc, vars>>

StackInit ==
    /\ Init
    /\ server = "starting"
    /\ drain = "none"
    /\ engine_ready = FALSE
    /\ pc = "waiting"

Alive == pc \notin {"raised", "finished"}

-----------------------------------------------------------------------------
(* The server thread. *)

(* lifespan up to its yield. *)
lifespan_startup ==
    /\ server = "starting"
    /\ server' = "up"
    /\ drain' = "created"
    /\ UNCHANGED <<engine_ready, pc, vars>>

(* uvicorn fails before it has run the hook. *)
ServerFails ==
    /\ server = "starting"
    /\ server' = "dead"
    /\ UNCHANGED <<drain, engine_ready, pc, vars>>

(* Fault: engine_ready is set before the loop is bound. *)
drain_starts_ReadyFirst ==
    \/ /\ drain = "created" /\ drain' = "bound"
       /\ engine_ready' = TRUE
       /\ UNCHANGED <<server, pc, vars>>
    \/ /\ drain = "bound" /\ drain' = "draining"
       /\ bind_loop
       /\ UNCHANGED <<server, engine_ready, pc>>

(* The drain task's first lines; other threads run between them. *)
drain_starts ==
    \/ /\ drain = "created" /\ drain' = "bound"
       /\ bind_loop
       /\ UNCHANGED <<server, engine_ready, pc>>
    \/ /\ drain = "bound" /\ drain' = "draining"
       /\ engine_ready' = TRUE
       /\ UNCHANGED <<server, pc, vars>>

(* Fault: the task ends after an event. *)
drain_gets_Once ==
    /\ drain = "draining"
    /\ get
    /\ drain' = "cancelled"
    /\ UNCHANGED <<server, engine_ready, pc>>

(* A turn of the task's loop; what follows the get is in Dashboard.tla. *)
drain_gets ==
    /\ drain = "draining"
    /\ get
    /\ UNCHANGED <<server, drain, engine_ready, pc>>

run_callback ==
    /\ put_nowait
    /\ UNCHANGED <<server, drain, engine_ready, pc>>

(* The port is opened after the drain task has had its first turn. *)
Listen ==
    /\ server = "up" /\ drain = "draining"
    /\ server' = "serving"
    /\ UNCHANGED <<drain, engine_ready, pc, vars>>

(* The port is taken: lifespan continues behind its yield. *)
lifespan_shutdown ==
    /\ server = "up" /\ drain = "draining"
    /\ server' = "stopping"
    /\ drain' = "cancelled"
    /\ UNCHANGED <<engine_ready, pc, vars>>

LoopEnds ==
    /\ server = "stopping"
    /\ \/ StopLoop /\ UNCHANGED server
       \/ CloseLoop /\ server' = "dead"
    /\ UNCHANGED <<drain, engine_ready, pc>>

ServerStep ==
    Alive /\ (\/ lifespan_startup \/ ServerFails \/ drain_starts \/ drain_gets \/ run_callback
              \/ Listen \/ lifespan_shutdown \/ LoopEnds)

-----------------------------------------------------------------------------
(* The main thread. *)

(* engine_ready.wait(timeout=10) *)
wait ==
    /\ pc = "waiting"
    /\ pc' = IF engine_ready THEN "prompt" ELSE "raised"
    /\ UNCHANGED <<server, drain, engine_ready, vars>>

(* input() returns with Enter, or raises at the end of the input. *)
prompt ==
    /\ pc = "prompt"
    /\ pc' \in {"replay", "raised"}
    /\ UNCHANGED <<server, drain, engine_ready, vars>>

(* correlator_main (Capture.tla): events are built and published, and an   *)
(* exception of publish_threadsafe is let through; it returns, or fails for*)
(* reasons of its own.                                                     *)
correlator_main ==
    /\ pc = "replay"
    /\ \/ Construct("main") /\ UNCHANGED pc
       \/ /\ publish_threadsafe("main")
          /\ pc' = IF refused' # refused THEN "raised" ELSE pc
       \/ held["main"] = <<>> /\ pc' \in {"join", "raised"} /\ UNCHANGED vars
    /\ UNCHANGED <<server, drain, engine_ready>>

(* server_thread.join() *)
join ==
    /\ pc = "join"
    /\ server = "dead"
    /\ pc' = "finished"
    /\ UNCHANGED <<server, drain, engine_ready, vars>>

(* Ctrl+C is delivered to the main thread; the join catches it, and so does*)
(* a live capture, whose event in hand is then forgotten.                  *)
KeyboardInterrupt ==
    /\ Alive
    /\ \/ pc = "join" /\ pc' = "finished"
       \/ pc = "replay" /\ pc' = "join"
       \/ pc # "join" /\ pc' = "raised"
    /\ UNCHANGED <<server, drain, engine_ready, vars>>

StackNext == ServerStep \/ wait \/ prompt \/ correlator_main \/ join \/ KeyboardInterrupt

StackSpec == StackInit /\ [][StackNext]_stackVars

(* The threads run, except that nobody has to press Enter or Ctrl+C. wait  *)
(* returns because of its timeout; the server may take longer than that.   *)
StackFairSpec ==
    /\ StackSpec
    /\ WF_stackVars(wait)
    /\ WF_stackVars(correlator_main)
    /\ WF_stackVars(Alive /\ drain_gets)
    /\ WF_stackVars(Alive /\ run_callback)

-----------------------------------------------------------------------------
(* Properties. *)

(* The replay never publishes to an engine without a loop, although        *)
(* engine_ready is set by another thread than the one that waits; and a    *)
(* publish that is refused, by a loop closed meanwhile, ends the replay.   *)
NeverUnbound ==
    /\ pc \in {"prompt", "replay", "join"} => loop # "unbound"
    /\ Alive => refused = {}

(* When the replay is over and the server serves, every event it has       *)
(* published gets to the drain task, unless the user ends the program.     *)
ReplayDelivered ==
    pc = "join" /\ server = "serving" ~> ~ Alive \/ Range(got) = accepted
=============================================================================
