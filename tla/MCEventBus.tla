----------------------------- MODULE MCEventBus -----------------------------
(* EventBus for TLC, twice: a bounded bus by itself, with two detector     *)
(* threads and a publishing coroutine, and the unbounded ENGINE in the     *)
(* threads of main.py (Startup).  Each behaviour is one of the two.        *)
EXTENDS Startup

VARIABLE program    \* which one

Stack == INSTANCE Startup WITH Thread <- {"main"}, Task <- {}, MaxSize <- 0

idle == <<program, server, drain, engine_ready, pc>>

(* The bus by itself has no server and no main thread. *)
ProgramsInit ==
    \/ /\ program = "bus"
       /\ Init
       /\ server = "dead" /\ drain = "none" /\ engine_ready = FALSE /\ pc = "finished"
    \/ /\ program = "stack"
       /\ Stack!StackInit

ProgramsNext ==
    \/ program = "bus"   /\ Next /\ UNCHANGED idle
    \/ program = "stack" /\ Stack!StackNext /\ UNCHANGED program

(* A step of the bus by itself, and one of the stack. *)
InBus(A)   == program = "bus" /\ A /\ UNCHANGED idle
InStack(A) == program = "stack" /\ A /\ UNCHANGED program

(* The fairness of EventBus and of Startup. *)
ProgramsFairSpec ==
    /\ ProgramsInit
    /\ [][ProgramsNext]_<<vars, idle>>
    /\ WF_<<vars, idle>>(InBus(put_nowait))
    /\ WF_<<vars, idle>>(InBus(get))
    /\ WF_<<vars, idle>>(InStack(Stack!wait))
    /\ WF_<<vars, idle>>(InStack(Stack!correlator_main))
    /\ WF_<<vars, idle>>(InStack(Stack!Alive /\ Stack!drain_gets))
    /\ WF_<<vars, idle>>(InStack(Stack!Alive /\ Stack!run_callback))
=============================================================================
