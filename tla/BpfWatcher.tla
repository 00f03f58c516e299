---------------------------- MODULE BpfWatcher -----------------------------
(***************************************************************************)
(* BpfSyscallWatcher (xdr/host/ebpf_hooks.py): which recorded bpf() calls  *)
(* are ignored as the program's own.  The kprobe records the caller's pid; *)
(* the callback looks at it later, in the fixed whitelist and then by      *)
(* walking up /proc one read at a time, while processes fork, exit, are    *)
(* given to init and hand on their pids.                                   *)
(*                                                                         *)
(* External: the process tree and the perf buffer, which drops records     *)
(* when it is full.  A process leaves /proc when it exits: the moment as a *)
(* zombie counts as part of its life.                                      *)
(***************************************************************************)
EXTENDS Integers, Sequences

CONSTANTS
    Pid,          \* process identifiers, without 0
    Self,         \* os.getpid()
    Tree,         \* the processes at the start: pid -> parent's pid, which is
                  \* 0 outside the namespace; this program has no children yet
    MaxRecords    \* capacity of the perf buffer

ASSUME BpfAssumption ==
    /\ Pid \subseteq Nat \ {0}
    /\ DOMAIN Tree \subseteq Pid
    /\ 1 \in DOMAIN Tree
    /\ Self \in DOMAIN Tree \ {1}
    /\ Tree \in [DOMAIN Tree -> DOMAIN Tree \cup {0}]
    /\ \A p \in DOMAIN Tree : Tree[p] # Self
    /\ MaxRecords \in Nat

VARIABLES
    parent,       \* /proc: the parent of every process there is
    birth,        \* history: what a process is by birth, see below
    records,      \* the perf buffer
    pc,           \* where the callback is
    rec,          \* the record in its hand
    current,      \* the local variables of _is_descendant_of_self
    seen

vars == <<parent, birth, records, pc, rec, current, seen>>

(* birth[p].who is "self" for this program, "shell" for its parent,        *)
(* "helper" for its descendants and "other" for the rest; birth[p].chain   *)
(* has the processes that link a descendant to this program, itself        *)
(* included, and is {} once one of them has exited.                        *)

(* A record also has what its caller was by birth, and the pids given to   *)
(* new processes between the call and the end of the walk: history.        *)

(* Between two callbacks; nothing looks at it. *)
Idle == [pid |-> Self, birth |-> [who |-> "self", chain |-> {}], given |-> {}]

whitelist == {Self, Tree[Self]}

-----------------------------------------------------------------------------
Init ==
    /\ parent = Tree
    /\ birth = [p \in DOMAIN Tree |->
                  [who |-> CASE p = Self -> "self"
                             [] p = Tree[Self] -> "shell"
                             [] OTHER -> "other",
                   chain |-> {}]]
    /\ records = <<>>
    /\ pc = "poll"
    /\ rec = Idle
    /\ current = 0
    /\ seen = {}

With(f, x, y) == [z \in DOMAIN f \cup {x} |-> IF z = x THEN y ELSE f[z]]

Fork(p, c) ==
    /\ c \notin DOMAIN parent
    /\ parent' = With(parent, c, p)
    /\ birth' = With(birth, c,
          [who |-> IF birth[p].who \in {"self", "helper"} THEN "helper" ELSE "other",
           chain |-> IF p = Self \/ birth[p].chain # {}
                     THEN birth[p].chain \cup {c} ELSE {}])
    /\ records' = [i \in DOMAIN records |-> [records[i] EXCEPT !.given = @ \cup {c}]]
    /\ rec' = IF pc = "walk" THEN [rec EXCEPT !.given = @ \cup {c}] ELSE rec
    /\ UNCHANGED <<pc, current, seen>>

Broken(b, p) == IF p \in b.chain THEN [b EXCEPT !.chain = {}] ELSE b

(* The children of a process that exits become children of init. *)
Exit(p) ==
    /\ p \notin {1, Self}
    /\ parent' = [q \in DOMAIN parent \ {p} |-> IF parent[q] = p THEN 1 ELSE parent[q]]
    /\ birth' = [q \in DOMAIN birth \ {p} |-> Broken(birth[q], p)]
    /\ records' = [i \in DOMAIN records |-> [records[i] EXCEPT !.birth = Broken(@, p)]]
    /\ rec' = [rec EXCEPT !.birth = Broken(@, p)]
    /\ UNCHANGED <<pc, current, seen>>

(* on_sys_bpf, in the kernel, when a process calls bpf(). *)
on_sys_bpf(p) ==
    /\ Len(records) < MaxRecords
    /\ records' = Append(records, [pid |-> p, birth |-> birth[p], given |-> {}])
    /\ UNCHANGED <<parent, birth, pc, rec, current, seen>>

(* perf_buffer_poll calls _handle_event, which knows a whitelisted pid at  *)
(* once and starts the walk for any other.                                 *)
handle_event ==
    /\ pc = "poll"
    /\ records # <<>>
    /\ rec' = Head(records)
    /\ records' = Tail(records)
    /\ pc' = IF rec'.pid \in whitelist THEN "ignored" ELSE "walk"
    /\ current' = rec'.pid
    /\ seen' = {}
    /\ UNCHANGED <<parent, birth>>

(* Fault: nothing remembers where the walk has been. *)
AtTop_NotSeen == current \in {0, 1}

(* Fault: the walk gives up after the first step. *)
AtTop_OneStep == current \in {0, 1} \/ seen # {}

AtTop == current \in {0, 1} \/ current \in seen

(* Fault: a process that is gone was a helper. *)
Missing_IsHelper == "ignored"

(* The answer when /proc has no entry: no descendant. *)
Missing == "alerted"

(* A turn of the loop of _is_descendant_of_self, with its read of /proc,   *)
(* and the alert when the answer is no.                                    *)
is_descendant_of_self ==
    /\ pc = "walk"
    /\ \/ AtTop /\ pc' = "alerted" /\ UNCHANGED <<current, seen>>
       \/ /\ ~ AtTop
          /\ current = Self
          /\ pc' = "ignored"
          /\ UNCHANGED <<current, seen>>
       \/ /\ ~ AtTop
          /\ current # Self
          /\ current \notin DOMAIN parent
          /\ pc' = Missing
          /\ UNCHANGED <<current, seen>>
       \/ /\ ~ AtTop
          /\ current # Self
          /\ current \in DOMAIN parent
          /\ current' = parent[current]
          /\ seen' = seen \cup {current}
          /\ UNCHANGED pc
    /\ UNCHANGED <<parent, birth, records, rec>>

(* The callback returns to perf_buffer_poll. *)
handled ==
    /\ pc \in {"alerted", "ignored"}
    /\ pc' = "poll"
    /\ rec' = Idle
    /\ current' = 0
    /\ seen' = {}
    /\ UNCHANGED <<parent, birth, records>>

Step == handle_event \/ is_descendant_of_self \/ handled

Next ==
    \/ Step
    \/ \E p \in DOMAIN parent : Exit(p) \/ on_sys_bpf(p) \/ \E c \in Pid : Fork(p, c)

Spec == Init /\ [][Next]_vars

(* The polling thread runs; nothing makes a process fork, call or exit.    *)
FairSpec == Spec /\ WF_vars(Step)

-----------------------------------------------------------------------------
(* Properties. *)

(* A call by a process that is neither this program, nor its shell, nor a  *)
(* descendant is alerted, whatever forks and exits during the walk, but for*)
(* two cases: the caller has got the pid of the shell, which stays         *)
(* whitelisted; or a pid on the walk has been given to a new process since *)
(* the call.                                                               *)
OutsiderAlerted ==
    pc = "ignored" /\ rec.birth.who = "other" =>
        rec.pid = Tree[Self] \/ seen \cap rec.given # {}

(* A helper is ignored as long as it and the processes between it and this *)
(* program live, whatever the rest of the system does, reuse of pids       *)
(* included.                                                               *)
LiveHelperIgnored == pc = "alerted" => rec.birth.chain = {}

(* The walk ends although the tree changes under it, even when reused pids *)
(* make it come back to where it was.                                      *)
WalkEnds == pc = "walk" ~> pc \in {"alerted", "ignored"}
=============================================================================
