---------------------------- MODULE MCBpfWatcher ----------------------------
(* An instance of BpfWatcher for TLC. *)
EXTENDS BpfWatcher, TLC

(* init, the shell and this program. *)
MCTree == 1 :> 0 @@ 2 :> 1 @@ 3 :> 2
=============================================================================
