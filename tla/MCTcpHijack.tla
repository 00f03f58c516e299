---------------------------- MODULE MCTcpHijack ----------------------------
(* TcpHijack for TLC: one connection in a sequence space small enough to   *)
(* go round, with a threshold that just holds two segments.                *)
EXTENDS TcpHijack
=============================================================================
