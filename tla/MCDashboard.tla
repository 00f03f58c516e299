---------------------------- MODULE MCDashboard ----------------------------
(* Dashboard for TLC: two browsers and one injected message. *)
EXTENDS Dashboard
=============================================================================
