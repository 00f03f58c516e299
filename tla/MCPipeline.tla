----------------------------- MODULE MCPipeline -----------------------------
(* An instance of Pipeline for TLC. *)
EXTENDS Pipeline
=============================================================================
