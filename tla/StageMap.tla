------------------------------ MODULE StageMap ------------------------------
(***************************************************************************)
(* xdr/correlation/stage_map.py: the table that turns the event_type of a  *)
(* detector into the kill-chain stage the correlator looks for.  The       *)
(* strings are the program's own, spelling included: a stage that is       *)
(* spelled differently is a different stage to issubset().                 *)
(***************************************************************************)

(* Python's None, which get_stage returns for an event_type not in the map. *)
NoStage == "None"

STAGE_MAP == [sctp_init_flood             |-> "recon",
              tcp_hijack_seq_anomaly      |-> "exploit",
              payload_scan_finding        |-> "exploit",
              file_created                |-> "persist",
              file_modified               |-> "persit",
              ebpf_unexpected_bpf_syscall |-> "persist"]

get_stage(event_type) ==
    IF event_type \in DOMAIN STAGE_MAP THEN STAGE_MAP[event_type] ELSE NoStage

(* The stages an incident needs, KillChainCorrelator.REQUIRED_STAGES. *)
REQUIRED_STAGES == {"recon", "exploit", "persist"}

-----------------------------------------------------------------------------
(* The mapping that the module's docstring (stage_map.py lines 5-10) lists. *)
DocumentedStage(event_type) ==
    IF event_type = "file_modified" THEN "persist" ELSE get_stage(event_type)
=============================================================================
