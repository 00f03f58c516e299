---------------------------- MODULE MCKillChain ----------------------------
(* KillChain for TLC: one detector event type per stage, one without a     *)
(* stage, and for the documented mapping the type that only it maps.       *)
EXTENDS KillChain

MCEventType == {"sctp_init_flood", "payload_scan_finding",
                "file_created", "file_deleted"}

MCEventTypeModified == {"sctp_init_flood", "payload_scan_finding", "file_modified"}
=============================================================================
