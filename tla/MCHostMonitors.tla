--------------------------- MODULE MCHostMonitors ---------------------------
(* HostMonitors for TLC: two of the four kinds of file alert. *)
EXTENDS HostMonitors

MCFileType == {"file_created", "file_deleted"}
=============================================================================
