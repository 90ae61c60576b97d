--------------------------- MODULE MCIncidentAlerts ---------------------------
(* Small instances of IncidentAlerts for TLC. *)
EXTENDS IncidentAlerts
=============================================================================
