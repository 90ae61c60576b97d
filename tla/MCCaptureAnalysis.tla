--------------------------- MODULE MCCaptureAnalysis ---------------------------
(* A small instance of CaptureAnalysis for TLC. *)
EXTENDS CaptureAnalysis
=============================================================================
