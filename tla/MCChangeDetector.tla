--------------------------- MODULE MCChangeDetector ---------------------------
(***************************************************************************)
(* ChangeDetector with the default thresholds of config.py (three polls to *)
(* confirm, two to recover, three failures) and a dwell of MinDwell ticks. *)
(***************************************************************************)
EXTENDS ChangeDetector
=============================================================================
