--------------------------- MODULE MCScanVerdicts ---------------------------
(* Instances of ScanVerdicts for TLC. *)
EXTENDS ScanVerdicts

MCSelections == { {"all"} }
=============================================================================
