--------------------------- MODULE MCCrtshFlights ---------------------------
(* Instances of CrtshFlights for TLC. *)
EXTENDS CrtshFlights

CONSTANTS c1, c2, f1, f2

=============================================================================
