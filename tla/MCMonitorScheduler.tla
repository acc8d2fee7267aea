------------------------- MODULE MCMonitorScheduler -------------------------
(***************************************************************************)
(* Instances of MonitorScheduler for TLC: a few monitors and everything    *)
(* that writes their rows, or, once the endpoints are quiet, all monitors  *)
(* with nobody but the scheduler.                                          *)
(***************************************************************************)
EXTENDS MonitorScheduler

CONSTANTS
    loop, api, m1, m2, m3,
    Few   \* the monitors there are while the endpoints write

VARIABLE quiet

\* Bounds: meanwhile the others are not stored and the resolver answers.
Small == (\A m \in Monitors \ Few : ~row'[m].stored) /\ dns'.left = Outages

MCInit == quiet \in BOOLEAN /\ IF quiet THEN QuietInit ELSE Init
MCNext ==
    /\ UNCHANGED quiet
    /\ \/ quiet /\ QuietNext
       \/ ~quiet /\ Next /\ Small
MCSpec == MCInit /\ [][MCNext]_<<vars, quiet>> /\ Fairness

=============================================================================
