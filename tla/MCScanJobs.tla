----------------------------- MODULE MCScanJobs -----------------------------
(***************************************************************************)
(* Instances of ScanJobs for TLC: model values for jobs, domains and       *)
(* request threads, which are interchangeable.                             *)
(***************************************************************************)
EXTENDS ScanJobs, TLC

Symmetry == Permutations(Jobs) \cup Permutations(Domains) \cup Permutations(Clients)
=============================================================================
