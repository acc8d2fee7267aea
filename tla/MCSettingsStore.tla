--------------------------- MODULE MCSettingsStore ---------------------------
(* Instances of SettingsStore for TLC. *)
EXTENDS SettingsStore, TLC

\* Threads are alike, and so are all stores but app.py's own.
Alike == Permutations(Threads) \cup Permutations(Stores \ {First})
=============================================================================
