-------------------------- MODULE MCScanLifecycle --------------------------
(* Small instances of ScanLifecycle for TLC. *)
EXTENDS ScanLifecycle, TLC

CONSTANTS s1, s2, w1, w2

OneScan == {s1}
TwoScans == {s1, s2}
OneWorker == {w1}
TwoWorkers == {w1, w2}
AllFaults == FaultKinds
SoftFaults == {"broker", "commit", "exception"}
NoFaults == {}

\* Nothing tells one scan or one worker from another.
Symmetry == Permutations(Scans) \cup Permutations(Workers)
=============================================================================
