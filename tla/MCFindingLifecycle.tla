------------------------ MODULE MCFindingLifecycle ------------------------
(* Small instances of FindingLifecycle for TLC. *)
EXTENDS FindingLifecycle, TLC

CONSTANTS s1, s2, s3, f1, f2

ThreeScans == {s1, s2, s3}
OneFingerprint == {f1}
TwoFingerprints == {f1, f2}

\* Nothing tells one scan or one fingerprint from another.
Symmetry == Permutations(Scans) \cup Permutations(Fingerprints)
=============================================================================
