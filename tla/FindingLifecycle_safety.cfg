SPECIFICATION Spec
CONSTANTS
  s1 = s1
  s2 = s2
  s3 = s3
  f1 = f1
  f2 = f2
  NoScan = NoScan
  Scans <- ThreeScans
  Fingerprints <- OneFingerprint
  MaxJobs = 2
  MayRaise = TRUE
SYMMETRY Symmetry
INVARIANTS
  RowsAreJustified
  ChainedHistoryIsExact
  ComparisonAgrees
CHECK_DEADLOCK FALSE
