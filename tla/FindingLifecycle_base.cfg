SPECIFICATION Spec
CONSTANTS
  s1 = s1
  s2 = s2
  s3 = s3
  f1 = f1
  f2 = f2
  NoScan = NoScan
  Scans <- ThreeScans
  Fingerprints <- OneFingerprint
  MaxJobs = 1
  MayRaise = FALSE
INVARIANT AbsentIsResolved
CHECK_DEADLOCK FALSE
