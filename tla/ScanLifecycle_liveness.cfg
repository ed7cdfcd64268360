SPECIFICATION FairSpec
CONSTANTS
  s1 = s1
  s2 = s2
  w1 = w1
  w2 = w2
  NoWorker = NoWorker
  NoScan = NoScan
  Scans <- OneScan
  Workers <- TwoWorkers
  MaxAttestations = 2
  MaxDeliveries = 2
  ExecutionEnabled = TRUE
  Faults <- SoftFaults
PROPERTIES
  DeliveredScanLeavesQueued
  ClaimedScanEnds
  CancelIsAnswered
  RevokedNeverRuns
