SPECIFICATION FairSpec
CONSTANTS
  s1 = s1
  s2 = s2
  w1 = w1
  w2 = w2
  NoWorker = NoWorker
  NoScan = NoScan
  Scans <- OneScan
  Workers <- OneWorker
  MaxAttestations = 1
  MaxDeliveries = 1
  ExecutionEnabled = TRUE
  Faults <- NoFaults
PROPERTY CommittedScanIsExecuted
