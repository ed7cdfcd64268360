SPECIFICATION Spec
CONSTANTS
  s1 = s1
  s2 = s2
  w1 = w1
  w2 = w2
  NoWorker = NoWorker
  NoScan = NoScan
  Scans <- TwoScans
  Workers <- TwoWorkers
  MaxAttestations = 1
  MaxDeliveries = 2
  ExecutionEnabled = TRUE
  Faults <- AllFaults
SYMMETRY Symmetry
INVARIANTS
  TypeOK
  AtMostOneEngineRun
  TruthfulStatus
PROPERTY MachineSpec
