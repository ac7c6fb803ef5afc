\* No faults; scans of objects absent or valid in the store, some listed both as updated and as deleted.
CONSTANTS
  o1 = o1
  o2 = o2
  t1 = t1
  t2 = t2
  Oids <- MCOids
  Tags <- MCTags
  Faults <- NoFaults
SPECIFICATION ScanOfValidSpec
SYMMETRY Symmetry
INVARIANT QueueOnlyValid
