\* Every two-object store and scan; phases and the final commit may fail.
CONSTANTS
  o1 = o1
  o2 = o2
  t1 = t1
  t2 = t2
  Oids <- MCOids
  Tags <- MCTags
  Faults <- AllFaults
SPECIFICATION Spec
SYMMETRY Symmetry
PROPERTY IngestRefinement
INVARIANT QueueAllOrNothing
