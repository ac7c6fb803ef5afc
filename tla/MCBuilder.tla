----------------------------- MODULE MCBuilder -----------------------------
EXTENDS Builder, TLC

CONSTANTS o1, o2, t1, t2

MCOids == {o1, o2}
MCTags == {t1, t2}
NoFaults == {}
ProcFaults == {"proc"}
CommitFaults == {"commit"}
AllFaults == {"proc", "commit"}

(* Scans that create or update only objects the store does not hold or  *)
(* holds as valid: an invalid object queued can then only come from the *)
(* scan's own deletions.                                                  *)
ScanOfValidInit ==
  Init /\ \A o \in input.upd : db.obj[o] = Absent \/ db.obj[o].valid

ScanOfValidSpec == ScanOfValidInit /\ [][Next]_vars

Symmetry == Permutations(MCOids) \cup Permutations(MCTags)
=============================================================================
