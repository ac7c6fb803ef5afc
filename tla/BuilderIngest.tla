--------------------------- MODULE BuilderIngest ---------------------------
(***************************************************************************)
(* What an ingestion promises (spec section 4.3 and the "non-destructive  *)
(* delete" property of section 8): the child either leaves the primary    *)
(* store as it was or, in one step, applies the whole scan.  The result   *)
(* is stated per object, not as a sequence of phases:                     *)
(*   - a new or updated object has the scan's attributes and path; a new  *)
(*     one is valid unless the same scan deletes it, an updated one keeps *)
(*     its validity unless the scan deletes it;                           *)
(*   - a deleted object keeps its attributes, path and tags but is       *)
(*     invalid;                                                           *)
(*   - an object with tags in the scan has exactly those tags.            *)
(* Builder is shown to implement this module.                             *)
(***************************************************************************)
EXTENDS BuilderStore

VARIABLES
  input,   \* the scan's output files
  db,      \* the committed primary store
  done     \* the child has exited

absVars == <<input, db, done>>

(* The tag set the scan gives object o, if any. *)
ScanTags(in, o) == {x[2] : x \in {y \in in.xat : y[1] = o}}

(* The store after a complete ingestion of in into d. *)
Ingested(d, in) ==
  [obj  |-> [o \in Oids |->
              CASE o \in in.upd /\ d.obj[o] = Absent ->
                     [ver |-> "new", qual |-> in.qual[o], valid |-> o \notin in.del]
                [] o \in in.upd ->
                     [ver |-> "new", qual |-> in.qual[o],
                      valid |-> d.obj[o].valid /\ o \notin in.del]
                [] o \in in.del /\ d.obj[o] # Absent ->
                     [d.obj[o] EXCEPT !.valid = FALSE]
                [] OTHER -> d.obj[o]],
   path |-> [o \in Oids |-> IF o \in in.upd THEN "new" ELSE d.path[o]],
   tags |-> [o \in Oids |->
              IF \E x \in in.xat : x[1] = o THEN UNION ScanTags(in, o)
              ELSE d.tags[o]]]

AbsInit ==
  /\ input \in Inputs
  /\ db \in InitialDBs
  /\ done = FALSE

(* The transaction commits: the whole scan becomes visible at once. *)
Ingest ==
  /\ ~done
  /\ db' = Ingested(db, input)
  /\ done' = TRUE
  /\ UNCHANGED input

(* The child fails, or its commit does: nothing becomes visible. *)
Abort ==
  /\ ~done
  /\ done' = TRUE
  /\ UNCHANGED <<input, db>>

AbsNext == Ingest \/ Abort

AbsSpec == AbsInit /\ [][AbsNext]_absVars
=============================================================================
