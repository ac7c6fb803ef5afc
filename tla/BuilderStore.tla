---------------------------- MODULE BuilderStore ----------------------------
(***************************************************************************)
(* The data the builder works on, shared by Builder (the phases of         *)
(* do_builder) and BuilderIngest (what an ingestion promises): the primary *)
(* store abstracted to one row per object id -- attributes (a version and  *)
(* whether the file qualifies for extraction: regular, non-empty, allowed  *)
(* extension, under the size limit), the valid flag, the path row and the  *)
(* tag set -- and the scan's output files.                                 *)
(***************************************************************************)
EXTENDS Naturals, FiniteSets

CONSTANTS
  Oids,         \* object ids
  Tags          \* (key, value) tags

(* No row for the object id in hpssix_object. *)
Absent == [ver |-> "none", qual |-> FALSE, valid |-> FALSE]
NoPath == "nopath"
Obj == [ver : {"old", "new"}, qual : BOOLEAN, valid : BOOLEAN]
DB  == [obj : [Oids -> Obj \cup {Absent}], path : [Oids -> {NoPath, "old", "new"}],
        tags : [Oids -> SUBSET Tags]]

(* Stores the program can start from: an object has a path row and tags *)
(* only if it was ingested before.                                        *)
InitialDBs ==
  { d \in [obj : [Oids -> Obj \cup {Absent}], path : [Oids -> {NoPath, "old"}],
           tags : [Oids -> SUBSET Tags]] :
      \A o \in Oids : /\ (d.obj[o] = Absent) = (d.path[o] = NoPath)
                      /\ d.obj[o] = Absent => d.tags[o] = {}
                      /\ d.obj[o] # Absent => d.obj[o].ver = "old" }

(* The scan's output for one task: objects new or updated (their fattr   *)
(* and path lines, with whether each qualifies), their tag sets, and the *)
(* deleted object ids.                                                   *)
Inputs ==
  { in \in [upd : SUBSET Oids, qual : [Oids -> BOOLEAN],
            xat : SUBSET (Oids \X SUBSET Tags), del : SUBSET Oids] :
      \A x \in in.xat : x[1] \in in.upd
                        /\ \A y \in in.xat : y[1] = x[1] => y = x }
=============================================================================
