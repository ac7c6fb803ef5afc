------------------------------- MODULE MCCli -------------------------------
(***************************************************************************)
(* The two command-line tools that run beside the daemons and share state *)
(* with other processes: "hpssix-admin history" paging through the job    *)
(* ledger while the scanner commits (Ledger), and two hpssix-tag          *)
(* invocations on one file, one changing the tag and one reading it       *)
(* (TagXattr).  They share nothing with each other; the run checks both   *)
(* specifications side by side.                                           *)
(***************************************************************************)
EXTENDS Ledger

CONSTANT TagAbsent   \* a model value: no attribute of that name

VARIABLES xattrs, mtime, pc, cmd, size, out, held, listed

\* "history -c 1" and "history -c 3": one count below a page, one that
\* needs a second page.
MCCounts == {1, 3}

\* A tag prefix of one character, one tag name and values of length 0, 1
\* and 2 (empty, and one growing past another); the file also carries
\* "user.x" and "user.hx", a name that starts with "user.<prefix>".
TagProcs   == {"writer", "reader"}
TagOps     == [p \in TagProcs |-> IF p = "writer" THEN {"set", "del"}
                                  ELSE {"get", "list"}]
TagPrefix  == <<"h">>
TagNames   == {<<"a">>}
TagValues  == {<< >>, <<"1">>, <<"2", "2">>}
TagForeign == {<<"u", "s", "e", "r", ".", "x">>, <<"u", "s", "e", "r", ".", "h", "x">>}

Tag == INSTANCE TagXattr WITH Procs <- TagProcs, Ops <- TagOps,
         Prefix <- TagPrefix, Names <- TagNames, Values <- TagValues,
         Foreign <- TagForeign, ForeignValue <- <<"1">>, Absent <- TagAbsent

tagVars == <<xattrs, mtime, pc, cmd, size, out, held, listed>>

(* Each step is a step of one of the two tools; the other stands still. *)
CliNext == \/ Next /\ UNCHANGED tagVars
           \/ Tag!Next /\ UNCHANGED vars

(* Both tools start from their own initial states. *)
CliInit == Init /\ Tag!Init

CliSpec == CliInit /\ [][CliNext]_<<vars, tagVars>> /\ Fairness

(* get prints only a value the tag had while it ran (TagXattr). *)
GetPrintsHeldValue == Tag!GetPrintsHeldValue

(* list prints the name of every tag set through set (TagXattr). *)
ListShowsEveryTag == Tag!ListShowsEveryTag
=============================================================================
