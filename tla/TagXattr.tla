----------------------------- MODULE TagXattr -----------------------------
(***************************************************************************)
(* hpssix-tag (src/utils/hpssix-tag/src/): set, get, del and list of the  *)
(* user tags of one file in hpssfs, kept as extended attributes named     *)
(* "user.<prefix>.<name>".  Several invocations of the tool run at once   *)
(* on the same file; each is one process running one command.  The file  *)
(* system's xattr calls are atomic, but get and list make two of them    *)
(* (the size, then the contents) and another command can run between.    *)
(*                                                                         *)
(* Names and values are sequences of one-character strings, so that the  *)
(* prefix test and the "&name[namelen+1]" of tag_print_list are exact.   *)
(* realpath resolves the path before any call, so the -l and plain forms *)
(* act on the same file; the model uses the l* calls the code makes.      *)
(***************************************************************************)
EXTENDS Naturals, Sequences, FiniteSets, SequencesExt

CONSTANTS
  Procs,        \* invocations of hpssix-tag, one command each
  Ops,          \* the commands each invocation may be given
  Prefix,       \* hpssix_config->tag_prefix
  Names,        \* tag names given with -n
  Values,       \* tag values given with -v
  Foreign,      \* other xattr names the file carries (hpssfs's own, ...)
  ForeignValue, \* their value, which no command reads
  Absent        \* no attribute of that name

NUL == "\\0"
UserDot == <<"u", "s", "e", "r", ".">>

(* Mutant: set writes "user.%s%s", without the dot list skips.          *)
XNameNoDot(n) == UserDot \o Prefix \o n

(* sprintf(xname, "user.%s.%s", hpssix_config->tag_prefix, name) *)
XName(n) == UserDot \o Prefix \o <<".">> \o n

AllNames == {XName(n) : n \in Names} \cup Foreign
ASSUME Ops \in [Procs -> SUBSET {"set", "get", "del", "list"}]
ASSUME Absent \notin Values /\ ForeignValue \in Values

VARIABLES
  xattrs,     \* the file's attributes: name -> value or Absent
  mtime,      \* utime calls made on the file
  pc,         \* each invocation's place in its command
  cmd,        \* each invocation's command and arguments
  size,       \* len returned by the first (sizing) call of get and list
  out,        \* what each invocation printed: a sequence of lines
  held,       \* ghost: values the tag get asks for had during its call
  listed      \* ghost: tag names present when list's buffer was filled

vars == <<xattrs, mtime, pc, cmd, size, out, held, listed>>

Cmds ==
  [op : {"set"}, name : Names, value : Values] \cup
  [op : {"get", "del"}, name : Names] \cup [op : {"list"}, all : BOOLEAN]

Present == {x \in AllNames : xattrs[x] # Absent}

(* The list llistxattr copies out: each present name and its NUL, in    *)
(* the order the file system keeps them (fixed here).                    *)
XattrList == FlattenSeq([i \in 1 .. Cardinality(Present) |->
                           SetToSeq(Present)[i] \o <<NUL>>])

(* The string printf("%s") prints from position i of a buffer. *)
CStr(buf, i) ==
  LET j == SelectInSubSeq(buf, i, Len(buf), LAMBDA c : c = NUL)
  IN  SubSeq(buf, i, j - 1)

(* tag_print_list over the buffer of len + 1 bytes (calloc'd, so the     *)
(* byte after the list is NUL).  Without -a a name is printed from       *)
(* position namelen+1 if it starts with "user.<prefix>".                  *)
RECURSIVE PrintFrom(_, _, _, _, _)
PrintFrom(buf, len, all, i, processed) ==
  IF buf[i] = NUL THEN << >>
  ELSE
    LET name    == CStr(buf, i)
        xname   == UserDot \o Prefix
        namelen == Len(xname)
        line    == IF all THEN <<name>>
                   ELSE IF IsPrefix(xname, name)
                        THEN <<CStr(buf, i + namelen + 1)>> ELSE << >>
        next    == processed + Len(name)
    IN  line \o (IF next >= len THEN << >>
                 ELSE PrintFrom(buf, len, all, i + Len(name) + 1, next))

tag_print_list(buf, len, all) == PrintFrom(buf, len, all, 1, 0)

Init ==
  /\ xattrs \in {f \in [AllNames -> Values \cup {Absent}] :
                   \A x \in Foreign : f[x] = ForeignValue}
  /\ mtime = 0
  /\ pc = [p \in Procs |-> "start"]
  /\ cmd \in {c \in [Procs -> Cmds] : \A p \in Procs : c[p].op \in Ops[p]}
  /\ size = [p \in Procs |-> 0]
  /\ out = [p \in Procs |-> << >>]
  /\ held = [p \in Procs |-> {}]
  /\ listed = [p \in Procs |-> {}]

(* A value stored while a get of that tag is between its two calls.     *)
Witness(n, v) ==
  [q \in Procs |-> IF pc[q] = "read" /\ cmd[q].op = "get" /\ cmd[q].name = n
                     THEN held[q] \cup {v} ELSE held[q]]

(* main and the command's own checks end it at an early return: an     *)
(* unknown command, an unreadable configuration, hpssfs not mounted, a   *)
(* wrong argument count, realpath failing, tag_valid_path (the path not  *)
(* under the mount point), a missing -n or -v.  Nothing is called on the *)
(* file.                                                                  *)
Reject(p) ==
  /\ pc[p] = "start"
  /\ pc' = [pc EXCEPT ![p] = "done"]
  /\ UNCHANGED <<xattrs, mtime, cmd, size, out, held, listed>>

(* hpssix_tag_cmd_set_func: lsetxattr stores the value (strlen(value)    *)
(* bytes, no NUL); its failure is only reported with perror.            *)
SetXattr(p) ==
  /\ pc[p] = "start" /\ cmd[p].op = "set"
  /\ LET x == XName(cmd[p].name)
     IN  \/ /\ xattrs' = [xattrs EXCEPT ![x] = cmd[p].value]
            /\ held' = Witness(cmd[p].name, cmd[p].value)
         \/ UNCHANGED <<xattrs, held>>
  /\ pc' = [pc EXCEPT ![p] = "touch"]
  /\ UNCHANGED <<mtime, cmd, size, out, listed>>

(* utime(filename, NULL) moves the mtime; its result is what set returns, *)
(* whatever lsetxattr did.                                               *)
SetTouch(p) ==
  /\ pc[p] = "touch"
  /\ mtime' = mtime + 1
  /\ pc' = [pc EXCEPT ![p] = "done"]
  /\ UNCHANGED <<xattrs, cmd, size, out, held, listed>>

(* hpssix_tag_cmd_get_func: lgetxattr(filename, xname, NULL, 0) gives    *)
(* the size; with no such tag the command reports it and returns 0.      *)
GetSize(p) ==
  /\ pc[p] = "start" /\ cmd[p].op = "get"
  /\ LET v == xattrs[XName(cmd[p].name)]
     IN  IF v = Absent
           THEN /\ pc' = [pc EXCEPT ![p] = "done"]
                /\ UNCHANGED <<size, held>>
           ELSE /\ size' = [size EXCEPT ![p] = Len(v)]
                /\ held' = [held EXCEPT ![p] = {v}]
                /\ pc' = [pc EXCEPT ![p] = "read"]
  /\ UNCHANGED <<xattrs, mtime, cmd, out, listed>>

(* Mutant: the second call's result is not checked and the zeroed      *)
(* buffer is printed.                                                    *)
GetReadUnchecked(p) ==
  /\ pc[p] = "read" /\ cmd[p].op = "get"
  /\ LET v == xattrs[XName(cmd[p].name)]
     IN  out' = [out EXCEPT ![p] =
                   <<IF v = Absent \/ size[p] = 0 \/ Len(v) > size[p]
                       THEN << >> ELSE v>>]
  /\ pc' = [pc EXCEPT ![p] = "done"]
  /\ UNCHANGED <<xattrs, mtime, cmd, size, held, listed>>

(* The value is read into calloc(1, len+1).  A tag removed meanwhile, or  *)
(* grown past len (ERANGE), gives len < 0 and "failed to read the tag";  *)
(* with len 0 the call only returns the current size and the buffer     *)
(* stays empty.  Otherwise tag_print_value prints the value.            *)
GetRead(p) ==
  /\ pc[p] = "read" /\ cmd[p].op = "get"
  /\ LET v == xattrs[XName(cmd[p].name)]
     IN  IF v = Absent \/ (size[p] > 0 /\ Len(v) > size[p])
           THEN UNCHANGED out
           ELSE out' = [out EXCEPT ![p] = <<IF size[p] = 0 THEN << >> ELSE v>>]
  /\ pc' = [pc EXCEPT ![p] = "done"]
  /\ UNCHANGED <<xattrs, mtime, cmd, size, held, listed>>

(* hpssix_tag_cmd_del_func: lremovexattr, ENODATA when there is no such  *)
(* tag; del alone returns the call's result.                             *)
Del(p) ==
  /\ pc[p] = "start" /\ cmd[p].op = "del"
  /\ xattrs' = [xattrs EXCEPT ![XName(cmd[p].name)] = Absent]
  /\ pc' = [pc EXCEPT ![p] = "done"]
  /\ UNCHANGED <<mtime, cmd, size, out, held, listed>>

(* hpssix_tag_cmd_list_func: llistxattr(filename, NULL, 0) gives the     *)
(* size of the list.                                                     *)
ListSize(p) ==
  /\ pc[p] = "start" /\ cmd[p].op = "list"
  /\ size' = [size EXCEPT ![p] = Len(XattrList)]
  /\ pc' = [pc EXCEPT ![p] = "read"]
  /\ UNCHANGED <<xattrs, mtime, cmd, out, held, listed>>

(* The list is read into calloc(1, len+1): ERANGE if it grew; with len 0 *)
(* only its size is returned.  Otherwise tag_print_list prints it.       *)
ListRead(p) ==
  /\ pc[p] = "read" /\ cmd[p].op = "list"
  /\ LET len == Len(XattrList)
         buf == IF size[p] = 0 THEN <<NUL>>
                ELSE XattrList \o [k \in 1 .. size[p] + 1 - len |-> NUL]
     IN  IF size[p] > 0 /\ len > size[p]
           THEN UNCHANGED <<out, listed>>
           ELSE /\ out' = [out EXCEPT ![p] = tag_print_list(buf, len, cmd[p].all)]
                /\ listed' = [listed EXCEPT ![p] =
                                {n \in Names : XName(n) \in Present}]
  /\ pc' = [pc EXCEPT ![p] = "done"]
  /\ UNCHANGED <<xattrs, mtime, cmd, size, held>>

(* Every invocation has returned. *)
AllDone ==
  /\ \A p \in Procs : pc[p] = "done"
  /\ UNCHANGED vars

Next ==
  \/ \E p \in Procs :
       \/ Reject(p) \/ SetXattr(p) \/ SetTouch(p) \/ GetSize(p) \/ GetRead(p)
       \/ Del(p) \/ ListSize(p) \/ ListRead(p)
  \/ AllDone

Spec == Init /\ [][Next]_vars

-----------------------------------------------------------------------------
TypeOK ==
  /\ xattrs \in [AllNames -> Values \cup {Absent}]
  /\ pc \in [Procs -> {"start", "touch", "read", "done"}]
  /\ cmd \in [Procs -> Cmds]

(* get prints a value the tag really had while the command ran: a value *)
(* that grew or went away between lgetxattr's sizing call and its read  *)
(* is reported as an error, never printed as a truncated or empty value.*)
GetPrintsHeldValue ==
  \A p \in Procs :
    (cmd[p].op = "get" /\ out[p] # << >>) => out[p][1] \in held[p]

(* set's "user.<prefix>.<name>" and list's parsing of the listxattr      *)
(* buffer agree: list without -a prints the name given to set of every  *)
(* tag the file carried when the list was read, whatever other           *)
(* attributes the file has.                                              *)
ListShowsEveryTag ==
  \A p \in Procs :
    (pc[p] = "done" /\ cmd[p].op = "list" /\ ~cmd[p].all) =>
      \A n \in listed[p] : \E i \in DOMAIN out[p] : out[p][i] = n
=============================================================================
