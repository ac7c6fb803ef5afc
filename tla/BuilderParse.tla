---------------------------- MODULE BuilderParse ----------------------------
(***************************************************************************)
(* The builder's parsers (src/tools/builder/src/hpssix-builder-utils.c):   *)
(* get_st_mode, which turns the HPSS object type and permission triple of *)
(* an attribute line into a POSIX st_mode, and builder_collect_xattrs,     *)
(* which reads the scan's xattr file in two passes and parses the XML of   *)
(* every line holding "<hpss><fs>" with parse_xattr.                      *)
(*                                                                         *)
(* One builder run is followed through the per-line steps in the order  *)
(* do_builder takes them: an attribute line of the fattr phase, the xattr *)
(* file of the tag phase, then the work-queue rows filtered by ExtFilter. *)
(* The SQL around them is Builder's.                                     *)
(*                                                                         *)
(* A line of the xattr file is abstracted to what the code tests: whether *)
(* it holds the marker, whether the text before it is a number followed   *)
(* by ",", the children of <fs> (or "malformed" XML), and the characters  *)
(* after the closing ">" of the XML (a quote and/or the newline).         *)
(***************************************************************************)
EXTENDS ExtFilter, Bitwise

CONSTANTS
  TagKeys,      \* element names of the children of <fs>
  OidTexts,     \* the text before the first ",": character sequences
  MaxXLines,    \* most lines of one xattr file
  Width         \* bits of the uint64_t cleanup index, scaled down

(* HPSS name-server constants and the POSIX mode bits, as in the header. *)
NS_OBJECT_TYPE_FILE      == 129   \* 0x81
NS_OBJECT_TYPE_SYM_LINK  == 130   \* 0x82
NS_OBJECT_TYPE_DIRECTORY == 132   \* 0x84
NsTypes == 129 .. 134             \* 0x81 .. 0x86
NS_PERMS_CL == 1
NS_PERMS_RD == 32
NS_PERMS_WR == 64
NS_PERMS_XS == 128
S_IFDIR == 16384    \* 0040000
S_IFREG == 32768    \* 0100000
S_IFLNK == 40960    \* 0120000

TypeBits(type) ==
  CASE type = NS_OBJECT_TYPE_FILE      -> S_IFREG
    [] type = NS_OBJECT_TYPE_SYM_LINK  -> S_IFLNK
    [] type = NS_OBJECT_TYPE_DIRECTORY -> S_IFDIR
    [] OTHER                           -> 0

(* "if (perm & ns) mode |= bit". *)
PermBit(perm, ns, bit) == IF (perm & ns) # 0 THEN bit ELSE 0

(* Mutant: the group's write and search bits swapped. *)
get_st_mode_swapped(type, uperm, gperm, operm) ==
  TypeBits(type)
    | PermBit(uperm, NS_PERMS_RD, 256) | PermBit(uperm, NS_PERMS_WR, 128)
    | PermBit(uperm, NS_PERMS_XS, 64)
    | PermBit(gperm, NS_PERMS_RD, 32) | PermBit(gperm, NS_PERMS_WR, 8)
    | PermBit(gperm, NS_PERMS_XS, 16)
    | PermBit(operm, NS_PERMS_RD, 4) | PermBit(operm, NS_PERMS_WR, 2)
    | PermBit(operm, NS_PERMS_XS, 1)

(* get_st_mode: S_IRUSR .. S_IXOTH are 0400 .. 0001. *)
get_st_mode(type, uperm, gperm, operm) ==
  TypeBits(type)
    | PermBit(uperm, NS_PERMS_RD, 256) | PermBit(uperm, NS_PERMS_WR, 128)
    | PermBit(uperm, NS_PERMS_XS, 64)
    | PermBit(gperm, NS_PERMS_RD, 32) | PermBit(gperm, NS_PERMS_WR, 16)
    | PermBit(gperm, NS_PERMS_XS, 8)
    | PermBit(operm, NS_PERMS_RD, 4) | PermBit(operm, NS_PERMS_WR, 2)
    | PermBit(operm, NS_PERMS_XS, 1)

(* Permission words: every combination of control, read, write, search. *)
NsPerms == {NS_PERMS_CL * a + NS_PERMS_RD * r + NS_PERMS_WR * w + NS_PERMS_XS * x :
              a, r, w, x \in {0, 1}}
NoAttr == <<0, 0, 0, 0>>

-----------------------------------------------------------------------------
Quote == "q"
Digits == {"0", "1", "2", "3", "4", "5", "6", "7", "8", "9"}
NL    == "n"
Malformed == <<"!malformed">>   \* not an element name
Null == << >>                   \* a parsed record has at least one tag

(* What may follow the closing ">" of the XML; only the last line of a  *)
(* file can lack the newline.                                            *)
Tails     == {<<Quote, NL>>, <<NL>>}
LastTails == Tails \cup {<<Quote>>, << >>}

Xmls == {Malformed} \cup {<< >>} \cup {<<k>> : k \in TagKeys}
          \cup {<<k, j>> : k, j \in TagKeys}

Unmarked == [marked |-> FALSE]
MarkedLines(tails) ==
  [marked : {TRUE}, oid : OidTexts, xml : Xmls, tail : tails]

XFiles ==
  UNION {{f \in [1 .. n -> MarkedLines(Tails) \cup {Unmarked}] :
            n = 0 \/ f[n] \in MarkedLines(LastTails) \cup {Unmarked}} :
         n \in 0 .. MaxXLines}

(* Mutant: the quote looked for at strlen(pos)-1, i.e. on the newline. *)
StripQuoteLast(tail) ==
  LET s == <<">">> \o tail IN
  IF s[Len(s)] = Quote THEN SubSeq(s, 2, Len(s) - 1) ELSE tail

(* "endptr = &pos[strlen(pos)-2]; if (endptr[0] == '"') endptr[0] = 0":  *)
(* the text after the XML, cut at a quote one before the last character. *)
StripQuote(tail) ==
  LET s == <<">">> \o tail IN
  IF Len(s) >= 2 /\ s[Len(s) - 1] = Quote THEN SubSeq(s, 2, Len(s) - 2) ELSE tail

(* parse_xattr: libxml accepts only blanks after the root element; a     *)
(* root without children under <fs> gives NULL as well.                  *)
parse_xattr(xml, rest) ==
  IF xml = Malformed \/ xml = << >> \/ \E k \in DOMAIN rest : rest[k] # NL
  THEN Null
  ELSE xml

(* "oid = strtoull(linebuf, &endptr, 0); if (endptr[0] != ',')": the   *)
(* oid is accepted when every character before the "," is a digit.       *)
OidParses(t) == \A k \in DOMAIN t : t[k] \in Digits

(* The first pass: the lines holding the marker. *)
CountMarked(f) == Len(SelectSeq(f, LAMBDA l : l.marked))

(* The line's oid and XML both parse. *)
LineParses(l) == OidParses(l.oid) /\ parse_xattr(l.xml, StripQuote(l.tail)) # Null

ASSUME 2^Width > MaxXLines

VARIABLES
  stage,    \* which step of the run the builder is in
  attr,     \* <<type, uperm, gperm, operm>> of the attribute line
  mode,     \* the st_mode get_st_mode gave it
  xfile,    \* the xattr file's lines
  count,    \* the first pass's count (what *out_count receives)
  k,        \* the second pass's line
  stored,   \* xattrs[0 .. i-1]: the records parsed so far
  i,        \* the uint64_t index of the cleanup loop
  outcome   \* "none", "ok" (the array returned) or "abort" (SIGABRT)

xvars == <<xfile, count, k, stored, i, outcome>>
parseVars == <<stage, attr, mode, xvars, filter, path>>

ParseInit ==
  /\ stage = "fattr"
  /\ attr = NoAttr /\ mode = 0
  /\ xfile = << >> /\ count = 0 /\ k = 1 /\ stored = << >> /\ i = 0
  /\ outcome = "none"
  /\ filter = {} /\ path = <<"/">>

(* hpssix_builder_parse_fattr on a line of twelve numeric fields. *)
ParseFattr ==
  /\ stage = "fattr"
  /\ \E t \in NsTypes, u, g, o \in NsPerms :
       /\ attr' = <<t, u, g, o>>
       /\ mode' = get_st_mode(t, u, g, o)
  /\ stage' = "xattr"
  /\ UNCHANGED <<xvars, filter, path>>

(* builder_collect_xattrs opens the file (the fattr phase is over). *)
OpenXattrs ==
  /\ stage = "xattr"
  /\ stage' = "pass1"
  /\ attr' = NoAttr /\ mode' = 0
  /\ UNCHANGED <<xvars, filter, path>>

(* The first pass counts the lines holding the marker; rewind. *)
FirstPass ==
  /\ stage = "pass1"
  /\ \E f \in XFiles : xfile' = f /\ count' = CountMarked(f)
  /\ stage' = "pass2"
  /\ UNCHANGED <<attr, mode, k, stored, i, outcome, filter, path>>

(* A line without "<hpss><fs>" is passed over. *)
SkipLine ==
  /\ stage = "pass2" /\ k <= Len(xfile)
  /\ ~xfile[k].marked
  /\ k' = k + 1
  /\ UNCHANGED <<stage, attr, mode, xfile, count, stored, i, outcome, filter, path>>

(* "xattrs[i++] = current". *)
StoreLine ==
  /\ stage = "pass2" /\ k <= Len(xfile)
  /\ xfile[k].marked /\ LineParses(xfile[k])
  /\ stored' = Append(stored, [oid |-> xfile[k].oid,
                               tags |-> parse_xattr(xfile[k].xml, StripQuote(xfile[k].tail))])
  /\ k' = k + 1
  /\ UNCHANGED <<stage, attr, mode, xfile, count, i, outcome, filter, path>>

(* Mutant: a line whose oid or XML fails is passed over. *)
LineFailsSkipped ==
  /\ stage = "pass2" /\ k <= Len(xfile)
  /\ xfile[k].marked /\ ~LineParses(xfile[k])
  /\ k' = k + 1
  /\ UNCHANGED <<stage, attr, mode, xfile, count, stored, i, outcome, filter, path>>

(* "goto out_free_all" with i records stored. *)
LineFails ==
  /\ stage = "pass2" /\ k <= Len(xfile)
  /\ xfile[k].marked /\ ~LineParses(xfile[k])
  /\ stage' = "cleanup"
  /\ i' = Len(stored)
  /\ UNCHANGED <<attr, mode, xfile, count, k, stored, outcome, filter, path>>

(* The second pass ends; the array is returned with *out_count = count. *)
CollectDone ==
  /\ stage = "pass2" /\ k > Len(xfile)
  /\ outcome' = "ok"
  /\ stage' = "workdata"
  /\ UNCHANGED <<attr, mode, xfile, count, k, stored, i, filter, path>>

(* "for (; i >= 0; i--) free(xattrs[i])" with i a uint64_t: the test is  *)
(* always true and i-- wraps from 0 to 2^Width - 1.                       *)
FreeNext ==
  /\ stage = "cleanup" /\ i < count
  /\ i' = (i + 2^Width - 1) % 2^Width
  /\ UNCHANGED <<stage, attr, mode, xfile, count, k, stored, outcome, filter, path>>

(* xattrs[i] outside the array: free() of the word before the array     *)
(* aborts the process; the store's transaction rolls back.              *)
FreeOutOfArray ==
  /\ stage = "cleanup" /\ i >= count
  /\ outcome' = "abort"
  /\ stage' = "dead"
  /\ UNCHANGED <<attr, mode, xfile, count, k, stored, i, filter, path>>

(* process_xattrs frees the array; the deletion phase is Builder's. *)
EndXattrs ==
  /\ stage = "workdata"
  /\ stage' = "filter"
  /\ xfile' = << >> /\ count' = 0 /\ k' = 1 /\ stored' = << >> /\ i' = 0
  /\ outcome' = "none"
  /\ UNCHANGED <<attr, mode, filter, path>>

(* hpssix_builder_create_workdata starts on the filter main read before *)
(* do_builder (ExtFilter's Init) and the query's first row.              *)
StartWorkdata ==
  /\ stage = "filter"
  /\ filter' \in FilterFiles /\ path' \in Paths
  /\ stage' = "rows"
  /\ UNCHANGED <<attr, mode, xvars>>

(* hpssix_builder_create_workdata filters the next row (ExtFilter). *)
FilterRow ==
  /\ stage = "rows"
  /\ NextRow
  /\ UNCHANGED <<stage, attr, mode, xvars>>

ParseNext ==
  \/ ParseFattr \/ OpenXattrs \/ FirstPass
  \/ SkipLine \/ StoreLine \/ LineFails \/ CollectDone
  \/ FreeNext \/ FreeOutOfArray
  \/ EndXattrs \/ StartWorkdata \/ FilterRow

ParseSpec == ParseInit /\ [][ParseNext]_parseVars

-----------------------------------------------------------------------------
(* Reference: the permission word of a class and its POSIX octal digit. *)
OctalDigit(p) == 4 * (p \div NS_PERMS_RD % 2) + 2 * (p \div NS_PERMS_WR % 2)
                   + (p \div NS_PERMS_XS % 2)

(* Spec 4.3, phase 1: the vendor permission triple becomes the owner,    *)
(* group and other rwx digits of st_mode (get_st_mode), the control bit  *)
(* is dropped and the type bits are kept.                                 *)
StModeIsPosix ==
  attr # NoAttr =>
    mode = TypeBits(attr[1]) + 64 * OctalDigit(attr[2]) + 8 * OctalDigit(attr[3])
             + OctalDigit(attr[4])

(* Reference: a marked line the scan wrote as intended, and the records *)
(* of a file: every marked line, in file order.                          *)
WellFormedLine(l) ==
  Len(l.oid) > 0 /\ OidParses(l.oid) /\ l.xml \notin {Malformed, << >>}
    /\ l.tail # <<Quote>>
RefRecs(f) ==
  LET m == SelectSeq(f, LAMBDA l : l.marked) IN
  [j \in DOMAIN m |-> [oid |-> m[j].oid, tags |-> m[j].xml]]
AllWellFormed(f) == \A j \in DOMAIN f : f[j].marked => WellFormedLine(f[j])

(* Spec 4.3, phase 3 runs inside the ingestion transaction: when         *)
(* builder_collect_xattrs returns, every marked line parsed, the array   *)
(* holds one record per marked line in file order, and *out_count, which *)
(* the caller's loops trust, is its length.  A line that fails ends the  *)
(* process (the cleanup loop's wrapped index) instead of being skipped.  *)
CollectAllOrNothing ==
  outcome = "ok" =>
    /\ AllWellFormed(xfile)
    /\ count = Len(stored)
    /\ stored = RefRecs(xfile)

(* A file whose marked lines are all well formed, each ending in the     *)
(* quote and the newline, the newline alone or nothing, is accepted: the *)
(* quote strip at strlen(pos)-2 leaves libxml only blanks after the XML. *)
WellFormedAccepted ==
  outcome = "abort" => ~AllWellFormed(xfile)
=============================================================================
