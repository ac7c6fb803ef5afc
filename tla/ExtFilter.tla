----------------------------- MODULE ExtFilter -----------------------------
(***************************************************************************)
(* The extension allow-list of the builder: hpssix_extfilter_get reads the *)
(* filter file once per run (src/libhpssix/src/hpssix-config.c), and       *)
(* builder_filter_meta_extract (src/tools/builder/src/                     *)
(* hpssix-builder-utils.c) decides for each path of the work-queue query   *)
(* whether its extension is allowed.  Paths and filter lines are strings   *)
(* over a small alphabet, since what is checked is how they are cut and    *)
(* compared.  The mode and size tests of the same function are left to     *)
(* Builder's qual flag.                                                    *)
(***************************************************************************)
EXTENDS Naturals, Sequences, SequencesExt

CONSTANTS
  PathChars,    \* characters of paths, "/" and "." included
  LineChars,    \* characters of filter-file lines, a blank and "#" included
  MaxPathLen,   \* longest path explored
  MaxLineLen,   \* longest filter line explored (its newline not counted)
  MaxLines      \* most lines in one filter file

Blank == " "
ToLower(c) == IF c = "A" THEN "a" ELSE IF c = "B" THEN "b" ELSE c
Lowercase(s) == [k \in DOMAIN s |-> ToLower(s[k])]

Paths == {s \in SeqOf(PathChars, MaxPathLen) : Len(s) > 0 /\ s[1] = "/"}
Lines == {s \in SeqOf(LineChars, MaxLineLen) : Len(s) > 0}
FilterFiles == {F \in SUBSET Lines : Cardinality(F) <= MaxLines}

NoExt == <<"none">>   \* builder_filter_meta_extract returned 0 before the loop

(* strrchr: the position of the last c in s, 0 when there is none. *)
strrchr(s, c) == SelectLastInSeq(s, LAMBDA x : x = c)

(* trim_extension: trailing blanks are cut, then the line is lowercased. *)
RECURSIVE TrimRight(_)
TrimRight(s) ==
  IF s # << >> /\ s[Len(s)] = Blank THEN TrimRight(SubSeq(s, 1, Len(s) - 1)) ELSE s

trim_extension(line) == Lowercase(TrimRight(line))

(* hpssix_extfilter_get: every line that starts neither with a blank nor *)
(* with "#" becomes an entry.                                            *)
hpssix_extfilter_get(file) ==
  {trim_extension(l) : l \in {l \in file : l[1] \notin {Blank, "#"}}}

(* Mutant: the extension is cut at the first "." of the file name. *)
FileExtensionFirstDot(path) ==
  LET slash == strrchr(path, "/")
      name  == SubSeq(path, slash + 1, Len(path))
      dot   == SelectInSeq(name, LAMBDA x : x = ".")
  IN IF slash = 0 \/ dot = 0 THEN NoExt
     ELSE Lowercase(SubSeq(name, dot + 1, Len(name)))

(* builder_filter_meta_extract: the file name follows the last "/", the  *)
(* extension the last "." of the file name; it is lowercased.            *)
FileExtension(path) ==
  LET slash == strrchr(path, "/")
      name  == SubSeq(path, slash + 1, Len(path))
      dot   == strrchr(name, ".")
  IN IF slash = 0 \/ dot = 0 THEN NoExt
     ELSE Lowercase(SubSeq(name, dot + 1, Len(name)))

(* The loop of builder_filter_meta_extract: strncmp(ext, exts[i],        *)
(* strlen(ext)) == 0, i.e. ext is a prefix of an entry.                  *)
builder_filter_meta_extract(path, file) ==
  LET ext == FileExtension(path) IN
  ext # NoExt /\ \E e \in hpssix_extfilter_get(file) : IsPrefix(ext, e)

VARIABLES
  filter,   \* the filter file read by this builder run
  path      \* the path being filtered

vars == <<filter, path>>

Init == filter \in FilterFiles /\ path \in Paths

(* hpssix_builder_create_workdata filters the next row's path. *)
NextRow ==
  /\ \E p \in Paths : path' = p
  /\ UNCHANGED filter

Spec == Init /\ [][NextRow]_vars

-----------------------------------------------------------------------------
(* Reference: the extension of a path is what follows the last "." of the *)
(* last path component, when that component has a ".".                  *)
RefExtension(p) ==
  LET IsLastDot(k)   == p[k] = "." /\ \A j \in k + 1 .. Len(p) : p[j] # "."
      InLastName(k) == \A j \in k .. Len(p) : p[j] # "/"
      cuts == {k \in 1 .. Len(p) : IsLastDot(k) /\ InLastName(k)}
  IN IF cuts = {} THEN NoExt
     ELSE Lowercase(SubSeq(p, (CHOOSE k \in cuts : TRUE) + 1, Len(p)))

TypeOK == filter \in FilterFiles /\ path \in Paths

(* builder_filter_meta_extract cuts the extension at the last "." after  *)
(* the last "/", lowercased, for every path.                              *)
ExtensionIsLastSuffix == FileExtension(path) = RefExtension(path)

(* Spec section 2 (ExtensionFilter): a path qualifies when its lowercase *)
(* extension is one of the filter's entries.                              *)
FilterIsMembership ==
  builder_filter_meta_extract(path, filter) <=>
    RefExtension(path) # NoExt /\ RefExtension(path) \in hpssix_extfilter_get(filter)
=============================================================================
