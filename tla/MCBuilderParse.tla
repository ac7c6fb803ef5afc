---------------------------- MODULE MCBuilderParse ---------------------------
(***************************************************************************)
(* Inputs for one builder run's parsing steps: ExtFilter's alphabets (an  *)
(* upper-case letter to exercise lowercasing, "/" and "." for the path    *)
(* cuts, a blank and "#" for the filter file) and BuilderParse's xattr    *)
(* lines (one tag key; an oid field that is a number and one that is not). *)
(***************************************************************************)
EXTENDS BuilderParse

MCPathChars == {"/", ".", "a", "B"}
MCLineChars == {"a", "B", Blank, "#"}
MCTagKeys   == {"k1"}
MCOidTexts  == {<<"7">>, <<"x">>}
=============================================================================
