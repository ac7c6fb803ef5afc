----------------------------- MODULE MCLedger ------------------------------
(***************************************************************************)
(* Model-checking instance of Ledger.                                      *)
(***************************************************************************)
EXTENDS Ledger

\* "history -c 1" and "history -c 3": one count below a page, one that
\* needs a second page.
MCCounts == {1, 3}
=============================================================================
