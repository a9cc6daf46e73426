------------------------------ MODULE MCRowData ------------------------------
(***************************************************************************)
(* Instance of SdbRowData for TLC.  The variables are alike.               *)
(***************************************************************************)
EXTENDS SdbRowData, TLC

Sym == Permutations(Var)
=============================================================================
