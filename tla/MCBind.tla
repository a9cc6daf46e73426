------------------------------- MODULE MCBind -------------------------------
(***************************************************************************)
(* Instances of SdbBind for TLC.  The three values are one that is empty,  *)
(* one that is a number and one that is not: everything bind asks of an    *)
(* argument.                                                               *)
(***************************************************************************)
EXTENDS SdbBind, TLC

CONSTANTS empty, one, word

MCContent == (empty :> "null") @@ (one :> "number") @@ (word :> "word")
=============================================================================
