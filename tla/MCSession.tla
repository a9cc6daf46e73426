----------------------------- MODULE MCSession -----------------------------
(***************************************************************************)
(* Small instances of SdbSession: two connections, so that the end of one  *)
(* can be seen to leave the other alone, three statements, so that each    *)
(* connection can have its internal statement and a third can be explicit, *)
(* and two Tcl values, so that one statement's handle can be duplicated,   *)
(* dropped and replaced while another is held.                             *)
(***************************************************************************)
EXTENDS SdbSession, TLC

Symmetry == Permutations(Conn) \cup Permutations(Stmt)
                \cup Permutations(Obj) \cup Permutations(Name)
=============================================================================
