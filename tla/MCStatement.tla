---------------------------- MODULE MCStatement ----------------------------
(* Instances of SdbStatement for TLC.  A plain and a prepared statement are *)
(* told apart by Prepared, so there is no symmetry between statements.      *)
EXTENDS SdbStatement

\* A view for runs none of whose properties but the type of reply speaks of reply:
\* no action reads what the last command has answered.
AllButReply == <<stmt, stack, gone, fault>>
=============================================================================
