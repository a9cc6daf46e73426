-------------------------------- MODULE MCLob --------------------------------
(***************************************************************************)
(* Instance of SdbLob for TLC: a CLOB with characters of one and of three  *)
(* bytes, and a BLOB.                                                      *)
(***************************************************************************)
EXTENDS SdbLob, TLC

CONSTANTS clob, blob

MCOffset == (clob :> <<0, 1, 4, 5>>) @@ (blob :> <<0, 1, 2>>)

MCSizes == {-2, 1, 3}
=============================================================================
