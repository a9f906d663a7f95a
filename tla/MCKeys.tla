------------------------------- MODULE MCKeys -------------------------------
(***************************************************************************)
(* Two passwords, two costs that another byte order would swap, two salts.  *)
(***************************************************************************)
EXTENDS Keys

MCSalts == {<<1, 1>>, <<2, 3>>}
=============================================================================
