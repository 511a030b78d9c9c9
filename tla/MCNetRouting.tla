--------------------------- MODULE MCNetRouting ---------------------------
(***************************************************************************)
(* A tree of RF24Network for TLC: three of the digits at all four levels.  *)
(***************************************************************************)
EXTENDS NetRouting

MCSome == {1, 3, 5}
===========================================================================
