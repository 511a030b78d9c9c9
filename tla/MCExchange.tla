---------------------------- MODULE MCExchange ----------------------------
(***************************************************************************)
(* A request of 7 ticks around a wait of 3, on clocks of 24: some runs     *)
(* begin just before the wrap of a clock, others have two requests first.  *)
(***************************************************************************)
EXTENDS Exchange

MCStarts == {0, 1, 14, 19, 20, 22}
===========================================================================
