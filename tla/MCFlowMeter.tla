--------------------------- MODULE MCFlowMeter ----------------------------
(***************************************************************************)
(* A scaled meter for TLC: a second is two ticks, millis() wraps at eight, *)
(* the pulse counter has two bits and three pulses are four millilitres.   *)
(***************************************************************************)
EXTENDS FlowMeter

MCGaps == {1, 2}
===========================================================================
