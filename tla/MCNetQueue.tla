---------------------------- MODULE MCNetQueue ----------------------------
(***************************************************************************)
(* Instances of the queue of RF24Network for TLC, with the real sizes: the *)
(* cache has 154 bytes, a frame 24, a message of the sketches 16.          *)
(***************************************************************************)
EXTENDS NetQueue, TLC

CONSTANTS a, b

MCTwo       == {a, b}
MCOne       == {a}
MCLong      == (a :> <<1, 2, 1>> @@ b :> <<3, 2>>)
MCShort     == (a :> <<1, 1, 1, 1, 1, 1, 1>>)
MCApart     == (a :> 0 @@ b :> 100)
MCAlike     == [s \in Senders |-> 0]
===========================================================================
