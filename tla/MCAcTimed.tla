---------------------------- MODULE MCAcTimed -----------------------------
(***************************************************************************)
(* A scaled board for TLC: a tick is a second, an unsigned int has 3 bits  *)
(* and millis() wraps at 33 ticks, 3 before the end of this run.  The      *)
(* second hold time overflows its multiplication, as 720 s does on the     *)
(* board (720000 mod 65536 = 64640 ms).                                    *)
(***************************************************************************)
EXTENDS AcTimed

MCWaits     == {6, 9}
MCPassTimes == {1, 3}
===========================================================================
