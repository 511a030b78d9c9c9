----------------------------- MODULE AcTimed ------------------------------
(***************************************************************************)
(* AcController with the history its timing promises are about: when the   *)
(* compressor last stopped, whether the settings were left alone since,    *)
(* and since when nothing acController() reads has changed.  The history   *)
(* follows the controller and never constrains it.                         *)
(***************************************************************************)
EXTENDS AcController

\* Some pass of loop() is the longest one
ASSUME PassesAssumption == \E m \in PassTimes : \A e \in PassTimes : e <= m

VARIABLES
  offAt,   \* up-time at which the compressor last stopped
  calm,    \* mode and hold times unchanged since then
  since    \* up-time of the last change of demand, mode or hold times

history == <<offAt, calm, since>>
tvars   == <<vars, history>>

Record ==
  /\ offAt' = IF cool /\ ~cool' THEN up' ELSE offAt
  /\ calm' = \/ cool /\ ~cool'
             \/ calm /\ <<fanAuto, waitAfterOn, waitAfterOff>>'
                          = <<fanAuto, waitAfterOn, waitAfterOff>>
  /\ since' = IF settings' = settings THEN since ELSE up'

TInit ==
  /\ Init
  /\ offAt = Welcome
  /\ calm = TRUE
  /\ since = Welcome

TNext == Next /\ Record

TSpec == TInit /\ [][TNext]_tvars

---------------------------------------------------------------------------
Lesser(a, b)  == IF a <= b THEN a ELSE b
Greater(a, b) == IF a >= b THEN a ELSE b

\* No sum of a millis() value and a hold time has wrapped by up-time t: on
\* the board, t is in the first 49.7 days after the start.
BeforeWrap(t) == t + UIntMod + Period <= MillisMod

(***************************************************************************)
(* The compressor never restarts within the shorter of the 10 s fan lead   *)
(* and the waitAfterOff hold in force, however the mode is toggled and the *)
(* hold times are rewritten while it rests: every stop must restart        *)
(* fanTime (lines 590, 607) and every start must check it (586, 614).      *)
(***************************************************************************)
CompressorRests ==
  [][ (~cool /\ cool' /\ BeforeWrap(up')) =>
        up' - offAt >= Lesser(Hold(CoolDelay), Hold(waitAfterOff)) ]_tvars

(***************************************************************************)
(* With the settings left alone the compressor rests for the whole hold,   *)
(* and in automatic mode the fan lead comes on top of it: the fan start at *)
(* line 597 must restart fanTime, so that line 586 times the lead from     *)
(* there.                                                                  *)
(***************************************************************************)
FullRest ==
  [][ (~cool /\ cool' /\ calm /\ BeforeWrap(up')) =>
        up' - offAt >= Hold(waitAfterOff)
                         + (IF fanAuto THEN Hold(CoolDelay) ELSE 0) ]_tvars

\* Why both hold, as an inductive invariant: a stop always restarts fanTime,
\* and in automatic mode the fan then waits for the whole hold.
StopRestartsTimer == BeforeWrap(up) => offAt <= fanTime /\ fanTime <= up

FanWaited ==
  BeforeWrap(up) /\ calm /\ fanAuto /\ fan /\ ~cool
    => offAt + Hold(waitAfterOff) <= fanTime

RestInv ==
  /\ TypeOK
  /\ offAt \in Nat
  /\ calm \in BOOLEAN
  /\ StopRestartsTimer
  /\ FanWaited

LongestPass == CHOOSE d \in PassTimes : \A e \in PassTimes : e <= d

\* Longest time between two runs of acController()
Poll == Period + LongestPass

(***************************************************************************)
(* A demand that lasts is served in bounded time: the hold after the last  *)
(* stop, the fan lead, and one polling interval for each of the two        *)
(* starts (lines 235-238, 584-600, 612-617).                               *)
(***************************************************************************)
ServedInTime ==
  (/\ demand
   /\ BeforeWrap(up)
   /\ up - since >= Hold(waitAfterOff) + Hold(CoolDelay) + 2 * Poll) => cool

(***************************************************************************)
(* When the demand ends the compressor stops within the waitAfterOn hold   *)
(* and one polling interval, and in automatic mode the fan stops with it   *)
(* (lines 587-592, 604-610).                                               *)
(***************************************************************************)
StoppedInTime ==
  (/\ ~demand
   /\ BeforeWrap(up)
   /\ up - since >= Hold(waitAfterOn) + Poll) => ~cool /\ (fanAuto => ~fan)

(***************************************************************************)
(* Why both hold, as an inductive invariant.  acTimer is the up-time of    *)
(* the latest run of acController(), and no run is late by more than a     *)
(* pass.  While what acController() waits for is due, fanTime stays where  *)
(* the last switch before the change left it, and every run since the      *)
(* change has found the hold still running.                                *)
(***************************************************************************)
Polled ==
  /\ since <= up
  /\ fanTime <= acTimer
  /\ acTimer <= up
  /\ up <= acTimer + Period

\* The latest run came before the change, or before the end of the hold w
Pending(w) == acTimer <= since \/ acTimer <= fanTime + Hold(w)

StartPending ==
  demand /\ ~cool =>
    \/ /\ fanTime <= since
       /\ Pending(waitAfterOff)
       /\ ~(fanAuto /\ fan)
    \/ /\ fanTime <= since + Hold(waitAfterOff) + Poll
       /\ Pending(CoolDelay)
       /\ fanAuto /\ fan

StopPending ==
  ~demand /\ (cool \/ (fanAuto /\ fan)) =>
    fanTime <= since /\ Pending(waitAfterOn)

ServeInv ==
  /\ since \in Nat
  /\ CoolNeedsFan
  /\ BeforeWrap(up) => Polled /\ StartPending /\ StopPending
===========================================================================
