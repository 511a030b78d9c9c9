---------------------------- MODULE FlowMeter -----------------------------
(***************************************************************************)
(* The metering of flowRate/flowRate.ino.  An interrupt counts the pulses  *)
(* of the sensor in one byte; loop() closes a window when more than a      *)
(* second has passed, turns the count into millilitres a second and adds   *)
(* them to the total.  The interrupt is detached meanwhile, and millis()   *)
(* is read three times: to close the window, to divide by its length, and  *)
(* to open the next.                                                       *)
(*                                                                         *)
(* A pulse is MlNum / MlDen millilitres: 1000 / (60 * 4.5).  The float     *)
(* arithmetic of the code is exact here up to the truncation to an         *)
(* unsigned int.                                                           *)
(***************************************************************************)
EXTENDS Integers

CONSTANTS
  MillisMod,  \* millis() counts modulo MillisMod      (2^32)
  ByteMod,    \* pulseCount counts modulo ByteMod      (2^8)
  Window,     \* ticks that must have passed           (1000)
  MlNum,      \* millilitres of MlDen pulses           (1000)
  MlDen,      \*                                       (270)
  Gaps,       \* ticks between two readings of millis()
  MaxPulses   \* bound on the pulses of the sensor

ASSUME MeterAssumption ==
  /\ MillisMod \in Nat \ {0}
  /\ ByteMod \in Nat \ {0}
  /\ Window \in Nat \ {0}
  /\ Window < MillisMod
  /\ MlNum \in Nat
  /\ MlDen \in Nat \ {0}
  /\ Gaps \subseteq Nat \ {0}
  /\ MaxPulses \in Nat

VARIABLES
  millis,      \* the clock
  oldTime,     \* millis() when the window opened
  pulseCount,  \* the byte the interrupt increments
  attached,    \* the interrupt is attached
  step,        \* where loop() is: the window is open, closed or measured
  flow,        \* flowMilliLitres of the window measured
  totalMilliLitres,
  seen,        \* pulses the interrupt counted, without the byte's limit
  used,        \* pulses that went into the total
  windows,     \* windows measured that had a pulse
  longest      \* longest window measured

code    == <<millis, oldTime, pulseCount, attached, step, flow, totalMilliLitres>>
history == <<seen, used, windows, longest>>
vars    == <<code, history>>

---------------------------------------------------------------------------
\* Definitions marked "slip" are wrong variants of the one that follows,
\* used only to test that the properties notice them.

\* millis() - oldTime, in unsigned arithmetic
Elapsed == (millis + MillisMod - oldTime) % MillisMod

SlipDeadline ==    \* slip: a sum that wraps instead of a difference
  Elapsed > 0 /\ millis > (oldTime + Window) % MillisMod
WindowOver   == Elapsed > Window

\* (flowRate / 60) * 1000, truncated
SlipRounded(pulses, ticks) ==    \* slip: truncated before it is multiplied
  pulses * ((MlNum * Window) \div (MlDen * ticks))
MilliLitres(pulses, ticks) ==
  (pulses * MlNum * Window) \div (MlDen * ticks)

Init ==
  /\ millis = 0
  /\ oldTime = 0
  /\ pulseCount = 0
  /\ attached = TRUE
  /\ step = "open"
  /\ flow = 0
  /\ totalMilliLitres = 0
  /\ seen = 0
  /\ used = 0
  /\ windows = 0
  /\ longest = Window

\* Time passes, in loop(), in report() or between two statements: loop() is
\* never stuck for a whole epoch of millis()
Tick ==
  /\ \E d \in Gaps : Elapsed + d < MillisMod /\ millis' = (millis + d) % MillisMod
  /\ UNCHANGED <<oldTime, pulseCount, attached, step, flow,
                 totalMilliLitres, history>>

\* The sensor's pulse runs the interrupt; a detached one misses it
pulseCounter ==
  /\ attached
  /\ seen < MaxPulses
  /\ pulseCount' = (pulseCount + 1) % ByteMod
  /\ seen' = seen + 1
  /\ UNCHANGED <<millis, oldTime, attached, step, flow, totalMilliLitres,
                 used, windows, longest>>

SlipAttached ==    \* slip: the interrupt is not detached
  /\ step = "open"
  /\ WindowOver
  /\ step' = "closed"
  /\ UNCHANGED <<millis, oldTime, pulseCount, attached, flow,
                 totalMilliLitres, history>>

CloseWindow ==
  /\ step = "open"
  /\ WindowOver
  /\ step' = "closed"
  /\ attached' = FALSE
  /\ UNCHANGED <<millis, oldTime, pulseCount, flow, totalMilliLitres, history>>

Measure ==
  /\ step = "closed"
  /\ step' = "measured"
  /\ flow' = MilliLitres(pulseCount, Elapsed)
  /\ used' = used + pulseCount
  /\ windows' = windows + (IF pulseCount > 0 THEN 1 ELSE 0)
  /\ longest' = IF Elapsed > longest THEN Elapsed ELSE longest
  /\ UNCHANGED <<millis, oldTime, pulseCount, attached, totalMilliLitres, seen>>

OpenWindow ==
  /\ step = "measured"
  /\ step' = "open"
  /\ oldTime' = millis
  /\ totalMilliLitres' = totalMilliLitres + flow
  /\ pulseCount' = 0
  /\ attached' = TRUE
  /\ UNCHANGED <<millis, flow, history>>

Next ==
  \/ Tick
  \/ pulseCounter
  \/ CloseWindow
  \/ Measure
  \/ OpenWindow

Spec == Init /\ [][Next]_vars

---------------------------------------------------------------------------
\* What the windows measured so far are worth, the latest included
Credited == totalMilliLitres + (IF step = "measured" THEN flow ELSE 0)

(***************************************************************************)
(* The meter never reports more than flowed: a window is longer than the   *)
(* second it is credited as (line 110), also across a wrap of millis(),    *)
(* which the unsigned subtraction must survive.                            *)
(***************************************************************************)
NeverOvercounts == Credited * MlDen <= seen * MlNum

(***************************************************************************)
(* Every pulse the interrupt counted is used exactly once, unless its      *)
(* window overflowed the byte, which loses ByteMod pulses at a time: none  *)
(* is lost between the reading of pulseCount at line 116 and its reset at  *)
(* line 142.                                                               *)
(***************************************************************************)
PulsesUsedOnce ==
  step = "open" => (seen - used) % ByteMod = pulseCount

(***************************************************************************)
(* What the meter leaves out is bounded: a fraction of a millilitre for    *)
(* each window, and the ratio by which the longest window exceeded a       *)
(* second, because each is credited as one second (lines 116-122).         *)
(***************************************************************************)
LossBounded ==
  (Credited + windows) * MlDen * longest >= used * MlNum * Window
===========================================================================
