--------------------------- MODULE AcController ---------------------------
(***************************************************************************)
(* The air-conditioner control of thermostat/thermostat.ino: the fan and   *)
(* compressor outputs, switched by acController(), which loop() runs once  *)
(* every Period of millis() time.  Everything else loop() does is seen     *)
(* here only through what acController() reads: whether the averaged       *)
(* temperature is above the set point (demand), the fan mode and the two   *)
(* hold times, which the push button and radio `set` frames change between *)
(* two passes.                                                             *)
(*                                                                         *)
(* Time is the real up-time of the board; millis() is its low 32 bits.     *)
(* The hold times are `unsigned int` seconds, multiplied by 1000 in 16-bit *)
(* arithmetic.  Both widths are constants, so that TLC can check a scaled  *)
(* board that wraps within a few dozen ticks.                              *)
(***************************************************************************)
EXTENDS Integers

CONSTANTS
  MillisMod,   \* millis() counts modulo MillisMod         (2^32 on the board)
  UIntMod,     \* unsigned int arithmetic is modulo UIntMod        (2^16)
  Second,      \* ticks in a second                                (1000)
  Period,      \* ticks between two runs of acController()         (2000)
  CoolDelay,   \* seconds between fan and compressor in automatic mode (10)
  Welcome,     \* up-time when setup() reads millis()  (the 1000 ms screen)
  DefaultOn,   \* initial waitAfterOn, in seconds                   (720)
  DefaultOff,  \* initial waitAfterOff, in seconds                  (360)
  Waits,       \* hold times a `set` frame may carry: 0 .. 32767
  PassTimes,   \* durations of one pass of loop(), in ticks
  MaxUp        \* bound on the up-time explored

ASSUME WidthAssumption ==
  /\ MillisMod \in Nat \ {0}
  /\ UIntMod \in Nat \ {0}
  /\ UIntMod <= MillisMod

ASSUME TimingAssumption ==
  /\ Second \in Nat
  /\ Period \in Nat
  /\ CoolDelay \in Nat
  /\ Welcome \in Nat
  /\ Welcome < MillisMod
  /\ MaxUp \in Nat
  /\ PassTimes \subseteq Nat \ {0}

ASSUME WaitsAssumption ==
  /\ Waits \subseteq Nat
  /\ DefaultOn \in Waits
  /\ DefaultOff \in Waits

VARIABLES
  up,           \* up-time in ticks at the latest pass of loop()
  fan,          \* level of fanPin
  cool,         \* level of coolPin
  fanTime,      \* millis() when acController() last restarted its hold
  acTimer,      \* millis() when acController() last ran
  fanAuto,      \* automatic mode (the fan stops with the compressor)
  demand,       \* shouldBe(): average > desTemp
  waitAfterOn,  \* least seconds between a start and a stop
  waitAfterOff  \* least seconds between a stop and a start

outputs  == <<fan, cool, fanTime>>
settings == <<fanAuto, demand, waitAfterOn, waitAfterOff>>
vars     == <<up, fan, cool, fanTime, acTimer, fanAuto, demand,
              waitAfterOn, waitAfterOff>>

---------------------------------------------------------------------------
(***************************************************************************)
(* Definitions marked "slip" are wrong variants of the one that follows,   *)
(* used only to test that the properties notice them.                      *)
(***************************************************************************)
SlipUnwrapped(t) == t    \* slip: a timer wider than 32 bits

\* millis() at up-time t
Millis(t) == t % MillisMod

\* `howLong * 1000` with howLong an unsigned int
Hold(howLong) == (howLong * Second) % UIntMod

\* after(tim, howLong), evaluated at up-time t
After(tim, howLong, t) ==
  Millis(t) >= (tim + Hold(howLong)) % MillisMod

Due(t) == Millis(t) >= (acTimer + Period) % MillisMod

---------------------------------------------------------------------------
Init ==
  /\ up = Welcome
  /\ fan = FALSE
  /\ cool = FALSE
  /\ fanTime = Millis(Welcome)
  /\ acTimer = Millis(Welcome)
  /\ fanAuto = TRUE
  /\ demand \in BOOLEAN
  /\ waitAfterOn = DefaultOn
  /\ waitAfterOff = DefaultOff

Switch(f, c, tim) ==
  /\ fan' = f
  /\ cool' = c
  /\ fanTime' = tim

\* Automatic mode: fan first, compressor CoolDelay later, both off together
AutoCool(t)  == fan /\ demand /\ After(fanTime, CoolDelay, t)
SlipSwapped(t) == fan /\ ~demand /\ After(fanTime, waitAfterOff, t)  \* slip
AutoStop(t)  == fan /\ ~demand /\ After(fanTime, waitAfterOn, t)
AutoStart(t) == ~fan /\ demand /\ After(fanTime, waitAfterOff, t)

\* slip: the stop leaves coolPin as it is
SlipLeavesCool(t) ==
  \/ AutoCool(t) /\ Switch(fan, TRUE, fanTime)
  \/ AutoStop(t) /\ Switch(FALSE, cool, Millis(t))
  \/ AutoStart(t) /\ Switch(TRUE, cool, Millis(t))
  \/ ~(AutoCool(t) \/ AutoStop(t) \/ AutoStart(t)) /\ Switch(fan, cool, fanTime)

\* slip: the fan start does not restart fanTime
SlipNoLead(t) ==
  \/ AutoCool(t) /\ Switch(fan, TRUE, fanTime)
  \/ AutoStop(t) /\ Switch(FALSE, FALSE, Millis(t))
  \/ AutoStart(t) /\ Switch(TRUE, cool, fanTime)
  \/ ~(AutoCool(t) \/ AutoStop(t) \/ AutoStart(t)) /\ Switch(fan, cool, fanTime)

AutoRun(t) ==
  \/ AutoCool(t) /\ Switch(fan, TRUE, fanTime)
  \/ AutoStop(t) /\ Switch(FALSE, FALSE, Millis(t))
  \/ AutoStart(t) /\ Switch(TRUE, cool, Millis(t))
  \/ /\ ~(AutoCool(t) \/ AutoStop(t) \/ AutoStart(t))
     /\ Switch(fan, cool, fanTime)

\* Manual mode: the fan always runs, the compressor follows the demand
ManualStop(t)  == cool /\ ~demand /\ After(fanTime, waitAfterOn, t)
ManualStart(t) == ~cool /\ demand /\ After(fanTime, waitAfterOff, t)

\* slip: the stop does not restart fanTime
SlipNoRest(t) ==
  \/ ManualStop(t) /\ Switch(TRUE, FALSE, fanTime)
  \/ ManualStart(t) /\ Switch(TRUE, TRUE, Millis(t))
  \/ ~(ManualStop(t) \/ ManualStart(t)) /\ Switch(TRUE, cool, fanTime)

\* slip: fanTime restarts at every run, not only when the compressor switches
SlipRestarts(t) ==
  \/ ManualStop(t) /\ Switch(TRUE, FALSE, Millis(t))
  \/ ManualStart(t) /\ Switch(TRUE, TRUE, Millis(t))
  \/ ~(ManualStop(t) \/ ManualStart(t)) /\ Switch(TRUE, cool, Millis(t))

ManualRun(t) ==
  \/ ManualStop(t) /\ Switch(TRUE, FALSE, Millis(t))
  \/ ManualStart(t) /\ Switch(TRUE, TRUE, Millis(t))
  \/ ~(ManualStop(t) \/ ManualStart(t)) /\ Switch(TRUE, cool, fanTime)

acController(t) ==
  \/ fanAuto /\ AutoRun(t)
  \/ ~fanAuto /\ ManualRun(t)

\* One pass of loop(), d ticks after the previous one
LoopPass(d) ==
  /\ up + d <= MaxUp
  /\ up' = up + d
  /\ \/ /\ Due(up')
        /\ acController(up')
        /\ acTimer' = Millis(up')
     \/ ~Due(up') /\ UNCHANGED <<outputs, acTimer>>
  /\ UNCHANGED settings

---------------------------------------------------------------------------
\* The average or the set point moves across the other
DemandChange ==
  /\ demand' = ~demand
  /\ UNCHANGED <<up, outputs, acTimer, fanAuto, waitAfterOn, waitAfterOff>>

\* Button on settings line 3, or a radio `set` of automaticFan
SetFanAuto ==
  /\ fanAuto' = ~fanAuto
  /\ UNCHANGED <<up, outputs, acTimer, demand, waitAfterOn, waitAfterOff>>

\* Radio `set` of upTime
SetWaitOn(w) ==
  /\ waitAfterOn' = w
  /\ UNCHANGED <<up, outputs, acTimer, fanAuto, demand, waitAfterOff>>

\* Radio `set` of downTime
SetWaitOff(w) ==
  /\ waitAfterOff' = w
  /\ UNCHANGED <<up, outputs, acTimer, fanAuto, demand, waitAfterOn>>

Next ==
  \/ \E d \in PassTimes : LoopPass(d)
  \/ DemandChange
  \/ SetFanAuto
  \/ \E w \in Waits : SetWaitOn(w) \/ SetWaitOff(w)

Spec == Init /\ [][Next]_vars

---------------------------------------------------------------------------
(***************************************************************************)
(* Every timer holds a millis() value and every hold time is one a frame   *)
(* or the defaults supplied (globals at lines 15-16, 78-87).               *)
(***************************************************************************)
TypeOK ==
  /\ up \in Nat
  /\ fan \in BOOLEAN
  /\ cool \in BOOLEAN
  /\ fanTime \in 0 .. MillisMod - 1
  /\ acTimer \in 0 .. MillisMod - 1
  /\ fanAuto \in BOOLEAN
  /\ demand \in BOOLEAN
  /\ waitAfterOn \in Waits
  /\ waitAfterOff \in Waits

(***************************************************************************)
(* The compressor never runs without air over its coil, whatever sequence  *)
(* of mode changes, settings and timer wraps preceded: acController() must *)
(* keep coolPin low whenever it drops fanPin (lines 582-623).              *)
(***************************************************************************)
CoolNeedsFan == cool => fan
===========================================================================
