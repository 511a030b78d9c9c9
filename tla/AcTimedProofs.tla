-------------------------- MODULE AcTimedProofs ---------------------------
(***************************************************************************)
(* What holds of AcController for every width of millis() and of unsigned  *)
(* int, every hold time and every timing of the passes; and of AcTimed,    *)
(* the rest of the compressor, up to the first wrap of millis().           *)
(***************************************************************************)
EXTENDS AcTimed, TLAPS

(***************************************************************************)
(* A timer variable only ever stores what millis() can return.             *)
(***************************************************************************)
LEMMA MillisType ==
  ASSUME NEW t \in Nat
  PROVE  Millis(t) \in 0 .. MillisMod - 1
BY WidthAssumption DEF Millis

(***************************************************************************)
(* One run of acController() keeps its outputs well typed.                 *)
(***************************************************************************)
LEMMA ControllerType ==
  ASSUME TypeOK, NEW t \in Nat, acController(t)
  PROVE  /\ fan' \in BOOLEAN
         /\ cool' \in BOOLEAN
         /\ fanTime' \in 0 .. MillisMod - 1
<1>1. Millis(t) \in 0 .. MillisMod - 1
  BY MillisType
<1>2. CASE AutoRun(t)
  BY <1>1, <1>2 DEF AutoRun, Switch, TypeOK
<1>3. CASE ManualRun(t)
  BY <1>1, <1>3 DEF ManualRun, Switch, TypeOK
<1> QED
  BY <1>2, <1>3 DEF acController

(***************************************************************************)
(* setup() leaves every variable well typed.                               *)
(***************************************************************************)
LEMMA TypeInit ==
  ASSUME Init
  PROVE  TypeOK
<1>1. Millis(Welcome) \in 0 .. MillisMod - 1
  BY MillisType, TimingAssumption
<1> QED
  BY <1>1, TimingAssumption, WaitsAssumption DEF Init, TypeOK

(***************************************************************************)
(* Every pass and every change of a setting keeps them so.                 *)
(***************************************************************************)
LEMMA TypeStep ==
  ASSUME TypeOK, [Next]_vars
  PROVE  TypeOK'
<1>1. CASE \E d \in PassTimes : LoopPass(d)
  <2>1. PICK d \in PassTimes : LoopPass(d)
    BY <1>1
  <2>2. up' \in Nat
    BY <2>1, TimingAssumption DEF LoopPass, TypeOK
  <2>3. Millis(up') \in 0 .. MillisMod - 1
    BY <2>2, MillisType
  <2>4. CASE acController(up') /\ acTimer' = Millis(up')
    BY <2>1, <2>2, <2>3, <2>4, ControllerType DEF LoopPass, settings, TypeOK
  <2>5. CASE UNCHANGED <<outputs, acTimer>>
    BY <2>1, <2>2, <2>5 DEF LoopPass, outputs, settings, TypeOK
  <2> QED
    BY <2>1, <2>4, <2>5 DEF LoopPass
<1>2. CASE DemandChange
  BY <1>2 DEF DemandChange, outputs, TypeOK
<1>3. CASE SetFanAuto
  BY <1>3 DEF SetFanAuto, outputs, TypeOK
<1>4. CASE \E w \in Waits : SetWaitOn(w) \/ SetWaitOff(w)
  BY <1>4 DEF SetWaitOn, SetWaitOff, outputs, TypeOK
<1>5. CASE UNCHANGED vars
  BY <1>5 DEF vars, TypeOK
<1> QED
  BY <1>1, <1>2, <1>3, <1>4, <1>5 DEF Next

(***************************************************************************)
(* Type correctness of the controller of thermostat.ino: no timer leaves   *)
(* the range of millis() and no hold time is in force that nobody set.     *)
(***************************************************************************)
THEOREM TypeCorrect == Spec => []TypeOK
<1>1. Init => TypeOK
  BY TypeInit
<1>2. TypeOK /\ [Next]_vars => TypeOK'
  BY TypeStep
<1> QED
  BY <1>1, <1>2, PTL DEF Spec

(***************************************************************************)
(* One run of acController() never leaves the compressor on with the fan   *)
(* off (lines 582-623).                                                    *)
(***************************************************************************)
LEMMA ControllerAir ==
  ASSUME CoolNeedsFan, NEW t, acController(t)
  PROVE  CoolNeedsFan'
<1>1. CASE AutoRun(t)
  BY <1>1 DEF AutoRun, AutoCool, AutoStop, AutoStart, Switch, CoolNeedsFan
<1>2. CASE ManualRun(t)
  BY <1>2 DEF ManualRun, Switch, CoolNeedsFan
<1> QED
  BY <1>1, <1>2 DEF acController

(***************************************************************************)
(* The compressor never runs with the fan off, in either mode and across   *)
(* every change of mode and wrap of millis() (lines 582-623).              *)
(***************************************************************************)
THEOREM CompressorHasAir == Spec => []CoolNeedsFan
<1>1. Init => CoolNeedsFan
  BY DEF Init, CoolNeedsFan
<1>2. CoolNeedsFan /\ [Next]_vars => CoolNeedsFan'
  <2> SUFFICES ASSUME CoolNeedsFan, [Next]_vars PROVE CoolNeedsFan'
    OBVIOUS
  <2>1. CASE \E d \in PassTimes : LoopPass(d)
    <3>1. PICK d \in PassTimes : LoopPass(d)
      BY <2>1
    <3>2. CASE acController(up')
      BY <3>2, ControllerAir
    <3>3. CASE UNCHANGED outputs
      BY <3>3 DEF outputs, CoolNeedsFan
    <3> QED
      BY <3>1, <3>2, <3>3 DEF LoopPass
  <2>2. CASE UNCHANGED outputs
    BY <2>2 DEF outputs, CoolNeedsFan
  <2> QED
    BY <2>1, <2>2 DEF Next, DemandChange, SetFanAuto, SetWaitOn, SetWaitOff,
                      vars, outputs
<1> QED
  BY <1>1, <1>2, PTL DEF Spec

---------------------------------------------------------------------------
(***************************************************************************)
(* A hold time is an unsigned int.                                         *)
(***************************************************************************)
LEMMA HoldType ==
  ASSUME NEW w \in Nat
  PROVE  Hold(w) \in 0 .. UIntMod - 1
BY WidthAssumption, TimingAssumption DEF Hold

(***************************************************************************)
(* Before the wrap millis() is the up-time.                                *)
(***************************************************************************)
LEMMA MillisExact ==
  ASSUME NEW t \in Nat, BeforeWrap(t)
  PROVE  Millis(t) = t
BY WidthAssumption, TimingAssumption DEF Millis, BeforeWrap

(***************************************************************************)
(* Before the wrap after(tim, w) means what its name says: the 32-bit sum  *)
(* at line 575 does not overflow.                                          *)
(***************************************************************************)
LEMMA AfterExact ==
  ASSUME NEW t \in Nat, BeforeWrap(t),
         NEW tim \in Nat, tim <= t,
         NEW w \in Nat
  PROVE  After(tim, w, t) <=> t >= tim + Hold(w)
<1>1. Hold(w) \in 0 .. UIntMod - 1
  BY HoldType
<1>2. tim + Hold(w) \in Nat /\ tim + Hold(w) < MillisMod
  BY <1>1, WidthAssumption, TimingAssumption DEF BeforeWrap
<1>3. (tim + Hold(w)) % MillisMod = tim + Hold(w)
  BY <1>2, WidthAssumption
<1> QED
  BY <1>3, MillisExact DEF After

(***************************************************************************)
(* What is before the wrap stays before it at any earlier time.            *)
(***************************************************************************)
LEMMA WrapIsLater ==
  ASSUME NEW s \in Nat, NEW t \in Nat, s <= t, BeforeWrap(t)
  PROVE  BeforeWrap(s)
BY WidthAssumption, TimingAssumption DEF BeforeWrap

(***************************************************************************)
(* Time only moves forward, so what is before the wrap after a step was    *)
(* before it already.                                                      *)
(***************************************************************************)
LEMMA UpGrows ==
  ASSUME TypeOK, [Next]_vars
  PROVE  /\ up' \in Nat
         /\ up <= up'
         /\ BeforeWrap(up') => BeforeWrap(up)
<1>1. CASE \E d \in PassTimes : LoopPass(d)
  <2>1. PICK d \in PassTimes : LoopPass(d)
    BY <1>1
  <2>2. up' \in Nat /\ up <= up'
    BY <2>1, TimingAssumption DEF LoopPass, TypeOK
  <2>3. up \in Nat
    BY DEF TypeOK
  <2> QED
    BY <2>2, <2>3, WrapIsLater
<1>2. CASE UNCHANGED up
  BY <1>2 DEF TypeOK
<1> QED
  BY <1>1, <1>2 DEF Next, DemandChange, SetFanAuto, SetWaitOn, SetWaitOff, vars

(***************************************************************************)
(* What after() decides in a run of acController() at up-time t.           *)
(***************************************************************************)
LEMMA HoldsExact ==
  ASSUME TypeOK, NEW t \in Nat, up <= t, BeforeWrap(t), StopRestartsTimer
  PROVE  /\ BeforeWrap(up)
         /\ offAt <= fanTime
         /\ fanTime <= t
         /\ Millis(t) = t
         /\ Hold(waitAfterOff) \in Nat
         /\ After(fanTime, CoolDelay, t) => t >= fanTime + Hold(CoolDelay)
         /\ After(fanTime, waitAfterOff, t)
              => t >= fanTime + Hold(waitAfterOff)
<1>1. up \in Nat /\ fanTime \in Nat /\ waitAfterOff \in Nat
  BY WaitsAssumption DEF TypeOK
<1>2. BeforeWrap(up)
  BY <1>1, WrapIsLater
<1>3. offAt <= fanTime /\ fanTime <= up
  BY <1>2 DEF StopRestartsTimer
<1>4. fanTime <= t
  BY <1>1, <1>3
<1>5. Hold(waitAfterOff) \in Nat
  BY <1>1, HoldType
<1>6. After(fanTime, CoolDelay, t) => t >= fanTime + Hold(CoolDelay)
  BY <1>1, <1>4, AfterExact, TimingAssumption
<1>7. After(fanTime, waitAfterOff, t) => t >= fanTime + Hold(waitAfterOff)
  BY <1>1, <1>4, AfterExact
<1> QED
  BY <1>2, <1>3, <1>4, <1>5, <1>6, <1>7, MillisExact

(***************************************************************************)
(* A run of acController() keeps the two timing invariants.                *)
(***************************************************************************)
LEMMA ControllerRests ==
  ASSUME RestInv, NEW t \in Nat, up <= t, BeforeWrap(t),
         up' = t, acController(t), UNCHANGED settings, Record
  PROVE  /\ offAt' <= fanTime' /\ fanTime' <= t
         /\ calm' /\ fanAuto' /\ fan' /\ ~cool'
              => offAt' + Hold(waitAfterOff') <= fanTime'
<1>1. /\ BeforeWrap(up)
      /\ offAt <= fanTime
      /\ fanTime <= t
      /\ Millis(t) = t
      /\ Hold(waitAfterOff) \in Nat
      /\ After(fanTime, waitAfterOff, t)
           => t >= fanTime + Hold(waitAfterOff)
  BY HoldsExact DEF RestInv
<1>2. fanTime \in Nat /\ offAt \in Nat
  BY DEF RestInv, TypeOK
<1>3. fanAuto' = fanAuto /\ waitAfterOff' = waitAfterOff
      /\ waitAfterOn' = waitAfterOn
  BY DEF settings
<1>4. calm' => calm \/ (cool /\ ~cool')
  BY DEF Record
<1>5. offAt' = IF cool /\ ~cool' THEN t ELSE offAt
  BY DEF Record
<1>6. calm /\ fanAuto /\ fan /\ ~cool => offAt + Hold(waitAfterOff) <= fanTime
  BY <1>1 DEF RestInv, FanWaited
<1>7. CASE fanAuto /\ AutoRun(t)
  <2>1. CASE AutoCool(t) /\ Switch(fan, TRUE, fanTime)
    BY <1>1, <1>2, <1>5, <2>1 DEF Switch
  <2>2. CASE AutoStop(t) /\ Switch(FALSE, FALSE, Millis(t))
    BY <1>1, <1>2, <1>5, <2>2 DEF Switch
  <2>3. CASE AutoStart(t) /\ Switch(TRUE, cool, Millis(t))
    BY <1>1, <1>2, <1>3, <1>5, <2>3 DEF Switch, AutoStart
  <2>4. CASE Switch(fan, cool, fanTime)
    BY <1>1, <1>2, <1>3, <1>4, <1>5, <1>6, <2>4 DEF Switch
  <2> QED
    BY <1>7, <2>1, <2>2, <2>3, <2>4 DEF AutoRun
<1>8. CASE ~fanAuto /\ ManualRun(t)
  <2>1. CASE Switch(TRUE, FALSE, Millis(t))
    BY <1>1, <1>2, <1>3, <1>5, <1>8, <2>1 DEF Switch
  <2>2. CASE Switch(TRUE, TRUE, Millis(t))
    BY <1>1, <1>2, <1>3, <1>5, <1>8, <2>2 DEF Switch
  <2>3. CASE Switch(TRUE, cool, fanTime)
    BY <1>1, <1>2, <1>3, <1>5, <1>8, <2>3 DEF Switch
  <2> QED
    BY <1>8, <2>1, <2>2, <2>3 DEF ManualRun
<1> QED
  BY <1>7, <1>8 DEF acController

(***************************************************************************)
(* Changing a setting keeps them too: it breaks the calm FanWaited is      *)
(* conditioned on.                                                         *)
(***************************************************************************)
LEMMA OthersRest ==
  ASSUME RestInv, UNCHANGED <<up, outputs>>, Record
  PROVE  StopRestartsTimer' /\ FanWaited'
<1>1. /\ up' = up /\ fan' = fan /\ cool' = cool /\ fanTime' = fanTime
  BY DEF outputs
<1>2. offAt' = offAt
  BY <1>1 DEF Record
<1>3. calm' => calm /\ fanAuto' = fanAuto /\ waitAfterOff' = waitAfterOff
  BY <1>1 DEF Record
<1>4. StopRestartsTimer'
  BY <1>1, <1>2 DEF RestInv, StopRestartsTimer, BeforeWrap
<1>5. FanWaited'
  BY <1>1, <1>2, <1>3 DEF RestInv, FanWaited, BeforeWrap, Hold
<1> QED
  BY <1>4, <1>5

(***************************************************************************)
(* The two timing invariants hold of every reachable state.                *)
(***************************************************************************)
THEOREM RestInvariant == TSpec => []RestInv
<1>1. TInit => RestInv
  <2> SUFFICES ASSUME TInit PROVE RestInv
    OBVIOUS
  <2>1. TypeOK
    BY TypeInit DEF TInit
  <2>2. Welcome \in Nat /\ Millis(Welcome) = Welcome
    BY WidthAssumption, TimingAssumption DEF Millis
  <2> QED
    BY <2>1, <2>2 DEF TInit, Init, RestInv, StopRestartsTimer, FanWaited
<1>2. RestInv /\ [TNext]_tvars => RestInv'
  <2> SUFFICES ASSUME RestInv, [TNext]_tvars PROVE RestInv'
    OBVIOUS
  <2>1. CASE UNCHANGED tvars
    BY <2>1 DEF tvars, vars, history, RestInv, TypeOK, StopRestartsTimer,
                FanWaited, BeforeWrap, Hold
  <2>2. CASE Next /\ Record
    <3>1. TypeOK'
      BY <2>2, TypeStep DEF RestInv
    <3>2. up' \in Nat /\ up <= up' /\ (BeforeWrap(up') => BeforeWrap(up))
      BY <2>2, UpGrows DEF RestInv
    <3>3. offAt' \in Nat /\ calm' \in BOOLEAN
      BY <2>2, <3>2 DEF Record, RestInv
    <3>4. StopRestartsTimer' /\ FanWaited'
      <4>1. CASE UNCHANGED <<up, outputs>>
        BY <2>2, <4>1, OthersRest
      <4>2. CASE \E d \in PassTimes : LoopPass(d)
        <5>1. PICK d \in PassTimes : LoopPass(d)
          BY <4>2
        <5>2. UNCHANGED settings
          BY <5>1 DEF LoopPass
        <5>3. CASE acController(up') /\ BeforeWrap(up')
          BY <2>2, <3>2, <5>2, <5>3, ControllerRests
            DEF StopRestartsTimer, FanWaited
        <5>4. CASE UNCHANGED outputs
          <6>1. fan' = fan /\ cool' = cool /\ fanTime' = fanTime
            BY <5>4 DEF outputs
          <6>2. offAt' = offAt /\ calm' = calm
            BY <2>2, <5>2, <6>1 DEF Record, settings, RestInv
          <6>3. fanAuto' = fanAuto /\ waitAfterOff' = waitAfterOff
            BY <5>2 DEF settings
          <6>4. up \in Nat /\ fanTime \in Nat
            BY DEF RestInv, TypeOK
          <6>5. StopRestartsTimer'
            BY <3>2, <6>1, <6>2, <6>4 DEF RestInv, StopRestartsTimer
          <6>6. FanWaited'
            BY <3>2, <6>1, <6>2, <6>3 DEF RestInv, FanWaited, Hold
          <6> QED
            BY <6>5, <6>6
        <5>5. CASE ~BeforeWrap(up')
          BY <5>5 DEF StopRestartsTimer, FanWaited
        <5> QED
          BY <5>1, <5>3, <5>4, <5>5 DEF LoopPass, outputs
      <4> QED
        BY <2>2, <4>1, <4>2 DEF Next, DemandChange, SetFanAuto, SetWaitOn,
                                 SetWaitOff, outputs
    <3> QED
      BY <3>1, <3>3, <3>4 DEF RestInv
  <2> QED
    BY <2>1, <2>2 DEF TNext
<1> QED
  BY <1>1, <1>2, PTL DEF TSpec

(***************************************************************************)
(* What a start of the compressor has waited for.                          *)
(***************************************************************************)
LEMMA StartWaited ==
  ASSUME RestInv, [TNext]_tvars, ~cool, cool', BeforeWrap(up')
  PROVE  /\ offAt <= fanTime
         /\ waitAfterOff' = waitAfterOff
         /\ fanAuto' = fanAuto
         /\ calm' = calm
         /\ Hold(waitAfterOff) \in Nat
         /\ \/ fanAuto /\ fan /\ up' >= fanTime + Hold(CoolDelay)
            \/ ~fanAuto /\ up' >= fanTime + Hold(waitAfterOff)
<1>1. ~UNCHANGED cool
  OBVIOUS
<1>2. Next /\ Record
  BY <1>1 DEF TNext, tvars, vars
<1>3. PICK d \in PassTimes : LoopPass(d)
  BY <1>1, <1>2 DEF Next, DemandChange, SetFanAuto, SetWaitOn, SetWaitOff,
                    outputs
<1>4. acController(up') /\ UNCHANGED settings
  BY <1>1, <1>3 DEF LoopPass, outputs
<1>5. up' \in Nat /\ up <= up'
  BY <1>2, UpGrows DEF RestInv
<1>6. /\ offAt <= fanTime
      /\ Hold(waitAfterOff) \in Nat
      /\ After(fanTime, CoolDelay, up') => up' >= fanTime + Hold(CoolDelay)
      /\ After(fanTime, waitAfterOff, up')
           => up' >= fanTime + Hold(waitAfterOff)
  BY <1>5, HoldsExact DEF RestInv
<1>7. \/ fanAuto /\ AutoCool(up')
      \/ ~fanAuto /\ ManualStart(up')
  BY <1>1, <1>4 DEF acController, AutoRun, ManualRun, Switch
<1>8. waitAfterOff' = waitAfterOff /\ fanAuto' = fanAuto /\ calm' = calm
  BY <1>2, <1>4 DEF settings, Record, RestInv
<1> QED
  BY <1>6, <1>7, <1>8 DEF AutoCool, ManualStart

(***************************************************************************)
(* The compressor never restarts within the shorter of the fan lead and    *)
(* the hold in force, whatever happens to the settings while it rests.     *)
(***************************************************************************)
THEOREM RestIsKept == TSpec => CompressorRests
<1>1. ASSUME RestInv, [TNext]_tvars, ~cool, cool', BeforeWrap(up')
      PROVE  up' - offAt >= Lesser(Hold(CoolDelay), Hold(waitAfterOff))
  <2>1. Hold(CoolDelay) \in Nat
    BY HoldType, TimingAssumption
  <2>2. offAt \in Nat /\ fanTime \in Nat /\ up' \in Nat
    BY <1>1, TypeStep, UpGrows DEF RestInv, TypeOK, TNext, tvars
  <2>3. /\ offAt <= fanTime
        /\ Hold(waitAfterOff) \in Nat
        /\ \/ up' >= fanTime + Hold(CoolDelay)
           \/ up' >= fanTime + Hold(waitAfterOff)
    BY <1>1, StartWaited
  <2> QED
    BY <2>1, <2>2, <2>3 DEF Lesser
<1>2. RestInv /\ [TNext]_tvars =>
        [(~cool /\ cool' /\ BeforeWrap(up')) =>
           up' - offAt >= Lesser(Hold(CoolDelay), Hold(waitAfterOff))]_tvars
  BY <1>1
<1> QED
  BY <1>2, RestInvariant, PTL DEF TSpec, CompressorRests

(***************************************************************************)
(* Left alone, the compressor rests for the whole hold, and in automatic   *)
(* mode for the fan lead on top of it.                                     *)
(***************************************************************************)
THEOREM RestIsFull == TSpec => FullRest
<1>1. ASSUME RestInv, [TNext]_tvars, ~cool, cool', calm, BeforeWrap(up')
      PROVE  up' - offAt >= Hold(waitAfterOff)
                              + (IF fanAuto THEN Hold(CoolDelay) ELSE 0)
  <2>1. Hold(CoolDelay) \in Nat
    BY HoldType, TimingAssumption
  <2>2. [Next]_vars
    BY <1>1 DEF TNext, tvars
  <2>3. /\ offAt \in Nat /\ fanTime \in Nat /\ up' \in Nat
        /\ BeforeWrap(up)
    BY <1>1, <2>2, UpGrows DEF RestInv, TypeOK
  <2>4. fanAuto /\ fan => offAt + Hold(waitAfterOff) <= fanTime
    BY <1>1, <2>3 DEF RestInv, FanWaited
  <2>5. /\ offAt <= fanTime
        /\ Hold(waitAfterOff) \in Nat
        /\ \/ fanAuto /\ fan /\ up' >= fanTime + Hold(CoolDelay)
           \/ ~fanAuto /\ up' >= fanTime + Hold(waitAfterOff)
    BY <1>1, StartWaited
  <2> QED
    BY <2>1, <2>3, <2>4, <2>5
<1>2. RestInv /\ [TNext]_tvars =>
        [(~cool /\ cool' /\ calm /\ BeforeWrap(up')) =>
           up' - offAt >= Hold(waitAfterOff)
                            + (IF fanAuto THEN Hold(CoolDelay) ELSE 0)]_tvars
  BY <1>1
<1> QED
  BY <1>2, RestInvariant, PTL DEF TSpec, FullRest

---------------------------------------------------------------------------
(***************************************************************************)
(* The longest pass is one, and no pass is longer.                         *)
(***************************************************************************)
LEMMA PollBounds ==
  /\ LongestPass \in Nat \ {0}
  /\ \A d \in PassTimes : d <= LongestPass
  /\ Poll \in Nat
<1>1. LongestPass \in PassTimes /\ \A e \in PassTimes : e <= LongestPass
  BY PassesAssumption DEF LongestPass
<1> QED
  BY <1>1, TimingAssumption DEF Poll

(***************************************************************************)
(* Before the wrap, acController() is due Period after its latest run.     *)
(***************************************************************************)
LEMMA DueExact ==
  ASSUME NEW t \in Nat, BeforeWrap(t), acTimer \in Nat, acTimer <= t
  PROVE  Due(t) <=> t >= acTimer + Period
<1>1. acTimer + Period \in Nat /\ acTimer + Period < MillisMod
  BY WidthAssumption, TimingAssumption DEF BeforeWrap
<1>2. (acTimer + Period) % MillisMod = acTimer + Period
  BY <1>1, WidthAssumption
<1> QED
  BY <1>2, MillisExact DEF Due

(***************************************************************************)
(* The sorts of the values the timing arithmetic below is about.           *)
(***************************************************************************)
LEMMA RunTypes ==
  ASSUME RestInv, ServeInv
  PROVE  /\ fanTime \in Nat /\ acTimer \in Nat /\ up \in Nat /\ since \in Nat
         /\ fan \in BOOLEAN /\ cool \in BOOLEAN /\ fanAuto \in BOOLEAN
         /\ demand \in BOOLEAN
         /\ Hold(waitAfterOff) \in Nat /\ Hold(waitAfterOn) \in Nat
         /\ Hold(CoolDelay) \in Nat
<1>1. waitAfterOff \in Nat /\ waitAfterOn \in Nat /\ CoolDelay \in Nat
  BY WaitsAssumption, TimingAssumption DEF RestInv, TypeOK
<1> QED
  BY <1>1, HoldType, WidthAssumption DEF RestInv, TypeOK, ServeInv

(***************************************************************************)
(* A run of acController() at up-time t: it starts or stops what is due    *)
(* when the hold is over, and otherwise the hold was still running at t.   *)
(***************************************************************************)
LEMMA RunServes ==
  ASSUME RestInv, ServeInv, NEW t \in Nat, up <= t, t <= acTimer + Poll,
         BeforeWrap(t), up' = t, acTimer' = Millis(t), since' = since,
         acController(t), UNCHANGED settings
  PROVE  Polled' /\ StartPending' /\ StopPending'
<1>1. /\ fanTime \in Nat /\ acTimer \in Nat /\ up \in Nat /\ since \in Nat
      /\ fan \in BOOLEAN /\ cool \in BOOLEAN /\ fanAuto \in BOOLEAN
      /\ demand \in BOOLEAN
      /\ Hold(waitAfterOff) \in Nat /\ Hold(waitAfterOn) \in Nat
      /\ Hold(CoolDelay) \in Nat
      /\ Poll \in Nat /\ Period \in Nat
  BY RunTypes, PollBounds, TimingAssumption
<1>2. /\ BeforeWrap(up)
      /\ since <= up /\ fanTime <= acTimer /\ acTimer <= up
      /\ StartPending /\ StopPending
  BY <1>1, WrapIsLater DEF ServeInv, Polled
<1>3. Millis(t) = t
  BY MillisExact
<1>4. /\ After(fanTime, waitAfterOff, t) <=> t >= fanTime + Hold(waitAfterOff)
      /\ After(fanTime, waitAfterOn, t) <=> t >= fanTime + Hold(waitAfterOn)
      /\ After(fanTime, CoolDelay, t) <=> t >= fanTime + Hold(CoolDelay)
  <2>1. waitAfterOff \in Nat /\ waitAfterOn \in Nat /\ CoolDelay \in Nat
    BY WaitsAssumption, TimingAssumption DEF RestInv, TypeOK
  <2> QED
    BY <1>1, <1>2, <2>1, AfterExact
<1>5. /\ fanAuto' = fanAuto /\ demand' = demand
      /\ waitAfterOn' = waitAfterOn /\ waitAfterOff' = waitAfterOff
  BY DEF settings
<1>6. /\ Hold(waitAfterOff)' = Hold(waitAfterOff)
      /\ Hold(waitAfterOn)' = Hold(waitAfterOn)
      /\ Hold(CoolDelay)' = Hold(CoolDelay)
      /\ Poll' = Poll
  BY <1>5 DEF Hold, Poll, LongestPass
<1>7. cool => fan
  BY DEF ServeInv, CoolNeedsFan
<1>8. Polled' <=> fanTime' <= t
  BY <1>1, <1>2, <1>3 DEF Polled
<1>9. \A w : Pending(w)' <=> (t <= since \/ t <= fanTime' + Hold(w)')
  BY <1>3 DEF Pending
<1>10. CASE fanAuto /\ AutoRun(t)
  <2>1. CASE AutoCool(t) /\ Switch(fan, TRUE, fanTime)
    BY <1>1, <1>2, <1>5, <1>8, <2>1
      DEF AutoCool, Switch, StartPending, StopPending
  <2>2. CASE AutoStop(t) /\ Switch(FALSE, FALSE, Millis(t))
    BY <1>1, <1>3, <1>5, <1>8, <2>2
      DEF AutoStop, Switch, StartPending, StopPending
  <2>3. CASE AutoStart(t) /\ Switch(TRUE, cool, Millis(t))
    <3>1. fanTime <= since /\ Pending(waitAfterOff) /\ ~cool
      BY <1>1, <1>2, <1>7, <2>3 DEF AutoStart, StartPending
    <3>2. t <= since + Hold(waitAfterOff) + Poll
      BY <1>1, <3>1 DEF Pending
    <3>3. Pending(CoolDelay)'
      BY <1>1, <1>3, <1>6, <1>9, <2>3 DEF Switch
    <3> QED
      BY <1>1, <1>3, <1>5, <1>6, <1>8, <1>10, <2>3, <3>1, <3>2, <3>3
        DEF AutoStart, Switch, StartPending, StopPending
  <2>4. CASE /\ ~(AutoCool(t) \/ AutoStop(t) \/ AutoStart(t))
             /\ Switch(fan, cool, fanTime)
    <3>1. fan' = fan /\ cool' = cool /\ fanTime' = fanTime
      BY <2>4 DEF Switch
    <3>2. demand /\ ~cool /\ fan => Pending(CoolDelay)'
      BY <1>1, <1>4, <1>6, <1>9, <2>4, <3>1 DEF AutoCool
    <3>3. demand /\ ~fan => Pending(waitAfterOff)'
      BY <1>1, <1>4, <1>6, <1>9, <2>4, <3>1 DEF AutoStart
    <3>4. ~demand /\ fan => Pending(waitAfterOn)'
      BY <1>1, <1>4, <1>6, <1>9, <2>4, <3>1 DEF AutoStop
    <3>5. StartPending'
      BY <1>1, <1>2, <1>5, <1>6, <1>10, <3>1, <3>2, <3>3 DEF StartPending
    <3>6. StopPending'
      BY <1>1, <1>2, <1>5, <1>6, <1>7, <1>10, <3>1, <3>4 DEF StopPending
    <3> QED
      BY <1>1, <1>2, <1>8, <3>1, <3>5, <3>6
  <2> QED
    BY <1>10, <2>1, <2>2, <2>3, <2>4 DEF AutoRun
<1>11. CASE ~fanAuto /\ ManualRun(t)
  <2>1. CASE ManualStop(t) /\ Switch(TRUE, FALSE, Millis(t))
    BY <1>1, <1>3, <1>5, <1>8, <1>11, <2>1
      DEF ManualStop, Switch, StartPending, StopPending
  <2>2. CASE ManualStart(t) /\ Switch(TRUE, TRUE, Millis(t))
    BY <1>1, <1>3, <1>5, <1>8, <2>2
      DEF ManualStart, Switch, StartPending, StopPending
  <2>3. CASE /\ ~(ManualStop(t) \/ ManualStart(t))
             /\ Switch(TRUE, cool, fanTime)
    <3>1. fan' = TRUE /\ cool' = cool /\ fanTime' = fanTime
      BY <2>3 DEF Switch
    <3>2. demand /\ ~cool => Pending(waitAfterOff)'
      BY <1>1, <1>4, <1>6, <1>9, <2>3, <3>1 DEF ManualStart
    <3>3. ~demand /\ cool => Pending(waitAfterOn)'
      BY <1>1, <1>4, <1>6, <1>9, <2>3, <3>1 DEF ManualStop
    <3>4. StartPending'
      BY <1>1, <1>2, <1>5, <1>6, <1>11, <3>1, <3>2 DEF StartPending
    <3>5. StopPending'
      BY <1>1, <1>2, <1>5, <1>6, <1>11, <3>1, <3>3 DEF StopPending
    <3> QED
      BY <1>1, <1>2, <1>8, <3>1, <3>4, <3>5
  <2> QED
    BY <1>11, <2>1, <2>2, <2>3 DEF ManualRun
<1> QED
  BY <1>10, <1>11 DEF acController

(***************************************************************************)
(* A pass of loop() keeps the invariant: a run of acController() serves,   *)
(* and a pass without one ends before the next run is due.                 *)
(***************************************************************************)
LEMMA PassServes ==
  ASSUME RestInv, ServeInv, NEW d \in PassTimes, LoopPass(d), Record,
         BeforeWrap(up')
  PROVE  Polled' /\ StartPending' /\ StopPending'
<1>1. /\ fanTime \in Nat /\ acTimer \in Nat /\ up \in Nat /\ since \in Nat
      /\ d \in Nat /\ d <= LongestPass /\ LongestPass \in Nat /\ Period \in Nat
  BY RunTypes, PollBounds, TimingAssumption
<1>2. up' = up + d /\ up' \in Nat /\ up <= up' /\ UNCHANGED settings
  BY <1>1 DEF LoopPass
<1>3. since' = since
  BY <1>2 DEF Record
<1>4. Polled /\ StartPending /\ StopPending
  BY <1>1, <1>2, WrapIsLater DEF ServeInv
<1>5. /\ since <= up' /\ fanTime <= acTimer /\ acTimer <= up'
      /\ up' <= acTimer + Poll
  BY <1>1, <1>2, <1>4 DEF Polled, Poll
<1>6. CASE acController(up') /\ acTimer' = Millis(up')
  BY <1>2, <1>3, <1>5, <1>6, RunServes
<1>7. CASE ~Due(up') /\ UNCHANGED <<outputs, acTimer>>
  <2>1. up' < acTimer + Period
    BY <1>1, <1>2, <1>5, <1>7, DueExact
  <2>2. /\ fan' = fan /\ cool' = cool /\ fanTime' = fanTime
        /\ acTimer' = acTimer /\ fanAuto' = fanAuto /\ demand' = demand
        /\ waitAfterOn' = waitAfterOn /\ waitAfterOff' = waitAfterOff
    BY <1>2, <1>7 DEF outputs, settings
  <2>3. Polled'
    BY <1>1, <1>2, <1>3, <1>5, <2>1, <2>2 DEF Polled
  <2>4. StartPending' /\ StopPending'
    BY <1>3, <1>4, <2>2
      DEF StartPending, StopPending, Pending, Hold, Poll, LongestPass
  <2> QED
    BY <2>3, <2>4
<1> QED
  BY <1>6, <1>7 DEF LoopPass

(***************************************************************************)
(* A change of demand, mode or hold times restarts the waiting: every run  *)
(* so far came before it.                                                  *)
(***************************************************************************)
LEMMA ChangeServes ==
  ASSUME RestInv, ServeInv, UNCHANGED <<up, outputs, acTimer>>, Record,
         [Next]_vars, BeforeWrap(up')
  PROVE  Polled' /\ StartPending' /\ StopPending'
<1>1. /\ fanTime \in Nat /\ acTimer \in Nat /\ up \in Nat /\ since \in Nat
      /\ Period \in Nat
  BY RunTypes, TimingAssumption
<1>2. /\ up' = up /\ fan' = fan /\ cool' = cool /\ fanTime' = fanTime
      /\ acTimer' = acTimer
  BY DEF outputs
<1>3. Polled /\ StartPending /\ StopPending
  BY <1>2 DEF ServeInv, BeforeWrap
<1>4. CASE settings' = settings
  <2>1. /\ since' = since /\ fanAuto' = fanAuto /\ demand' = demand
        /\ waitAfterOn' = waitAfterOn /\ waitAfterOff' = waitAfterOff
    BY <1>4 DEF Record, settings
  <2> QED
    BY <1>2, <1>3, <2>1
      DEF Polled, StartPending, StopPending, Pending, Hold, Poll, LongestPass
<1>5. CASE settings' # settings
  <2>1. since' = up
    BY <1>2, <1>5 DEF Record
  <2>2. Polled'
    BY <1>1, <1>2, <1>3, <2>1 DEF Polled
  <2>3. \A w : Pending(w)'
    BY <1>2, <1>3, <2>1 DEF Polled, Pending
  <2>4. fanTime' <= since'
    BY <1>1, <1>2, <1>3, <2>1 DEF Polled
  <2>5. Hold(waitAfterOff)' \in Nat /\ Poll' \in Nat
    <3>1. waitAfterOff' \in Nat
      BY TypeStep, WaitsAssumption DEF RestInv, TypeOK
    <3> QED
      BY <3>1, HoldType, PollBounds DEF Hold, Poll, LongestPass
  <2>6. fanTime' <= (since + Hold(waitAfterOff) + Poll)'
    BY <1>1, <1>2, <2>1, <2>4, <2>5
  <2> QED
    BY <2>2, <2>3, <2>4, <2>6 DEF StartPending, StopPending
<1> QED
  BY <1>4, <1>5

(***************************************************************************)
(* The serving invariant holds of every reachable state.                   *)
(***************************************************************************)
THEOREM ServeInvariant == TSpec => []ServeInv
<1>1. TInit => ServeInv
  <2> SUFFICES ASSUME TInit PROVE ServeInv
    OBVIOUS
  <2>1. Welcome \in Nat /\ Millis(Welcome) = Welcome
    BY WidthAssumption, TimingAssumption DEF Millis
  <2>2. Polled
    BY <2>1, TimingAssumption DEF TInit, Init, Polled
  <2>3. CoolNeedsFan /\ StopPending
    BY DEF TInit, Init, CoolNeedsFan, StopPending
  <2>4. StartPending
    BY <2>1 DEF TInit, Init, StartPending, Pending
  <2> QED
    BY <2>1, <2>2, <2>3, <2>4 DEF TInit, ServeInv
<1>2. RestInv /\ ServeInv /\ [TNext]_tvars => ServeInv'
  <2> SUFFICES ASSUME RestInv, ServeInv, [TNext]_tvars PROVE ServeInv'
    OBVIOUS
  <2>1. CASE UNCHANGED tvars
    BY <2>1 DEF tvars, vars, history, ServeInv, CoolNeedsFan, BeforeWrap,
                Polled, StartPending, StopPending, Pending, Hold, Poll,
                LongestPass
  <2>2. CASE Next /\ Record
    <3>1. since' \in Nat
      BY <2>2, UpGrows DEF Record, RestInv, ServeInv
    <3>2. CASE \E d \in PassTimes : LoopPass(d)
      <4>1. PICK d \in PassTimes : LoopPass(d)
        BY <3>2
      <4>2. CoolNeedsFan'
        <5>1. CASE acController(up')
          BY <5>1, ControllerAir DEF ServeInv
        <5>2. CASE UNCHANGED outputs
          BY <5>2 DEF outputs, ServeInv, CoolNeedsFan
        <5> QED
          BY <4>1, <5>1, <5>2 DEF LoopPass, outputs
      <4> QED
        BY <2>2, <3>1, <4>1, <4>2, PassServes DEF ServeInv
    <3>3. CASE UNCHANGED <<up, outputs, acTimer>>
      <4>1. CoolNeedsFan'
        BY <3>3 DEF outputs, ServeInv, CoolNeedsFan
      <4> QED
        BY <2>2, <3>1, <3>3, <4>1, ChangeServes DEF ServeInv
    <3> QED
      BY <2>2, <3>2, <3>3 DEF Next, DemandChange, SetFanAuto, SetWaitOn,
                               SetWaitOff
  <2> QED
    BY <2>1, <2>2 DEF TNext
<1> QED
  BY <1>1, <1>2, RestInvariant, PTL DEF TSpec

(***************************************************************************)
(* A demand that lasts is served in bounded time, for every hold time,     *)
(* period and duration of the passes.                                      *)
(***************************************************************************)
THEOREM DemandIsServed == TSpec => []ServedInTime
<1>1. RestInv /\ ServeInv => ServedInTime
  <2> SUFFICES ASSUME RestInv, ServeInv, demand, BeforeWrap(up), ~cool,
                      up - since >= Hold(waitAfterOff) + Hold(CoolDelay)
                                      + 2 * Poll
               PROVE  FALSE
    BY DEF ServedInTime
  <2>1. /\ fanTime \in Nat /\ acTimer \in Nat /\ up \in Nat /\ since \in Nat
        /\ Hold(waitAfterOff) \in Nat /\ Hold(CoolDelay) \in Nat
        /\ LongestPass \in Nat \ {0} /\ Period \in Nat
    BY RunTypes, PollBounds, TimingAssumption
  <2>2. up <= acTimer + Period /\ StartPending
    BY DEF ServeInv, Polled
  <2>3. CASE fanTime <= since /\ Pending(waitAfterOff)
    BY <2>1, <2>2, <2>3 DEF Pending, Poll
  <2>4. CASE /\ fanTime <= since + Hold(waitAfterOff) + Poll
             /\ Pending(CoolDelay)
    BY <2>1, <2>2, <2>4 DEF Pending, Poll
  <2> QED
    BY <2>2, <2>3, <2>4 DEF StartPending
<1> QED
  BY <1>1, RestInvariant, ServeInvariant, PTL

(***************************************************************************)
(* When the demand ends the outputs follow within the hold and one polling *)
(* interval, for every hold time, period and duration of the passes.       *)
(***************************************************************************)
THEOREM StopIsServed == TSpec => []StoppedInTime
<1>1. RestInv /\ ServeInv => StoppedInTime
  <2> SUFFICES ASSUME RestInv, ServeInv, ~demand, BeforeWrap(up),
                      cool \/ (fanAuto /\ fan),
                      up - since >= Hold(waitAfterOn) + Poll
               PROVE  FALSE
    BY DEF StoppedInTime
  <2>1. /\ fanTime \in Nat /\ acTimer \in Nat /\ up \in Nat /\ since \in Nat
        /\ Hold(waitAfterOn) \in Nat
        /\ LongestPass \in Nat \ {0} /\ Period \in Nat
    BY RunTypes, PollBounds, TimingAssumption
  <2>2. /\ up <= acTimer + Period
        /\ fanTime <= since /\ Pending(waitAfterOn)
    BY DEF ServeInv, Polled, StopPending
  <2> QED
    BY <2>1, <2>2 DEF Pending, Poll
<1> QED
  BY <1>1, RestInvariant, ServeInvariant, PTL
===========================================================================
