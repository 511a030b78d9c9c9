------------------------- MODULE FlowMeterProofs --------------------------
(***************************************************************************)
(* The meter of flowRate.ino never reports more than flowed, for every     *)
(* width of the clock and of the counter, every calibration and every      *)
(* timing of loop().                                                       *)
(***************************************************************************)
EXTENDS FlowMeter, TLAPS

(***************************************************************************)
(* Reduction of a sum of two clock values.                                 *)
(***************************************************************************)
LEMMA ModTwice ==
  ASSUME NEW a \in Nat, a < 2 * MillisMod
  PROVE  a % MillisMod = IF a < MillisMod THEN a ELSE a - MillisMod
<1>1. CASE a < MillisMod
  BY <1>1, MeterAssumption
<1>2. CASE a >= MillisMod
  <2>1. a - MillisMod \in Nat /\ a - MillisMod < MillisMod
    BY <1>2, MeterAssumption
  <2>2. a = (a - MillisMod) + MillisMod * 1
    BY MeterAssumption
  <2> QED
    BY <1>2, <2>1, <2>2, MeterAssumption
<1> QED
  BY <1>1, <1>2, MeterAssumption

(***************************************************************************)
(* A window longer than a second is credited with no more than its pulses  *)
(* are worth (lines 116-122).                                              *)
(***************************************************************************)
LEMMA MilliLitresBound ==
  ASSUME NEW p \in Nat, NEW t \in Nat, t > Window
  PROVE  /\ MilliLitres(p, t) \in Nat
         /\ MilliLitres(p, t) * MlDen <= p * MlNum
<1> DEFINE volume == p * MlNum
           q == MilliLitres(p, t)
<1>1. volume \in Nat /\ MlDen * t \in Nat /\ MlDen * t > 0
  BY MeterAssumption
<1>2. volume * Window \in Nat
  BY <1>1, MeterAssumption
<1>3. q = (volume * Window) \div (MlDen * t)
  BY DEF MilliLitres
<1>4. q \in Nat /\ q * (MlDen * t) <= volume * Window
  BY <1>1, <1>2, <1>3
<1>5. volume * Window <= volume * t
  BY <1>1, MeterAssumption
<1>6. (q * MlDen) * t <= volume * t
  BY <1>1, <1>2, <1>4, <1>5, MeterAssumption
<1>7. q * MlDen <= volume
  BY <1>1, <1>4, <1>6, MeterAssumption
<1> QED
  BY <1>4, <1>7

(***************************************************************************)
(* Two volumes within their pulses' worth are so together.                 *)
(***************************************************************************)
LEMMA WorthAdds ==
  ASSUME NEW v \in Nat, NEW w \in Nat, NEW p \in Nat, NEW q \in Nat,
         v * MlDen <= p * MlNum, w * MlDen <= q * MlNum
  PROVE  (v + w) * MlDen <= (p + q) * MlNum
<1>1. (v + w) * MlDen = v * MlDen + w * MlDen
  BY MeterAssumption
<1>2. (p + q) * MlNum = p * MlNum + q * MlNum
  BY MeterAssumption
<1>3. /\ v * MlDen \in Nat /\ w * MlDen \in Nat
      /\ p * MlNum \in Nat /\ q * MlNum \in Nat
  BY MeterAssumption
<1> QED
  BY <1>1, <1>2, <1>3

(***************************************************************************)
(* The inductive invariant: a window that is closed has lasted more than a *)
(* second and does not get shorter, and the total is worth no more than    *)
(* the pulses that were used.                                              *)
(***************************************************************************)
MeterType ==
  /\ millis \in 0 .. MillisMod - 1
  /\ oldTime \in 0 .. MillisMod - 1
  /\ pulseCount \in Nat
  /\ step \in {"open", "closed", "measured"}
  /\ flow \in Nat
  /\ totalMilliLitres \in Nat
  /\ seen \in Nat
  /\ used \in Nat

Pending == IF step = "measured" THEN 0 ELSE pulseCount

MeterInv ==
  /\ MeterType
  /\ step = "closed" => Elapsed > Window
  /\ used + Pending <= seen
  /\ Credited * MlDen <= used * MlNum

(***************************************************************************)
(* The clock keeps its type and a window under way only gets longer.       *)
(***************************************************************************)
LEMMA TickGrows ==
  ASSUME MeterType, NEW d \in Gaps, Elapsed + d < MillisMod,
         millis' = (millis + d) % MillisMod, oldTime' = oldTime
  PROVE  /\ millis' \in 0 .. MillisMod - 1
         /\ Elapsed \in Nat
         /\ Elapsed' = Elapsed + d
<1> DEFINE a == millis + MillisMod - oldTime
           b == millis + d
           e == millis' + MillisMod - oldTime
<1>1. /\ d \in Nat /\ d > 0 /\ MillisMod \in Nat /\ MillisMod > 0
      /\ millis \in Nat /\ millis < MillisMod
      /\ oldTime \in Nat /\ oldTime < MillisMod
  BY MeterAssumption DEF MeterType
<1>2. a \in Nat /\ a < 2 * MillisMod
  BY <1>1
<1>3. Elapsed = IF a < MillisMod THEN a ELSE a - MillisMod
  BY <1>2, ModTwice DEF Elapsed
<1>4. Elapsed \in Nat /\ d < MillisMod
  BY <1>1, <1>2, <1>3
<1>5. b \in Nat /\ b < 2 * MillisMod
  BY <1>1, <1>4
<1>6. millis' = IF b < MillisMod THEN b ELSE b - MillisMod
  BY <1>5, ModTwice
<1>7. millis' \in Nat /\ millis' < MillisMod
  BY <1>1, <1>5, <1>6
<1>8. e \in Nat /\ e < 2 * MillisMod
  BY <1>1, <1>7
<1>9. Elapsed' = IF e < MillisMod THEN e ELSE e - MillisMod
  BY <1>8, ModTwice DEF Elapsed
<1>10. Elapsed' = Elapsed + d
  BY <1>1, <1>3, <1>6, <1>9
<1> QED
  BY <1>1, <1>4, <1>7, <1>10

(***************************************************************************)
(* Every step keeps the invariant.                                         *)
(***************************************************************************)
LEMMA MeterStep ==
  ASSUME MeterInv, [Next]_vars
  PROVE  MeterInv'
<1> USE DEF MeterInv
<1>1. CASE Tick
  <2>1. PICK d \in Gaps : Elapsed + d < MillisMod
                          /\ millis' = (millis + d) % MillisMod
    BY <1>1 DEF Tick
  <2>2. /\ millis' \in 0 .. MillisMod - 1
        /\ Elapsed \in Nat
        /\ Elapsed' = Elapsed + d
    BY <1>1, <2>1, TickGrows DEF Tick
  <2>3. MeterType'
    BY <1>1, <2>2 DEF Tick, MeterType, history
  <2>4. step' = "closed" => Elapsed' > Window
    BY <1>1, <2>2, MeterAssumption DEF Tick
  <2>5. used' + Pending' <= seen' /\ Credited' * MlDen <= used' * MlNum
    BY <1>1 DEF Tick, Pending, Credited, history
  <2> QED
    BY <2>3, <2>4, <2>5
<1>2. CASE pulseCounter
  <2>1. pulseCount' \in Nat /\ pulseCount' <= pulseCount + 1
    BY <1>2, MeterAssumption DEF pulseCounter, MeterType
  <2>2. MeterType'
    BY <1>2, <2>1 DEF pulseCounter, MeterType
  <2>3. used' + Pending' <= seen'
    BY <1>2, <2>1 DEF pulseCounter, Pending, MeterType
  <2> QED
    BY <1>2, <2>2, <2>3 DEF pulseCounter, Credited, Elapsed
<1>3. CASE CloseWindow
  BY <1>3 DEF CloseWindow, MeterType, Pending, Credited, Elapsed, WindowOver,
              history
<1>4. CASE Measure
  <2>1. Elapsed \in Nat
    BY MeterAssumption DEF Elapsed, MeterType
  <2>2. flow' \in Nat /\ flow' * MlDen <= pulseCount * MlNum
    BY <1>4, <2>1, MilliLitresBound DEF Measure, MeterType
  <2>3. MeterType'
    BY <1>4, <2>2 DEF Measure, MeterType
  <2>4. used' + Pending' <= seen'
    BY <1>4 DEF Measure, Pending, MeterType
  <2>5. totalMilliLitres * MlDen <= used * MlNum
    BY <1>4 DEF Measure, Credited, MeterType
  <2>6. Credited' = totalMilliLitres + flow' /\ used' = used + pulseCount
    BY <1>4 DEF Measure, Credited
  <2>7. Credited' * MlDen <= used' * MlNum
    <3>1. totalMilliLitres \in Nat /\ used \in Nat /\ pulseCount \in Nat
      BY DEF MeterType
    <3> QED
      BY <2>2, <2>5, <2>6, <3>1, WorthAdds
  <2> QED
    BY <1>4, <2>3, <2>4, <2>7 DEF Measure
<1>5. CASE OpenWindow
  <2>1. MeterType'
    BY <1>5 DEF OpenWindow, MeterType, history
  <2>2. used' + Pending' <= seen'
    BY <1>5 DEF OpenWindow, Pending, MeterType, history
  <2>3. Credited' * MlDen <= used' * MlNum
    BY <1>5 DEF OpenWindow, Credited, MeterType, history
  <2> QED
    BY <1>5, <2>1, <2>2, <2>3 DEF OpenWindow
<1>6. CASE UNCHANGED vars
  BY <1>6 DEF vars, code, history, MeterType, Pending, Credited, Elapsed
<1> QED
  BY <1>1, <1>2, <1>3, <1>4, <1>5, <1>6 DEF Next

(***************************************************************************)
(* The meter never reports more than flowed, whenever loop() comes round   *)
(* and however often millis() wraps.                                       *)
(***************************************************************************)
THEOREM NoOvercount == Spec => []NeverOvercounts
<1>1. Init => MeterInv
  BY MeterAssumption DEF Init, MeterInv, MeterType, Pending, Credited
<1>2. MeterInv /\ [Next]_vars => MeterInv'
  BY MeterStep
<1>3. MeterInv => NeverOvercounts
  <2> SUFFICES ASSUME MeterInv PROVE NeverOvercounts
    OBVIOUS
  <2>1. used <= seen
    BY DEF MeterInv, MeterType, Pending
  <2>2. used * MlNum <= seen * MlNum
    BY <2>1, MeterAssumption DEF MeterInv, MeterType
  <2> QED
    BY <2>2, MeterAssumption
       DEF MeterInv, MeterType, Credited, NeverOvercounts
<1> QED
  BY <1>1, <1>2, <1>3, PTL DEF Spec

(***************************************************************************)
(* PulsesUsedOnce.  The byte agrees with the pulses not used yet up to     *)
(* whole overflows, because no pulse is counted between the reading of the *)
(* byte and its reset.                                                     *)
(***************************************************************************)
ByteInv ==
  /\ pulseCount < ByteMod
  /\ attached => step = "open"
  /\ \E k \in Nat : seen = used + Pending + k * ByteMod

LEMMA ByteRemains ==
  ASSUME NEW p \in Nat, p < ByteMod, NEW k \in Nat
  PROVE  (p + k * ByteMod) % ByteMod = p
<1>1. k * ByteMod \in Nat /\ ByteMod \in Nat /\ ByteMod > 0
  BY MeterAssumption
<1> QED
  BY <1>1, MeterAssumption

LEMMA ByteStep ==
  ASSUME MeterType, ByteInv, [Next]_vars
  PROVE  ByteInv'
<1>1. PICK k \in Nat : seen = used + Pending + k * ByteMod
  BY DEF ByteInv
<1>2. k * ByteMod \in Nat /\ (k + 1) * ByteMod = k * ByteMod + ByteMod
  BY MeterAssumption
<1>3. /\ pulseCount \in Nat /\ used \in Nat /\ seen \in Nat
      /\ pulseCount < ByteMod /\ ByteMod \in Nat
  BY MeterAssumption DEF MeterType, ByteInv
<1>4. CASE Tick \/ CloseWindow \/ UNCHANGED vars
  <2>1. seen' = used' + Pending' + k * ByteMod
    BY <1>1, <1>3, <1>4 DEF Tick, CloseWindow, vars, code, history, Pending
  <2>2. pulseCount' < ByteMod /\ (attached' => step' = "open")
    BY <1>3, <1>4 DEF Tick, CloseWindow, vars, code, history, ByteInv
  <2> QED
    BY <2>1, <2>2 DEF ByteInv
<1>5. CASE pulseCounter
  <2>1. /\ step = "open" /\ step' = step
        /\ pulseCount' = (pulseCount + 1) % ByteMod
        /\ seen' = seen + 1 /\ used' = used /\ attached' = attached
    BY <1>5 DEF pulseCounter, ByteInv
  <2>2. CASE pulseCount + 1 < ByteMod
    <3>1. pulseCount' = pulseCount + 1
      BY <1>3, <2>1, <2>2, MeterAssumption
    <3>2. seen' = used' + Pending' + k * ByteMod
      BY <1>1, <1>2, <1>3, <2>1, <3>1 DEF Pending
    <3> QED
      BY <2>1, <2>2, <3>1, <3>2 DEF ByteInv
  <2>3. CASE pulseCount + 1 = ByteMod
    <3>1. pulseCount' = 0
      BY <1>3, <2>1, <2>3, MeterAssumption
    <3>2. seen' = used' + Pending' + (k + 1) * ByteMod
      BY <1>1, <1>2, <1>3, <2>1, <2>3, <3>1 DEF Pending
    <3>3. k + 1 \in Nat /\ 0 < ByteMod
      BY MeterAssumption
    <3> QED
      BY <2>1, <3>1, <3>2, <3>3 DEF ByteInv
  <2> QED
    BY <1>3, <2>2, <2>3
<1>6. CASE Measure
  <2>1. seen' = used' + Pending' + k * ByteMod
    BY <1>1, <1>2, <1>3, <1>6 DEF Measure, Pending
  <2>2. pulseCount' < ByteMod /\ ~ attached'
    BY <1>3, <1>6 DEF Measure, ByteInv
  <2> QED
    BY <2>1, <2>2 DEF ByteInv
<1>7. CASE OpenWindow
  <2>1. seen' = used' + Pending' + k * ByteMod
    BY <1>1, <1>2, <1>3, <1>7 DEF OpenWindow, Pending, history
  <2>2. pulseCount' < ByteMod /\ step' = "open"
    BY <1>7, MeterAssumption DEF OpenWindow
  <2> QED
    BY <2>1, <2>2 DEF ByteInv
<1> QED
  BY <1>4, <1>5, <1>6, <1>7 DEF Next

(***************************************************************************)
(* Every counted pulse is used once, whatever the byte's width and however *)
(* long the windows are.                                                   *)
(***************************************************************************)
THEOREM EveryPulseOnce == Spec => []PulsesUsedOnce
<1>1. Init => MeterInv /\ ByteInv
  <2>1. Init => MeterInv
    BY MeterAssumption DEF Init, MeterInv, MeterType, Pending, Credited
  <2>2. Init => 0 = 0 + 0 + 0 * ByteMod /\ 0 < ByteMod
    BY MeterAssumption
  <2> QED
    BY <2>1, <2>2 DEF Init, ByteInv, Pending
<1>2. MeterInv /\ ByteInv /\ [Next]_vars => MeterInv' /\ ByteInv'
  BY MeterStep, ByteStep DEF MeterInv
<1>3. MeterInv /\ ByteInv => PulsesUsedOnce
  <2> SUFFICES ASSUME MeterType, ByteInv, step = "open"
               PROVE  (seen - used) % ByteMod = pulseCount
    BY DEF MeterInv, PulsesUsedOnce
  <2>1. PICK k \in Nat : seen = used + pulseCount + k * ByteMod
    BY DEF ByteInv, Pending
  <2>2. k * ByteMod \in Nat /\ used \in Nat /\ pulseCount \in Nat
    BY MeterAssumption DEF MeterType
  <2>3. seen - used = pulseCount + k * ByteMod
    BY <2>1, <2>2
  <2> QED
    BY <2>2, <2>3, ByteRemains DEF ByteInv
<1> QED
  BY <1>1, <1>2, <1>3, PTL DEF Spec

(***************************************************************************)
(* LossBounded.  A window's volume is cut by less than a millilitre and by *)
(* the ratio of a second to its length.                                    *)
(***************************************************************************)
Worth(pulses) == pulses * MlNum * Window

LEMMA WindowLoss ==
  ASSUME NEW p \in Nat, NEW t \in Nat, t > 0,
         NEW l \in Nat, t <= l
  PROVE  /\ MilliLitres(p, t) \in Nat
         /\ (MilliLitres(p, t) + (IF p > 0 THEN 1 ELSE 0)) * MlDen * l >= Worth(p)
<1> DEFINE q == MilliLitres(p, t)
           v == p * MlNum * Window
           b == MlDen * t
<1>1. v \in Nat /\ b \in Nat /\ b > 0
  BY MeterAssumption
<1>2. q = v \div b
  BY DEF MilliLitres
<1>3. q \in Nat /\ v < (q + 1) * b
  BY <1>1, <1>2
<1>4. CASE p > 0
  <2>1. (q + 1) * MlDen \in Nat
    BY <1>3, MeterAssumption
  <2>2. (q + 1) * MlDen * t <= (q + 1) * MlDen * l
    BY <2>1
  <2>3. (q + 1) * b = (q + 1) * MlDen * t
    BY <1>3, MeterAssumption
  <2>4. (q + 1) * MlDen * l \in Nat /\ (q + 1) * MlDen * t \in Nat
    BY <2>1
  <2>5. v <= (q + 1) * MlDen * l
    BY <1>1, <1>3, <2>2, <2>3, <2>4
  <2> QED
    BY <1>3, <1>4, <2>5 DEF Worth
<1>5. CASE p = 0
  <2>1. Worth(p) = 0
    BY <1>5, MeterAssumption DEF Worth
  <2>2. q * MlDen * l \in Nat
    BY <1>3, MeterAssumption
  <2> QED
    BY <1>3, <1>5, <2>1, <2>2
<1> QED
  BY <1>4, <1>5

\* What was credited for the windows so far, each rounded up
Rounded == Credited + windows

LossInv ==
  /\ windows \in Nat
  /\ longest \in Nat
  /\ Rounded * MlDen * longest >= Worth(used)

\* A longer window only adds to the bound.
LEMMA LossAdds ==
  ASSUME NEW c \in Nat, NEW d \in Nat, NEW l \in Nat, NEW m \in Nat, l <= m,
         NEW u \in Nat, NEW p \in Nat,
         c * MlDen * l >= Worth(u), d * MlDen * m >= Worth(p)
  PROVE  (c + d) * MlDen * m >= Worth(u + p)
<1>1. c * MlDen \in Nat /\ d * MlDen \in Nat
  BY MeterAssumption
<1>2. (c * MlDen) * l <= (c * MlDen) * m
  BY <1>1
<1>3. (c + d) * MlDen = c * MlDen + d * MlDen
  BY MeterAssumption
<1>4. (c * MlDen + d * MlDen) * m = (c * MlDen) * m + (d * MlDen) * m
  BY <1>1
<1>5. (u + p) * MlNum = u * MlNum + p * MlNum
  BY MeterAssumption
<1>6. u * MlNum \in Nat /\ p * MlNum \in Nat
  BY MeterAssumption
<1>7. Worth(u + p) = Worth(u) + Worth(p)
  <2>1. (u * MlNum + p * MlNum) * Window = (u * MlNum) * Window + (p * MlNum) * Window
    BY <1>6, MeterAssumption
  <2> QED
    BY <1>5, <2>1 DEF Worth
<1>8. /\ (c * MlDen) * l \in Nat /\ (c * MlDen) * m \in Nat /\ (d * MlDen) * m \in Nat
      /\ Worth(u) \in Nat /\ Worth(p) \in Nat
  BY <1>1, <1>6, MeterAssumption DEF Worth
<1> QED
  BY <1>2, <1>3, <1>4, <1>7, <1>8

LEMMA LossStep ==
  ASSUME MeterInv, LossInv, [Next]_vars
  PROVE  LossInv'
<1>1. /\ flow \in Nat /\ totalMilliLitres \in Nat /\ used \in Nat /\ pulseCount \in Nat
      /\ windows \in Nat /\ longest \in Nat
  BY DEF MeterInv, MeterType, LossInv
<1>2. CASE Tick \/ pulseCounter \/ CloseWindow \/ UNCHANGED vars
  <2>1. UNCHANGED <<windows, longest, used>> /\ Credited' = Credited
    BY <1>2 DEF Tick, pulseCounter, CloseWindow, vars, code, history, Credited
  <2> QED
    BY <2>1 DEF LossInv, Rounded, Worth
<1>3. CASE Measure
  <2> DEFINE one == IF pulseCount > 0 THEN 1 ELSE 0
  <2>1. /\ step = "closed" /\ step' = "measured"
        /\ flow' = MilliLitres(pulseCount, Elapsed)
        /\ used' = used + pulseCount
        /\ windows' = windows + one
        /\ longest' = IF Elapsed > longest THEN Elapsed ELSE longest
        /\ totalMilliLitres' = totalMilliLitres
    BY <1>3 DEF Measure
  <2>2. Elapsed \in Nat /\ Elapsed > 0
    <3>1. Elapsed \in Nat
      BY MeterAssumption DEF Elapsed, MeterInv, MeterType
    <3> QED
      BY <2>1, <3>1, MeterAssumption DEF MeterInv
  <2>3. longest' \in Nat /\ Elapsed <= longest' /\ longest <= longest'
    BY <1>1, <2>1, <2>2
  <2>4. flow' \in Nat /\ (flow' + one) * MlDen * longest' >= Worth(pulseCount)
    BY <1>1, <2>1, <2>2, <2>3, WindowLoss
  <2>5. Rounded' = Rounded + (flow' + one) /\ Rounded \in Nat /\ one \in Nat /\ windows' \in Nat
    BY <1>1, <2>1, <2>4 DEF Rounded, Credited
  <2>6. Rounded * MlDen * longest >= Worth(used)
    BY DEF LossInv
  <2> HIDE DEF one
  <2>7. \A i, j \in Nat : i + j \in Nat
    OBVIOUS
  <2>8. (Rounded + (flow' + one)) * MlDen * longest' >= Worth(used + pulseCount)
    <3>1. flow' + one \in Nat
      BY <2>4, <2>5, <2>7, Zenon
    <3> QED
      BY <1>1, <2>3, <2>4, <2>5, <2>6, <3>1, LossAdds
  <2> QED
    BY <2>1, <2>3, <2>5, <2>8 DEF LossInv, Worth
<1>4. CASE OpenWindow
  <2>1. UNCHANGED <<windows, longest, used>> /\ Credited' = Credited
    BY <1>1, <1>4 DEF OpenWindow, history, Credited
  <2> QED
    BY <2>1 DEF LossInv, Rounded, Worth
<1> QED
  BY <1>2, <1>3, <1>4 DEF Next

(***************************************************************************)
(* What the meter leaves out is bounded, for every calibration and every   *)
(* timing of loop().                                                       *)
(***************************************************************************)
THEOREM LossIsBounded == Spec => []LossBounded
<1>1. Init => MeterInv /\ LossInv
  <2>1. Init => MeterInv
    BY MeterAssumption DEF Init, MeterInv, MeterType, Pending, Credited
  <2>2. Init => Rounded = 0 /\ Worth(used) = 0 /\ windows = 0 /\ longest = Window
    BY MeterAssumption DEF Init, Rounded, Credited, Worth
  <2>3. 0 * MlDen * Window = 0
    BY MeterAssumption
  <2> QED
    BY <2>1, <2>2, <2>3, MeterAssumption DEF LossInv
<1>2. MeterInv /\ LossInv /\ [Next]_vars => MeterInv' /\ LossInv'
  BY MeterStep, LossStep
<1>3. LossInv => LossBounded
  BY DEF LossInv, LossBounded, Rounded, Worth
<1> QED
  BY <1>1, <1>2, <1>3, PTL DEF Spec
===========================================================================
