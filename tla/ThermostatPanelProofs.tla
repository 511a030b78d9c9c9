----------------------- MODULE ThermostatPanelProofs ----------------------
(***************************************************************************)
(* Invariants of the thermostat's panel for every timing, every range of   *)
(* levels and every set of frames and readings.  One lemma per handler     *)
(* says what it returns and what it leaves alone; the step of a pass puts  *)
(* them together in the order of loop().                                   *)
(***************************************************************************)
EXTENDS ThermostatPanel, TLAPS

\* A reading converted or not is an integer (conversor(), readTemp()).
LEMMA ReadTempInt ==
  ASSUME NEW t \in Degrees, NEW unit
  PROVE  readTemp(t, unit) \in Int
<1>1. t \in Int
  BY PanelValues
<1>2. Fahrenheit(t) \in Int
  BY <1>1 DEF Fahrenheit
<1>. QED
  BY <1>1, <1>2 DEF readTemp

\* The frame of an input has one of the three shapes the sketch tells apart.
LEMMA FrameShape ==
  ASSUME NEW in \in Inputs
  PROVE  \/ in.frame = NoFrame
         \/ in.frame.kind = "point" /\ in.frame.value \in Int
         \/ in.frame.kind = "unit" /\ in.frame.value \in {"C", "F"}
<1>1. in.frame \in Frames
  BY DEF Inputs
<1>. QED
  BY <1>1, PanelValues DEF NoFrame

\* What print() makes of a value fills the columns it is given.
LEMMA TextFacts ==
  ASSUME NEW v \in Int
  PROVE  /\ v >= 100 => Text[v] \in Int \X Int \X Int
         /\ Text[v][1] \in Int
         /\ Len(Text[v]) > 1 => Text[v][2] \in Int
<1>. DEFINE n == IF v < 0 THEN -v ELSE v
            digits == CASE n < 10 -> <<n>>
                        [] 10 <= n /\ n < 100 -> <<n \div 10, n % 10>>
                        [] OTHER -> <<n \div 100, (n \div 10) % 10, n % 10>>
<1>1. Text[v] = IF v < 0 THEN <<Minus>> \o digits ELSE digits
  BY DEF Text
<1>2. /\ n \in Nat /\ n \div 10 \in Int /\ n % 10 \in Int
      /\ n \div 100 \in Int /\ (n \div 10) % 10 \in Int
  OBVIOUS
<1>3. v >= 100 => n >= 100 /\ ~(v < 0)
  OBVIOUS
<1>. HIDE DEF n
<1>4. /\ digits \in Seq(Int) /\ Len(digits) \in 1 .. 3
      /\ n >= 100 => digits \in Int \X Int \X Int
  <2>1. CASE n < 10
    BY <1>2, <2>1
  <2>2. CASE 10 <= n /\ n < 100
    BY <1>2, <2>2
  <2>3. CASE n >= 100
    BY <1>2, <2>3
  <2>. QED
    BY <1>2, <2>1, <2>2, <2>3
<1>. HIDE DEF digits
<1>5. CASE v < 0
  <2>1. Minus \in Int
    BY DEF Minus
  <2>2. /\ (<<Minus>> \o digits)[1] = Minus
        /\ (<<Minus>> \o digits)[2] = digits[1]
    BY <1>4, <2>1
  <2>3. digits[1] \in Int
    BY <1>4
  <2>. QED
    BY <1>1, <1>5, <2>1, <2>2, <2>3
<1>6. CASE ~(v < 0)
  BY <1>1, <1>3, <1>4, <1>6
<1>. QED
  BY <1>5, <1>6

\* Printing a value once more changes nothing.
LEMMA PrintFacts ==
  ASSUME NEW f \in Int \X Int \X Int, NEW v \in Int
  PROVE  /\ PrintAt(f, v) \in Int \X Int \X Int
         /\ PrintAt(PrintAt(f, v), v) = PrintAt(f, v)
<1>1. CASE v >= 100
  BY <1>1, TextFacts DEF PrintAt
<1>2. CASE ~(v >= 100)
  <2>. DEFINE third(g) == IF Len(Text[v]) > 1 THEN Text[v][2] ELSE g[3]
  <2>1. \A g : PrintAt(g, v) = <<g[1], Text[v][1], third(g)>>
    BY <1>2 DEF PrintAt
  <2>2. f[1] \in Int /\ Text[v][1] \in Int /\ third(f) \in Int
    BY TextFacts
  <2>3. third(<<f[1], Text[v][1], third(f)>>) = third(f)
    OBVIOUS
  <2>. HIDE DEF third
  <2>. QED
    BY <2>1, <2>2, <2>3
<1>. QED
  BY <1>1, <1>2

LEMMA BlanksType == Blanks \in Int \X Int \X Int
BY DEF Blanks

\* A set point just printed is printed.
LEMMA PrintedFacts ==
  ASSUME NEW p \in PanelType, NEW f \in Int \X Int \X Int,
         p.shown = PrintAt(f, p.desTemp)
  PROVE  Printed(p)
<1>1. p.desTemp \in Int
  BY DEF PanelType
<1>. QED
  BY <1>1, PrintFacts DEF Printed

\* setTemp() changes the set point and the average only.
LEMMA SetTempFacts ==
  ASSUME NEW p \in PanelType, NEW in \in Inputs
  PROVE  LET q == setTemp(p, in)
         IN /\ q \in PanelType
            /\ \A f \in {"scr", "sPos", "back", "lower", "upper", "idle",
                         "backCheck", "temp", "shown", "last"} : q[f] = p[f]
<1>1. p.degrees \in Degrees /\ in.average \in Degrees
  BY DEF PanelType, Inputs
<1>2. /\ readTemp(p.degrees, p.unit) \in Int
      /\ readTemp(in.average, p.unit) \in Int
  BY <1>1, ReadTempInt
<1>. QED
  BY <1>2 DEF setTemp, PanelType

\* A frame changes neither the screen nor the levels nor the timer, and the
\* set point only if it is one of the two kinds that carry it.
LEMMA ReceiveFacts ==
  ASSUME NEW p \in PanelType, NEW in \in Inputs
  PROVE  LET q == Receive(p, in)
         IN /\ q \in PanelType
            /\ \A f \in {"scr", "sPos", "back", "lower", "upper", "idle",
                         "backCheck", "last"} : q[f] = p[f]
            /\ \/ q.desTemp = p.desTemp
               \/ in.frame.kind \in {"point", "unit"}
<1>1. CASE in.frame = NoFrame
  BY <1>1 DEF Receive, NoFrame
<1>2. CASE in.frame.kind = "point" /\ in.frame.value \in Int
  <2>. DEFINE r == IF p.temp - Span <= in.frame.value /\ in.frame.value <= p.temp + Span
                   THEN [p EXCEPT !.desTemp = in.frame.value] ELSE p
  <2>1. /\ r \in PanelType
        /\ r.shown = p.shown
        /\ \A f \in {"scr", "sPos", "back", "lower", "upper", "idle",
                     "backCheck", "last"} : r[f] = p[f]
    BY <1>2 DEF PanelType
  <2>2. Receive(p, in) = [r EXCEPT !.shown = PrintAt(r.shown, r.desTemp)]
    BY <1>2 DEF Receive
  <2>. HIDE DEF r
  <2>3. r.shown \in Int \X Int \X Int /\ r.desTemp \in Int
    BY <2>1 DEF PanelType
  <2>4. PrintAt(r.shown, r.desTemp) \in Int \X Int \X Int
    BY <2>3, PrintFacts
  <2>. QED
    BY <1>2, <2>1, <2>2, <2>4 DEF PanelType
<1>3. CASE in.frame.kind = "unit" /\ in.frame.value \in {"C", "F"}
  <2>. DEFINE r == [p EXCEPT !.unit = in.frame.value]
  <2>1. /\ r \in PanelType
        /\ \A f \in {"scr", "sPos", "back", "lower", "upper", "idle",
                     "backCheck", "last"} : r[f] = p[f]
    BY <1>3 DEF PanelType
  <2>2. Receive(p, in) = setTemp(r, in)
    BY <1>3 DEF Receive
  <2>. HIDE DEF r
  <2>. QED
    BY <1>3, <2>1, <2>2, SetTempFacts
<1>. QED
  BY <1>1, <1>2, <1>3, FrameShape

\* lcdWrite() changes what is shown and nothing else.
LEMMA LcdWriteFacts ==
  ASSUME NEW p \in PanelType
  PROVE  LET q == lcdWrite(p)
         IN /\ q \in PanelType
            /\ \A f \in {"scr", "sPos", "back", "lower", "upper", "idle",
                         "backCheck", "desTemp", "last"} : q[f] = p[f]
            /\ q.scr = "Menu" => Printed(q)
<1>. DEFINE s == IF p.scr = "Menu" THEN PrintAt(Blanks, p.desTemp) ELSE Blanks
<1>1. s \in Int \X Int \X Int
  BY BlanksType, PrintFacts DEF PanelType
<1>2. lcdWrite(p) = [p EXCEPT !.shown = s]
  BY DEF lcdWrite
<1>3. /\ lcdWrite(p) \in PanelType
      /\ lcdWrite(p).shown = s
      /\ \A f \in {"scr", "sPos", "back", "lower", "upper", "idle",
                   "backCheck", "desTemp", "last"} : lcdWrite(p)[f] = p[f]
  <2>. HIDE DEF s
  <2>. QED
    BY <1>1, <1>2 DEF PanelType
<1>4. p.scr = "Menu" => lcdWrite(p).shown = PrintAt(Blanks, lcdWrite(p).desTemp)
  BY <1>3
<1>. QED
  BY <1>3, <1>4, BlanksType, PrintedFacts

\* backControl() dims a panel left alone and brings it to the main screen;
\* otherwise it moves the level towards upperBack.
LEMMA BackControlFacts ==
  ASSUME NEW p \in PanelType
  PROVE  LET q == backControl(p)
         IN /\ q \in PanelType
            /\ \A f \in {"lower", "upper", "idle", "desTemp", "last"} :
                 q[f] = p[f]
            /\ ~Idle(p) => q.backCheck = TRUE
            /\ Idle(p) => /\ q.backCheck = FALSE
                          /\ q.scr = "Menu"
                          /\ \/ q.back = p.back /\ p.back <= p.lower
                             \/ q.back = p.back - 1
<1>. USE PanelLevels
<1>1. CASE Idle(p)
  <2>. DEFINE b == IF p.back > p.lower THEN p.back - 1 ELSE p.back
              r == [p EXCEPT !.back = b, !.scr = "Menu", !.backCheck = FALSE]
  <2>0. b \in 0 .. Top
    BY DEF PanelType
  <2>1. /\ r \in PanelType
        /\ r.scr = "Menu" /\ r.backCheck = FALSE
        /\ \A f \in {"lower", "upper", "idle", "desTemp", "last"} : r[f] = p[f]
        /\ r.back = b
    BY <2>0 DEF PanelType, Screens
  <2>3. \/ b = p.back /\ p.back <= p.lower
        \/ b = p.back - 1
    BY DEF PanelType
  <2>2. backControl(p) = lcdWrite(r) \/ backControl(p) = r
    BY <1>1 DEF backControl
  <2>. HIDE DEF r
  <2>4. /\ lcdWrite(r) \in PanelType
        /\ \A f \in {"scr", "back", "lower", "upper", "idle", "backCheck",
                     "desTemp", "last"} : lcdWrite(r)[f] = r[f]
    BY <2>1, LcdWriteFacts
  <2>. HIDE DEF b
  <2>. QED
    BY <1>1, <2>1, <2>2, <2>3, <2>4
<1>2. CASE ~Idle(p)
  <2>. DEFINE b == CASE p.back < p.upper -> p.back + 1
                     [] p.back > p.upper -> p.back - 1
                     [] OTHER -> p.back
  <2>1. b \in 0 .. Top
    BY DEF PanelType
  <2>2. backControl(p) = [p EXCEPT !.back = b, !.backCheck = TRUE]
    BY <1>2 DEF backControl
  <2>. HIDE DEF b
  <2>. QED
    BY <1>2, <2>1, <2>2 DEF PanelType
<1>. QED
  BY <1>1, <1>2

\* Sampling changes the readings only.
LEMMA SampleFacts ==
  ASSUME NEW p \in PanelType, NEW in \in Inputs
  PROVE  LET q == Sample(p, in)
         IN /\ q \in PanelType
            /\ \A f \in {"scr", "back", "lower", "upper", "idle",
                         "backCheck", "desTemp", "last"} : q[f] = p[f]
<1>1. in.sensor \in Degrees /\ in.average \in Degrees
  BY DEF Inputs
<1>2. /\ readTemp(in.sensor, p.unit) \in Int
      /\ readTemp(in.average, p.unit) \in Int
  BY <1>1, ReadTempInt
<1>. QED
  BY <1>1, <1>2 DEF Sample, PanelType

\* What a press chooses keeps the types.
LEMMA ChooseType ==
  ASSUME NEW p \in PanelType, NEW in \in Inputs
  PROVE  Choose(p, in) \in PanelType /\ Choose(p, in).last = p.last
<1>1. CASE p.scr = "Settings" /\ p.sPos = 1
  <2>. DEFINE r == [p EXCEPT !.unit = IF @ = "F" THEN "C" ELSE "F"]
  <2>1. r \in PanelType /\ r.last = p.last
    BY DEF PanelType
  <2>2. Choose(p, in) = setTemp(r, in)
    BY <1>1 DEF Choose
  <2>. HIDE DEF r
  <2>. QED
    BY <2>1, <2>2, SetTempFacts
<1>2. CASE ~(p.scr = "Settings" /\ p.sPos = 1)
  <2>1. p.scr \in Screens /\ p.sPos \in 1 .. 8
    BY DEF PanelType
  <2>2. CASE p.scr = "Menu"
    <3>. DEFINE r == [p EXCEPT !.scr = "Settings"]
    <3>1. Choose(p, in) = [r EXCEPT !.sPos = 1]
      BY <2>2 DEF Choose
    <3>2. r \in PanelType /\ r.last = p.last
      BY DEF PanelType, Screens
    <3>. HIDE DEF r
    <3>. QED
      BY <3>1, <3>2 DEF PanelType
  <2>3. CASE p.scr = "Settings"
    <3>1. CASE p.sPos \in {2, 3, 4, 7}
      <4>1. Choose(p, in) = p
        <5>1. CASE p.sPos = 2
          BY <2>3, <5>1 DEF Choose
        <5>2. CASE p.sPos = 3
          BY <2>3, <5>2 DEF Choose
        <5>3. CASE p.sPos = 4
          BY <2>3, <5>3 DEF Choose
        <5>4. CASE p.sPos = 7
          BY <2>3, <5>4 DEF Choose
        <5>. QED
          BY <3>1, <5>1, <5>2, <5>3, <5>4
      <4>. QED
        BY <4>1
    <3>2. CASE p.sPos = 5
      BY <2>3, <3>2 DEF Choose, PanelType, Screens
    <3>3. CASE p.sPos = 6
      BY <2>3, <3>3 DEF Choose, PanelType, Screens
    <3>4. CASE p.sPos = 8
      BY <2>3, <3>4 DEF Choose, PanelType, Screens
    <3>5. p.sPos \in {2, 3, 4, 7} \/ p.sPos = 5 \/ p.sPos = 6 \/ p.sPos = 8
      BY <1>2, <2>1, <2>3
    <3>. QED
      BY <3>1, <3>2, <3>3, <3>4, <3>5
  <2>4. CASE p.scr \in {"lowerB", "upperB"}
    BY <2>4 DEF Choose, PanelType, Screens
  <2>. QED
    BY <2>1, <2>2, <2>3, <2>4 DEF Screens
<1>. QED
  BY <1>1, <1>2

\* A press keeps the types and wakes the panel; without one nothing changes.
LEMMA ButtonFacts ==
  ASSUME NEW p \in PanelType, NEW in \in Inputs, IdleMod \in Nat \ {0}
  PROVE  LET q == updateButton(p, in)
         IN /\ q \in PanelType
            /\ q.last = p.last
            /\ in.press => q.idle = 0
            /\ ~in.press => q = p
<1>1. Choose(p, in) \in PanelType /\ Choose(p, in).last = p.last
  BY ChooseType
<1>. DEFINE q == IF p.back = p.upper THEN Choose(p, in) ELSE p
            r == [q EXCEPT !.idle = 0]
<1>2. r \in PanelType /\ r.idle = 0 /\ r.last = p.last
  <2>1. q \in PanelType /\ q.last = p.last
    BY <1>1
  <2>. HIDE DEF q
  <2>. QED
    BY <2>1 DEF PanelType
<1>3. updateButton(p, in) = IF in.press THEN lcdWrite(r) ELSE p
  BY DEF updateButton
<1>. HIDE DEF r
<1>. QED
  BY <1>2, <1>3, LcdWriteFacts

\* up() and down() stay within the limits they are called with, from a
\* value on the far side of the limit too.
LEMMA UpDownFacts ==
  ASSUME NEW v \in Nat, NEW limit \in Nat, NEW fast \in BOOLEAN
  PROVE  /\ up(v, limit, fast) \in Nat
         /\ v <= limit => up(v, limit, fast) <= limit
         /\ down(v, limit, fast) \in Nat
         /\ down(v, limit, fast) <= v \/ down(v, limit, fast) = limit
BY PanelLevels DEF up, down

\* What a turn edits keeps the types: the limits stay in their ranges.
LEMMA EditType ==
  ASSUME NEW p \in PanelType, NEW in \in Inputs
  PROVE  Edit(p, in) \in PanelType /\ Edit(p, in).last = p.last
<1>1. Fast(in) \in BOOLEAN
  BY DEF Fast
<1>2. p.lower \in Nat /\ p.upper \in Nat /\ p.lower <= LowTop /\ p.upper <= Top
  BY PanelLevels DEF PanelType
<1>3. /\ down(p.lower, 0, Fast(in)) \in 0 .. LowTop
      /\ up(p.lower, LowTop, Fast(in)) \in 0 .. LowTop
      /\ down(p.upper, p.lower + Gap, Fast(in)) \in 0 .. Top
      /\ up(p.upper, Top, Fast(in)) \in 0 .. Top
  <2>1. p.lower + Gap \in Nat /\ p.lower + Gap <= Top
    BY <1>2, PanelLevels
  <2>2. down(p.lower, 0, Fast(in)) \in 0 .. LowTop
    <3>1. /\ down(p.lower, 0, Fast(in)) \in Nat
          /\ \/ down(p.lower, 0, Fast(in)) <= p.lower
             \/ down(p.lower, 0, Fast(in)) = 0
      BY <1>1, <1>2, UpDownFacts
    <3>. QED
      BY <1>2, <3>1, PanelLevels
  <2>3. up(p.lower, LowTop, Fast(in)) \in 0 .. LowTop
    <3>1. /\ up(p.lower, LowTop, Fast(in)) \in Nat
          /\ up(p.lower, LowTop, Fast(in)) <= LowTop
      BY <1>1, <1>2, UpDownFacts, PanelLevels
    <3>. QED
      BY <3>1, PanelLevels
  <2>4. down(p.upper, p.lower + Gap, Fast(in)) \in 0 .. Top
    <3>1. /\ down(p.upper, p.lower + Gap, Fast(in)) \in Nat
          /\ \/ down(p.upper, p.lower + Gap, Fast(in)) <= p.upper
             \/ down(p.upper, p.lower + Gap, Fast(in)) = p.lower + Gap
      BY <1>1, <1>2, <2>1, UpDownFacts
    <3>. QED
      BY <1>2, <2>1, <3>1, PanelLevels
  <2>5. up(p.upper, Top, Fast(in)) \in 0 .. Top
    <3>1. /\ up(p.upper, Top, Fast(in)) \in Nat
          /\ up(p.upper, Top, Fast(in)) <= Top
      BY <1>1, <1>2, UpDownFacts, PanelLevels
    <3>. QED
      BY <3>1, PanelLevels
  <2>. QED
    BY <2>2, <2>3, <2>4, <2>5
<1>4. /\ p.desTemp - 1 \in Int /\ p.desTemp + 1 \in Int
      /\ p.sPos \in 1 .. 8
  BY DEF PanelType
<1>5. CASE p.scr = "Menu"
  BY <1>4, <1>5 DEF Edit, PanelType
<1>6. CASE p.scr = "Settings"
  BY <1>4, <1>6 DEF Edit, PanelType
<1>7. CASE p.scr = "lowerB"
  BY <1>3, <1>7 DEF Edit, PanelType
<1>8. CASE p.scr \notin {"Menu", "Settings", "lowerB"}
  BY <1>3, <1>8 DEF Edit, PanelType
<1>. QED
  BY <1>5, <1>6, <1>7, <1>8

\* A turn keeps the types and wakes the panel; without one nothing changes.
LEMMA EncoderFacts ==
  ASSUME NEW p \in PanelType, NEW in \in Inputs, IdleMod \in Nat \ {0}
  PROVE  LET q == updateEncoder(p, in)
         IN /\ q \in PanelType
            /\ q.last = p.last
            /\ in.turn # "none" => q.idle = 0
            /\ in.turn = "none" => q = p
<1>1. Edit(p, in) \in PanelType /\ Edit(p, in).last = p.last
  BY EditType
<1>. DEFINE q == IF in.turn # "miss" /\ p.back = p.upper THEN Edit(p, in) ELSE p
            r == [q EXCEPT !.idle = 0]
<1>2. r \in PanelType /\ r.idle = 0 /\ r.last = p.last
  <2>1. q \in PanelType /\ q.last = p.last
    BY <1>1
  <2>. HIDE DEF q
  <2>. QED
    BY <2>1 DEF PanelType
<1>3. updateEncoder(p, in) = IF in.turn = "none" THEN p
                             ELSE IF r.scr = "Menu" THEN r ELSE lcdWrite(r)
  BY DEF updateEncoder
<1>. HIDE DEF r
<1>. QED
  BY <1>2, <1>3, LcdWriteFacts

\* menuUpdate() changes what is shown and nothing else.
LEMMA MenuUpdateFacts ==
  ASSUME NEW p \in PanelType
  PROVE  LET q == menuUpdate(p)
         IN /\ q \in PanelType
            /\ \A f \in {"scr", "back", "lower", "upper", "idle",
                         "backCheck", "desTemp"} : q[f] = p[f]
            /\ q.scr = "Menu" => \/ Printed(q)
                                 \/ q.shown = p.shown /\ p.desTemp = p.last
<1>1. p.shown \in Int \X Int \X Int /\ p.desTemp \in Int
  BY DEF PanelType
<1>2. CASE p.scr = "Menu" /\ p.desTemp # p.last
  <2>. DEFINE s == PrintAt(p.shown, p.desTemp)
  <2>1. s \in Int \X Int \X Int
    BY <1>1, PrintFacts
  <2>2. menuUpdate(p) = [p EXCEPT !.shown = s]
    BY <1>2 DEF menuUpdate
  <2>3. /\ menuUpdate(p) \in PanelType
        /\ menuUpdate(p).shown = s
        /\ \A f \in {"scr", "back", "lower", "upper", "idle",
                     "backCheck", "desTemp"} : menuUpdate(p)[f] = p[f]
    <3>. HIDE DEF s
    <3>. QED
      BY <2>1, <2>2 DEF PanelType
  <2>4. menuUpdate(p).shown = PrintAt(p.shown, menuUpdate(p).desTemp)
    BY <2>3
  <2>. QED
    BY <1>1, <2>3, <2>4, PrintedFacts
<1>3. CASE ~(p.scr = "Menu" /\ p.desTemp # p.last)
  BY <1>3 DEF menuUpdate
<1>. QED
  BY <1>2, <1>3

\* The end of a pass copies the set point.
LEMMA LastFacts ==
  ASSUME NEW p \in PanelType
  PROVE  LET q == [p EXCEPT !.last = p.desTemp]
         IN /\ q \in PanelType
            /\ \A f \in {"scr", "back", "lower", "idle", "backCheck",
                         "desTemp", "shown"} : q[f] = p[f]
BY DEF PanelType

\* The timer after a pass.  It cannot wrap on a panel that stays idle: the
\* pass is shorter than the limit.
LEMMA TimerFacts ==
  ASSUME NEW i \in 0 .. IdleMod - 1, NEW d \in PassTimes
  PROVE  LET j == (i + d) % IdleMod
         IN /\ j \in 0 .. IdleMod - 1
            /\ j > IdleLimit => j = i + d
            /\ i = 0 => j <= IdleLimit
            /\ d \in 1 .. MaxPass
<1>1. d \in 1 .. IdleLimit /\ d \in 1 .. MaxPass
  BY PanelTiming
<1>2. CASE i + d < IdleMod
  BY <1>1, <1>2, PanelTiming
<1>3. CASE i + d >= IdleMod
  <2>1. (i + d) % IdleMod = i + d - IdleMod
    BY <1>1, <1>3, PanelTiming
  <2>. QED
    BY <1>1, <1>3, <2>1, PanelTiming
<1>. QED
  BY <1>1, <1>2, <1>3, PanelTiming

---------------------------------------------------------------------------
\* Between two passes a panel that has not lit up since it went dark is
\* still idle, or was touched in the last pass.
Rested == ~panel.backCheck => Idle(panel) \/ panel.idle = 0

\* The inductive invariant.
IInv ==
  /\ TypeOK
  /\ Rested
  /\ SleepSaves
  /\ DarkIsMenu
  /\ Dims

\* After power-up the panel has its types and is awake.
LEMMA BootFacts ==
  ASSUME NEW saved \in Int, NEW t \in Degrees, NEW avg \in Degrees
  PROVE  /\ Boot(saved, t, avg) \in PanelType
         /\ Boot(saved, t, avg).idle = 0
         /\ Printed(Boot(saved, t, avg))
<1>. DEFINE point == IF 0 < saved /\ saved < MaxSaved THEN saved ELSE t + 1
<1>1. t \in Int /\ avg \in Int /\ point \in Int
  BY PanelValues
<1>2. /\ Boot(saved, t, avg).shown = PrintAt(Blanks, point)
      /\ Boot(saved, t, avg).desTemp = point
  BY DEF Boot
<1>3. PrintAt(Blanks, point) \in Int \X Int \X Int
  BY <1>1, BlanksType, PrintFacts
<1>4. Boot(saved, t, avg) =
        [scr |-> "Menu", sPos |-> 1, back |-> Upper0, lower |-> Lower0,
         upper |-> Upper0, idle |-> 0, backCheck |-> FALSE, unit |-> "C",
         degrees |-> t, temp |-> t, average |-> avg,
         desTemp |-> point, last |-> 0, shown |-> PrintAt(Blanks, point)]
  BY DEF Boot
<1>. HIDE DEF point
<1>5. Boot(saved, t, avg) \in PanelType /\ Boot(saved, t, avg).idle = 0
  BY <1>1, <1>3, <1>4, PanelTiming, PanelLevels DEF PanelType, Screens
<1>. QED
  BY <1>2, <1>5, BlanksType, PrintedFacts

LEMMA InitInv == Init => IInv
<1>. SUFFICES ASSUME Init PROVE IInv
  OBVIOUS
<1>1. eeprom \in Int /\ radioSet = FALSE /\ raced = FALSE
  BY PanelValues DEF Init
<1>2. panel \in PanelType /\ panel.idle = 0
  BY <1>1, BootFacts DEF Init
<1>3. ~Idle(panel)
  BY <1>2, PanelTiming DEF Idle
<1>. QED
  BY <1>1, <1>2, <1>3, Zenon
  DEF IInv, TypeOK, Rested, SleepSaves, DarkIsMenu, Dims

LEMMA RestartStep ==
  ASSUME IInv, Restart
  PROVE  IInv'
<1>1. eeprom' \in Int /\ radioSet' = FALSE /\ raced' = FALSE
  BY DEF Restart, IInv, TypeOK
<1>2. panel' \in PanelType /\ panel'.idle = 0
  BY BootFacts DEF Restart, IInv, TypeOK
<1>3. ~Idle(panel)'
  BY <1>2, PanelTiming DEF Idle
<1>. QED
  BY <1>1, <1>2, <1>3, Zenon
  DEF IInv, TypeOK, Rested, SleepSaves, DarkIsMenu, Dims

\* The arithmetic of Dims: one more dark pass is one level less.
LEMMA DimsArith ==
  ASSUME NEW back \in Int, NEW i \in Int, NEW d \in Int, d <= MaxPass,
         i - IdleLimit <= (Top - back) * MaxPass
  PROVE  (i + d) - IdleLimit <= (Top - (back - 1)) * MaxPass
<1>. MaxPass \in Int /\ Top \in Int /\ IdleLimit \in Int
  BY PanelTiming, PanelLevels
<1>1. (Top - (back - 1)) * MaxPass = (Top - back) * MaxPass + MaxPass
  OBVIOUS
<1>2. (Top - back) * MaxPass \in Int
  OBVIOUS
<1>. QED
  BY <1>1, <1>2

LEMMA PassStep ==
  ASSUME IInv, NEW in \in Inputs, Pass(in)
  PROVE  IInv'
<1>. DEFINE p0 == [panel EXCEPT !.idle = (@ + in.d) % IdleMod]
            p1 == Receive(p0, in)
            p2 == backControl(p1)
            p3 == Sample(p2, in)
            p4 == updateButton(p3, in)
            p5 == updateEncoder(p4, in)
            p6 == menuUpdate(p5)
            p7 == [p6 EXCEPT !.last = p6.desTemp]
<1>1. /\ panel \in PanelType /\ eeprom \in Int
      /\ radioSet \in BOOLEAN /\ raced \in BOOLEAN
  BY DEF IInv, TypeOK
<1>2. /\ panel.idle \in 0 .. IdleMod - 1
      /\ in.d \in PassTimes /\ in.press \in BOOLEAN
      /\ IdleMod \in Nat \ {0} /\ IdleLimit \in Nat
      /\ panel.desTemp \in Int /\ panel.back \in 0 .. Top
      /\ panel.lower \in 0 .. LowTop
  BY <1>1, PanelTiming DEF PanelType, Inputs
<1>3. /\ p0 \in PanelType
      /\ p0.idle = (panel.idle + in.d) % IdleMod
      /\ \A f \in {"back", "lower", "backCheck", "desTemp"} : p0[f] = panel[f]
  BY <1>1, <1>2, TimerFacts DEF PanelType
<1>. HIDE DEF p0
<1>4. /\ p1 \in PanelType
      /\ \A f \in {"back", "lower", "idle", "backCheck"} : p1[f] = p0[f]
      /\ p1.desTemp = p0.desTemp \/ in.frame.kind \in {"point", "unit"}
  BY <1>3, ReceiveFacts
<1>. HIDE DEF p1
<1>5. /\ p2 \in PanelType
      /\ \A f \in {"lower", "idle", "desTemp"} : p2[f] = p1[f]
      /\ ~Idle(p1) => p2.backCheck = TRUE
      /\ Idle(p1) => /\ p2.backCheck = FALSE
                     /\ p2.scr = "Menu"
                     /\ \/ p2.back = p1.back /\ p1.back <= p1.lower
                        \/ p2.back = p1.back - 1
  BY <1>4, BackControlFacts
<1>. HIDE DEF p2
<1>6. /\ p3 \in PanelType
      /\ \A f \in {"scr", "back", "lower", "idle", "backCheck", "desTemp"} :
           p3[f] = p2[f]
  BY <1>5, SampleFacts
<1>. HIDE DEF p3
<1>7. /\ p4 \in PanelType
      /\ in.press => p4.idle = 0
      /\ ~in.press => p4 = p3
  BY <1>2, <1>6, ButtonFacts
<1>. HIDE DEF p4
<1>8. /\ p5 \in PanelType
      /\ in.turn # "none" => p5.idle = 0
      /\ in.turn = "none" => p5 = p4
  BY <1>2, <1>7, EncoderFacts
<1>. HIDE DEF p5
<1>9. /\ p7 \in PanelType
      /\ \A f \in {"scr", "back", "lower", "idle", "backCheck", "desTemp"} :
           p7[f] = p5[f]
  <2>1. /\ p6 \in PanelType
        /\ \A f \in {"scr", "back", "lower", "upper", "idle",
                     "backCheck", "desTemp"} : p6[f] = p5[f]
    BY <1>8, MenuUpdateFacts
  <2>. HIDE DEF p6
  <2>. QED
    BY <2>1, LastFacts
<1>. HIDE DEF p6, p7
<1>10. /\ panel' = p7
       /\ eeprom' = IF Saves(p1) THEN p1.desTemp ELSE eeprom
       /\ radioSet' = (~Saves(p1)
                         /\ (radioSet \/ in.frame.kind \in {"point", "unit"}))
  BY DEF Pass, p0, p1, p2, p3, p4, p5, p6, p7
<1>11. TypeOK'
  <2>1. eeprom' \in Int
    BY <1>1, <1>4, <1>10 DEF PanelType
  <2>2. radioSet' \in BOOLEAN /\ raced' \in BOOLEAN
    BY <1>1, <1>10, Zenon DEF Pass, Missed
  <2>. QED
    BY <1>9, <1>10, <2>1, <2>2 DEF TypeOK
\* Whoever touches the panel restarts the timer
<1>12. CASE in.press \/ in.turn # "none"
  <2>1. panel'.idle = 0
    BY <1>7, <1>8, <1>9, <1>10, <1>12
  <2>. QED
    BY <1>2, <1>11, <2>1
    DEF IInv, Rested, SleepSaves, DarkIsMenu, Dims, Idle
\* A pass without input: the panel is what backControl() makes of it
<1>13. CASE ~in.press /\ in.turn = "none"
  <2>1. \A f \in {"scr", "back", "lower", "idle", "backCheck", "desTemp"} :
          panel'[f] = p2[f]
    BY <1>6, <1>7, <1>8, <1>9, <1>10, <1>13
  <2>2. panel'.idle = p1.idle /\ p1.idle = (panel.idle + in.d) % IdleMod
    BY <2>1, <1>3, <1>4, <1>5
  <2>3. Idle(panel)' <=> Idle(p1)
    BY <2>2 DEF Idle
  <2>4. Rested' /\ DarkIsMenu'
    BY <2>1, <2>3, <1>5 DEF Rested, DarkIsMenu
  <2>5. Idle(p1) /\ ~panel.backCheck => Idle(panel)
    BY <1>2, <2>2, TimerFacts DEF IInv, Rested, Idle
  <2>6. SleepSaves'
    <3>. SUFFICES ASSUME Idle(p1), ~Saves(p1), ~radioSet'
                  PROVE  eeprom = panel'.desTemp
      BY <2>1, <2>3, <1>5, <1>10 DEF SleepSaves
    <3>1. ~panel.backCheck
      BY <1>3, <1>4 DEF Saves
    <3>2. ~radioSet /\ in.frame.kind \notin {"point", "unit"}
      BY <1>10
    <3>3. eeprom = panel.desTemp
      BY <2>5, <3>1, <3>2 DEF IInv, SleepSaves
    <3>. QED
      BY <2>1, <3>2, <3>3, <1>3, <1>4, <1>5
  <2>7. Dims'
    <3>. SUFFICES ASSUME Idle(p1), ~(panel'.back <= panel'.lower)
                  PROVE  panel'.idle - IdleLimit <= (Top - panel'.back) * MaxPass
      BY <2>3 DEF Dims
    <3>1. /\ panel'.idle = panel.idle + in.d
          /\ in.d \in 1 .. MaxPass
      BY <1>2, <2>2, TimerFacts DEF Idle
    <3>2. panel'.back = panel.back - 1 /\ ~(panel.back <= panel.lower)
      BY <1>2, <1>3, <1>4, <1>5, <2>1
    <3>3. panel.idle - IdleLimit <= (Top - panel.back) * MaxPass
      <4>1. CASE Idle(panel)
        BY <3>2, <4>1 DEF IInv, Dims
      <4>2. CASE ~Idle(panel)
        <5>1. panel.idle - IdleLimit <= 0
          BY <1>2, <4>2 DEF Idle
        <5>2. MaxPass \in Nat /\ Top - panel.back \in Nat
          BY <1>2, PanelTiming, PanelLevels
        <5>3. 0 <= (Top - panel.back) * MaxPass
          BY <5>2
        <5>4. (Top - panel.back) * MaxPass \in Int
          BY <5>2
        <5>. QED
          BY <1>2, <5>1, <5>3, <5>4
      <4>. QED
        BY <4>1, <4>2
    <3>4. /\ panel.back \in Int /\ panel.idle \in Int
          /\ in.d \in Int /\ in.d <= MaxPass
      BY <1>2, <3>1, PanelTiming, PanelLevels
    <3>5. (panel.idle + in.d) - IdleLimit <= (Top - (panel.back - 1)) * MaxPass
      BY <3>3, <3>4, DimsArith
    <3>. QED
      BY <3>1, <3>2, <3>5
  <2>. QED
    BY <1>11, <2>4, <2>6, <2>7 DEF IInv
<1>. QED
  BY <1>2, <1>12, <1>13

LEMMA Invariance == Spec => []IInv
<1>1. IInv /\ [Next]_vars => IInv'
  <2>. SUFFICES ASSUME IInv, [Next]_vars PROVE IInv'
    OBVIOUS
  <2>1. CASE LoopPass
    BY <2>1, PassStep DEF LoopPass
  <2>2. CASE Restart
    BY <2>2, RestartStep
  <2>3. CASE UNCHANGED vars
    BY <2>3 DEF vars, IInv, TypeOK, Rested, SleepSaves, DarkIsMenu, Dims, Idle
  <2>. QED
    BY <2>1, <2>2, <2>3 DEF Next
<1>. QED
  BY <1>1, InitInv, PTL DEF Spec

---------------------------------------------------------------------------
(***************************************************************************)
(* What each handler does to the set point and to the one the screen shows.*)
(***************************************************************************)
\* A frame for the set point is printed on any screen, one for the unit on
\* none.
LEMMA ReceiveShown ==
  ASSUME NEW p \in PanelType, NEW in \in Inputs
  PROVE  LET q == Receive(p, in)
         IN /\ Printed(q) \/ q.shown = p.shown
            /\ in.frame = NoFrame => q = p
<1>1. CASE in.frame = NoFrame
  BY <1>1 DEF Receive, NoFrame
<1>2. CASE in.frame.kind = "point" /\ in.frame.value \in Int
  <2>. DEFINE r == IF p.temp - Span <= in.frame.value /\ in.frame.value <= p.temp + Span
                   THEN [p EXCEPT !.desTemp = in.frame.value] ELSE p
              q == [r EXCEPT !.shown = PrintAt(r.shown, r.desTemp)]
  <2>1. r \in PanelType
    BY <1>2 DEF PanelType
  <2>2. Receive(p, in) = q
    BY <1>2 DEF Receive
  <2>3. Receive(p, in) \in PanelType
    BY ReceiveFacts
  <2>. HIDE DEF r
  <2>4. r.shown \in Int \X Int \X Int
    BY <2>1 DEF PanelType
  <2>5. q.shown = PrintAt(r.shown, r.desTemp) /\ q.desTemp = r.desTemp
    BY <2>1 DEF PanelType
  <2>6. q.shown = PrintAt(r.shown, q.desTemp)
    BY <2>5
  <2>. HIDE DEF q
  <2>7. Printed(q)
    BY <2>2, <2>3, <2>4, <2>6, PrintedFacts
  <2>. QED
    BY <1>2, <2>2, <2>7 DEF NoFrame
<1>3. CASE in.frame.kind = "unit" /\ in.frame.value \in {"C", "F"}
  <2>1. Receive(p, in) = setTemp([p EXCEPT !.unit = in.frame.value], in)
    BY <1>3 DEF Receive
  <2>2. Receive(p, in).shown = p.shown
    BY <2>1 DEF setTemp, PanelType
  <2>. QED
    BY <1>3, <2>2 DEF NoFrame
<1>. QED
  BY <1>1, <1>2, <1>3, FrameShape

\* A panel that goes dark on another screen prints its main screen.
LEMMA BackControlShown ==
  ASSUME NEW p \in PanelType
  PROVE  LET q == backControl(p)
         IN q.scr = "Menu" =>
              \/ Printed(q)
              \/ /\ q.shown = p.shown
                 /\ p.scr = "Menu" \/ (Idle(p) /\ ~p.backCheck)
<1>1. CASE Idle(p)
  <2>. DEFINE b == IF p.back > p.lower THEN p.back - 1 ELSE p.back
              r == [p EXCEPT !.back = b, !.scr = "Menu", !.backCheck = FALSE]
  <2>0. b \in 0 .. Top
    BY PanelLevels DEF PanelType
  <2>1. r \in PanelType /\ r.scr = "Menu" /\ r.shown = p.shown
    BY <2>0 DEF PanelType, Screens
  <2>2. backControl(p) = IF p.backCheck THEN lcdWrite(r) ELSE r
    BY <1>1 DEF backControl
  <2>. HIDE DEF r
  <2>3. Printed(lcdWrite(r))
    BY <2>1, LcdWriteFacts
  <2>. QED
    BY <1>1, <2>1, <2>2, <2>3
<1>2. CASE ~Idle(p)
  BY <1>2 DEF backControl, PanelType
<1>. QED
  BY <1>1, <1>2

LEMMA SampleShown ==
  ASSUME NEW p \in PanelType, NEW in \in Inputs
  PROVE  Sample(p, in).shown = p.shown
BY DEF Sample, PanelType

\* Choosing a line does not reach the main screen with another set point.
LEMMA ChooseShown ==
  ASSUME NEW p \in PanelType, NEW in \in Inputs
  PROVE  LET q == Choose(p, in)
         IN q.scr = "Menu" => q.desTemp = p.desTemp
<1>0. p.scr \in Screens /\ p.sPos \in 1 .. 8
  BY DEF PanelType
<1>1. CASE p.scr = "Menu"
  BY <1>1 DEF Choose, PanelType
<1>2. CASE p.scr = "Settings" /\ p.sPos = 1
  <2>. DEFINE r == [p EXCEPT !.unit = IF @ = "F" THEN "C" ELSE "F"]
  <2>1. r \in PanelType /\ r.scr = "Settings"
    BY <1>2 DEF PanelType
  <2>2. Choose(p, in) = setTemp(r, in)
    BY <1>2 DEF Choose
  <2>. HIDE DEF r
  <2>3. setTemp(r, in).scr = r.scr
    BY <2>1, SetTempFacts
  <2>. QED
    BY <2>1, <2>2, <2>3
<1>3. CASE p.scr = "Settings" /\ p.sPos # 1
  <2>1. CASE p.sPos \in {5, 6, 8}
    BY <1>3, <2>1 DEF Choose, PanelType
  <2>2. CASE p.sPos \notin {1, 5, 6, 8}
    BY <1>3, <2>2 DEF Choose
  <2>. QED
    BY <1>3, <2>1, <2>2
<1>4. CASE p.scr \notin {"Menu", "Settings"}
  BY <1>4 DEF Choose, PanelType
<1>. QED
  BY <1>1, <1>2, <1>3, <1>4

\* A press prints the screen it ends on.
LEMMA ButtonShown ==
  ASSUME NEW p \in PanelType, NEW in \in Inputs, IdleMod \in Nat \ {0}
  PROVE  LET q == updateButton(p, in)
         IN in.press /\ q.scr = "Menu" => /\ Printed(q)
                                          /\ q.desTemp = p.desTemp
<1>. DEFINE c == IF p.back = p.upper THEN Choose(p, in) ELSE p
            r == [c EXCEPT !.idle = 0]
<1>1. c \in PanelType
  BY ChooseType
<1>2. c.scr = "Menu" => c.desTemp = p.desTemp
  BY ChooseShown
<1>. HIDE DEF c
<1>3. /\ r \in PanelType
      /\ r.scr = c.scr /\ r.desTemp = c.desTemp
  BY <1>1 DEF PanelType
<1>4. in.press => updateButton(p, in) = lcdWrite(r)
  BY DEF updateButton, c
<1>. HIDE DEF r
<1>5. lcdWrite(r).scr = r.scr /\ lcdWrite(r).desTemp = r.desTemp
  BY <1>3, LcdWriteFacts
<1>6. lcdWrite(r).scr = "Menu" => Printed(lcdWrite(r))
  BY <1>3, LcdWriteFacts
<1>. QED
  BY <1>2, <1>3, <1>4, <1>5, <1>6

\* The knob prints nothing on the main screen, and an edge that only wakes
\* the panel edits nothing.
LEMMA EncoderShown ==
  ASSUME NEW p \in PanelType, NEW in \in Inputs, IdleMod \in Nat \ {0}
  PROVE  LET q == updateEncoder(p, in)
         IN q.scr = "Menu" =>
              /\ p.scr = "Menu"
              /\ q.shown = p.shown
              /\ in.turn \notin Lefts \cup Rights => q.desTemp = p.desTemp
<1>0. /\ p.scr \in Screens
      /\ in.turn \in {"none", "miss"} \cup Lefts \cup Rights
  BY PanelValues DEF PanelType, Inputs, Lefts, Rights
<1>1. CASE in.turn = "none"
  BY <1>1 DEF updateEncoder
<1>2. CASE in.turn # "none"
  <2>. DEFINE e == IF in.turn # "miss" /\ p.back = p.upper THEN Edit(p, in) ELSE p
              r == [e EXCEPT !.idle = 0]
  <2>1. e.scr = p.scr /\ e.shown = p.shown
    BY <1>0 DEF Edit, PanelType
  <2>2. in.turn \notin Lefts \cup Rights => e.desTemp = p.desTemp
    BY <1>0, <1>2
  <2>3. e \in PanelType
    BY EditType
  <2>. HIDE DEF e
  <2>4. /\ r \in PanelType
        /\ r.scr = e.scr /\ r.shown = e.shown /\ r.desTemp = e.desTemp
    BY <2>3 DEF PanelType
  <2>5. updateEncoder(p, in) = IF r.scr = "Menu" THEN r ELSE lcdWrite(r)
    BY <1>2 DEF updateEncoder, e
  <2>. HIDE DEF r
  <2>6. lcdWrite(r).scr = r.scr
    BY <2>4, LcdWriteFacts
  <2>. QED
    BY <2>1, <2>2, <2>4, <2>5, <2>6
<1>. QED
  BY <1>1, <1>2

(***************************************************************************)
(* A pass leaves the main screen right.  Up to the button, what is shown   *)
(* is the set point or menuUpdate() will see that it is not: the set point *)
(* differs from the one before the pass.  A turn can hide that difference, *)
(* but without a frame there is none to hide.                              *)
(***************************************************************************)
LEMMA ScreenStep ==
  ASSUME IInv, ScreenTrue, NEW in \in Inputs, Pass(in)
  PROVE  ScreenTrue'
<1>. DEFINE p0 == [panel EXCEPT !.idle = (@ + in.d) % IdleMod]
            p1 == Receive(p0, in)
            p2 == backControl(p1)
            p3 == Sample(p2, in)
            p4 == updateButton(p3, in)
            p5 == updateEncoder(p4, in)
            p6 == menuUpdate(p5)
            p7 == [p6 EXCEPT !.last = p6.desTemp]
            Turned == in.turn \in Lefts \cup Rights
<1>1. /\ panel \in PanelType
      /\ panel.idle \in 0 .. IdleMod - 1 /\ panel.desTemp \in Int
      /\ in.d \in PassTimes /\ in.press \in BOOLEAN
      /\ IdleMod \in Nat \ {0} /\ IdleLimit \in Nat
  BY PanelTiming DEF IInv, TypeOK, PanelType, Inputs
<1>2. /\ p0 \in PanelType
      /\ p0.idle = (panel.idle + in.d) % IdleMod
      /\ \A f \in {"scr", "backCheck", "desTemp", "shown", "last"} :
           p0[f] = panel[f]
  BY <1>1, TimerFacts DEF PanelType
<1>. HIDE DEF p0
<1>3. /\ p1 \in PanelType
      /\ \A f \in {"scr", "idle", "backCheck", "last"} : p1[f] = p0[f]
      /\ Printed(p1) \/ p1.shown = p0.shown
      /\ in.frame = NoFrame => p1 = p0
  BY <1>2, ReceiveFacts, ReceiveShown
<1>. HIDE DEF p1
<1>4. /\ p2 \in PanelType
      /\ p2.desTemp = p1.desTemp /\ p2.last = p1.last
      /\ p2.scr = "Menu" => \/ Printed(p2)
                            \/ /\ p2.shown = p1.shown
                               /\ p1.scr = "Menu" \/ (Idle(p1) /\ ~p1.backCheck)
  BY <1>3, BackControlFacts, BackControlShown
<1>. HIDE DEF p2
<1>5. /\ p3 \in PanelType
      /\ \A f \in {"scr", "desTemp", "last"} : p3[f] = p2[f]
      /\ p3.shown = p2.shown
  BY <1>4, SampleFacts, SampleShown
<1>. HIDE DEF p3
<1>6. /\ p4 \in PanelType
      /\ p4.last = p3.last
      /\ ~in.press => p4 = p3
      /\ in.press /\ p4.scr = "Menu" => /\ Printed(p4)
                                        /\ p4.desTemp = p3.desTemp
  BY <1>1, <1>5, ButtonFacts, ButtonShown
<1>. HIDE DEF p4
<1>7. /\ p5 \in PanelType
      /\ p5.last = p4.last
      /\ p5.scr = "Menu" => /\ p4.scr = "Menu"
                            /\ p5.shown = p4.shown
                            /\ ~Turned => p5.desTemp = p4.desTemp
  BY <1>1, <1>6, EncoderFacts, EncoderShown
<1>. HIDE DEF p5
<1>8. /\ p6 \in PanelType
      /\ p6.scr = p5.scr /\ p6.desTemp = p5.desTemp
      /\ p6.scr = "Menu" => \/ Printed(p6)
                            \/ p6.shown = p5.shown /\ p5.desTemp = p5.last
  BY <1>7, MenuUpdateFacts
<1>. HIDE DEF p6
<1>9. panel' = p7 /\ raced' = Missed(p6, in)
  BY DEF Pass, p0, p1, p2, p3, p4, p5, p6, p7
<1>10. /\ p7.scr = p6.scr
       /\ Printed(p7) <=> Printed(p6)
  BY <1>8, LastFacts DEF Printed
<1>. HIDE DEF p7
<1>. SUFFICES ASSUME p6.scr = "Menu", ~Missed(p6, in), ~Printed(p6)
              PROVE  FALSE
  BY <1>9, <1>10 DEF ScreenTrue
<1>11. /\ ~raced /\ ~(in.frame # NoFrame /\ Turned)
       /\ panel.last = panel.desTemp \/ p6.desTemp # panel.last
  BY DEF Missed
<1>12. panel.scr = "Menu" => Printed(panel)
  BY <1>11 DEF ScreenTrue
\* nothing has been printed last, and the knob has left the main screen alone
<1>13. /\ p4.scr = "Menu" /\ p6.shown = p4.shown /\ p6.desTemp = p5.desTemp
       /\ p5.desTemp = panel.desTemp
  <2>1. p5.last = panel.last
    BY <1>2, <1>3, <1>4, <1>5, <1>6, <1>7
  <2>. QED
    BY <1>7, <1>8, <1>11, <2>1
<1>14. Idle(p1) /\ ~p1.backCheck => panel.scr = "Menu"
  <2>1. Idle(p1) /\ ~panel.backCheck => Idle(panel)
    BY <1>1, <1>2, <1>3, TimerFacts DEF IInv, Rested, Idle
  <2>. QED
    BY <1>2, <1>3, <2>1 DEF IInv, DarkIsMenu
<1>15. p3.scr = "Menu" => Printed(p3) \/ p3.desTemp # panel.desTemp
  <2>. SUFFICES ASSUME p3.scr = "Menu", ~Printed(p3),
                       p3.desTemp = panel.desTemp
                PROVE  FALSE
    OBVIOUS
  <2>1. ~Printed(p2)
    BY <1>5 DEF Printed
  <2>2. p2.shown = p1.shown /\ panel.scr = "Menu"
    BY <1>2, <1>3, <1>4, <1>5, <1>14, <2>1
  <2>3. ~Printed(p1)
    BY <1>4, <2>1, <2>2 DEF Printed
  <2>4. p3.shown = panel.shown
    BY <1>2, <1>3, <1>5, <2>2, <2>3
  <2>. QED
    BY <1>12, <2>2, <2>4 DEF Printed
<1>16. Printed(p4) \/ p4.desTemp # panel.desTemp
  BY <1>6, <1>13, <1>15
<1>17. p4.desTemp = panel.desTemp
  <2>1. CASE ~Turned
    BY <1>7, <1>8, <1>13, <2>1
  <2>2. CASE Turned
    BY <1>2, <1>3, <1>4, <1>5, <1>6, <1>11, <1>13, <2>2
  <2>. QED
    BY <2>1, <2>2
<1>. QED
  BY <1>13, <1>16, <1>17 DEF Printed

---------------------------------------------------------------------------
\* The levels of the backlight and every other global keep their types.
THEOREM TypeCorrect == Spec => []TypeOK
BY Invariance, PTL DEF IInv

\* A dark panel has its set point in EEPROM unless the radio changed it.
THEOREM SetPointSaved == Spec => []SleepSaves
BY Invariance, PTL DEF IInv

\* A dark panel is on its main screen.
THEOREM WakesOnMenu == Spec => []DarkIsMenu
BY Invariance, PTL DEF IInv

\* A panel left alone is dim after at most Top passes.
THEOREM DimsInTime == Spec => []Dims
BY Invariance, PTL DEF IInv

\* On the main screen the set point in force has been printed, but for the
\* changes menuUpdate() cannot see.
THEOREM ScreenIsTrue == Spec => []ScreenTrue
<1>1. Init => ScreenTrue
  BY PanelValues, BootFacts DEF Init, ScreenTrue
<1>2. IInv /\ ScreenTrue /\ [Next]_vars => ScreenTrue'
  <2>. SUFFICES ASSUME IInv, ScreenTrue, [Next]_vars PROVE ScreenTrue'
    OBVIOUS
  <2>1. CASE LoopPass
    BY <2>1, ScreenStep DEF LoopPass
  <2>2. CASE Restart
    BY <2>2, BootFacts DEF Restart, ScreenTrue, IInv, TypeOK
  <2>3. CASE UNCHANGED vars
    BY <2>3 DEF vars, ScreenTrue
  <2>. QED
    BY <2>1, <2>2, <2>3 DEF Next
<1>. QED
  BY <1>1, <1>2, Invariance, PTL DEF Spec
===========================================================================
