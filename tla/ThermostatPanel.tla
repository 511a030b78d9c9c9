-------------------------- MODULE ThermostatPanel --------------------------
(***************************************************************************)
(* The panel of thermostat/thermostat.ino: screen, menu, backlight, knob,  *)
(* push button, set point and its copy in EEPROM.  One step is one pass of *)
(* loop(), which runs its handlers in a fixed order; each handler is a     *)
(* function from panel to panel, and a pass is their composition.  The     *)
(* air conditioner, which the same pass controls, is AcController.         *)
(*                                                                         *)
(* What a pass may meet is one record `in`: the time since the previous    *)
(* pass, a radio frame, a sensor reading, the knob and the button.  The    *)
(* knob is seen as updateEncoder() decodes it: "miss" is an edge without a *)
(* clean quadrature, which only wakes the panel; a fast turn repeats one   *)
(* within 290 ms, and up() and down() make a larger step of it.            *)
(***************************************************************************)
EXTENDS Integers, Sequences

CONSTANTS
  PassTimes,   \* ticks between two passes of loop()
  MaxPass,     \* the longest of them
  IdleLimit,   \* ticks after which the panel goes dark      (10000 ms)
  IdleMod,     \* millis() counts modulo IdleMod                 (2^32)
  Top,         \* brightest level                                 (255)
  LowTop,      \* highest lower limit                             (245)
  Gap,         \* least distance down() leaves below upperBack     (10)
  Step,        \* what a fast turn adds or removes                 (10)
  Upper0,      \* initial upperBack                               (120)
  Lower0,      \* initial lowerBack                                (25)
  Span,        \* how far from the temperature one may set         (10)
  MaxSaved,    \* bound of the values restored from EEPROM        (200)
  Frames,      \* radio frames a pass may receive, NoFrame included
  Degrees,     \* readings of the sensor, in Celsius
  FirstSaved,  \* what the EEPROM may hold at first
  Turns        \* what updateEncoder() may make of the knob in a pass

NoFrame == [kind |-> "none"]

ASSUME PanelTiming ==
  /\ IdleLimit \in Nat
  /\ IdleMod \in Nat \ {0}
  /\ MaxPass \in 1 .. IdleLimit
  /\ PassTimes \subseteq 1 .. MaxPass
  /\ IdleLimit < IdleMod

ASSUME PanelLevels ==
  /\ {Top, LowTop, Gap, Step, Upper0, Lower0} \subseteq Nat
  /\ LowTop + Gap <= Top
  /\ Upper0 <= Top
  /\ Lower0 <= LowTop

ASSUME PanelValues ==
  /\ Span \in Nat
  /\ MaxSaved \in Nat
  /\ Degrees \subseteq Nat
  /\ FirstSaved \subseteq Int
  /\ Turns \subseteq {"none", "miss", "left", "right", "fastLeft", "fastRight"}
  /\ NoFrame \in Frames
  /\ \A f \in Frames : \/ f = NoFrame
                       \/ f \in [kind : {"point"}, value : Int]
                       \/ f \in [kind : {"unit"}, value : {"C", "F"}]

VARIABLES
  panel,     \* the globals of the sketch the panel works on, a record
  eeprom,    \* the int at address 0
  radioSet,  \* the set point has come by radio since the last save
  raced      \* a change of the set point that menuUpdate() cannot see has
             \* come, and the set point has not been printed since

vars == <<panel, eeprom, radioSet, raced>>

Screens == {"Menu", "Settings", "lowerB", "upperB"}
Lefts   == {"left", "fastLeft"}
Rights  == {"right", "fastRight"}

Inputs == [d : PassTimes, frame : Frames, sample : BOOLEAN, sensor : Degrees,
           average : Degrees, turn : Turns, press : BOOLEAN]

---------------------------------------------------------------------------
\* conversor(): Celsius to Fahrenheit, truncated to an int
Fahrenheit(t) == (t * 18) \div 10 + 32

readTemp(t, unit) == IF unit = "F" THEN Fahrenheit(t) ELSE t

\* setTemp(): the set point becomes the present temperature.  tempAverage()
\* returns any reading: it sums tempA[-1], whose value is undefined.
setTemp(p, in) ==
  [p EXCEPT !.desTemp = readTemp(p.degrees, p.unit),
            !.average = readTemp(in.average, p.unit)]

\* What columns 13 to 15 of the first line hold: digits, a sign or nothing
Minus  == 10
Blanks == <<11, 11, 11>>

\* What lcd.print() makes of an int below 1000
Text[v \in Int] ==
  LET n == IF v < 0 THEN -v ELSE v
      digits == CASE n < 10 -> <<n>>
                  [] 10 <= n /\ n < 100 -> <<n \div 10, n % 10>>
                  [] OTHER -> <<n \div 100, (n \div 10) % 10, n % 10>>
  IN IF v < 0 THEN <<Minus>> \o digits ELSE digits

\* The set point goes to column 13 or 14 by its value, over what is there: a
\* shorter number leaves the other columns as they were, a longer one is cut.
PrintAt(field, v) ==
  LET text == Text[v]
  IN IF v >= 100 THEN text
     ELSE <<field[1], text[1], IF Len(text) > 1 THEN text[2] ELSE field[3]>>

\* Printing the set point again would change nothing
Printed(p) == PrintAt(p.shown, p.desTemp) = p.shown

\* lcdWrite(scr) clears the display.  What another screen than the main one
\* has in these columns, a page number or a level, is left out: coming back
\* from there clears it again.
lcdWrite(p) ==
  [p EXCEPT !.shown = IF p.scr = "Menu" THEN PrintAt(Blanks, p.desTemp) ELSE Blanks]

SlipOverLimit(value, limit, fast) ==   \* slip: the larger step is not cut
  IF fast THEN value + Step
          ELSE IF value + 1 <= limit THEN value + 1 ELSE value

up(value, limit, fast) ==
  IF fast THEN IF value + Step < limit THEN value + Step ELSE limit
          ELSE IF value + 1 <= limit THEN value + 1 ELSE value

down(value, limit, fast) ==
  IF fast THEN IF value - Step > limit THEN value - Step ELSE limit
          ELSE IF value - 1 >= limit THEN value - 1 ELSE value

---------------------------------------------------------------------------
(***************************************************************************)
(* The handlers of one pass, in the order of loop().                       *)
(***************************************************************************)
Receive(p, in) ==
  LET f == in.frame
      InReach == p.temp - Span <= f.value /\ f.value <= p.temp + Span
      set == CASE f.kind = "point" ->
                    IF InReach THEN [p EXCEPT !.desTemp = f.value] ELSE p
               [] f.kind = "unit" -> setTemp([p EXCEPT !.unit = f.value], in)
               [] OTHER -> p
  IN IF f.kind = "point" THEN [set EXCEPT !.shown = PrintAt(@, set.desTemp)] ELSE set

Idle(p) == p.idle > IdleLimit

\* backControl() copies the set point to EEPROM once, when the panel goes dark
Saves(p) == Idle(p) /\ p.backCheck

SlipStaysLit(p) ==         \* slip: no step down to a lowered upperBack
  IF Idle(p)
  THEN LET dim == [p EXCEPT !.back = IF p.back > p.lower THEN @ - 1 ELSE @,
                            !.scr = "Menu", !.backCheck = FALSE]
       IN IF p.backCheck THEN lcdWrite(dim) ELSE dim
  ELSE [p EXCEPT !.back = IF p.back < p.upper THEN @ + 1 ELSE @,
                 !.backCheck = TRUE]

SlipKeepsScreen(p) ==      \* slip: the screen is left as it was
  IF Idle(p)
  THEN LET dim == [p EXCEPT !.back = IF p.back > p.lower THEN @ - 1 ELSE @,
                            !.backCheck = FALSE]
       IN IF p.backCheck THEN lcdWrite(dim) ELSE dim
  ELSE [p EXCEPT !.back = CASE p.back < p.upper -> @ + 1
                            [] p.back > p.upper -> @ - 1
                            [] OTHER -> @,
                 !.backCheck = TRUE]

SlipNoDim(p) ==            \* slip: dims only when the screen changes too
  IF Idle(p)
  THEN LET dim == [p EXCEPT !.back = IF p.back > p.lower /\ p.backCheck
                                     THEN @ - 1 ELSE @,
                            !.scr = "Menu", !.backCheck = FALSE]
       IN IF p.backCheck THEN lcdWrite(dim) ELSE dim
  ELSE [p EXCEPT !.back = CASE p.back < p.upper -> @ + 1
                            [] p.back > p.upper -> @ - 1
                            [] OTHER -> @,
                 !.backCheck = TRUE]

backControl(p) ==
  IF Idle(p)
  THEN LET dim == [p EXCEPT !.back = IF p.back > p.lower THEN @ - 1 ELSE @,
                            !.scr = "Menu", !.backCheck = FALSE]
       IN IF p.backCheck THEN lcdWrite(dim) ELSE dim
  ELSE [p EXCEPT !.back = CASE p.back < p.upper -> @ + 1
                            [] p.back > p.upper -> @ - 1
                            [] OTHER -> @,
                 !.backCheck = TRUE]

Sample(p, in) ==
  IF in.sample
  THEN [p EXCEPT !.degrees = in.sensor,
                 !.temp = readTemp(in.sensor, p.unit),
                 !.average = readTemp(in.average, p.unit)]
  ELSE p

\* What a press does on an awake panel.  Lines 2, 3 and 4 of the settings
\* toggle showHum, fanAuto and autoBack, which nothing modelled here reads
\* (showHum only adds the humidity to the second line of the main screen,
\* fanAuto is the mode of AcController); line 7 does nothing.
Choose(p, in) ==
  CASE p.scr = "Menu" -> [p EXCEPT !.scr = "Settings", !.sPos = 1]
    [] p.scr = "Settings" ->
         CASE p.sPos = 1 ->
                setTemp([p EXCEPT !.unit = IF @ = "F" THEN "C" ELSE "F"], in)
           [] p.sPos = 5 -> [p EXCEPT !.scr = "lowerB"]
           [] p.sPos = 6 -> [p EXCEPT !.scr = "upperB"]
           [] p.sPos = 8 -> [p EXCEPT !.scr = "Menu"]
           [] OTHER -> p
    [] OTHER -> [p EXCEPT !.scr = "Settings"]

SlipSleepy(p, in) ==       \* slip: a press does not keep the panel awake
  IF in.press
  THEN lcdWrite(IF p.back = p.upper THEN Choose(p, in) ELSE p)
  ELSE p

updateButton(p, in) ==
  IF in.press
  THEN LET q == IF p.back = p.upper THEN Choose(p, in) ELSE p
       IN lcdWrite([q EXCEPT !.idle = 0])
  ELSE p

Fast(in) == in.turn \in {"fastLeft", "fastRight"}

\* What a turn of the knob edits on an awake panel
Edit(p, in) ==
  LET left == in.turn \in Lefts
  IN CASE p.scr = "Menu" ->
            IF left
            THEN IF p.average - Span < p.desTemp
                 THEN [p EXCEPT !.desTemp = @ - 1] ELSE p
            ELSE IF p.average + Span > p.desTemp
                 THEN [p EXCEPT !.desTemp = @ + 1] ELSE p
       [] p.scr = "Settings" ->
            [p EXCEPT !.sPos = IF left THEN IF @ > 1 THEN @ - 1 ELSE 8
                                       ELSE IF @ < 8 THEN @ + 1 ELSE 1]
       [] p.scr = "lowerB" ->
            [p EXCEPT !.lower = IF left THEN down(@, 0, Fast(in))
                                        ELSE up(@, LowTop, Fast(in))]
       [] OTHER ->
            [p EXCEPT !.upper = IF left THEN down(@, p.lower + Gap, Fast(in))
                                        ELSE up(@, Top, Fast(in))]

updateEncoder(p, in) ==
  IF in.turn = "none" THEN p
  ELSE LET q == IF in.turn # "miss" /\ p.back = p.upper THEN Edit(p, in) ELSE p
           r == [q EXCEPT !.idle = 0]
       IN IF r.scr = "Menu" THEN r ELSE lcdWrite(r)

\* menuUpdate() prints a set point that differs from lastDesTemp, over the
\* old one
menuUpdate(p) ==
  IF p.scr = "Menu" /\ p.desTemp # p.last
  THEN [p EXCEPT !.shown = PrintAt(@, p.desTemp)] ELSE p

---------------------------------------------------------------------------
\* setup(): the set point comes from EEPROM if it looks like one.
\* lastDesTemp is not set: it is 0 until the first pass ends.
Boot(saved, t, avg) ==
  LET point == IF 0 < saved /\ saved < MaxSaved THEN saved ELSE t + 1
  IN [scr |-> "Menu", sPos |-> 1, back |-> Upper0, lower |-> Lower0,
      upper |-> Upper0, idle |-> 0, backCheck |-> FALSE, unit |-> "C",
      degrees |-> t, temp |-> t, average |-> avg,
      desTemp |-> point, last |-> 0, shown |-> PrintAt(Blanks, point)]

Init ==
  /\ eeprom \in FirstSaved
  /\ \E t, avg \in Degrees : panel = Boot(eeprom, t, avg)
  /\ radioSet = FALSE
  /\ raced = FALSE

\* A pass that ends as p has changed the set point behind menuUpdate()'s back,
\* or an earlier one has and nothing has been printed since.  menuUpdate()
\* cannot see what a frame changed if the knob undoes it in the same pass,
\* nor, in the first pass, a set point that has become the 0 lastDesTemp
\* starts with.
Missed(p, in) ==
  \/ in.frame # NoFrame /\ in.turn \in Lefts \cup Rights
  \/ panel.last # panel.desTemp /\ p.desTemp = panel.last
  \/ raced /\ ~Printed(p)

SlipSavesLate(in) ==       \* slip: saves before the frame has been applied
  LET p0 == [panel EXCEPT !.idle = (@ + in.d) % IdleMod]
      p4 == updateButton(Sample(backControl(Receive(p0, in)), in), in)
      p6 == menuUpdate(updateEncoder(p4, in))
  IN /\ panel' = [p6 EXCEPT !.last = p6.desTemp]
     /\ eeprom' = IF Saves(p0) THEN p0.desTemp ELSE eeprom
     /\ radioSet' = (~Saves(p0)
                       /\ (radioSet \/ in.frame.kind \in {"point", "unit"}))
     /\ raced' = Missed(p6, in)

SlipEarlyLast(in) ==       \* slip: lastDesTemp is taken after the frame
  LET p1 == Receive([panel EXCEPT !.idle = (@ + in.d) % IdleMod], in)
      p2 == backControl([p1 EXCEPT !.last = p1.desTemp])
      p4 == updateButton(Sample(p2, in), in)
  IN /\ panel' = menuUpdate(updateEncoder(p4, in))
     /\ eeprom' = IF Saves(p1) THEN p1.desTemp ELSE eeprom
     /\ UNCHANGED <<radioSet, raced>>

\* One pass of loop()
Pass(in) ==
  LET p1 == Receive([panel EXCEPT !.idle = (@ + in.d) % IdleMod], in)
      p2 == backControl(p1)
      p3 == Sample(p2, in)
      p4 == updateButton(p3, in)
      p5 == updateEncoder(p4, in)
      p6 == menuUpdate(p5)
  IN /\ panel' = [p6 EXCEPT !.last = p6.desTemp]
     /\ eeprom' = IF Saves(p1) THEN p1.desTemp ELSE eeprom
     /\ radioSet' = (~Saves(p1)
                       /\ (radioSet \/ in.frame.kind \in {"point", "unit"}))
     /\ raced' = Missed(p6, in)

LoopPass == \E in \in Inputs : Pass(in)

\* Loss of power: only the EEPROM survives
Restart ==
  /\ \E t, avg \in Degrees : panel' = Boot(eeprom, t, avg)
  /\ radioSet' = FALSE
  /\ raced' = FALSE
  /\ UNCHANGED eeprom

Next == LoopPass \/ Restart

Spec     == Init /\ [][Next]_vars
LiveSpec == Spec /\ WF_vars(LoopPass)

---------------------------------------------------------------------------
\* The types of the panel.
PanelType ==
  [scr : Screens, sPos : 1 .. 8, back : 0 .. Top, lower : 0 .. LowTop,
   upper : 0 .. Top, idle : 0 .. IdleMod - 1, backCheck : BOOLEAN,
   unit : {"C", "F"}, degrees : Degrees, temp : Int, average : Int,
   desTemp : Int, last : Int, shown : Int \X Int \X Int]

\* Every global keeps its type; what is not a matter of types here is that
\* the three levels stay within what analogWrite() takes, although lowerBack
\* and upperBack may cross and down() then raises upperBack instead.
TypeOK ==
  /\ panel \in PanelType
  /\ eeprom \in Int
  /\ radioSet \in BOOLEAN
  /\ raced \in BOOLEAN

\* A panel that has gone dark has the set point in EEPROM, unless a radio
\* frame has changed it since: backControl() saves on the first dark pass
\* only, so whatever changes desTemp later must first wake the panel.
SleepSaves ==
  Idle(panel) /\ ~panel.backCheck => eeprom = panel.desTemp \/ radioSet

\* On the main screen the set point in force has been printed: its columns
\* hold its digits, although three handlers print it at different moments
\* and menuUpdate() sees only the change over a whole pass.  It says nothing
\* of a column the number does not reach, where a digit of a longer one may
\* be left (9 after 10 reads 90).  The changes menuUpdate() cannot see, named
\* at Missed, are the exception until the next print.
ScreenTrue == panel.scr = "Menu" /\ ~raced => Printed(panel)

\* A panel that has gone dark has left the settings: the press that wakes it
\* finds the main screen, whatever screen it was left on.
DarkIsMenu == Idle(panel) /\ ~panel.backCheck => panel.scr = "Menu"

\* A panel left alone is dim after at most Top passes: backControl() steps
\* the level once in a pass, and lowerBack is where it stops.
Dims ==
  Idle(panel) => \/ panel.back <= panel.lower
                 \/ panel.idle - IdleLimit <= (Top - panel.back) * MaxPass

\* The knob and the button, ignored while the level is on its way to
\* upperBack, get a hearing again, also after upperBack itself was lowered
\* under the present level, unless the panel has gone dark in between or
\* the knob itself keeps moving upperBack.
InputRegained ==
  \/ []<>(panel.back = panel.upper \/ ~panel.backCheck)
  \/ []<><<panel.upper' # panel.upper>>_vars
===========================================================================
