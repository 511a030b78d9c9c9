-------------------------- MODULE ExchangeProofs --------------------------
(***************************************************************************)
(* The two waits of a request, for every wait, clock and delay the         *)
(* assumptions of Exchange admit.                                          *)
(***************************************************************************)
EXTENDS Exchange, TLAPS

Moments == 0 .. ClockMod - 1

ExchangeType ==
  /\ now \in Nat
  /\ start \in [Boards -> Moments]
  /\ clock \in [Boards -> Moments]
  /\ began \in [Boards -> Moments]
  /\ since \in [Boards -> Nat]
  /\ ether \in {"idle", "waiting"}
  /\ radio \in {"idle", "sending", "listening"}
  /\ asks \in Nat
  /\ lineUp \in Seq(Nat)
  /\ lineDown \in Seq(Nat)
  /\ sendBy \in Nat

\* The waits of the code are shorter than a turn of the clock.
LEMMA WaitType ==
  /\ Wait \in [Boards -> Nat]
  /\ \A b \in Boards : Wait[b] + 1 < ClockMod
BY ExchangeTimes DEF Wait, Boards

LEMMA DelayType ==
  /\ EtherWait \in Nat /\ RadioWait \in Nat
  /\ LineTime \in Nat /\ InfoTime \in Nat /\ NoneTime \in Nat
  /\ SendTime \in Nat /\ AnswerTime \in Nat
  /\ MaxTime \in Nat /\ MaxAsks \in Nat /\ ClockMod \in Nat
BY ExchangeTimes

\* A sum of a moment and a wait wraps once at most.
LEMMA SumWraps ==
  ASSUME NEW a \in Moments, NEW w \in Nat, w < ClockMod
  PROVE  (a + w) % ClockMod = IF a + w < ClockMod THEN a + w ELSE a + w - ClockMod
<1>1. ClockMod \in Nat /\ ClockMod > 0
  BY ExchangeTimes
<1>2. CASE a + w < ClockMod
  BY <1>1, <1>2 DEF Moments
<1>3. CASE a + w >= ClockMod
  <2>1. a + w - ClockMod \in Moments
    BY <1>1, <1>3 DEF Moments
  <2>2. (a + w - ClockMod) % ClockMod = a + w - ClockMod
    BY <1>1, <2>1 DEF Moments
  <2>3. (a + w) % ClockMod = (a + w - ClockMod) % ClockMod
    BY <1>1, <1>3 DEF Moments
  <2> QED
    BY <1>3, <2>2, <2>3, <1>1 DEF Moments
<1> QED
  BY <1>1, <1>2, <1>3 DEF Moments

\* The lines: one at a time, or none.
LEMMA OneLine ==
  ASSUME NEW t \in Nat, NEW d \in Nat
  PROVE  /\ Head(<<t>>) = t
         /\ Tail(<<t>>) = <<>>
         /\ <<t>> # <<>>
         /\ Println(<<>>, d) = <<d + now>>
BY DEF Println

LEMMA LineType ==
  ASSUME NEW line \in Seq(Nat), NEW d \in Nat, now \in Nat
  PROVE  /\ Println(line, d) \in Seq(Nat)
         /\ line # <<>> => Tail(line) \in Seq(Nat)
<1>1. CASE line = <<>>
  BY <1>1 DEF Println
<1>2. CASE line # <<>>
  <2>1. Len(line) \in 1 .. Len(line)
    BY <1>2
  <2>2. line[Len(line)] \in Nat
    BY <2>1
  <2> QED
    BY <1>2, <2>2 DEF Println
<1> QED
  BY <1>1, <1>2

THEOREM TypeCorrect == Spec => []ExchangeType
<1>1. Init => ExchangeType
  <2>1. Init => start \in [Boards -> Moments]
    BY ExchangeTimes DEF Init, Moments
  <2> QED
    BY <2>1 DEF Init, ExchangeType
<1>2. ExchangeType /\ [Next]_vars => ExchangeType'
  <2> SUFFICES ASSUME ExchangeType, [Next]_vars PROVE ExchangeType'
    OBVIOUS
  <2> USE DelayType
  <2>1. CASE Ask
    <3>1. lineUp' \in Seq(Nat)
      BY <2>1, LineType DEF Ask, ExchangeType
    <3>2. asks' \in Nat /\ ether' = "waiting"
      BY <2>1 DEF Ask, ExchangeType
    <3>3. began' \in [Boards -> Moments] /\ since' \in [Boards -> Nat]
      BY <2>1 DEF Ask, ExchangeType, BeginWait
    <3> QED
      BY <2>1, <3>1, <3>2, <3>3 DEF Ask, ExchangeType, clocks
  <2>2. CASE TakeLine
    BY <2>2, LineType DEF TakeLine, ExchangeType, clocks
  <2>3. CASE GiveUp
    BY <2>3 DEF GiveUp, ExchangeType, clocks
  <2>4. CASE RelayLine
    <3>1. lineUp' \in Seq(Nat) /\ sendBy' \in Nat
      BY <2>4, LineType DEF RelayLine, ExchangeType
    <3> QED
      BY <2>4, <3>1 DEF RelayLine, ExchangeType, clocks
  <2>5. CASE SendEnds
    BY <2>5 DEF SendEnds, ExchangeType, BeginWait, clocks
  <2>6. CASE HearFrame
    BY <2>6, LineType DEF HearFrame, ExchangeType, clocks
  <2>7. CASE ListenTimeout
    BY <2>7, LineType DEF ListenTimeout, ExchangeType, clocks
  <2>8. CASE Tick
    <3>1. \A c \in Moments : Following(c) \in Moments
      BY DEF Following, Moments
    <3>2. clock' \in [Boards -> Moments]
      BY <2>8, <3>1 DEF Tick, ExchangeType
    <3> QED
      BY <2>8, <3>2 DEF Tick, ExchangeType
  <2>9. CASE UNCHANGED vars
    BY <2>9 DEF vars, ExchangeType
  <2> QED
    BY <2>1, <2>2, <2>3, <2>4, <2>5, <2>6, <2>7, <2>8, <2>9 DEF Next
<1> QED
  BY <1>1, <1>2, PTL DEF Spec

---------------------------------------------------------------------------
(***************************************************************************)
(* WaitsBounded.  A wait knows how long it has lasted: its clock stands    *)
(* that far after responseTime, around the wrap or not.                    *)
(***************************************************************************)
Elapsed(b) == now - since[b]

InStep(b) ==
  /\ since[b] <= now
  /\ Elapsed(b) <= Wait[b] + 1
  /\ \/ clock[b] = began[b] + Elapsed(b)
     \/ clock[b] = began[b] + Elapsed(b) - ClockMod

WaitsInStep == \A b \in Boards : Waiting(b) => InStep(b) \/ Deadline(b) = ClockMod - 1

\* A wait one tick past its length has timed out.
LEMMA TimedOutThen ==
  ASSUME ExchangeType, NEW b \in Boards, InStep(b),
         Deadline(b) # ClockMod - 1,
         ~ TimedOut(b)
  PROVE  Elapsed(b) <= Wait[b]
<1> DEFINE W == Wait[b]
           a == began[b]
           e == Elapsed(b)
<1>1. /\ a \in Moments /\ clock[b] \in Moments
      /\ W \in Nat /\ W + 1 < ClockMod
      /\ e \in Nat
      /\ ClockMod \in Nat
  <2>1. a \in Moments /\ clock[b] \in Moments /\ since[b] \in Nat /\ now \in Nat
    BY DEF ExchangeType
  <2>2. e \in Nat
    BY <2>1 DEF InStep, Elapsed
  <2> QED
    BY <2>1, <2>2, WaitType, DelayType
<1>2. Deadline(b) = IF a + W < ClockMod THEN a + W ELSE a + W - ClockMod
  BY <1>1, SumWraps DEF Deadline
<1>3. SUFFICES ASSUME e = W + 1 PROVE FALSE
  BY <1>1 DEF InStep
<1>4. clock[b] = a + W + 1 \/ clock[b] = a + W + 1 - ClockMod
  BY <1>1, <1>3 DEF InStep, Moments
<1>5. clock[b] <= Deadline(b)
  BY <1>1, <1>2 DEF TimedOut, Moments
<1> HIDE DEF W, a, e
<1> QED
  BY <1>1, <1>2, <1>4, <1>5 DEF Moments

LEMMA TickInStep ==
  ASSUME ExchangeType, NEW b \in Boards, Waiting(b), InStep(b),
         Deadline(b) # ClockMod - 1, Tick
  PROVE  InStep(b)'
<1>1. ~ TimedOut(b)
  BY DEF Tick, Due, Waiting, Boards
<1>2. Elapsed(b) <= Wait[b]
  BY <1>1, TimedOutThen
<1>3. /\ now' = now + 1
      /\ clock'[b] = Following(clock[b])
      /\ UNCHANGED <<began, since>>
  BY DEF Tick
<1>4. clock[b] \in Moments /\ began[b] \in Moments /\ since[b] \in Nat /\ now \in Nat
  BY DEF ExchangeType
<1>5. Wait[b] \in Nat /\ Wait[b] + 1 < ClockMod /\ ClockMod \in Nat
  BY WaitType, ExchangeTimes
<1>6. Elapsed(b)' = Elapsed(b) + 1
  BY <1>3, <1>4 DEF Elapsed
<1> QED
  BY <1>2, <1>3, <1>4, <1>5, <1>6 DEF InStep, Following, Moments, Elapsed

\* Both boards wait for their time and not much more, whatever the clocks
\* show when they begin (baseEthernet.ino:186-188, baseRF24.ino:225-226).
THEOREM BothWaitsBounded == Spec => []WaitsBounded
<1>1. Init => WaitsInStep
  BY DEF Init, WaitsInStep, Waiting
<1>2. ExchangeType /\ WaitsInStep /\ [Next]_vars => WaitsInStep'
  <2> SUFFICES ASSUME ExchangeType, WaitsInStep, [Next]_vars, NEW b \in Boards, Waiting(b)'
               PROVE  InStep(b)' \/ Deadline(b)' = ClockMod - 1
    BY DEF WaitsInStep
  <2>1. CASE UNCHANGED clocks /\ Waiting(b) /\ UNCHANGED <<began[b], since[b]>>
    BY <2>1 DEF clocks, WaitsInStep, InStep, Elapsed, Deadline
  <2>2. CASE UNCHANGED clocks /\ began'[b] = clock[b] /\ since'[b] = now
    BY <2>2, WaitType DEF clocks, InStep, Elapsed, ExchangeType, Moments
  <2>3. CASE Tick
    <3>1. Waiting(b) /\ UNCHANGED <<began, since>>
      BY <2>3 DEF Tick, Waiting
    <3> QED
      BY <2>3, <3>1, TickInStep DEF WaitsInStep, Deadline
  <2>4. CASE Ask
    BY <2>4, <2>1, <2>2 DEF Ask, BeginWait, Waiting, Boards, ExchangeType
  <2>5. CASE SendEnds
    BY <2>5, <2>1, <2>2 DEF SendEnds, BeginWait, Waiting, Boards, ExchangeType
  <2>6. CASE TakeLine \/ GiveUp \/ RelayLine \/ HearFrame \/ ListenTimeout
    BY <2>6, <2>1 DEF TakeLine, GiveUp, RelayLine, HearFrame, ListenTimeout, Waiting, Boards
  <2>7. CASE UNCHANGED vars
    BY <2>7, <2>1 DEF vars, clocks, Waiting
  <2> QED
    BY <2>3, <2>4, <2>5, <2>6, <2>7 DEF Next
<1>3. ExchangeType /\ WaitsInStep => WaitsBounded
  BY WaitType DEF WaitsInStep, InStep, Elapsed, WaitsBounded, ExchangeType
<1> QED
  BY <1>1, <1>2, <1>3, TypeCorrect, PTL DEF Spec

---------------------------------------------------------------------------
(***************************************************************************)
(* WaitsNest.  While baseEthernet waits, the request is in one place, and  *)
(* it got there early enough for all that may follow.                      *)
(***************************************************************************)
Quiet == radio = "idle" /\ lineUp = <<>> /\ lineDown = <<>>

Asked == since["ether"]

OnItsWay ==
  /\ radio = "idle" /\ lineDown = <<>>
  /\ \E t \in Nat : lineUp = <<t>> /\ now <= t /\ t <= Asked + LineTime

BeingSent ==
  /\ radio = "sending" /\ lineUp = <<>> /\ lineDown = <<>>
  /\ now <= sendBy
  /\ sendBy <= Asked + LineTime + SendTime

Listened ==
  /\ radio = "listening" /\ lineUp = <<>> /\ lineDown = <<>>
  /\ now <= since["radio"] + RadioWait + 1
  /\ since["radio"] <= Asked + LineTime + SendTime

Answered ==
  /\ radio = "idle" /\ lineUp = <<>>
  /\ \E t \in Nat : lineDown = <<t>> /\ now <= t /\ t <= Asked + EtherWait

OneThing == OnItsWay \/ BeingSent \/ Listened \/ Answered \/ Quiet

Nested == BeforeWrap => IF ether = "idle" THEN Quiet ELSE OneThing

\* Before the wrap a clock shows the time since its start.
ClocksExact ==
  \A b \in Boards :
    /\ start[b] + now < ClockMod => clock[b] = start[b] + now
    /\ since[b] <= now
    /\ start[b] + since[b] < ClockMod => began[b] = start[b] + since[b]

LEMMA ClocksRunExact == Spec => []ClocksExact
<1>1. Init => ClocksExact
  <2>1. Init => start \in [Boards -> Moments]
    BY ExchangeTimes DEF Init, Moments
  <2> QED
    BY <2>1, DelayType DEF Init, ClocksExact, Moments
<1>2. ExchangeType /\ ClocksExact /\ [Next]_vars => ClocksExact'
  <2> SUFFICES ASSUME ExchangeType, ClocksExact, [Next]_vars, NEW b \in Boards
               PROVE  /\ start'[b] + now' < ClockMod => clock'[b] = start'[b] + now'
                      /\ since'[b] <= now'
                      /\ start'[b] + since'[b] < ClockMod => began'[b] = start'[b] + since'[b]
    BY DEF ClocksExact
  <2> USE DelayType
  <2>0. /\ start[b] \in Moments /\ clock[b] \in Moments /\ began[b] \in Moments
        /\ since[b] \in Nat /\ now \in Nat
    BY DEF ExchangeType
  <2>1. CASE UNCHANGED clocks /\ UNCHANGED <<began[b], since[b]>>
    BY <2>0, <2>1 DEF clocks, ClocksExact
  <2>2. CASE UNCHANGED clocks /\ began'[b] = clock[b] /\ since'[b] = now
    BY <2>0, <2>2 DEF clocks, ClocksExact
  <2>3. CASE Tick
    <3>1. now' = now + 1 /\ clock'[b] = Following(clock[b]) /\ UNCHANGED <<start, began, since>>
      BY <2>3 DEF Tick
    <3> QED
      BY <2>0, <3>1 DEF ClocksExact, Following, Moments
  <2>4. CASE Ask
    BY <2>4, <2>1, <2>2 DEF Ask, BeginWait, Boards, ExchangeType
  <2>5. CASE SendEnds
    BY <2>5, <2>1, <2>2 DEF SendEnds, BeginWait, Boards, ExchangeType
  <2>6. CASE TakeLine \/ GiveUp \/ RelayLine \/ HearFrame \/ ListenTimeout
    BY <2>6, <2>1 DEF TakeLine, GiveUp, RelayLine, HearFrame, ListenTimeout
  <2>7. CASE UNCHANGED vars
    BY <2>7, <2>1 DEF vars, clocks
  <2> QED
    BY <2>3, <2>4, <2>5, <2>6, <2>7 DEF Next
<1> QED
  BY <1>1, <1>2, TypeCorrect, PTL DEF Spec

\* Before the wrap a wait times out when it says.
LEMMA TimedOutExact ==
  ASSUME ExchangeType, ClocksExact, BeforeWrap, NEW b \in Boards
  PROVE  TimedOut(b) <=> since[b] + Wait[b] < now
<1>1. /\ start[b] \in Moments /\ clock[b] \in Moments /\ began[b] \in Moments
      /\ since[b] \in Nat /\ now \in Nat
  BY DEF ExchangeType
<1>2. Wait[b] \in Nat /\ Wait[b] <= EtherWait + RadioWait
  BY DelayType DEF Wait, Boards
<1>3. /\ start[b] + now + Wait[b] < ClockMod
      /\ clock[b] = start[b] + now
      /\ began[b] = start[b] + since[b]
      /\ since[b] <= now
  BY <1>1, <1>2, DelayType DEF ClocksExact, BeforeWrap, Moments
<1>4. (began[b] + Wait[b]) % ClockMod = began[b] + Wait[b]
  <2>1. Wait[b] < ClockMod /\ began[b] + Wait[b] < ClockMod
    BY <1>1, <1>2, <1>3, DelayType DEF Moments
  <2> QED
    BY <1>1, <1>2, <2>1, SumWraps
<1> QED
  BY <1>1, <1>2, <1>3, <1>4, DelayType DEF TimedOut, Deadline, Moments

\* What is before the wrap after a step was before it already.
LEMMA WrapIsAhead ==
  ASSUME ExchangeType, [Next]_vars, BeforeWrap'
  PROVE  BeforeWrap
<1>1. start' = start /\ (now' = now \/ now' = now + 1)
  BY DEF Next, vars, clocks, Ask, TakeLine, GiveUp, RelayLine, SendEnds,
         HearFrame, ListenTimeout, Tick
<1>2. now \in Nat /\ \A b \in Boards : start[b] \in Moments
  BY DEF ExchangeType
<1> QED
  BY <1>1, <1>2, DelayType DEF BeforeWrap, Moments

\* A clock that is not due has time before what is on its way is there.
LEMMA NestedTick ==
  ASSUME ExchangeType, ClocksExact, BeforeWrap, Nested, Tick
  PROVE  Nested'
<1>1. ~ Due /\ now' = now + 1 /\ UNCHANGED <<since, ether, radio, lineUp, lineDown, sendBy>>
  BY DEF Tick
<1>2. /\ now \in Nat /\ sendBy \in Nat
      /\ since["ether"] \in Nat /\ since["radio"] \in Nat
      /\ "radio" \in Boards
      /\ ether \in {"idle", "waiting"}
  BY DEF ExchangeType, Boards
<1>3. CASE ether = "idle"
  BY <1>1, <1>3 DEF Nested, Quiet
<1>4. CASE ether = "waiting"
  <2>1. OneThing
    BY <1>4 DEF Nested
  <2>2. CASE OnItsWay
    <3>1. PICK t \in Nat : lineUp = <<t>> /\ now <= t /\ t <= Asked + LineTime
      BY <2>2 DEF OnItsWay
    <3>2. now < t
      BY <1>1, <1>2, <2>2, <3>1, OneLine DEF Due, OnItsWay
    <3>3. OnItsWay'
      BY <1>1, <1>2, <2>2, <3>1, <3>2 DEF OnItsWay, Asked
    <3> QED
      BY <1>1, <1>4, <3>3 DEF Nested, OneThing
  <2>3. CASE BeingSent
    <3>1. BeingSent'
      BY <1>1, <1>2, <2>3 DEF Due, BeingSent, Asked
    <3> QED
      BY <1>1, <1>4, <3>1 DEF Nested, OneThing
  <2>4. CASE Listened
    <3>1. ~ TimedOut("radio")
      BY <1>1, <2>4 DEF Due, Listened
    <3>2. Wait["radio"] = RadioWait
      BY DEF Wait
    <3>3. now <= since["radio"] + RadioWait
      BY <1>2, <3>1, <3>2, TimedOutExact, DelayType
    <3>4. Listened'
      BY <1>1, <1>2, <2>4, <3>3, DelayType DEF Listened, Asked
    <3> QED
      BY <1>1, <1>4, <3>4 DEF Nested, OneThing
  <2>5. CASE Answered
    <3>1. PICK t \in Nat : lineDown = <<t>> /\ now <= t /\ t <= Asked + EtherWait
      BY <2>5 DEF Answered
    <3>2. now < t
      BY <1>1, <1>2, <2>5, <3>1, OneLine DEF Due, Answered
    <3>3. Answered'
      BY <1>1, <1>2, <2>5, <3>1, <3>2 DEF Answered, Asked
    <3> QED
      BY <1>1, <1>4, <3>3 DEF Nested, OneThing
  <2>6. CASE Quiet
    BY <1>1, <1>4, <2>6 DEF Nested, OneThing, Quiet
  <2> QED
    BY <2>1, <2>2, <2>3, <2>4, <2>5, <2>6 DEF OneThing
<1> QED
  BY <1>2, <1>3, <1>4

\* By the time baseEthernet gives up there is nothing left to come.
LEMMA NothingLeft ==
  ASSUME ExchangeType, ClocksExact, BeforeWrap, OneThing, TimedOut("ether")
  PROVE  Quiet
<1>1. /\ now \in Nat /\ sendBy \in Nat
      /\ since["ether"] \in Nat /\ since["radio"] \in Nat
  BY DEF ExchangeType, Boards
<1>2. Asked + EtherWait < now
  <2>1. Wait["ether"] = EtherWait /\ "ether" \in Boards
    BY DEF Wait, Boards
  <2> QED
    BY <2>1, TimedOutExact DEF Asked
<1>3. /\ LineTime + SendTime + RadioWait + 1 + NoneTime <= EtherWait
      /\ LineTime + SendTime + AnswerTime + InfoTime <= EtherWait
  BY WaitsFit
<1>4. ~ OnItsWay /\ ~ BeingSent /\ ~ Listened /\ ~ Answered
  BY <1>1, <1>2, <1>3, DelayType DEF OnItsWay, BeingSent, Listened, Answered, Asked
<1> QED
  BY <1>4 DEF OneThing

\* The waits are nested with every number of milliseconds that leaves room
\* for the line, the sending and the answer (baseEthernet.ino:70 and
\* baseRF24.ino:73: 1100 ms around 1000 ms).
THEOREM TheWaitsNest == Spec => []WaitsNest
<1>1. Init => Nested
  BY DEF Init, Nested, Quiet
<1>2. ExchangeType /\ ClocksExact /\ Nested /\ [Next]_vars => Nested'
  <2> SUFFICES ASSUME ExchangeType, ClocksExact, Nested, [Next]_vars, BeforeWrap'
               PROVE  Nested'
    BY DEF Nested
  <2> USE DelayType
  <2>0. BeforeWrap
    BY WrapIsAhead
  <2>1. /\ now \in Nat /\ sendBy \in Nat
        /\ since["ether"] \in Nat /\ since["radio"] \in Nat
        /\ DOMAIN since = {"ether", "radio"}
        /\ ether \in {"idle", "waiting"}
    BY DEF ExchangeType, Boards
  <2>2. CASE Ask
    <3>1. Quiet
      BY <2>0, <2>2 DEF Ask, Nested
    <3>2. lineUp' = <<LineTime + now>> /\ UNCHANGED <<now, radio, lineDown>>
      BY <2>2, <3>1, OneLine DEF Ask, Quiet, clocks
    <3>3. since'["ether"] = now /\ ether' = "waiting"
      BY <2>1, <2>2 DEF Ask, BeginWait
    <3>4. OnItsWay'
      BY <2>1, <3>1, <3>2, <3>3 DEF OnItsWay, Quiet, Asked
    <3> QED
      BY <3>3, <3>4 DEF Nested, OneThing
  <2>3. CASE TakeLine
    <3>1. ether # "idle" /\ OneThing /\ lineDown # <<>>
      BY <2>0, <2>3 DEF TakeLine, Nested, Quiet
    <3>2. Answered
      BY <3>1 DEF OneThing, OnItsWay, BeingSent, Listened, Quiet
    <3>3. PICK t \in Nat : lineDown = <<t>>
      BY <3>2 DEF Answered
    <3>4. lineDown' = <<>>
      BY <2>3, <3>3, OneLine DEF TakeLine
    <3> QED
      BY <2>3, <3>2, <3>4 DEF TakeLine, Nested, Quiet, Answered
  <2>4. CASE GiveUp
    <3>1. Quiet
      BY <2>0, <2>4, NothingLeft DEF GiveUp, Nested
    <3> QED
      BY <2>4, <3>1 DEF GiveUp, Nested, Quiet
  <2>5. CASE RelayLine
    <3>1. ether # "idle" /\ OneThing /\ lineUp # <<>>
      BY <2>0, <2>5 DEF RelayLine, Nested, Quiet
    <3>2. OnItsWay
      BY <3>1 DEF OneThing, BeingSent, Listened, Answered, Quiet
    <3>3. PICK t \in Nat : lineUp = <<t>> /\ now <= t /\ t <= Asked + LineTime
      BY <3>2 DEF OnItsWay
    <3>4. lineUp' = <<>> /\ UNCHANGED <<now, since, ether, lineDown>>
      BY <2>5, <3>3, OneLine DEF RelayLine, clocks
    <3>5. BeingSent'
      BY <2>1, <2>5, <3>2, <3>3, <3>4 DEF RelayLine, BeingSent, OnItsWay, Asked
    <3> QED
      BY <3>1, <3>4, <3>5 DEF Nested, OneThing
  <2>6. CASE SendEnds
    <3>1. ether # "idle" /\ OneThing /\ radio = "sending"
      BY <2>0, <2>6 DEF SendEnds, Nested, Quiet
    <3>2. BeingSent
      BY <3>1 DEF OneThing, OnItsWay, Listened, Answered, Quiet
    <3>3. UNCHANGED <<now, ether, lineUp, lineDown>>
      BY <2>6 DEF SendEnds, clocks
    <3>4. CASE radio' = "listening" /\ BeginWait("radio")
      <4>1. since'["radio"] = now /\ since'["ether"] = since["ether"]
        BY <2>1, <3>4 DEF BeginWait
      <4>2. Listened'
        BY <2>1, <3>2, <3>3, <3>4, <4>1 DEF Listened, BeingSent, Asked
      <4> QED
        BY <3>1, <3>3, <4>2 DEF Nested, OneThing
    <3>5. CASE radio' = "idle"
      BY <3>1, <3>2, <3>3, <3>5 DEF Nested, OneThing, Quiet, BeingSent
    <3> QED
      BY <2>6, <3>4, <3>5 DEF SendEnds
  <2>7. CASE HearFrame \/ ListenTimeout
    <3>1. ether # "idle" /\ OneThing /\ radio = "listening"
      BY <2>0, <2>7 DEF HearFrame, ListenTimeout, Nested, Quiet
    <3>2. Listened
      BY <3>1 DEF OneThing, OnItsWay, BeingSent, Answered, Quiet
    <3>3. UNCHANGED <<now, since, ether, lineUp>> /\ radio' = "idle"
      BY <2>7 DEF HearFrame, ListenTimeout, clocks
    <3>4. /\ LineTime + SendTime + RadioWait + 1 + NoneTime <= EtherWait
          /\ LineTime + SendTime + AnswerTime + InfoTime <= EtherWait
      BY WaitsFit
    <3>5. CASE HearFrame
      <4>1. lineDown' = <<InfoTime + now>>
        BY <3>2, <3>5, OneLine DEF HearFrame, Listened
      <4>2. now <= since["radio"] + AnswerTime
        BY <3>5 DEF HearFrame
      <4>3. InfoTime + now <= Asked + EtherWait
        BY <2>1, <3>2, <3>4, <4>2 DEF Listened, Asked
      <4>4. Answered'
        BY <2>1, <3>2, <3>3, <4>1, <4>3 DEF Answered, Listened, Asked
      <4> QED
        BY <3>1, <3>3, <4>4 DEF Nested, OneThing
    <3>6. CASE ListenTimeout
      <4>1. lineDown' = <<NoneTime + now>>
        BY <3>2, <3>6, OneLine DEF ListenTimeout, Listened
      <4>2. NoneTime + now <= Asked + EtherWait
        BY <2>1, <3>2, <3>4 DEF Listened, Asked
      <4>3. Answered'
        BY <2>1, <3>2, <3>3, <4>1, <4>2 DEF Answered, Listened, Asked
      <4> QED
        BY <3>1, <3>3, <4>3 DEF Nested, OneThing
    <3> QED
      BY <2>7, <3>5, <3>6
  <2>8. CASE Tick
    BY <2>0, <2>8, NestedTick
  <2>9. CASE UNCHANGED vars
    BY <2>0, <2>9 DEF vars, Nested, OneThing, OnItsWay, BeingSent, Listened, Answered, Quiet, Asked
  <2> QED
    BY <2>2, <2>3, <2>4, <2>5, <2>6, <2>7, <2>8, <2>9 DEF Next
<1>3. Nested => WaitsNest
  BY DEF Nested, WaitsNest, Quiet
<1> QED
  BY <1>1, <1>2, <1>3, TypeCorrect, ClocksRunExact, PTL DEF Spec
===========================================================================
