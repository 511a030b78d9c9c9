----------------------------- MODULE Exchange -----------------------------
(***************************************************************************)
(* The two waits of a `request`, with their clocks: baseEthernet prints    *)
(* the line and waits 1100 ms for an answer (waitSerial()); baseRF24 reads *)
(* it, sends the frame and waits 1000 ms for the device's (waitRF24()).    *)
(* HomeNet lets both time out whenever they like; here they do when their  *)
(* code says so, on a millis() of their own that wraps.                    *)
(*                                                                         *)
(* The durations are bounds and the steps may be faster.  Devices answer   *)
(* within AnswerTime or not at all, and report only when asked.            *)
(***************************************************************************)
EXTENDS Integers, Sequences

CONSTANTS
  EtherWait,   \* waitSerial(1100)
  RadioWait,   \* waitRF24(1000)
  LineTime,    \* of a request on the serial line, at 9600 baud
  InfoTime,    \* of the values of a device
  NoneTime,    \* of "none"
  SendTime,    \* of sendRF24()
  AnswerTime,  \* of a device
  ClockMod,    \* millis() wraps                             (2^32)
  Starts,      \* what the clocks may show at first
  MaxTime,     \* bound on the time of a behaviour
  MaxAsks      \* bound on the requests

Boards == {"ether", "radio"}

ASSUME ExchangeTimes ==
  /\ {EtherWait, RadioWait, LineTime, InfoTime, NoneTime, SendTime, AnswerTime,
      MaxTime, MaxAsks} \subseteq Nat
  /\ ClockMod \in Nat
  /\ EtherWait + 1 < ClockMod
  /\ RadioWait + 1 < ClockMod
  /\ Starts \subseteq 0 .. ClockMod - 1

\* What the two numbers of the code have to leave room for
ASSUME WaitsFit ==
  /\ LineTime + SendTime + RadioWait + 1 + NoneTime <= EtherWait
  /\ LineTime + SendTime + AnswerTime + InfoTime <= EtherWait

VARIABLES
  now,        \* the time
  start,      \* of each board: its clock when now was 0
  clock,      \* of each board: its millis()
  began,      \* of each board: its responseTime
  since,      \* of each board: the time of that
  ether,      \* where baseEthernet is: "idle" or "waiting"
  radio,      \* and baseRF24: "idle", "sending" or "listening"
  asks,       \* requests so far
  lineUp,     \* serial line to baseRF24: when each line is there at the latest
  lineDown,   \* serial line to baseEthernet, the same
  sendBy      \* when sendRF24() ends at the latest

vars == <<now, start, clock, began, since, ether, radio, asks, lineUp, lineDown, sendBy>>
clocks == <<now, start, clock>>

Init ==
  /\ now = 0
  /\ start \in [Boards -> Starts]
  /\ clock = start
  /\ began = start
  /\ since = [b \in Boards |-> 0]
  /\ ether = "idle"
  /\ radio = "idle"
  /\ asks = 0
  /\ lineUp = <<>>
  /\ lineDown = <<>>
  /\ sendBy = 0

---------------------------------------------------------------------------
Wait == [ether |-> EtherWait, radio |-> RadioWait]

\* responseTime + wait: an unsigned 32-bit sum
Deadline(b) == (began[b] + Wait[b]) % ClockMod

SlipLater(b) == Deadline(b) + 1 < clock[b]    \* slip: one tick too late

\* responseTime + wait < millis()
TimedOut(b) == Deadline(b) < clock[b]

\* responseTime = millis()
BeginWait(b) ==
  /\ began' = [began EXCEPT ![b] = clock[b]]
  /\ since' = [since EXCEPT ![b] = now]

\* println(): a line is there at the latest when it has been transmitted
\* after the one before it
Println(line, time) ==
  Append(line, time + IF line # <<>> /\ line[Len(line)] > now THEN line[Len(line)] ELSE now)

---------------------------------------------------------------------------
(***************************************************************************)
(* baseEthernet                                                            *)
(***************************************************************************)
\* A client's request: the line goes out and the wait begins
Ask ==
  /\ ether = "idle"
  /\ asks < MaxAsks
  /\ asks' = asks + 1
  /\ ether' = "waiting"
  /\ lineUp' = Println(lineUp, LineTime)
  /\ BeginWait("ether")
  /\ UNCHANGED <<clocks, radio, lineDown, sendBy>>

\* serial() completes a line: inside waitSerial() it ends the wait
TakeLine ==
  /\ lineDown # <<>>
  /\ lineDown' = Tail(lineDown)
  /\ ether' = "idle"
  /\ UNCHANGED <<clocks, began, since, radio, asks, lineUp, sendBy>>

SlipImpatient ==         \* slip: gives up as soon as baseRF24 does
  /\ ether = "waiting"
  /\ (began["ether"] + RadioWait) % ClockMod < clock["ether"]
  /\ ether' = "idle"
  /\ UNCHANGED <<clocks, began, since, radio, asks, lineUp, lineDown, sendBy>>

GiveUp ==
  /\ ether = "waiting"
  /\ TimedOut("ether")
  /\ ether' = "idle"
  /\ UNCHANGED <<clocks, began, since, radio, asks, lineUp, lineDown, sendBy>>

---------------------------------------------------------------------------
(***************************************************************************)
(* baseRF24                                                                *)
(***************************************************************************)
RelayLine ==
  /\ radio = "idle"
  /\ lineUp # <<>>
  /\ lineUp' = Tail(lineUp)
  /\ radio' = "sending"
  /\ sendBy' = now + SendTime
  /\ UNCHANGED <<clocks, began, since, ether, asks, lineDown>>

\* sendRF24() returns: without an acknowledgement nothing is printed
SendEnds ==
  /\ radio = "sending"
  /\ \/ /\ radio' = "listening"
        /\ BeginWait("radio")
     \/ /\ radio' = "idle"
        /\ UNCHANGED <<began, since>>
  /\ UNCHANGED <<clocks, ether, asks, lineUp, lineDown, sendBy>>

\* The device's frame is there: it is printed
HearFrame ==
  /\ radio = "listening"
  /\ now <= since["radio"] + AnswerTime
  /\ radio' = "idle"
  /\ lineDown' = Println(lineDown, InfoTime)
  /\ UNCHANGED <<clocks, began, since, ether, asks, lineUp, sendBy>>

ListenTimeout ==
  /\ radio = "listening"
  /\ TimedOut("radio")
  /\ radio' = "idle"
  /\ lineDown' = Println(lineDown, NoneTime)
  /\ UNCHANGED <<clocks, began, since, ether, asks, lineUp, sendBy>>

---------------------------------------------------------------------------
\* Both loops are faster than a tick: what is due happens before time goes on
Due ==
  \/ ether = "waiting" /\ TimedOut("ether")
  \/ radio = "listening" /\ TimedOut("radio")
  \/ radio = "sending" /\ now >= sendBy
  \/ radio = "idle" /\ lineUp # <<>> /\ now >= Head(lineUp)
  \/ lineDown # <<>> /\ now >= Head(lineDown)

Following(c) == IF c = ClockMod - 1 THEN 0 ELSE c + 1

Tick ==
  /\ now < MaxTime
  /\ ~Due
  /\ now' = now + 1
  /\ clock' = [b \in Boards |-> Following(clock[b])]
  /\ UNCHANGED <<start, began, since, ether, radio, asks, lineUp, lineDown, sendBy>>

Next ==
  \/ Ask \/ TakeLine \/ GiveUp
  \/ RelayLine \/ SendEnds \/ HearFrame \/ ListenTimeout
  \/ Tick

Spec == Init /\ [][Next]_vars

---------------------------------------------------------------------------
Waiting(b) == IF b = "ether" THEN ether = "waiting" ELSE radio = "listening"

\* Neither clock has wrapped, nor will in a wait that begins now
BeforeWrap == \A b \in Boards : start[b] + now + EtherWait + RadioWait < ClockMod

\* The two waits are nested, whatever the delays: once baseEthernet has its
\* answer or has given up, nothing of the request is left, no line on its
\* way, no board waiting or sending.  So an answer that was heard is never
\* given up, and no "none" is taken for the answer to the next request
\* (baseEthernet.ino:70 against baseRF24.ino:73).
WaitsNest ==
  ether = "idle" /\ BeforeWrap =>
    radio = "idle" /\ lineUp = <<>> /\ lineDown = <<>>

\* A wait lasts one tick more than it was asked to at most, across the wrap
\* of millis() as well, unless its deadline is the last value of the clock,
\* which millis() never exceeds (baseEthernet.ino:188, baseRF24.ino:226).
WaitsBounded ==
  \A b \in Boards :
    Waiting(b) => \/ now <= since[b] + Wait[b] + 1
                  \/ Deadline(b) = ClockMod - 1
===========================================================================
