# Verification of the home automation sketches

TLA+ models of the boards in this repository and of the two libraries they communicate
through, TLC runs over small instances, and theorems checked by TLAPS for every value of
the constants.

## 1. The system

Four Arduino boards, each a single `loop()` that runs for ever.

```
 TCP clients <-> baseEthernet <=serial line, 9600 baud=> baseRF24 (node 00)
                                                          ~ radio, RF24Network ~
                                              thermostat (node 01)   flowRate (node 02)
```

| Part | State it keeps | Operations |
|---|---|---|
| `thermostat/thermostat.ino`, air-conditioner control | fan and compressor pins, `fanTime`, `acTimer`, `fanAuto`, `waitAfterOn`, `waitAfterOff` | `acController()` every 2 s of `millis()`; mode and hold times set by button or radio |
| same sketch, panel | screen, menu position, backlight level and its limits, set point, unit, EEPROM copy of the set point, running average | a radio `set`, `backControl()`, sampling, button, encoder, `menuUpdate()`, in this order in every pass |
| same sketch, radio side | last frame | apply a `set`, then `report()` after any frame; `report()` at the end of `setup()` |
| `flowRate/flowRate.ino` | `pulseCount` (interrupt), `oldTime`, `totalMilliLitres` | pulse interrupt, one-second window, answer to a `request` |
| `baseRF24/baseRF24.ino` | input line, last frame, RF24Network queue | relay a line as a frame, wait a second for the answer, print every `info` frame |
| `baseEthernet/baseEthernet.ino` | `storage` (a row per device), client sockets, input line | `set`, `request` (ask the device), `requestOld` (answer from `storage`) |
| `libraries/RF24Network` | `frame_queue`, `frag_queue`, hold flag; address, masks and pipes | `update()`, `enqueue()`, `read()`, the fragmenting `write()`, the choice of the next hop |
| `libraries/arduino_uip-master` | `uip_conns`, the slots of `UIPClient` with their packets | segments in, `uipclient_appcall()`, `UIPServer::available()`, `UIPClient::read()` |

The boards share nothing but messages. Between `baseEthernet` and `baseRF24` these are
lines of nine numbers, `type,device,valueType,v0..v5`, or the word `none`; on the radio
they are frames with the same content, which carry the sender in their header.

What is hard here, and where:

* **Time.** One `unsigned long` per device times every hold. The hold is
  `howLong * 1000` in 16-bit arithmetic (720 s becomes 64.64 s) and the deadline a
  32-bit sum, so everything changes meaning when `millis()` wraps after 49.7 days. The
  two waits of a request are nested by nothing but their lengths, 1100 and 1000 ms.
* **Asynchrony.** Reports come asked (answers) and unasked (after a `set`, at boot, late
  answers), over one queue and one serial line, to a board that may be waiting for
  another report.
* **Failure.** Frames and acknowledgements get lost, fragments repeat, TCP segments come
  twice or out of order, both waits may time out, clients reset, any board may lose
  power. Only the set point survives, in EEPROM.
* **Interrupts.** The flow pulses interleave with the window computation.
* **Order in a pass.** Six handlers of the thermostat work on the same globals, print at
  different moments and go by what an earlier one left.
* **Bounds.** A byte of pulses, 64 bytes of serial input, 154 bytes of frame queue,
  four sockets scanned in fixed order, five packets a socket from one pool.

`PROJECT.json` lists every component, modelled or not, and every hazard at its line.

What makes each component correct: the air-conditioner control protects the compressor
(rest, air over the coil) and serves the demand in time; the base boards never hang, file
every report under its device and in order, and obey commands once; the meter neither
invents nor loses water beyond its rounding; the panel shows and saves what the user set,
goes dark on its main screen and heeds its knob again; the queue of RF24Network delivers
each message whole, once and in order, and its routing reaches every node; the TCP side
hands each client's lines to the sketch whole and in order, and does not stay stopped.

## 2. Modules

| Module | Models | Correspondence |
|---|---|---|
| `AcController` | `acController()` and what it reads | `LoopPass` is one pass of `loop()` as the controller sees it: time moves, and if `Due` (line 235) the whole of `acController` runs, one disjunct per branch. `demand` is `shouldBe()`. `DemandChange`, `SetFanAuto`, `SetWaitOn`, `SetWaitOff` are the other inputs. `Hold`, `After` and `Millis` keep the widths of the code, as constants |
| `AcTimed` | adds the history its timing properties need | `Record` follows every step and constrains none; `ServeInv` is the invariant behind the service properties |
| `ThermostatPanel` | every other handler of the thermostat's `loop()` | each handler is a function from panel to panel (`Receive`, `backControl`, `Sample`, `updateButton`, `updateEncoder`, `menuUpdate`), `Pass` is their composition in the order of `loop()`, `Boot` is `setup()` |
| `HomeLinks` | serial lines and radio queues, device numbers, messages | a line or a frame is one item; a payload is its origin and serial number |
| `BaseEthernet` | `baseEthernet.ino` | `ServeSet`, `ServeRequest`, `ServeOld` are the branches of `loop()`; `waiting` is being inside `waitSerial(1100)`, left by `AnswerLine` or `GiveUp`; `StoreLine` is the `serial()` at the top of `loop()` |
| `BaseRF24` | `baseRF24.ino` | `RelayLine` is the first half of `loop()`, `listening` is being inside `waitRF24(1000)`, left by `HearFrame` or `ListenTimeout`; `HearFrame` is also the second half |
| `RadioDevices` | radio side of both devices | `ThermostatHears` applies or rejects a `set` and reports; `FlowHears` answers a `request` only |
| `HomeNet` | all four boards | one board moves at a time; `clean` and `baseline` are history |
| `HomePromise` | the abstract specification of the home: a table that follows its devices and may forget, a line of commands obeyed in order | `HomeNet` implements it (`HomeKeepsPromise`), by reading a row of `storage` as the number of its report |
| `Exchange` | the two waits of a `request`, with clocks | `TimedOut` is the comparison of `waitSerial()` and `waitRF24()`, on a `millis()` of each board that wraps; lines, sending and answer take at most their constants |
| `FlowMeter` | metering of `flowRate.ino` | the window statement by statement (`CloseWindow`, `Measure`, `OpenWindow`) with the interrupt (`pulseCounter`) and time (`Tick`) between any two |
| `NetQueue` | receiving side of an RF24Network node, and its senders | `Transmit` is one attempt of the fragmenting `write()`; `Update` enters `update()`, each `Drain` is a turn of its loop with the whole of `enqueue()`, `Read` is `read()`, `Write` the node's own `write()`, which starts the radio again |
| `MessageQueue` | the abstract specification: a queue of whole messages that may lose some | `NetQueue` implements it (`QueueOfMessages`), by reading a stored message as the one it is all fragments of |
| `NetAddress` | octal addresses, masks, parent, pipes, next hop, radio address | one operator per routine of the library, on integers |
| `NetRouting` | a frame on its way through a tree of nodes | `Forward` sends to what `logicalToPhysicalAddress` and `pipe_address` say; whoever listens to that address has it next |
| `UipStreams` | the TCP receiving side under `server.available()` | `appcall` is `uipclient_appcall()`; `Syn`, `Connected`, `Data`, `Fin`, `LastAck`, `TimedOut`, `Reset`, `Poll` are the ways of `uip_process()` to it; `Serve` is `available()` and `read()` |
| `MC*` | values of the constants for TLC | |
| `*Proofs` | theorems about the module they are named after | |

`AcController`, `ThermostatPanel`, `FlowMeter`, `Exchange`, `NetQueue` and `UipStreams`
stand alone; `AcTimed` extends the first; `HomeNet` composes `BaseEthernet`, `BaseRF24`
and `RadioDevices` over `HomeLinks`; `NetRouting` extends `NetAddress`; `NetQueue`
instantiates `MessageQueue`, and `HomeNet` instantiates `HomePromise`. Definitions marked
"slip" are plausible errors, substituted for the definition that follows to see that the
properties notice them.

The modules cut the system at its interfaces, and what one of them assumes is the
subject of another: the timeouts that strike at any moment in `HomeNet` keep their time
in `Exchange`; the radio queue of whole frames in `HomeLinks` is what `NetQueue`
provides; the client lines that `BaseEthernet` finds ready are what `UipStreams`
delivers; the `set` that `RadioDevices` may accept or reject is decided in
`ThermostatPanel`.

Abstractions, and why they are sound for the properties:

* A pass of `loop()` reads `millis()` once in `AcController` and in `ThermostatPanel`; on
  the board the readings of one pass differ by microseconds. `FlowMeter`, where the
  difference matters, keeps the three readings apart.
* Demand, mode and hold times may change any number of times between two passes of
  `AcController`, more often than on the board.
* Of the display `ThermostatPanel` keeps the three columns of the set point, with what
  each `lcd.print()` leaves in them: a number is printed at column 13 or 14 by its width
  and erases nothing beside it (`PrintAt`). What other screens have in these columns is
  left out, since coming back from them clears the display. The knob is what
  `updateEncoder()` makes of it, `"miss"` for an edge that only wakes the panel. The
  running average is any reading: the code sums `tempA[-1]`, which is undefined.
* Lines are read whole. The characters of a line arrive in order on one wire, and both
  boards act only on the newline. Overflow of the 64-byte input buffer is out of the
  model (hazard `baseEthernet.ino:155`).
* Timeouts in `HomeNet` may strike at any moment, so its safety properties do not depend
  on 1000 ms against 1100 ms, nor on the speed of the radio.
* A frame of one of the sketches, 16 bytes, is delivered at most once in `HomeLinks`: the
  nRF24 discards hardware repeats and the sketches never send a frame again.
* `ThermostatHears` takes a frame and reports in one step. The report follows in the same
  pass of the same thread, and nothing the sketch does between the two (`thermostat.ino`,
  lines 188 to 213) changes what is reported but the `set` itself: sensor and knob are read
  later in the pass.
* `flowMilliLitres` is computed exactly and truncated. A float error can move the
  truncation by one millilitre only where the exact value is an integer, which both
  volume properties tolerate.
* `Exchange` has requests only, no `set` and no report nobody asked for: what those do to
  an answer is the subject of `HomeNet`. It leaves the pauses of `ledBlink()` out.
* `NetQueue` ends where the cache is overrun (`Overrun`): what follows is undefined
  behaviour. Its sizes are the real ones. `MaxFragments` is 154: `MAX_PAYLOAD_SIZE` is a
  macro without parentheses, so the division by 24 applies to its 10. A sender that
  restarts, and counts its ids from 1 again, is left out.
* The nodes of `NetRouting` have addresses with digits 1 to 5, as the documentation of the
  library gives them and as the boards have. Built with `RF24NetworkMulticast`,
  `is_valid_address()` (`RF24Network.cpp:1204`) lets a digit 0 through as well, for
  the address of a level; no node here has one.
* In `UipStreams` a segment is one line and one packet; what the sketch writes,
  `stop()`, which it never calls, and a `SYN` that comes again late are left out.

## 3. Runs

| Run | Question | Bounds |
|---|---|---|
| `ac_timed` | Rest of the compressor, service of the demand, before the wrap; types and air over the coil, across it | a tick is a second, 3-bit unsigned int, `millis()` wraps at 33, hold times 6 s and 9 s (which overflows to 1 s), passes of 1 or 3 ticks, `MaxUp` 36 |
| `panel_levels` | Backlight limits, dimming, the knob heard again | levels 0 to 4, limits set to anything, passes of 1 or 2 ticks, every movement of the knob, no frames |
| `panel_set_point` | Is the set point in force the one printed and the one saved? | frames for set point and unit, samples, slow knob, button, restarts; levels 0 and 1, dark for up to three passes |
| `home_orders` | Commands once and in order; rows the device's own and never back; fresh answers on a quiet network. Do the boards together implement `HomePromise`? | both devices, 1 client, `MaxSets` 2, `MaxReports` 2 (the flow meter's 1), `RadioCap` 2, `LineCap` 1, `MaxRestarts` 1 |
| `home_live` | Is the first client served, and what is heard stored? | 2 clients, every kind of line, device 0 included, 1 report each, 1 `set`, 1 restart of any board |
| `home_reply` | *Violated.* Is the reply to a `request` that of the device asked for? | both devices, 2 lines each way, 2 reports, no restart |
| `exchange` | Do the two waits nest, and end on time? | waits of 7 and 3 ticks, clocks of 24 that start at six different values, 26 ticks, 3 requests |
| `flow_meter` | Volume neither invented nor lost | 3-bit clock, 2-bit counter, `MaxPulses` 7, unbounded time |
| `net_queue` | Is the cache a queue of whole messages? In which ways is it overrun, and is the radio given back? | the real sizes; senders of messages of 1, 2 and 1 and of 3 and 2 fragments, last fragments of 2 bytes, ids apart |
| `net_overrun` | *Violated.* Does the cache stay within its bytes? | the real sizes; seven messages of 16 bytes, as the sketches send |
| `net_routing` | Does a frame reach its node by the shortest way? | digits 1, 3 and 5 at all four levels, every pair of nodes |
| `uip_streams` | Does the sketch get each client's lines whole and in order? | 2 connections and slots of 3 packets, a pool of 5, 3 clients that may send for ever |

**Why the bounds are enough.** In `ac_timed` the longest promise (`ServedInTime`) spans
one hold, the fan lead and two polling intervals, 19 ticks, so a demand may come after a
stop, a mode change and a changed hold and still be timed to its end; the two hold times
lie on both sides of the fan lead, one of them overflows, and the last three ticks are
after the wrap. In the panel runs two ticks of idleness and a level or more between the
limits take the panel through waking, dimming, crossed limits and saving; `IdleMod` leaves
room for a full ramp, as 255 passes are short against 49.7 days, and in `panel_set_point`
for three dark passes, so that a frame comes after the saving one. There a Fahrenheit 32
and a Celsius 0 give numbers of one and two digits and a sign. Two messages under way at
every hop of the network, with different origins, are what a confusion of messages takes.
In `flow_meter` the counter overflows after four pulses and the clock wraps within four
short windows; `millis` is cyclic, so the number of windows is not bounded. In `net_queue`
the cache of 154 bytes does not hold all the messages (26, 36, 26, 60 and 36 bytes with
their headers) at once, so holds and refusals happen, and both kinds of overrun do too.
Three requests in `exchange` let what is left of one meet the next and the one after. Five
packets for six places let the pool of `uip_streams` run full, and a third client waits
for a connection or takes over one.

Bounds by name, each in a guard: `MaxUp` (up-time), `MaxSets`, `MaxReports`,
`MaxRestarts`, `LineCap`, `RadioCap`, `MaxPulses`, `MaxTime`, `MaxAsks`, `Lines`.
`Lines` is beyond what `uip_streams` comes to: see `StreamView`.
`FifoSize` (3, the receive FIFO of the nRF24) and `MaxCopies` (how often the air delivers
one frame, 1) belong to the system. The guard of the meter's `Tick` says that no window
lasts a whole epoch of `millis()`. The inputs of `net_queue`, `net_overrun`,
`net_routing`, `exchange` and `uip_streams` run out, and with them the steps; only these
runs leave deadlock unchecked.

Four runs reduce their state space. `SilentView` leaves `reply` out of the state of
`home_orders` and `home_live`: it is compared in the step that writes it, which TLC checks
on every step it generates, and nothing reads it later. `SetPointView` forgets the line of
the settings on the screens where it means nothing. `StreamView` counts the lines of a
client from the one the sketch reads next, since neither the steps nor the properties go
by their absolute numbers (what has been read is the lines from 1 on in every state the
invariant has passed): so clients may send for ever, and a slot starve. `OneFlowReport`
stops `home_orders` after one report of the flow meter; the thermostat is the device whose
reports and commands follow one another.

### What the runs show

* **Rest.** Toggling the mode defeats the off-hold: stopped in manual mode with 360 s to
  wait, the compressor may start 10 s after switching to automatic. `CompressorRests` is
  what really holds, the shorter of the two; `FullRest` says that without tampering the
  hold is kept, and in automatic mode the fan lead is added.
* **Service.** `ServedInTime` and `StoppedInTime` bound the reaction to a lasting
  demand. All four are stated before the wrap (`BeforeWrap`); afterwards `after()` may
  answer early, or not for a whole epoch, and only `CoolNeedsFan` and the types are
  promised.
* **Panel.** `SleepSaves`: a dark panel has its set point in EEPROM, unless the radio
  changed it after the save, which is then lost with the power. `ScreenTrue`: three
  handlers print the set point and `menuUpdate()` compares with the previous pass, yet on
  the main screen the set point in force is the one last printed, but for changes it
  cannot see (`Missed`): one that the knob undoes within the same pass, and a set point
  that becomes 0 in the first pass, when `lastDesTemp` is still 0. It says nothing of the
  columns a shorter number leaves as they were: there the code is wrong, and after 10 a 9
  reads 90, after 100 a 99 reads 199. `DarkIsMenu`, `Dims` and `InputRegained` say that
  the panel comes to rest and wakes, with limits that may cross.
* **Order.** `SetsInOrder` and `RowsAdvance`: no loss, lost acknowledgement, late answer
  or restart makes a command apply twice or late, or a row go back.
* **The home as a whole.** `HomeKeepsPromise`: seen from outside, the four boards are a
  table of the devices' latest values, which may lag and be forgotten but shows nothing
  that was not reported, and a line of commands of which each is obeyed once or never.
* **Attribution.** `RowsAreOwn`: a row holds its device's values although every board
  keeps one global `devId`. `QuietRequestIsFresh`: on a quiet network a `request`
  returns fresh values of the device asked for, or "not available".
* **Finding: the wrong row.** Off a quiet network it need not: `baseEthernet.ino:70-74`
  takes whatever line completes next for the answer and sends the row of the device in
  *that* line. The comments at lines 73-74 speak of the "appropiate" values. In
  `home_reply` a client sets the thermostat, then requests the flow meter, and gets the
  thermostat's row, because the report that follows a `set` was still under way.
* **Waits.** `WaitsNest`: when `baseEthernet` has its answer or has given up, nothing of
  the request is left on `baseRF24` or on the line, so no `none` becomes the answer to
  the next request. On the board: a request line takes up to 30 ms at 9600 baud, a send
  with its retries about 50, `none` 7, and 30 + 50 + 1001 + 7 = 1088 is within 1100. A
  whole `info` line takes about 52, so an answer heard in the last moments of the
  1000 ms would not fit: the theorem asks for `AnswerTime`, the time a device takes,
  to leave room. `WaitsBounded`: a wait whose deadline is the last value of `millis()`
  ends only with a line; every other one ends within a tick, across the wrap. It is the
  upper bound only: a deadline that has wrapped may end a wait at once.
* **Progress.** `FirstServed`: a client in the first slot is served, whatever other
  clients ask, whoever is waited for and whichever board restarts meanwhile. Only the first
  is sure of it: `server.available()` always starts its scan there. `HeardIsStored`: a
  report that `baseRF24` has heard gets to its row, whoever is waited for, unless a restart
  loses it on the way.
* **Volume.** `NeverOvercounts`, `PulsesUsedOnce`, `LossBounded`: the meter errs only
  downward, by less than a millilitre a window and by the ratio of the longest window to
  a second; pulses are used once, up to the overflow of their byte.
* **Messages.** `QueueOfMessages`: with ids that differ and no frame delivered
  twice, nothing else (losses, repeated transmissions, holds, refusals, two senders
  interleaving) tears, repeats or reorders a message. `RadioDrained`: a node that reads
  gets out of every hold.
* **Finding: the cache overrun.** `enqueue()` compares the message without its ten bytes
  of header with the space left (`RF24Network.cpp:554`), and `update()` looks at the room
  on entry only, not at each frame it drains. The sixth message of 16 bytes that nobody
  has read yet ends at byte 156 of 154.
  `OverrunCause` says what is left of the promise: a message of one frame goes beyond the
  end by its header at most, and a message of fragments only if it was complete when less
  than ten bytes were left, where `MAX_PAYLOAD_SIZE - used` wraps (`RF24Network.cpp:517`).
  No hold, retry or interleaving adds a third way.
* **Routing.** `ShortestWay` for all pairs. `RelayedDown`: a relayed multicast
  reaches the next level and nobody else; the master is left out, since it relays to
  its own address.
* **Streams.** `StreamKept`, `StopHasCause`, `LinesReachSketch`, `Restarted` hold for
  clients that the library does not spoil (`spoiled`); the three ways it does so are
  below. `LinesReachSketch` and `Restarted` promise nothing to a slot while one before it
  never stays empty: `available()` then does not get to it (`UIPServer.cpp:32`), and in
  the run a client that sends for ever does starve the other slot. `StopHasCause` is what
  `Restarted` rests on: a stop always has a packet to read or a restart to come.

Defects of the libraries which the properties leave out, each a hazard in
`PROJECT.json`: fragments of two senders with equal ids are put together; a plain frame
relayed twice is delivered twice; after a hold the radio stays off until the node's own
next write; in uIP the slot of a reset connection goes to the next client of that
connection, a segment the pool has no room for is acknowledged and lost, and the number
of a slot is taken for that of its connection. A request line that arrives in two TCP
segments is served in two halves by the sketch itself.

### Fairness

| Specification | Weak fairness of | Why the code has it |
|---|---|---|
| `HomeNet!LiveSpec` | what the two base boards do in `loop()`: reading a line or frame, serving a client, the two timeouts | each is a test made in every iteration of `loop()` or of the wait it is in; `EtherTakes` is enabled in both, since both read the serial port |
| `ThermostatPanel!LiveSpec` | `LoopPass` | `loop()` runs for ever |
| `NetQueue!LiveSpec` | `Update`, `Drain`, `Read` | the node calls `update()` and reads what is available in every pass |
| `UipStreams!Spec` | `Serve`, `Poll` of each connection | `loop()` calls `available()`, which calls `tick()`, which polls every connection |

The fairness of the two timeouts is more than the code has where a deadline falls on the
last value of `millis()`: such a wait ends only with a line (`WaitsBounded`), and
`FirstServed` is then up to the next report.

Nothing is assumed of the radio (every frame may be lost), of clients, of senders, of the
devices or of the user.

## 4. Theorems

Each is proved for every value of the constants that meets the named assumptions.

| Module | Theorem | Property | Argument |
|---|---|---|---|
| `AcTimedProofs` | `TypeCorrect` | `TypeOK` | one lemma for a run of the controller, one for every step |
| | `CompressorHasAir` | `CoolNeedsFan` | inductive as it stands, with no assumption on time |
| | `RestIsKept`, `RestIsFull` | `CompressorRests`, `FullRest` | `RestInv` |
| | `DemandIsServed`, `StopIsServed` | `ServedInTime`, `StoppedInTime` | `ServeInv` |
| `ThermostatPanelProofs` | `TypeCorrect` | `TypeOK` | one lemma per handler, composed in the order of `loop()` |
| | `SetPointSaved`, `WakesOnMenu` | `SleepSaves`, `DarkIsMenu` | together inductive: a dark, rested panel is on its main screen, where only input that wakes it changes the set point |
| | `DimsInTime` | `Dims` | each pass that finds an idle panel lowers its level or finds it low |
| | `ScreenIsTrue` | `ScreenTrue` | up to `menuUpdate()` the set point is printed or `menuUpdate()` will see that it changed in this pass; printing twice is printing once (`PrintFacts`) |
| `HomeNetProofs` | `HomeTyped` | `HomeType` | `TypeInv`, with the number of commands still under way |
| | `StorageIsOwn` | `RowsAreOwn` | `LabelInv`: every frame, line and row is labelled with the origin of its report |
| | `CommandsInOrder` | `SetsInOrder` | `SetInv`: the numbers of the commands ascend from the thermostat's queue to the serial line, and all are beyond `applied` |
| | `RowsOnlyAdvance` | `RowsAdvance` | `RowInv`: the numbers of a device's reports ascend from storage over line and radio queue to `reported` |
| | `QuietAnswersAreFresh` | `QuietRequestIsFresh` | `QuietInv`: while the network is quiet only messages about the device asked are under way, and its reports are newer than `baseline` |
| | `HomeIsPromise` | `HomeKeepsPromise` | `LabelInv`, `RowInv` and `SetInv`, below |
| `ExchangeProofs` | `TheWaitsNest`, `BothWaitsBounded` | `WaitsNest`, `WaitsBounded` | every stage of a request has its latest time, and the last is within the outer wait |
| `FlowMeterProofs` | `NoOvercount` | `NeverOvercounts` | `MeterInv`: a closed window has lasted more than a second and only grows; the total is worth at most the pulses used |
| | `EveryPulseOnce` | `PulsesUsedOnce` | `ByteInv`: the counter is the pulses since the last use, modulo the byte |
| | `LossIsBounded` | `LossBounded` | `LossInv`: each window loses less than a millilitre and its share of the excess |
| `NetQueueProofs` | `CacheIsQueue` | `QueueOfMessages` | `CacheInv`, below |
| | `OverrunHasCause` | `OverrunCause` | `SpillInv`, below |
| `NetRoutingProofs` | `RoutesAreShortest` | `ShortestWay` | `RouteInv`: the hops made and the distance left add up to the distance; below |
| | `RelaysGoDown` | `RelayedDown` | the address a relay is sent to is pipe 0 of the nodes of its level, and no pipe of any other node |
| `UipStreamsProofs` | `StreamsAreKept` | `StreamKept` | `StreamInv`, below; that it holds is `StreamsInvariant` |
| | `StopsHaveCause` | `StopHasCause` | the same: a connection stops with the packet it keeps, and reading one asks for the restart |

**Rest and service.** `CompressorRests` is not inductive, since it relates a start to a
stop long before. `RestInv` adds what the code keeps in between: before the wrap
`fanTime` is never earlier than the last stop (`StopRestartsTimer`), and in automatic
mode with untouched settings a running fan with the compressor off was started after the
full hold (`FanWaited`). With `AfterExact`, which says that `after()` does not overflow
before the wrap, every start has then waited (`StartWaited`). `ServeInv` is the
converse: every run of the controller since the demand changed has found the hold still
running (`StartPending`, `StopPending`), and the runs are never further apart than a
period and the longest pass (`Polled`).

**Order in the network.** The invariants of `HomeNet` are about messages on all the
hops at once. Each says of the sequence of numbers from one end to the other that it
ascends; taking a message off the end, adding one at the start, handing it on or losing
any of them keeps that, and a restart only empties hops.

**The refinements.** `CacheIsQueue` proves `Spec => Promise!Spec`: initial states map to
initial states, every step of the node to a step of `MessageQueue` or a stutter. The
mapping reads a stored message as the one it has all the fragments of; that it never has
a mixture is `CacheInv`: what one sender has under way, from the reassembly buffer over
the radio's FIFO to the message it is sending, is one line of fragments in order, with
repetitions but without jumps within a message. The code checks no number on a LAST
fragment, and this invariant is why it need not. The theorem assumes `MaxCopies = 1`,
ids of different senders apart, and is otherwise about any senders, messages and sizes.

`HomeIsPromise` maps the boards to `HomePromise`. A line that `baseEthernet` takes teaches
the table, and what it teaches is new and was reported, by `RowInv`; a restart of
`baseEthernet` forgets the table; what the thermostat obeys was given and is later than
what it obeyed before, by `SetInv`; every report, asked or not, is one the device makes.
Serving a `set` gives a command; serving the other lines, relaying, hearing and the two
timeouts are stutters, so that losses and the order of the boards' steps are not to be seen.

**Room in the cache.** `OverrunHasCause` needs of the fragments only that a message that is
complete has two pieces or more (`SpillInv`), and of the test in `enqueue()` that a
remainder modulo 2^16 of a room that is there is no more than the room. So nothing is
asked of ids, relays or the senders' messages.

**Routing.** An address is worked out as the sequence of its octal digits, and the masks
of `setup_address()` as what they select of it. The next hop is then one digit more of the
destination's address, when that lies below the node, or the node's own with its last
digit gone, and either is one nearer. That just one node listens to where the frame is
sent follows from `pipe_address()` being one-to-one on nodes and pipes (`OneHearer`).

**Streams.** `StreamKept` is inductive only with what keeps segments apart: a client has
one connection (`OneConnection`), a slot is in the hands of one connection at a time
(`Owned`), and an open connection has the slot of its own number, in which lies all that
was acknowledged and is not yet read, with room for a packet more unless it is stopped,
and a packet to read or a restart to come when it is (`OpenStreams`).

Assumptions, named in the modules and no more than these: the widths are positive and
`unsigned int` is no wider than `unsigned long` (`WidthAssumption`), times are naturals
and a pass takes some time (`TimingAssumption`), passes have a longest
(`PassesAssumption`), the default hold times are among the possible ones
(`WaitsAssumption`); the panel's times, levels and readings are numbers in their ranges
(`PanelTiming`, `PanelLevels`, `PanelValues`); capacities are naturals and at least one
(`LinksAssumption`), clients are finitely many numbers (`ClientsAssumption`); the meter's
window is shorter than an epoch (`MeterAssumption`); the waits leave room for what is
in them (`ExchangeTimes`, `WaitsFit`); senders, messages and sizes are what their names
say, and a frame's header is no longer than the 10 bytes `MAX_PAYLOAD_SIZE` leaves for it
(`SenderAssumption`, `SizeAssumption`); connections and packets are at least one
(`UipSizes`); the octal digits of nodes
are 1 to 5 and levels at most four (`DigitsAssumption`).

**Only model-checked.** `HeardIsStored`, `FirstServed`, `InputRegained`,
`RadioDrained`, `LinesReachSketch` and `Restarted`, which are liveness under fairness and
outside what TLAPS proves here. Every safety property of a passing run is a theorem.

## 5. Not modelled

* The drivers (RF24, DHT, LCD, Encoder, the ENC28J60) and the libraries no sketch of the
  system uses (ethercard, jeelib, Firmata, MPU6050, I2Cdev and others). They are vendored
  and end at hardware registers; their behaviour enters through what the sketches see of
  it. They are by far the larger part of the repository's lines.
* Of RF24Network: pings, polls, the address frames of RF24Mesh, `EXTERNAL_DATA_TYPE`,
  `sleepNode()` and the Linux build. No sketch uses them.
* Of the TCP/IP stack: sending and retransmission, `stop()`, active opening, ARP, ICMP,
  UDP, DHCP, DNS, checksums and options. The sketch only listens, reads and replies.
* The value of `tempAverage()`, which reads `tempA[-1]`, undefined; the bytes of the
  64-byte serial buffer, whose overflow depends on real durations; the conversion of the
  litre count to 16 bits in a report, whose values the models abstract.
* `test3`, the older copy of `flowRate` and the scratch sketches, which no board of the
  system runs.

What could follow: the thermostat of `HomeNet` refined by `ThermostatPanel`, and an
abstract compressor (off, blowing, cooling, with its rest) that `AcTimed` implements.
