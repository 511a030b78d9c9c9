----------------------------- MODULE BaseRF24 -----------------------------
(***************************************************************************)
(* baseRF24/baseRF24.ino: the radio's master node.  It sends every line    *)
(* from the serial side to the device the line names, waits up to a second *)
(* for an answer to a `request` that was acknowledged, and prints every    *)
(* `info` frame it hears, asked for or not.                                *)
(***************************************************************************)
EXTENDS HomeLinks

VARIABLE
  listening   \* loop() is inside waitRF24(1000)

radioVars == <<listening>>

RadioInit == listening = FALSE
RadioType == listening \in BOOLEAN

---------------------------------------------------------------------------
\* The line serial() and decipher() completed
NextLine == Head(toRadio)

(***************************************************************************)
(* network.write() to a direct child: the frame is in the child's queue or *)
(* lost, and `ok` is the hardware acknowledgement, which may be lost too.  *)
(***************************************************************************)
Transmit(cmd, ok) ==
  \/ /\ cmd.dev \in Devices
     /\ Len(down[cmd.dev]) < RadioCap
     /\ down' = [down EXCEPT ![cmd.dev] = Append(@, cmd)]
  \/ /\ ~ok
     /\ down' = down

\* A completed line: sendRF24(devId), then waitRF24() for a sent `request`
RelayLine ==
  /\ ~listening
  /\ toRadio # << >>
  /\ toRadio' = Tail(toRadio)
  /\ \E ok \in BOOLEAN :
       /\ Transmit(NextLine, ok)
       /\ listening' = (ok /\ NextLine.type = "request")
  /\ UNCHANGED <<toEther, heard, reported, restarts>>

Println(line) ==
  /\ Len(toEther) < LineCap
  /\ toEther' = Append(toEther, line)

\* slip: the line names this board, not the node of the header
SlipOwnId ==
  /\ heard # << >>
  /\ heard' = Tail(heard)
  /\ Println(InfoLine(base, Head(heard).report))
  /\ listening' = FALSE
  /\ UNCHANGED <<toRadio, down, reported, restarts>>

\* slip: the newest frame is read first
SlipNewest ==
  LET frame == heard[Len(heard)]
  IN  /\ heard # << >>
      /\ heard' = SubSeq(heard, 1, Len(heard) - 1)
      /\ Println(InfoLine(frame.from, frame.report))
      /\ listening' = FALSE
      /\ UNCHANGED <<toRadio, down, reported, restarts>>

\* A frame is available, in the idle loop or inside waitRF24(): it is read
\* and printed under the node its header names
HearFrame ==
  /\ heard # << >>
  /\ heard' = Tail(heard)
  /\ Println(InfoLine(Head(heard).from, Head(heard).report))
  /\ listening' = FALSE
  /\ UNCHANGED <<toRadio, down, reported, restarts>>

\* waitRF24() timed out
ListenTimeout ==
  /\ listening
  /\ Println(NoneLine)
  /\ listening' = FALSE
  /\ UNCHANGED <<toRadio, down, heard, reported, restarts>>

\* Power cycle: the serial input and the radio queue are gone
RadioRestart ==
  /\ Restart
  /\ listening' = FALSE
  /\ toRadio' = << >>
  /\ heard' = << >>
  /\ UNCHANGED <<toEther, down, reported>>

RadioNext ==
  \/ RelayLine
  \/ HearFrame
  \/ ListenTimeout
  \/ RadioRestart
===========================================================================
