---------------------------- MODULE HomeLinks -----------------------------
(***************************************************************************)
(* What the four boards share: a serial line in each direction between     *)
(* baseEthernet and baseRF24, and the radio queues of RF24Network, one at  *)
(* each device and one at baseRF24.                                        *)
(*                                                                         *)
(* A payload is abstracted to its origin: `n` numbers the reports of a     *)
(* device (or the `set` commands of the clients) in the order they were    *)
(* made, so that a lost, repeated or reordered one can be told.            *)
(*                                                                         *)
(* In the modules of the boards, definitions marked "slip" are wrong       *)
(* variants of the one that follows, used only to test that the properties *)
(* notice them.                                                            *)
(***************************************************************************)
EXTENDS Naturals, Sequences, FiniteSets

CONSTANTS
  LineCap,     \* bound on the lines under way on a serial line
  RadioCap,    \* frames a radio queue holds
  MaxReports,  \* bound on the reports each device makes
  MaxRestarts  \* bound on the restarts of boards

ASSUME LinksAssumption ==
  /\ LineCap \in Nat \ {0}
  /\ RadioCap \in Nat \ {0}
  /\ MaxReports \in Nat
  /\ MaxRestarts \in Nat

VARIABLES
  toRadio,   \* serial line, baseEthernet to baseRF24
  toEther,   \* serial line, baseRF24 to baseEthernet
  down,      \* down[d]: frames for device d that d has not read
  heard,     \* frames for baseRF24 that it has not read
  reported,  \* reported[d]: how many reports d has made
  restarts   \* how many restarts there have been

links == <<toRadio, toEther, down, heard, reported, restarts>>

---------------------------------------------------------------------------
\* enum devices
base       == 0
thermostat == 1
waterFlow  == 2
Devices    == {thermostat, waterFlow}

\* The values of one report: n = 0 is the storage nobody has written
Report == [of : Devices, n : 1 .. MaxReports]
Blank  == [of |-> base, n |-> 0]

\* A command, as a line to baseRF24 and as a frame to a device
Command == [type : {"set", "request"}, dev : Devices \cup {base}, n : Nat]

\* A frame to baseRF24: its header's from_node and its payload
Frame == [from : Devices, report : Report]

\* A line to baseEthernet: nine fields for `info`, the word "none" otherwise
InfoLine(d, r) == [type |-> "info", dev |-> d, report |-> r]
NoneLine       == [type |-> "none", dev |-> base, report |-> Blank]
Lines == {InfoLine(d, r) : d \in Devices, r \in Report} \cup {NoneLine}

LinksInit ==
  /\ toRadio = << >>
  /\ toEther = << >>
  /\ down = [d \in Devices |-> << >>]
  /\ heard = << >>
  /\ reported = [d \in Devices |-> 0]
  /\ restarts = 0

LinksType ==
  /\ toRadio \in Seq(Command)
  /\ toEther \in Seq(Lines)
  /\ down \in [Devices -> Seq(Command)]
  /\ heard \in Seq(Frame)
  /\ reported \in [Devices -> 0 .. MaxReports]
  /\ restarts \in 0 .. MaxRestarts

Restart == restarts < MaxRestarts /\ restarts' = restarts + 1
===========================================================================
