--------------------------- MODULE RadioDevices ---------------------------
(***************************************************************************)
(* The radio side of the two devices: thermostat/thermostat.ino (node 01), *)
(* which obeys a `set` its checks accept and answers every frame with a    *)
(* report, and flowRate/flowRate.ino (node 02), which answers only a       *)
(* `request`.                                                              *)
(***************************************************************************)
EXTENDS HomeLinks

VARIABLE
  applied   \* number of the `set` command the thermostat obeyed last

deviceVars == <<applied>>

DevicesInit == applied = 0
DevicesType == applied \in Nat

---------------------------------------------------------------------------
(***************************************************************************)
(* report(): network.write() to baseRF24, whose result both boards ignore  *)
(* but for the connection icon.  The frame is heard or lost.               *)
(***************************************************************************)
Sends(d) ==
  /\ reported[d] < MaxReports
  /\ reported' = [reported EXCEPT ![d] = @ + 1]
  /\ \/ /\ Len(heard) < RadioCap
        /\ heard' = Append(heard, [from |-> d,
                                   report |-> [of |-> d, n |-> reported'[d]]])
     \/ heard' = heard

ReadFrame(d) ==
  /\ down[d] # << >>
  /\ down' = [down EXCEPT ![d] = Tail(@)]

\* slip: the command that came last is read first
SlipNewestFirst ==
  LET last  == Len(down[thermostat])
      frame == down[thermostat][last]
  IN  /\ down[thermostat] # << >>
      /\ down' = [down EXCEPT ![thermostat] = SubSeq(@, 1, last - 1)]
      /\ \/ frame.type = "set" /\ applied' = frame.n
         \/ applied' = applied
      /\ Sends(thermostat)
      /\ UNCHANGED <<toRadio, toEther, restarts>>

\* loop(): a `set` out of range is dropped, and report() follows any frame
\* in the same pass, before sensor and knob are looked at again
ThermostatHears ==
  LET frame == Head(down[thermostat])
  IN  /\ ReadFrame(thermostat)
      /\ \/ frame.type = "set" /\ applied' = frame.n
         \/ applied' = applied
      /\ Sends(thermostat)
      /\ UNCHANGED <<toRadio, toEther, restarts>>

FlowHears ==
  /\ ReadFrame(waterFlow)
  /\ IF Head(down[waterFlow]).type = "request"
       THEN Sends(waterFlow)
       ELSE UNCHANGED <<heard, reported>>
  /\ UNCHANGED <<applied, toRadio, toEther, restarts>>

\* setup() of the thermostat ends with a report()
ThermostatRestart ==
  /\ Restart
  /\ down' = [down EXCEPT ![thermostat] = << >>]
  /\ Sends(thermostat)
  /\ UNCHANGED <<applied, toRadio, toEther>>

FlowRestart ==
  /\ Restart
  /\ down' = [down EXCEPT ![waterFlow] = << >>]
  /\ UNCHANGED <<applied, toRadio, toEther, heard, reported>>

DevicesNext ==
  \/ ThermostatHears
  \/ FlowHears
  \/ ThermostatRestart
  \/ FlowRestart
===========================================================================
