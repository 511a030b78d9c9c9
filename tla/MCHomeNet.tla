---------------------------- MODULE MCHomeNet -----------------------------
(***************************************************************************)
(* Small homes for TLC: one or two clients, and the lines they send.       *)
(***************************************************************************)
EXTENDS HomeNet

\* The latest reply is compared in the step that sends it, and no later step
\* reads it: states that differ in nothing else have the same futures.
SilentView ==
  <<links, pending, waiting, asked, storage, sets, radioVars, deviceVars, witness>>

\* Bound: of the flow meter one report is enough, the thermostat is the
\* device whose reports and orders follow one another.
OneFlowReport == reported[waterFlow] <= 1

MCOneClient  == 1 .. 1
MCTwoClients == 1 .. 2

MCOrders == {[type |-> "set", dev |-> thermostat],
             [type |-> "request", dev |-> thermostat]}
MCMixed  == MCOrders \cup {[type |-> "request", dev |-> waterFlow]}
MCEach   == {[type |-> "set", dev |-> thermostat],
             [type |-> "request", dev |-> waterFlow],
             [type |-> "request", dev |-> base],
             [type |-> "requestOld", dev |-> thermostat]}
===========================================================================
