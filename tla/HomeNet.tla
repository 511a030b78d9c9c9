----------------------------- MODULE HomeNet ------------------------------
(***************************************************************************)
(* The whole system: clients, baseEthernet, baseRF24 and the two devices,  *)
(* each running its own loop(), joined by the serial line and the radio.   *)
(* Any frame and any acknowledgement may be lost, any timeout may strike   *)
(* at any moment and any board may restart.                                *)
(***************************************************************************)
EXTENDS BaseEthernet, BaseRF24, RadioDevices

VARIABLES
  clean,    \* the request being served was sent on a quiet network
  baseline  \* reports its device had made by then

witness  == <<clean, baseline>>
homeVars == <<links, etherVars, radioVars, deviceVars, witness>>

\* Nothing is under way, and baseRF24 is not listening
Quiet ==
  /\ toRadio = << >>
  /\ toEther = << >>
  /\ heard = << >>
  /\ \A d \in Devices : down[d] = << >>
  /\ ~listening

ReportsOf(d) == IF d \in Devices THEN reported[d] ELSE 0

\* The history follows the boards and never constrains them.  A thermostat
\* that restarts makes a report nobody asked for.
Witness ==
  /\ clean' = \/ ~waiting /\ waiting' /\ Quiet
              \/ waiting /\ waiting' /\ clean /\ restarts' = restarts
  /\ baseline' = CASE ~clean' -> 0
                   [] clean' /\ waiting -> baseline
                   [] clean' /\ ~waiting -> ReportsOf(asked'.dev)

HomeInit ==
  /\ LinksInit
  /\ EtherInit
  /\ RadioInit
  /\ DevicesInit
  /\ clean = FALSE
  /\ baseline = 0

\* A step of one board leaves the memory of the others alone
AtEther   == UNCHANGED <<radioVars, deviceVars>> /\ Witness
AtRadio   == UNCHANGED <<etherVars, deviceVars>> /\ Witness
AtDevices == UNCHANGED <<etherVars, radioVars>> /\ Witness

HomeNext ==
  \/ EtherNext /\ AtEther
  \/ RadioNext /\ AtRadio
  \/ DevicesNext /\ AtDevices

HomeSpec == HomeInit /\ [][HomeNext]_homeVars

---------------------------------------------------------------------------
(***************************************************************************)
(* Every variable of every board holds a value of its kind.                *)
(***************************************************************************)
HomeType ==
  /\ LinksType
  /\ EtherType
  /\ RadioType
  /\ DevicesType
  /\ clean \in BOOLEAN
  /\ baseline \in 0 .. MaxReports

(***************************************************************************)
(* The values stored for a device are its own, whichever device a client   *)
(* asked about when they arrived: from_node names the row all the way from *)
(* the header (baseRF24.ino:95) to updateStorage() (baseEthernet.ino:180). *)
(***************************************************************************)
RowsAreOwn ==
  \A d \in Devices : storage[d] = Blank \/ storage[d].of = d

(***************************************************************************)
(* A newer report is never overwritten by an older one, though reports     *)
(* reach baseEthernet both as answers and unasked, and answers come after  *)
(* their timeout: only a restart of baseEthernet forgets a row.            *)
(***************************************************************************)
RowsAdvance ==
  [][ \A d \in Devices :
        storage'[d] # Blank => storage'[d].n >= storage[d].n ]_homeVars

(***************************************************************************)
(* The thermostat obeys each `set` at most once and in the order they were *)
(* forwarded: a lost acknowledgement does not make baseRF24 send it again  *)
(* (baseRF24.ino:68-69).                                                   *)
(***************************************************************************)
SetsInOrder == [][ applied' # applied => applied' > applied ]_homeVars

(***************************************************************************)
(* A `request` sent on a quiet network is answered with values of the      *)
(* device asked for, reported after the request, or with "not available":  *)
(* never with another device's row or with the cached one.                 *)
(***************************************************************************)
QuietRequestIsFresh ==
  [][ (waiting /\ ~waiting' /\ clean /\ reply'.ok) =>
        /\ reply'.values.of = asked.dev
        /\ reply'.values.n > baseline ]_homeVars

(***************************************************************************)
(* The comments of loop() at baseEthernet.ino:73-74: the values read go to *)
(* "appropiate storage position" and the reply is the "appropiate device   *)
(* values", those of the device the client asked for.                      *)
(***************************************************************************)
ReplyIsForAsked ==
  reply.ok /\ reply.values # Blank => reply.values.of = reply.asked.dev

---------------------------------------------------------------------------
Promise == INSTANCE HomePromise
  WITH Commanded <- thermostat,
       made      <- reported,
       rows      <- [d \in Devices |-> storage[d].n],
       given     <- sets,
       obeyed    <- applied

(***************************************************************************)
(* The four boards together are a table that follows the devices and a     *)
(* line of commands: losses, late answers, restarts and interleavings of   *)
(* the boards are not to be seen in them but as delay and loss.            *)
(***************************************************************************)
HomeKeepsPromise == Promise!Spec

---------------------------------------------------------------------------
(***************************************************************************)
(* Fairness.  loop() of either base board runs forever, so a line or a     *)
(* frame that stays available is read, a client's line that stays first    *)
(* is served, and the two waits end by their clocks (a deadline that is    *)
(* the last value of millis() is the exception, see Exchange).  Nothing is *)
(* assumed of the radio, of the clients and of the devices.                *)
(***************************************************************************)
EtherTakes  == (StoreLine \/ AnswerLine) /\ AtEther
EtherServes == ServeNext /\ AtEther
EtherEnds   == GiveUp /\ AtEther
RadioRelays == RelayLine /\ AtRadio
RadioHears  == HearFrame /\ AtRadio
RadioEnds   == ListenTimeout /\ AtRadio

LiveSpec ==
  /\ HomeSpec
  /\ WF_homeVars(EtherTakes)
  /\ WF_homeVars(EtherServes)
  /\ WF_homeVars(EtherEnds)
  /\ WF_homeVars(RadioRelays)
  /\ WF_homeVars(RadioHears)
  /\ WF_homeVars(RadioEnds)

(***************************************************************************)
(* The client in the lowest slot is always served in the end (a higher one *)
(* may be starved by it: UIPServer.cpp:32-37), be the device before it     *)
(* silent, its line lost or either base restarted while it is waited for.  *)
(***************************************************************************)
FirstServed ==
  \A c \in Clients :
    (\A b \in Clients : c <= b) =>
      (pending[c] # NoRequest ~> pending[c] = NoRequest)

Heard(d, n) ==
  \E i \in 1 .. Len(heard) : heard[i].from = d /\ heard[i].report.n = n

(***************************************************************************)
(* What baseRF24 has heard reaches the storage, whoever is waiting for     *)
(* whatever meanwhile, unless a board restarts on the way: the queue, the  *)
(* line and the storage are all in RAM.                                    *)
(***************************************************************************)
HeardIsStored ==
  \A d \in Devices, n \in 1 .. MaxReports, r \in 0 .. MaxRestarts :
    Heard(d, n) /\ restarts = r ~> storage[d].n >= n \/ restarts > r
===========================================================================
