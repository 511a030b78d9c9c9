---------------------------- MODULE UipStreams ----------------------------
(***************************************************************************)
(* The TCP streams under baseEthernet's clients: uip_process() accepts     *)
(* segments, uipclient_appcall() keeps them as packets of a slot of        *)
(* UIPClient::all_data, UIPServer::available() hands the slots to the      *)
(* sketch and UIPClient::read() empties them.  A connection whose slot is  *)
(* full is stopped, and restarted once the sketch has read.                *)
(*                                                                         *)
(* A segment is one line of a client and a packet.  Segments come in any   *)
(* order, any number of times or never.  Left out: what the sketch writes, *)
(* and UIPClient::stop(), which it does not call.                          *)
(***************************************************************************)
EXTENDS Integers, Sequences, SequencesExt

CONSTANTS
  Clients,   \* connections there will be, each from a port of its own
  Conns,     \* UIP_CONNS
  Packets,   \* UIP_SOCKET_NUMPACKETS
  PoolSize,  \* packets the MemoryPool has room for
  Lines,     \* bound on the lines of a client
  None       \* no client, no slot

ASSUME UipSizes ==
  /\ {Conns, Packets} \subseteq Nat \ {0}
  /\ {PoolSize, Lines} \subseteq Nat
  /\ None \notin Nat

VARIABLES
  conn,     \* uip_conns: st, peer, stopped, and app, the slot in its appstate
  slot,     \* UIPClient::all_data: st, restart and packets_in
  rcv,      \* of each client: rcv_nxt, 0 before its SYN; its line n is number n
  taken,    \* of each client: the lines the sketch has read
  spoiled   \* the clients the library fails; see Spoils

vars == <<conn, slot, rcv, taken, spoiled>>

Index == 0 .. Conns - 1

FreeSlot == [st |-> "free", restart |-> FALSE, packets |-> <<>>]

Init ==
  /\ conn = [c \in Index |-> [st |-> "closed", peer |-> None, stopped |-> FALSE, app |-> None]]
  /\ slot = [d \in Index |-> FreeSlot]
  /\ rcv = [k \in Clients |-> 0]
  /\ taken = [k \in Clients |-> <<>>]
  /\ spoiled = {}

---------------------------------------------------------------------------
(***************************************************************************)
(* uipclient_appcall()                                                     *)
(***************************************************************************)
\* _allocateData(): the first slot not in use
AllocatedSlot ==
  LET free == {d \in Index : slot[d].st = "free"}
  IN  IF free = {} THEN None ELSE Min(free)

App(c, event) ==
  IF conn[c].app = None /\ event = "connected" THEN AllocatedSlot ELSE conn[c].app

\* allocBlock() finds room for a packet
Room == Len(FlattenSeq([i \in 1 .. Conns |-> slot[i - 1].packets])) < PoolSize

Keeps(u) == u.st = "connected" /\ Len(u.packets) < Packets /\ Room

\* slip: the last packet does not stop the connection
SlipKeepsOn(u) == u.st = "connected" /\ ~ Keeps(u)

\* Once the last packet is in use, or there was none for this segment
Stops(u) == u.st = "connected" /\ (Len(u.packets) >= Packets - 1 \/ ~ Room)

\* appcall() of connection c, which goes to state st, with the lines of new
appcall(c, st, event, new) ==
  LET app == App(c, event)
      u == IF conn[c].app = None THEN [FreeSlot EXCEPT !.st = "connected"] ELSE slot[app]
      packets == IF Keeps(u) THEN u.packets \o new ELSE u.packets
      stopped == /\ st = "established"
                 /\ conn[c].stopped \/ (app # None /\ new # <<>> /\ Stops(u))
                 /\ app # None => ~ u.restart
  IN
  /\ conn' = [conn EXCEPT ![c] = [@ EXCEPT
                !.st = st, !.stopped = stopped, !.app = IF event = "closed" THEN None ELSE app]]
  /\ slot' = [d \in Index |->
                IF d # app THEN slot[d]
                ELSE IF event # "closed" THEN [u EXCEPT !.restart = FALSE, !.packets = packets]
                ELSE IF packets = <<>> THEN FreeSlot
                ELSE [st |-> "remoteclosed", restart |-> FALSE, packets |-> packets]]

\* The library keeps its promise to a client unless its connection still has
\* the slot of one that was reset, or the slot is not of the same number as
\* the connection, or the pool had no room for a segment.
Spoils(c, event, new) ==
  /\ spoiled' = spoiled \union
       IF \/ event = "connected" /\ (conn[c].app # None \/ AllocatedSlot # c)
          \/ new # <<>> /\ ~ Room
       THEN {conn[c].peer} ELSE {}
  /\ UNCHANGED taken

---------------------------------------------------------------------------
(***************************************************************************)
(* uip_process()                                                           *)
(***************************************************************************)
Syn(k) ==
  LET closed == {c \in Index : conn[c].st = "closed"}
  IN
  /\ rcv[k] = 0
  /\ closed # {}
  /\ conn' = [conn EXCEPT ![Min(closed)] = [@ EXCEPT !.st = "syn_rcvd", !.peer = k, !.stopped = FALSE]]
  /\ rcv' = [rcv EXCEPT ![k] = 1]
  /\ UNCHANGED <<slot, taken, spoiled>>

SlipAnyOrder(k, n) == n > 0    \* slip: takes whatever comes

\* Any other segment is only acknowledged again
InOrder(k, n) == n = rcv[k]

\* The lines of a segment of client k: one, or none
Segments(k) == {<<>>} \union {<<[peer |-> k, n |-> n]>> : n \in {i \in 1 .. Lines : InOrder(k, i)}}

Accept(c, st, event, new) ==
  /\ appcall(c, st, event, new)
  /\ Spoils(c, event, new)
  /\ rcv' = [rcv EXCEPT ![conn[c].peer] = @ + Len(new)]

\* The acknowledgement of the SYN, alone or with a line
Connected(c) ==
  /\ conn[c].st = "syn_rcvd"
  /\ \E new \in Segments(conn[c].peer) : Accept(c, "established", "connected", new)

Data(c) ==
  /\ conn[c].st = "established"
  /\ ~ conn[c].stopped
  /\ \E new \in Segments(conn[c].peer) \ {<<>>} : Accept(c, "established", "newdata", new)

Fin(c) ==
  /\ conn[c].st = "established"
  /\ ~ conn[c].stopped
  /\ \E new \in Segments(conn[c].peer) : Accept(c, "last_ack", "closed", new)

\* The FIN of this side is acknowledged, or has been sent often enough
LastAck(c) ==
  /\ conn[c].st = "last_ack"
  /\ conn' = [conn EXCEPT ![c].st = "closed"]
  /\ UNCHANGED <<slot, rcv, taken, spoiled>>

TimedOut(c) ==
  /\ conn[c].st \in {"syn_rcvd", "established"}
  /\ Accept(c, "closed", "closed", <<>>)

\* appcall() does not look at UIP_ABORT: the slot stays with the connection
Reset(c) ==
  /\ conn[c].st # "closed"
  /\ Accept(c, "closed", "aborted", <<>>)

\* The periodic call, or one for an acknowledgement
Poll(c) ==
  /\ conn[c].st = "established"
  /\ Accept(c, "established", "poll", <<>>)

---------------------------------------------------------------------------
(***************************************************************************)
(* UIPServer::available() and UIPClient::read()                            *)
(***************************************************************************)
\* slip: not once the client has closed
SlipConnected(d) ==
  slot[d].packets # <<>> /\ slot[d].st = "connected" /\ conn[d].peer # None

\* A connection has the port of the server since its first client
Visible(d) ==
  /\ slot[d].packets # <<>>
  /\ slot[d].st = "remoteclosed" \/ conn[d].peer # None

\* slip: a negation lost
SlipOnlyClosed(d) == conn[d].stopped /\ slot[d].st = "remoteclosed"

\* read() asks the connection with the number of the slot
AsksRestart(d) == conn[d].stopped /\ slot[d].st = "connected"

Read(d) ==
  LET line == Head(slot[d].packets)
      rest == Tail(slot[d].packets)
  IN
  /\ taken' = [taken EXCEPT ![line.peer] = Append(@, line.n)]
  /\ slot' = [slot EXCEPT ![d] =
                IF slot[d].st = "remoteclosed" /\ rest = <<>> THEN FreeSlot
                ELSE [@ EXCEPT !.packets = rest,
                                !.restart = slot[d].restart \/ AsksRestart(d)]]
  /\ UNCHANGED <<conn, rcv, spoiled>>

\* The sketch takes a line of the first slot that has one
Serve ==
  LET seen == {d \in Index : Visible(d)}
  IN  seen # {} /\ Read(Min(seen))

---------------------------------------------------------------------------
Next ==
  \/ \E k \in Clients : Syn(k)
  \/ \E c \in Index : \/ Connected(c) \/ Data(c) \/ Fin(c) \/ LastAck(c)
                      \/ TimedOut(c) \/ Reset(c) \/ Poll(c)
  \/ Serve

\* loop() calls available(), which calls tick(), which polls
Spec ==
  /\ Init /\ [][Next]_vars
  /\ WF_vars(Serve)
  /\ \A c \in Index : WF_vars(Poll(c))

---------------------------------------------------------------------------
\* The first m packets of slot d are what is left to read of client k: they
\* follow what the sketch has read, and no other packet is of this client.
Unread(k, d, m) ==
  /\ \A i \in 1 .. Len(taken[k]) : taken[k][i] = i
  /\ \A i \in 1 .. m : slot[d].packets[i] = [peer |-> k, n |-> Len(taken[k]) + i]
  /\ \A e \in Index : \A i \in 1 .. Len(slot[e].packets) :
       slot[e].packets[i].peer = k => e = d /\ i <= m

\* What has been acknowledged to a client has been read or can still be: all
\* of it, once and in order, across stops, restarts, repeated segments, and
\* the closing of its own connection or a reset (UIPClient.cpp:373, :400).
StreamKept ==
  \A k \in Clients \ spoiled :
    rcv[k] > 0 => \E d \in Index : \E m \in 0 .. Len(slot[d].packets) :
                    Unread(k, d, m) /\ Len(taken[k]) + m = rcv[k] - 1

\* Nothing is stopped for good: a stopped connection has a packet for the
\* sketch to read, or the restart that the last reading asked for is still to
\* come, so that a poll or a reading can always follow (UIPClient.cpp:272, :383).
StopHasCause ==
  \A c \in Index : conn[c].stopped /\ conn[c].peer \notin spoiled =>
    slot[c].packets # <<>> \/ slot[c].restart

\* A slot before d has something for the sketch, which then does not look at d
Busy(d) == \E e \in Index : e < d /\ Visible(e)

Spoilt(d) == \E i \in 1 .. Len(slot[d].packets) : slot[d].packets[i].peer \in spoiled

\* Every line that was acknowledged and waits in a slot reaches the sketch,
\* even if its client has closed or reset: a slot that is not emptied is read
\* again and again.  Only a slot after one that is never left empty may wait
\* for ever, since the sketch looks at the first slot first (UIPServer.cpp:32).
LinesReachSketch ==
  \A d \in Index :
    \/ []<>(slot[d].packets = <<>> \/ Busy(d) \/ Spoilt(d))
    \/ []<><<slot[d].packets # <<>> /\ Read(d)>>_vars

\* A stopped connection does not stay stopped: the reading of its packets
\* restarts it (UIPClient.cpp:272, :383), unless its slot waits for ever.
Restarted ==
  \A c \in Index :
    \/ []<>Busy(c)
    \/ conn[c].stopped ~> ~ conn[c].stopped \/ conn[c].peer \in spoiled
===========================================================================
