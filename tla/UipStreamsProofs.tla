------------------------- MODULE UipStreamsProofs -------------------------
(***************************************************************************)
(* What UIPClient keeps of a client's stream, for every number of clients, *)
(* connections and packets.                                                *)
(***************************************************************************)
EXTENDS UipStreams, SequenceTheorems, WellFoundedInduction, TLAPS

---------------------------------------------------------------------------
(***************************************************************************)
(* The inductive invariant.                                                *)
(***************************************************************************)
ConnType == [st : {"closed", "syn_rcvd", "established", "last_ack"},
             peer : Clients \cup {None}, stopped : BOOLEAN,
             app : Index \cup {None}]
Packet   == [peer : Clients, n : Nat]
SlotType == [st : {"free", "connected", "remoteclosed"}, restart : BOOLEAN,
             packets : Seq(Packet)]

StreamType ==
  /\ conn \in [Index -> ConnType]
  /\ slot \in [Index -> SlotType]
  /\ rcv \in [Clients -> Nat]
  /\ taken \in [Clients -> Seq(Nat)]
  /\ spoiled \subseteq Clients

\* A slot is in use by one connection or by none, and a slot nobody uses is
\* as the library has set it up.
Owned ==
  /\ \A c \in Index : conn[c].app # None => slot[conn[c].app].st = "connected"
  /\ \A c, d \in Index : conn[c].app # None /\ conn[c].app = conn[d].app => c = d
  /\ \A d \in Index : slot[d].st = "free" => slot[d] = FreeSlot
  /\ \A c \in Index : conn[c].st = "last_ack" => conn[c].app = None
  /\ \A d \in Index : Len(slot[d].packets) <= Packets

\* Nothing of the client has been taken or kept.
Fresh(k) ==
  /\ taken[k] = <<>>
  /\ \A d \in Index : \A i \in 1 .. Len(slot[d].packets) : slot[d].packets[i].peer # k

Active(c) == conn[c].st # "closed"

\* A client has one connection at most, and none before its SYN; only an open
\* connection is stopped.
OneConnection ==
  /\ \A c \in Index : Active(c) => conn[c].peer \in Clients /\ rcv[conn[c].peer] > 0
  /\ \A c, d \in Index : Active(c) /\ Active(d) /\ conn[c].peer = conn[d].peer => c = d
  /\ \A k \in Clients : rcv[k] = 0 => Fresh(k)
  /\ \A c \in Index : conn[c].st = "syn_rcvd" =>
       rcv[conn[c].peer] = 1 /\ Fresh(conn[c].peer)
  /\ \A c \in Index : conn[c].stopped => conn[c].st = "established"

\* An open connection of a client that is not spoiled has the slot of its own
\* number for itself; while it is not stopped there is room for a packet, and
\* while it is there is one to read or a restart to come.
OwnSlot(c) ==
  /\ conn[c].app = c
  /\ Unread(conn[c].peer, c, Len(slot[c].packets))
  /\ Len(taken[conn[c].peer]) + Len(slot[c].packets) = rcv[conn[c].peer] - 1
  /\ ~conn[c].stopped \/ slot[c].restart => Len(slot[c].packets) < Packets
  /\ slot[c].restart => conn[c].stopped
  /\ conn[c].stopped => Len(slot[c].packets) > 0 \/ slot[c].restart

OpenStreams ==
  \A c \in Index :
    conn[c].st = "established" /\ conn[c].peer \notin spoiled => OwnSlot(c)

StreamInv ==
  /\ StreamType
  /\ Owned
  /\ OneConnection
  /\ OpenStreams
  /\ StreamKept

---------------------------------------------------------------------------
(***************************************************************************)
(* The first free slot, closed connection or readable slot is one of them. *)
(***************************************************************************)
LEMMA MinIsIn ==
  ASSUME NEW S \in SUBSET Index, S # {}
  PROVE  Min(S) \in S
<1>1. S \subseteq Nat
  BY UipSizes DEF Index
<1>2. PICK x \in S : \A y \in S : ~(<<y, x>> \in OpToRel(<, Nat))
  BY <1>1, NatLessThanWellFounded, WFMin, Zenon
<1>3. \A y \in S : x <= y
  <2>1. OpToRel(<, Nat) = {ss \in Nat \X Nat : ss[1] < ss[2]}
    BY Zenon DEF OpToRel
  <2>. SUFFICES ASSUME NEW y \in S, ~(x <= y) PROVE FALSE
    OBVIOUS
  <2>2. y < x /\ x \in Nat /\ y \in Nat
    BY <1>1
  <2>3. <<y, x>> \in {ss \in Nat \X Nat : ss[1] < ss[2]}
    BY <2>2
  <2>. QED
    BY <1>2, <2>1, <2>3, Zenon
<1>. QED
  BY <1>3, Zenon DEF Min

(***************************************************************************)
(* What a segment carries: nothing, or the line that is next.              *)
(***************************************************************************)
NextLine(k) == [peer |-> k, n |-> rcv[k]]

LEMMA SegmentShape ==
  ASSUME NEW k \in Clients, NEW new \in Segments(k)
  PROVE  new = <<>> \/ new = <<NextLine(k)>>
BY DEF Segments, InOrder, NextLine

(***************************************************************************)
(* appcall() in one place: which slot it works on, and what it leaves.     *)
(***************************************************************************)
RoomFor(d) == Len(slot[d].packets) < Packets /\ Room

Halted(c, app, new) ==
  /\ \/ conn[c].stopped
     \/ /\ app # None /\ new # <<>>
        /\ Len(slot[app].packets) >= Packets - 1 \/ ~Room
  /\ app # None => ~slot[app].restart

Called(c, st, event, new, app) ==
  /\ app \in Index \cup {None}
  /\ conn[c].app # None => app = conn[c].app
  /\ conn[c].app = None /\ app # None =>
       app = AllocatedSlot /\ slot[app] = FreeSlot /\ event = "connected"
  /\ event = "connected" /\ conn[c].app = None => app = AllocatedSlot
  /\ conn' \in [Index -> ConnType]
  /\ \A d \in Index : d # c => conn'[d] = conn[d]
  /\ conn'[c].st = st /\ conn'[c].peer = conn[c].peer
  /\ conn'[c].stopped <=> st = "established" /\ Halted(c, app, new)
  /\ conn'[c].app = IF event = "closed" THEN None ELSE app
  /\ slot' \in [Index -> SlotType]
  /\ \A d \in Index : d # app => slot'[d] = slot[d]
  /\ app # None =>
       /\ slot'[app].packets = IF RoomFor(app) THEN slot[app].packets \o new
                                               ELSE slot[app].packets
       /\ ~slot'[app].restart
       /\ event # "closed" => slot'[app].st = "connected"
       /\ event = "closed" => slot'[app].st # "connected"
       /\ slot'[app].st = "free" => slot'[app] = FreeSlot

LEMMA OneLine ==
  ASSUME NEW p \in Packet
  PROVE  <<p>> \in Seq(Packet) /\ Len(<<p>>) = 1 /\ <<p>>[1] = p /\ <<p>> # <<>>
OBVIOUS

LEMMA CalledFacts ==
  ASSUME StreamType, Owned, NEW c \in Index,
         NEW st \in {"established", "last_ack", "closed"}, NEW event,
         NEW new, conn[c].peer \in Clients,
         new = <<>> \/ new = <<NextLine(conn[c].peer)>>,
         appcall(c, st, event, new)
  PROVE  Called(c, st, event, new, App(c, event))
<1>. DEFINE app == App(c, event)
            u == IF conn[c].app = None THEN [FreeSlot EXCEPT !.st = "connected"]
                                       ELSE slot[app]
            packets == IF Keeps(u) THEN u.packets \o new ELSE u.packets
<1>0. None \notin Index
  BY UipSizes DEF Index
<1>1. AllocatedSlot \in Index \cup {None}
      /\ (AllocatedSlot # None => slot[AllocatedSlot].st = "free")
  <2>. DEFINE free == {d \in Index : slot[d].st = "free"}
  <2>1. free # {} => Min(free) \in free
    BY MinIsIn, Zenon
  <2>. QED
    BY <2>1, Zenon DEF AllocatedSlot
<1>2. conn[c] \in ConnType
  BY DEF StreamType
<1>3. /\ app \in Index \cup {None}
      /\ conn[c].app # None => app = conn[c].app
      /\ conn[c].app = None /\ app # None =>
           app = AllocatedSlot /\ slot[app] = FreeSlot /\ event = "connected"
      /\ event = "connected" /\ conn[c].app = None => app = AllocatedSlot
  <2>1. conn[c].app \in Index \cup {None}
    BY <1>2 DEF ConnType
  <2>2. app = IF conn[c].app = None /\ event = "connected" THEN AllocatedSlot
                                                           ELSE conn[c].app
    BY Zenon DEF App
  <2>3. \A d \in Index : slot[d].st = "free" => slot[d] = FreeSlot
    BY DEF Owned
  <2>. HIDE DEF app
  <2>. QED
    BY <1>0, <1>1, <2>1, <2>2, <2>3
<1>4. app # None => /\ u.st = "connected"
                    /\ u.packets = slot[app].packets
                    /\ u.restart = slot[app].restart
  <2>1. CASE conn[c].app = None
    BY <1>3, <2>1 DEF FreeSlot
  <2>2. CASE conn[c].app # None
    BY <1>3, <2>2 DEF Owned
  <2>. QED
    BY <2>1, <2>2
<1>5. app # None => /\ Keeps(u) <=> RoomFor(app)
                    /\ Stops(u) <=> Len(slot[app].packets) >= Packets - 1 \/ ~Room
  BY <1>4, Zenon DEF Keeps, Stops, RoomFor
<1>6. /\ conn' = [conn EXCEPT ![c] = [@ EXCEPT
                !.st = st,
                !.stopped = /\ st = "established"
                            /\ conn[c].stopped \/ (app # None /\ new # <<>> /\ Stops(u))
                            /\ app # None => ~ u.restart,
                !.app = IF event = "closed" THEN None ELSE app]]
      /\ slot' = [d \in Index |->
                IF d # app THEN slot[d]
                ELSE IF event # "closed" THEN [u EXCEPT !.restart = FALSE, !.packets = packets]
                ELSE IF packets = <<>> THEN FreeSlot
                ELSE [st |-> "remoteclosed", restart |-> FALSE, packets |-> packets]]
  BY DEF appcall
<1>. HIDE DEF app, u
<1>7. /\ conn' \in [Index -> ConnType]
      /\ \A d \in Index : d # c => conn'[d] = conn[d]
      /\ conn'[c].st = st /\ conn'[c].peer = conn[c].peer
      /\ conn'[c].stopped <=> st = "established" /\ Halted(c, app, new)
      /\ conn'[c].app = IF event = "closed" THEN None ELSE app
  <2>. DEFINE b == /\ st = "established"
                   /\ conn[c].stopped \/ (app # None /\ new # <<>> /\ Stops(u))
                   /\ app # None => ~ u.restart
              a == IF event = "closed" THEN None ELSE app
              r == [conn[c] EXCEPT !.st = st, !.stopped = b, !.app = a]
  <2>1. b <=> st = "established" /\ Halted(c, app, new)
    BY <1>4, <1>5, Zenon DEF Halted
  <2>2. b \in BOOLEAN /\ a \in Index \cup {None}
    BY <1>3
  <2>3. conn' = [conn EXCEPT ![c] = r]
    BY <1>6, Zenon
  <2>. HIDE DEF a, b
  <2>4. r \in ConnType /\ r.st = st /\ r.peer = conn[c].peer /\ r.stopped = b /\ r.app = a
    BY <1>2, <2>2 DEF ConnType
  <2>. HIDE DEF r
  <2>5. conn' \in [Index -> ConnType] /\ conn'[c] = r
        /\ \A d \in Index : d # c => conn'[d] = conn[d]
    BY <2>3, <2>4 DEF StreamType
  <2>. QED
    BY <2>1, <2>4, <2>5, Zenon DEF a
<1>8. app # None => packets = IF RoomFor(app) THEN slot[app].packets \o new
                                              ELSE slot[app].packets
  BY <1>4, <1>5, Zenon
<1>9. app # None => packets \in Seq(Packet)
  <2>1. app # None => slot[app].packets \in Seq(Packet)
    BY <1>3 DEF StreamType, SlotType
  <2>2. NextLine(conn[c].peer) \in Packet
    BY DEF NextLine, Packet, StreamType
  <2>3. new \in Seq(Packet)
    BY <2>2, EmptySeq, OneLine
  <2>4. app # None => slot[app].packets \o new \in Seq(Packet)
    BY <2>1, <2>3, ConcatProperties
  <2>. QED
    BY <1>8, <2>1, <2>4, Zenon
<1>. HIDE DEF packets
<1>10. app # None => u \in SlotType
  BY <1>3 DEF StreamType, SlotType, u, FreeSlot, Owned
<1>11. ASSUME app # None
       PROVE  /\ slot'[app] \in SlotType
              /\ slot'[app].packets = packets
              /\ ~slot'[app].restart
              /\ event # "closed" => slot'[app].st = "connected"
              /\ event = "closed" => slot'[app].st # "connected"
              /\ slot'[app].st = "free" => slot'[app] = FreeSlot
  <2>. DEFINE r == [u EXCEPT !.restart = FALSE, !.packets = packets]
              z == [st |-> "remoteclosed", restart |-> FALSE, packets |-> packets]
  <2>1. slot'[app] = IF event # "closed" THEN r
                     ELSE IF packets = <<>> THEN FreeSlot ELSE z
    BY <1>3, <1>6, <1>11
  <2>2. r \in SlotType /\ r.st = "connected" /\ r.packets = packets /\ ~r.restart
    BY <1>4, <1>9, <1>10, <1>11 DEF SlotType
  <2>3. z \in SlotType /\ z.st = "remoteclosed" /\ z.packets = packets /\ ~z.restart
    BY <1>9, <1>11 DEF SlotType
  <2>4. /\ FreeSlot \in SlotType /\ FreeSlot.packets = <<>> /\ ~FreeSlot.restart
        /\ FreeSlot.st = "free"
    BY DEF FreeSlot, SlotType
  <2>. HIDE DEF r, z
  <2>5. CASE event # "closed"
    BY <2>1, <2>2, <2>5
  <2>6. CASE event = "closed" /\ packets = <<>>
    BY <2>1, <2>4, <2>6
  <2>7. CASE event = "closed" /\ packets # <<>>
    BY <2>1, <2>3, <2>7
  <2>. QED
    BY <2>5, <2>6, <2>7
<1>12. \A d \in Index : d # app => slot'[d] = slot[d]
  BY <1>6, Zenon
<1>13. /\ slot' \in [Index -> SlotType]
       /\ app # None =>
           /\ slot'[app].packets = packets
           /\ ~slot'[app].restart
           /\ event # "closed" => slot'[app].st = "connected"
           /\ event = "closed" => slot'[app].st # "connected"
           /\ slot'[app].st = "free" => slot'[app] = FreeSlot
  <2>2. \A d \in Index : slot'[d] \in SlotType
    BY <1>0, <1>11, <1>12 DEF StreamType
  <2>3. slot' = [d \in Index |-> slot'[d]]
    BY <1>6
  <2>. QED
    BY <1>11, <2>2, <2>3
<1>. QED
  BY <1>3, <1>7, <1>8, <1>12, <1>13, Zenon DEF Called, app

---------------------------------------------------------------------------
(***************************************************************************)
(* A step of uip_process() that calls the application: the slot it works   *)
(* on either stays or gets the line that is next.                          *)
(***************************************************************************)
\* What must hold of the slot when the client of c is to be served from it.
Ready(c, new, app) ==
  /\ app = c
  /\ Unread(conn[c].peer, c, Len(slot[c].packets))
  /\ Len(taken[conn[c].peer]) + Len(slot[c].packets) = rcv[conn[c].peer] - 1
  /\ ~conn[c].stopped \/ slot[c].restart => Len(slot[c].packets) < Packets
  /\ conn[c].stopped => Len(slot[c].packets) > 0 \/ slot[c].restart
  /\ new # <<>> => ~slot[c].restart /\ Len(slot[c].packets) < Packets

AcceptStep(c, st, event, new, app) ==
  /\ Active(c)
  /\ st \in {"established", "last_ack", "closed"}
  /\ st = "last_ack" => event = "closed"
  /\ new = <<>> \/ new = <<NextLine(conn[c].peer)>>
  /\ Called(c, st, event, new, app)
  /\ rcv' = [rcv EXCEPT ![conn[c].peer] = @ + Len(new)]
  /\ taken' = taken
  /\ spoiled \subseteq spoiled' /\ spoiled' \subseteq Clients
  /\ new # <<>> /\ conn[c].peer \notin spoiled' => Room
  /\ st = "established" => event # "closed"
  /\ st = "established" \/ new # <<>> =>
       conn[c].peer \in spoiled' \/ Ready(c, new, app)

Stays(d)   == slot'[d].packets = slot[d].packets
Gets(d, p) ==
  /\ Len(slot'[d].packets) = Len(slot[d].packets) + 1
  /\ slot'[d].packets[Len(slot[d].packets) + 1] = p
  /\ \A i \in 1 .. Len(slot[d].packets) : slot'[d].packets[i] = slot[d].packets[i]

LEMMA SlotTyped ==
  ASSUME StreamType, NEW d \in Index
  PROVE  slot[d].packets \in Seq(Packet) /\ Len(slot[d].packets) \in Nat
BY LenProperties DEF StreamType, SlotType

LEMMA AcceptPackets ==
  ASSUME StreamType, OneConnection, NEW c \in Index, NEW st, NEW event, NEW new, NEW app,
         AcceptStep(c, st, event, new, app)
  PROVE  \A d \in Index :
           IF d = app /\ new # <<>> /\ RoomFor(app)
           THEN Gets(d, NextLine(conn[c].peer)) ELSE Stays(d)
<1>. DEFINE p == NextLine(conn[c].peer)
<1>. TAKE d \in Index
<1>1. p \in Packet
  BY DEF AcceptStep, OneConnection, Active, NextLine, Packet, StreamType
<1>2. slot[d].packets \in Seq(Packet)
  BY SlotTyped
<1>3. d # app => slot'[d] = slot[d]
  BY DEF AcceptStep, Called
<1>4. d = app => slot'[d].packets = IF RoomFor(app) THEN slot[d].packets \o new
                                                    ELSE slot[d].packets
  <2>1. None \notin Index
    BY UipSizes DEF Index
  <2>. QED
    BY <2>1 DEF AcceptStep, Called
<1>5. new = <<>> \/ new = <<p>>
  BY DEF AcceptStep
<1>. HIDE DEF p
<1>6. slot[d].packets \o <<>> = slot[d].packets
  BY <1>2, ConcatEmptySeq
<1>7. /\ <<p>> \in Seq(Packet) /\ Len(<<p>>) = 1 /\ <<p>>[1] = p
      /\ <<p>> # <<>>
  BY <1>1, OneLine, Zenon
<1>8. CASE d = app /\ new # <<>> /\ RoomFor(app)
  <2>1. slot'[d].packets = slot[d].packets \o <<p>>
    BY <1>4, <1>5, <1>8
  <2>2. Gets(d, p)
    BY <1>2, <1>7, <2>1, ConcatProperties, LenProperties DEF Gets
  <2>. QED
    BY <1>8, <2>2 DEF p
<1>9. CASE ~(d = app /\ new # <<>> /\ RoomFor(app))
  BY <1>3, <1>4, <1>5, <1>6, <1>9 DEF Stays
<1>. QED
  BY <1>8, <1>9

(***************************************************************************)
(* The other clients and connections are left alone.                       *)
(***************************************************************************)
LEMMA OthersPackets ==
  ASSUME StreamType, OneConnection, NEW c \in Index, NEW st, NEW event, NEW new, NEW app,
         AcceptStep(c, st, event, new, app),
         NEW j \in Clients, j # conn[c].peer, NEW d \in Index
  PROVE  /\ Len(slot[d].packets) \in Nat /\ Len(slot'[d].packets) \in Nat
         /\ Len(slot[d].packets) <= Len(slot'[d].packets)
         /\ \A i \in 1 .. Len(slot[d].packets) : slot'[d].packets[i] = slot[d].packets[i]
         /\ \A i \in 1 .. Len(slot'[d].packets) :
              slot'[d].packets[i].peer = j => i \in 1 .. Len(slot[d].packets)
<1>1. Stays(d) \/ Gets(d, NextLine(conn[c].peer))
  BY AcceptPackets
<1>2. Len(slot[d].packets) \in Nat
  BY SlotTyped
<1>3. NextLine(conn[c].peer).peer # j
  BY DEF NextLine
<1>. QED
  BY <1>1, <1>2, <1>3 DEF Stays, Gets

LEMMA OthersUnread ==
  ASSUME StreamType, OneConnection, NEW c \in Index, NEW st, NEW event, NEW new, NEW app,
         AcceptStep(c, st, event, new, app),
         NEW j \in Clients, j # conn[c].peer,
         NEW d \in Index, NEW m \in 0 .. Len(slot[d].packets), Unread(j, d, m)
  PROVE  Unread(j, d, m)' /\ m \in 0 .. Len(slot'[d].packets)
<1>1. taken' = taken
  BY DEF AcceptStep
<1>2. \A e \in Index :
         /\ Len(slot[e].packets) \in Nat /\ Len(slot'[e].packets) \in Nat
         /\ Len(slot[e].packets) <= Len(slot'[e].packets)
         /\ \A i \in 1 .. Len(slot[e].packets) : slot'[e].packets[i] = slot[e].packets[i]
         /\ \A i \in 1 .. Len(slot'[e].packets) :
              slot'[e].packets[i].peer = j => i \in 1 .. Len(slot[e].packets)
  BY OthersPackets, Zenon
<1>3. m \in 0 .. Len(slot'[d].packets)
  BY <1>2
<1>4. \A i \in 1 .. m : slot'[d].packets[i] = [peer |-> j, n |-> Len(taken'[j]) + i]
  <2>1. \A i \in 1 .. m : i \in 1 .. Len(slot[d].packets)
    BY <1>2
  <2>. QED
    BY <1>1, <1>2, <2>1 DEF Unread
<1>5. \A e \in Index : \A i \in 1 .. Len(slot'[e].packets) :
        slot'[e].packets[i].peer = j => e = d /\ i <= m
  <2>. TAKE e \in Index
  <2>. TAKE i \in 1 .. Len(slot'[e].packets)
  <2>. HAVE slot'[e].packets[i].peer = j
  <2>1. i \in 1 .. Len(slot[e].packets) /\ slot[e].packets[i].peer = j
    BY <1>2
  <2>. QED
    BY <2>1 DEF Unread
<1>6. \A i \in 1 .. Len(taken'[j]) : taken'[j][i] = i
  BY <1>1 DEF Unread
<1>. QED
  BY <1>3, <1>4, <1>5, <1>6 DEF Unread

LEMMA OthersFresh ==
  ASSUME StreamType, OneConnection, NEW c \in Index, NEW st, NEW event, NEW new, NEW app,
         AcceptStep(c, st, event, new, app),
         NEW j \in Clients, j # conn[c].peer, Fresh(j)
  PROVE  Fresh(j)'
<1>1. taken' = taken
  BY DEF AcceptStep
<1>2. \A d \in Index : \A i \in 1 .. Len(slot'[d].packets) : slot'[d].packets[i].peer # j
  <2>. TAKE d \in Index
  <2>. TAKE i \in 1 .. Len(slot'[d].packets)
  <2>1. slot'[d].packets[i].peer = j =>
          i \in 1 .. Len(slot[d].packets) /\ slot'[d].packets[i] = slot[d].packets[i]
    BY OthersPackets
  <2>. QED
    BY <2>1 DEF Fresh
<1>. QED
  BY <1>1, <1>2 DEF Fresh

LEMMA OthersSlot ==
  ASSUME StreamType, Owned, NEW c \in Index, NEW st, NEW event, NEW new, NEW app,
         AcceptStep(c, st, event, new, app),
         NEW x \in Index, x # c, conn[x].app # None
  PROVE  /\ conn'[x] = conn[x] /\ conn[x].app \in Index /\ conn[x].app # app
         /\ slot'[conn[x].app] = slot[conn[x].app]
<1>1. conn[x].app \in Index
  BY DEF StreamType, ConnType
<1>2. conn[x].app # app
  <2>1. CASE conn[c].app # None
    BY <2>1 DEF Owned, AcceptStep, Called
  <2>2. CASE conn[c].app = None /\ app # None
    BY <2>2 DEF Owned, AcceptStep, Called, FreeSlot
  <2>3. CASE app = None
    BY <2>3
  <2>. QED
    BY <2>1, <2>2, <2>3
<1>. QED
  BY <1>1, <1>2 DEF AcceptStep, Called

---------------------------------------------------------------------------
(***************************************************************************)
(* Such a step keeps each part of the invariant.                           *)
(***************************************************************************)
LEMMA AcceptTyped ==
  ASSUME StreamType, OneConnection, NEW c \in Index, NEW st, NEW event, NEW new, NEW app,
         AcceptStep(c, st, event, new, app)
  PROVE  StreamType' /\ (new # <<>> => rcv' = [rcv EXCEPT ![conn[c].peer] = @ + 1])
                     /\ (new = <<>> => rcv' = rcv)
<1>1. new = <<>> \/ Len(new) = 1
  <2>1. NextLine(conn[c].peer) \in Packet
    BY DEF AcceptStep, OneConnection, Active, NextLine, Packet, StreamType
  <2>. QED
    BY <2>1, OneLine DEF AcceptStep
<1>2. new # <<>> => rcv' = [rcv EXCEPT ![conn[c].peer] = @ + 1]
  BY <1>1 DEF AcceptStep
<1>3. new = <<>> => rcv' = rcv
  <2>. SUFFICES ASSUME new = <<>> PROVE rcv' = rcv
    OBVIOUS
  <2>1. Len(new) = 0
    BY EmptySeq
  <2>. QED
    BY <2>1 DEF AcceptStep, StreamType
<1>4. rcv' \in [Clients -> Nat]
  BY <1>2, <1>3 DEF AcceptStep, OneConnection, StreamType
<1>5. /\ conn' \in [Index -> ConnType] /\ slot' \in [Index -> SlotType]
      /\ taken' = taken /\ spoiled' \subseteq Clients
  BY DEF AcceptStep, Called
<1>. QED
  BY <1>2, <1>3, <1>4, <1>5 DEF StreamType

LEMMA AcceptOwned ==
  ASSUME StreamType, Owned, OneConnection, NEW c \in Index, NEW st, NEW event, NEW new, NEW app,
         AcceptStep(c, st, event, new, app)
  PROVE  Owned'
<1>0. None \notin Index
  BY UipSizes DEF Index
<1>1. \A x \in Index : x # c =>
        /\ conn'[x] = conn[x]
        /\ conn[x].app # None => conn[x].app \in Index /\ conn[x].app # app
                                 /\ slot'[conn[x].app] = slot[conn[x].app]
  <2>. TAKE x \in Index
  <2>1. x # c => conn'[x] = conn[x]
    BY DEF AcceptStep, Called
  <2>2. x # c /\ conn[x].app # None =>
          conn[x].app \in Index /\ conn[x].app # app /\ slot'[conn[x].app] = slot[conn[x].app]
    BY OthersSlot
  <2>. QED
    BY <2>1, <2>2
<1>2. conn'[c].app # None => event # "closed" /\ conn'[c].app = app
  BY DEF AcceptStep, Called
<1>3. \A x \in Index : conn'[x].app # None => slot'[conn'[x].app].st = "connected"
  <2>. TAKE x \in Index
  <2>1. CASE x = c
    BY <1>2, <2>1 DEF AcceptStep, Called
  <2>2. CASE x # c
    BY <1>1, <2>2 DEF Owned
  <2>. QED
    BY <2>1, <2>2
<1>4. \A x, y \in Index : conn'[x].app # None /\ conn'[x].app = conn'[y].app => x = y
  BY <1>1, <1>2 DEF Owned
<1>5. \A d \in Index : slot'[d].st = "free" => slot'[d] = FreeSlot
  BY <1>0 DEF Owned, AcceptStep, Called
<1>6. \A x \in Index : conn'[x].st = "last_ack" => conn'[x].app = None
  BY <1>1 DEF Owned, AcceptStep, Called
<1>7. \A d \in Index : Len(slot'[d].packets) <= Packets
  <2>. TAKE d \in Index
  <2>1. PICK n \in Nat : n = Len(slot[d].packets)
    BY SlotTyped
  <2>2. n <= Packets /\ Packets \in Nat
    BY <2>1, UipSizes DEF Owned
  <2>3. CASE Stays(d)
    BY <2>1, <2>2, <2>3 DEF Stays
  <2>4. CASE Gets(d, NextLine(conn[c].peer)) /\ d = app /\ RoomFor(app)
    <3>1. n < Packets /\ Len(slot'[d].packets) = n + 1
      BY <2>1, <2>4 DEF Gets, RoomFor
    <3>. QED
      BY <2>2, <3>1
  <2>. QED
    BY <2>3, <2>4, AcceptPackets
<1>. QED
  BY <1>3, <1>4, <1>5, <1>6, <1>7 DEF Owned

LEMMA AcceptOneConnection ==
  ASSUME StreamType, OneConnection, NEW c \in Index, NEW st, NEW event, NEW new, NEW app,
         AcceptStep(c, st, event, new, app)
  PROVE  OneConnection'
<1>. PICK k : k = conn[c].peer
  OBVIOUS
<1>1. /\ k \in Clients /\ rcv[k] > 0
      /\ \A x \in Index : x # c /\ Active(x) => conn[x].peer # k
  BY DEF AcceptStep, OneConnection
<1>2. /\ \A j \in Clients : j # k => rcv'[j] = rcv[j]
      /\ rcv'[k] > 0
  <2>1. rcv \in [Clients -> Nat] /\ rcv[k] \in Nat
    BY <1>1 DEF StreamType
  <2>2. rcv' = rcv \/ rcv' = [rcv EXCEPT ![k] = @ + 1]
    BY AcceptTyped
  <2>. QED
    BY <1>1, <2>1, <2>2
<1>3. /\ \A x \in Index : x # c => conn'[x] = conn[x]
      /\ conn'[c].peer = k /\ conn'[c].st # "syn_rcvd"
  BY DEF AcceptStep, Called
<1>4. \A x \in Index : Active(x)' => Active(x) /\ conn'[x].peer = conn[x].peer
  BY <1>3 DEF Active, AcceptStep
<1>5. \A j \in Clients : j # k /\ Fresh(j) => Fresh(j)'
  BY OthersFresh
<1>6. \A x \in Index : Active(x)' => conn'[x].peer \in Clients /\ rcv'[conn'[x].peer] > 0
  BY <1>2, <1>4 DEF OneConnection
<1>7. \A x, y \in Index :
        Active(x)' /\ Active(y)' /\ conn'[x].peer = conn'[y].peer => x = y
  BY <1>4 DEF OneConnection
<1>8. \A j \in Clients : rcv'[j] = 0 => Fresh(j)'
  <2>. TAKE j \in Clients
  <2>. HAVE rcv'[j] = 0
  <2>1. j # k /\ rcv[j] = 0
    BY <1>2
  <2>. QED
    BY <1>5, <2>1 DEF OneConnection
<1>9. \A x \in Index : conn'[x].st = "syn_rcvd" =>
        (rcv[conn[x].peer] = 1 /\ Fresh(conn[x].peer))'
  <2>. TAKE x \in Index
  <2>. HAVE conn'[x].st = "syn_rcvd"
  <2>1. x # c /\ conn'[x] = conn[x] /\ Active(x)
    BY <1>3 DEF Active
  <2>. PICK j : j = conn[x].peer
    OBVIOUS
  <2>2. j \in Clients /\ j # k /\ rcv[j] = 1 /\ Fresh(j)
    BY <1>1, <2>1 DEF OneConnection
  <2>3. rcv'[j] = 1 /\ Fresh(j)'
    BY <1>2, <1>5, <2>2
  <2>4. conn'[x].peer = j
    BY <2>1
  <2>. QED
    BY <2>3, <2>4 DEF Fresh
<1>10. \A x \in Index : conn'[x].stopped => conn'[x].st = "established"
  BY <1>3 DEF OneConnection, AcceptStep, Called
<1>. QED
  BY <1>6, <1>7, <1>8, <1>9, <1>10 DEF OneConnection

(***************************************************************************)
(* The client whose slot is ready gets its line kept, after the others.    *)
(***************************************************************************)
LEMMA ReadyUnread ==
  ASSUME StreamType, OneConnection, NEW c \in Index, NEW st, NEW event, NEW new, NEW app,
         NEW k, k = conn[c].peer, AcceptStep(c, st, event, new, app),
         Ready(c, new, app), conn[c].peer \notin spoiled'
  PROVE  /\ Unread(k, c, Len(slot[c].packets))'
         /\ Len(taken'[k]) + Len(slot'[c].packets) = rcv'[k] - 1
         /\ Len(slot'[c].packets) = Len(slot[c].packets) + IF new = <<>> THEN 0 ELSE 1
<1>1. k \in Clients /\ taken' = taken
  BY DEF AcceptStep, OneConnection
<1>0. PICK d \in Nat, t \in Nat, n \in Nat :
        d = Len(slot[c].packets) /\ t = Len(taken[k]) /\ n = rcv[k]
  BY <1>1, SlotTyped, LenProperties DEF StreamType
<1>2. /\ app = c /\ Unread(k, c, d) /\ t + d = n - 1
      /\ new # <<>> => RoomFor(app)
  BY <1>0 DEF Ready, AcceptStep, RoomFor
<1>3. \A e \in Index : e # c \/ new = <<>> => Stays(e)
  BY <1>0, <1>2, AcceptPackets
<1>4. CASE new = <<>>
  <2>1. \A e \in Index : slot'[e].packets = slot[e].packets
    BY <1>3, <1>4 DEF Stays
  <2>2. rcv' = rcv
    BY <1>4, AcceptTyped
  <2>3. Unread(k, c, d)'
    BY <1>0, <1>1, <1>2, <2>1 DEF Unread
  <2>4. Unread(k, c, Len(slot[c].packets))'
    BY <1>0, <2>1, <2>3 DEF Unread
  <2>5. Len(taken'[k]) = t /\ Len(slot'[c].packets) = d /\ rcv'[k] = n
    BY <1>0, <1>1, <2>1, <2>2
  <2>6. t + d = n - 1 /\ d = d + 0
    BY <1>2
  <2>7. Len(slot[c].packets) = d
    BY <1>0
  <2>. QED
    BY <1>4, <2>4, <2>5, <2>6, <2>7, Zenon
<1>5. CASE new # <<>>
  <2>1. Gets(c, NextLine(k))
    BY <1>0, <1>2, <1>5, AcceptPackets
  <2>2. rcv'[k] = n + 1
    BY <1>0, <1>1, <1>5, AcceptTyped DEF StreamType
  <2>3. Len(slot'[c].packets) = d + 1 /\ slot'[c].packets[d + 1] = [peer |-> k, n |-> n]
        /\ \A i \in 1 .. d : slot'[c].packets[i] = slot[c].packets[i]
    BY <1>0, <2>1 DEF Gets, NextLine
  <2>4. \A i \in 1 .. d + 1 : slot'[c].packets[i] = [peer |-> k, n |-> t + i]
    <3>. TAKE i \in 1 .. d + 1
    <3>1. CASE i \in 1 .. d
      BY <1>0, <1>1, <1>2, <2>3, <3>1 DEF Unread
    <3>2. CASE i = d + 1
      <4>1. t + i = n
        BY <1>2, <3>2
      <4>. QED
        BY <2>3, <3>2, <4>1
    <3>. QED
      BY <3>1, <3>2
  <2>5. \A e \in Index : \A i \in 1 .. Len(slot'[e].packets) :
          slot'[e].packets[i].peer = k => e = c /\ i <= d + 1
    <3>. TAKE e \in Index
    <3>. TAKE i \in 1 .. Len(slot'[e].packets)
    <3>. HAVE slot'[e].packets[i].peer = k
    <3>1. CASE e = c
      BY <2>3, <3>1
    <3>2. CASE e # c
      BY <1>0, <1>2, <1>3, <3>2 DEF Stays, Unread
    <3>. QED
      BY <3>1, <3>2
  <2>6. \A i \in 1 .. Len(taken[k]) : taken[k][i] = i
    BY <1>0, <1>2 DEF Unread
  <2>7. Unread(k, c, d + 1)'
    BY <1>0, <1>1, <2>4, <2>5, <2>6 DEF Unread
  <2>8. Unread(k, c, Len(slot[c].packets))'
    BY <2>3, <2>7 DEF Unread
  <2>9. Len(taken'[k]) = t /\ Len(slot'[c].packets) = d + 1 /\ rcv'[k] = n + 1
    BY <1>0, <1>1, <2>2, <2>3
  <2>10. t + (d + 1) = (n + 1) - 1
    BY <1>2
  <2>11. Len(slot[c].packets) = d
    BY <1>0
  <2>. QED
    BY <1>5, <2>8, <2>9, <2>10, <2>11, Zenon
<1>. QED
  BY <1>4, <1>5

LEMMA AcceptKept ==
  ASSUME StreamType, OneConnection, StreamKept,
         NEW c \in Index, NEW st, NEW event, NEW new, NEW app,
         AcceptStep(c, st, event, new, app)
  PROVE  StreamKept'
<1>1. PICK k : k = conn[c].peer
  OBVIOUS
<1>2. taken' = taken /\ spoiled \subseteq spoiled'
  BY DEF AcceptStep
<1>3. k \in Clients /\ rcv[k] > 0
  BY <1>1 DEF AcceptStep, OneConnection
<1>. SUFFICES ASSUME NEW j \in Clients, j \notin spoiled', rcv'[j] > 0
              PROVE  \E d \in Index : \E m \in 0 .. Len(slot'[d].packets) :
                       Unread(j, d, m)' /\ Len(taken'[j]) + m = rcv'[j] - 1
  BY DEF StreamKept
<1>4. CASE j # k
  <2>1. rcv'[j] = rcv[j]
    BY <1>1, <1>4, AcceptTyped DEF StreamType
  <2>2. PICK d \in Index : \E m \in 0 .. Len(slot[d].packets) :
          Unread(j, d, m) /\ Len(taken[j]) + m = rcv[j] - 1
    BY <1>2, <2>1 DEF StreamKept
  <2>8. PICK m \in 0 .. Len(slot[d].packets) :
           Unread(j, d, m) /\ Len(taken[j]) + m = rcv[j] - 1
    BY <2>2
  <2>3. Unread(j, d, m)' /\ m \in 0 .. Len(slot'[d].packets)
    BY <1>1, <1>4, <2>8, OthersUnread
  <2>4. Len(taken'[j]) + m = rcv'[j] - 1
    BY <1>2, <2>1, <2>8
  <2>. QED
    BY <2>3, <2>4
<1>5. CASE j = k /\ new = <<>>
  <2>1. rcv' = rcv
    BY <1>5, AcceptTyped
  <2>2. \A e \in Index : slot'[e].packets = slot[e].packets
    BY <1>5, AcceptPackets DEF Stays
  <2>3. PICK d \in Index : \E m \in 0 .. Len(slot[d].packets) :
          Unread(j, d, m) /\ Len(taken[j]) + m = rcv[j] - 1
    BY <1>2, <2>1 DEF StreamKept
  <2>9. PICK m \in 0 .. Len(slot[d].packets) :
           Unread(j, d, m) /\ Len(taken[j]) + m = rcv[j] - 1
    BY <2>3
  <2>4. Unread(j, d, m)'
    BY <1>2, <2>2, <2>9 DEF Unread
  <2>5. m \in 0 .. Len(slot'[d].packets) /\ Len(taken'[j]) + m = rcv'[j] - 1
    BY <1>2, <2>1, <2>2, <2>9
  <2>. QED
    BY <2>4, <2>5
<1>6. CASE j = k /\ new # <<>>
  <2>1. Ready(c, new, app) /\ conn[c].peer \notin spoiled' /\ j = conn[c].peer
    BY <1>1, <1>6 DEF AcceptStep
  <2>2. PICK m \in Nat : m = Len(slot'[c].packets)
    BY AcceptTyped, LenProperties DEF StreamType, SlotType
  <2>3. /\ Unread(j, c, Len(slot[c].packets))'
        /\ Len(taken'[j]) + Len(slot'[c].packets) = rcv'[j] - 1
    BY <2>1, ReadyUnread
  <2>4. Unread(j, c, m)' /\ Len(taken'[j]) + m = rcv'[j] - 1
    BY <2>2, <2>3 DEF Unread
  <2>5. m \in 0 .. Len(slot'[c].packets)
    BY <2>2
  <2>. QED
    BY <2>4, <2>5
<1>. QED
  BY <1>4, <1>5, <1>6

LEMMA AcceptOpen ==
  ASSUME StreamType, Owned, OneConnection, OpenStreams,
         NEW c \in Index, NEW st, NEW event, NEW new, NEW app,
         AcceptStep(c, st, event, new, app)
  PROVE  OpenStreams'
<1>3. ASSUME NEW k \in Clients, k = conn[c].peer, Ready(c, new, app), k \notin spoiled'
      PROVE  /\ Unread(k, c, Len(slot[c].packets))'
             /\ Len(taken'[k]) + Len(slot'[c].packets) = rcv'[k] - 1
             /\ Len(slot'[c].packets) = Len(slot[c].packets) + IF new = <<>> THEN 0 ELSE 1
  BY <1>3, ReadyUnread
<1>. SUFFICES ASSUME NEW x \in Index, conn'[x].st = "established",
                     conn'[x].peer \notin spoiled'
              PROVE  OwnSlot(x)'
  BY DEF OpenStreams
<1>0. None \notin Index /\ Packets \in Nat
  BY UipSizes DEF Index
<1>1. CASE x # c
  <2>1. /\ conn'[x] = conn[x] /\ taken' = taken /\ spoiled \subseteq spoiled'
        /\ Active(c) /\ Active(x)
    BY <1>1 DEF AcceptStep, Called, Active
  <2>2. OwnSlot(x)
    BY <2>1 DEF OpenStreams
  <2>3. PICK j : j = conn[x].peer
    OBVIOUS
  <2>4. j \in Clients /\ j # conn[c].peer
    BY <1>1, <2>1, <2>3 DEF OneConnection
  <2>5. rcv'[j] = rcv[j]
    BY <2>4, AcceptTyped DEF StreamType
  <2>6. slot'[x] = slot[x]
    BY <1>0, <1>1, <2>2, OthersSlot DEF OwnSlot
  <2>7. PICK m \in Nat : m = Len(slot[x].packets)
    BY SlotTyped
  <2>8. Unread(j, x, m)
    BY <2>2, <2>3, <2>7 DEF OwnSlot, Unread
  <2>9. Unread(j, x, m)'
    BY <2>4, <2>7, <2>8, OthersUnread
  <2>10. Unread(j, x, Len(slot[x].packets))'
    BY <2>6, <2>7, <2>9 DEF Unread
  <2>11. Unread(conn[x].peer, x, Len(slot[x].packets))'
    BY <2>1, <2>3, <2>10 DEF Unread
  <2>12. Len(taken'[conn'[x].peer]) + Len(slot'[x].packets) = rcv'[conn'[x].peer] - 1
    BY <2>1, <2>2, <2>3, <2>5, <2>6 DEF OwnSlot
  <2>. QED
    BY <2>1, <2>2, <2>6, <2>11, <2>12 DEF OwnSlot
<1>2. CASE x = c
  <2>0. conn'[c].peer = conn[c].peer
    BY DEF AcceptStep, Called
  <2>9. st = "established" /\ event # "closed"
    BY <1>2 DEF AcceptStep, Called
  <2>1. Ready(c, new, app) /\ conn[c].peer \notin spoiled'
    BY <1>2 DEF AcceptStep, Called
  <2>2. PICK k \in Clients : k = conn[c].peer
    BY DEF AcceptStep, OneConnection
  <2>3. /\ Unread(k, c, Len(slot[c].packets))'
        /\ Len(taken'[k]) + Len(slot'[c].packets) = rcv'[k] - 1
        /\ Len(slot'[c].packets) = Len(slot[c].packets) + IF new = <<>> THEN 0 ELSE 1
    BY <1>3, <2>1, <2>2
  <2>4. Unread(conn[c].peer, c, Len(slot[c].packets))'
    BY <2>0, <2>2, <2>3 DEF Unread
  <2>5. conn'[c].app = c /\ ~slot'[c].restart /\ (conn'[c].stopped <=> Halted(c, c, new))
    BY <1>0, <2>1, <2>9 DEF Ready, AcceptStep, Called
  <2>6. ~Halted(c, c, new) => Len(slot'[c].packets) < Packets
    <3>. SUFFICES ASSUME ~Halted(c, c, new) PROVE Len(slot'[c].packets) < Packets
      OBVIOUS
    <3>1. PICK d \in Nat : d = Len(slot[c].packets)
      BY SlotTyped
    <3>2. ~conn[c].stopped \/ slot[c].restart
      BY <1>0 DEF Halted
    <3>3. CASE new = <<>>
      <4>1. d < Packets
        BY <2>1, <3>1, <3>2 DEF Ready
      <4>2. Len(slot'[c].packets) = d + 0
        BY <2>3, <3>1, <3>3
      <4>. QED
        BY <4>1, <4>2
    <3>4. CASE new # <<>>
      <4>1. ~(d >= Packets - 1)
        BY <1>0, <2>1, <3>1, <3>4 DEF Halted, Ready
      <4>2. Len(slot'[c].packets) = d + 1
        BY <2>3, <3>1, <3>4
      <4>. QED
        BY <1>0, <4>1, <4>2
    <3>. QED
      BY <3>3, <3>4
  <2>7. Len(taken'[conn'[c].peer]) + Len(slot'[c].packets) = rcv'[conn'[c].peer] - 1
    BY <2>0, <2>2, <2>3
  <2>8. Halted(c, c, new) => Len(slot'[c].packets) > 0
    <3>. SUFFICES ASSUME Halted(c, c, new) PROVE Len(slot'[c].packets) > 0
      OBVIOUS
    <3>1. PICK d \in Nat : d = Len(slot[c].packets)
      BY SlotTyped
    <3>2. CASE new = <<>>
      <4>1. conn[c].stopped /\ ~slot[c].restart
        BY <1>0, <3>2 DEF Halted
      <4>2. d > 0 /\ Len(slot'[c].packets) = d + 0
        BY <2>1, <2>3, <3>1, <3>2, <4>1 DEF Ready
      <4>. QED
        BY <4>2
    <3>3. CASE new # <<>>
      <4>1. Len(slot'[c].packets) = d + 1
        BY <2>3, <3>1, <3>3
      <4>. QED
        BY <4>1
    <3>. QED
      BY <3>2, <3>3
  <2>. QED
    BY <1>2, <2>4, <2>5, <2>6, <2>7, <2>8 DEF OwnSlot
<1>. QED
  BY <1>1, <1>2

LEMMA AcceptInv ==
  ASSUME StreamInv, NEW c \in Index, NEW st, NEW event, NEW new, NEW app,
         AcceptStep(c, st, event, new, app)
  PROVE  StreamInv'
BY AcceptTyped, AcceptOwned, AcceptOneConnection, AcceptOpen, AcceptKept DEF StreamInv

---------------------------------------------------------------------------
(***************************************************************************)
(* The actions of uip_process() are such steps.                            *)
(***************************************************************************)
LEMMA AcceptIsStep ==
  ASSUME StreamInv, NEW c \in Index, Active(c),
         NEW st \in {"established", "last_ack", "closed"}, NEW event,
         NEW new \in Segments(conn[c].peer),
         st = "last_ack" => event = "closed", st = "established" => event # "closed",
         Accept(c, st, event, new),
         st = "established" \/ new # <<>> =>
           conn[c].peer \in spoiled' \/ Ready(c, new, App(c, event))
  PROVE  StreamInv'
<1>1. conn[c].peer \in Clients
  BY DEF StreamInv, OneConnection
<1>2. new = <<>> \/ new = <<NextLine(conn[c].peer)>>
  BY <1>1, SegmentShape
<1>3. appcall(c, st, event, new) /\ Spoils(c, event, new)
      /\ rcv' = [rcv EXCEPT ![conn[c].peer] = @ + Len(new)]
  BY DEF Accept
<1>4. Called(c, st, event, new, App(c, event))
  BY <1>1, <1>2, <1>3, CalledFacts DEF StreamInv
<1>5. /\ taken' = taken /\ spoiled \subseteq spoiled' /\ spoiled' \subseteq Clients
      /\ new # <<>> /\ conn[c].peer \notin spoiled' => Room
  BY <1>1, <1>3 DEF Spoils, StreamInv, StreamType
<1>6. AcceptStep(c, st, event, new, App(c, event))
  BY <1>2, <1>3, <1>4, <1>5 DEF AcceptStep
<1>. QED
  BY <1>6, AcceptInv

LEMMA NothingIsSegment == ASSUME NEW k PROVE <<>> \in Segments(k)
BY DEF Segments

LEMMA ConnectedStep ==
  ASSUME StreamInv, NEW c \in Index, Connected(c) PROVE StreamInv'
<1>1. PICK new \in Segments(conn[c].peer) : Accept(c, "established", "connected", new)
  BY DEF Connected
<1>2. conn[c].st = "syn_rcvd" /\ Active(c)
  BY DEF Connected, Active
<1>3. PICK k \in Clients : k = conn[c].peer
  BY <1>2 DEF StreamInv, OneConnection
<1>4. ASSUME k \notin spoiled' PROVE Ready(c, new, App(c, "connected"))
  <2>1. conn[c].app = None /\ AllocatedSlot = c
    BY <1>1, <1>3, <1>4 DEF Accept, Spoils
  <2>2. App(c, "connected") = c
    BY <2>1 DEF App
  <2>3. slot[c] = FreeSlot
    <3>. DEFINE free == {d \in Index : slot[d].st = "free"}
    <3>1. free # {} => Min(free) \in free
      BY MinIsIn, Zenon
    <3>2. None \notin Index
      BY UipSizes DEF Index
    <3>3. c \in free
      BY <2>1, <3>1, <3>2 DEF AllocatedSlot
    <3>. QED
      BY <3>3 DEF StreamInv, Owned
  <2>4. slot[c].packets = <<>> /\ ~slot[c].restart /\ Len(slot[c].packets) = 0
    BY <2>3, EmptySeq DEF FreeSlot
  <2>5. rcv[k] = 1 /\ Fresh(k)
    BY <1>2, <1>3 DEF StreamInv, OneConnection
  <2>6. Len(taken[k]) = 0
    BY <2>5, EmptySeq DEF Fresh
  <2>7. Unread(k, c, 0)
    BY <2>5, <2>6 DEF Unread, Fresh
  <2>8. Unread(k, c, Len(slot[c].packets))
    BY <2>4, <2>7
  <2>9. Len(slot[c].packets) < Packets
    BY <2>4, UipSizes
  <2>10. Len(taken[k]) + Len(slot[c].packets) = rcv[k] - 1
    BY <2>4, <2>5, <2>6
  <2>11. ~conn[c].stopped
    BY <1>2 DEF StreamInv, OneConnection
  <2>. QED
    BY <1>3, <2>2, <2>4, <2>8, <2>9, <2>10, <2>11 DEF Ready
<1>. QED
  BY <1>1, <1>2, <1>3, <1>4, AcceptIsStep

\* An established connection of a client the library has not failed is ready.
LEMMA OpenIsReady ==
  ASSUME StreamInv, NEW c \in Index, conn[c].st = "established", conn[c].peer \notin spoiled,
         NEW event, NEW new, new # <<>> => ~conn[c].stopped
  PROVE  Ready(c, new, App(c, event))
<1>1. OwnSlot(c)
  BY DEF StreamInv, OpenStreams
<1>2. None \notin Index
  BY UipSizes DEF Index
<1>3. App(c, event) = c
  BY <1>1, <1>2 DEF App, OwnSlot
<1>. QED
  BY <1>1, <1>3 DEF Ready, OwnSlot

LEMMA EstablishedStep ==
  ASSUME StreamInv, NEW c \in Index, Data(c) \/ Fin(c) \/ Poll(c) PROVE StreamInv'
<1>1. conn[c].st = "established" /\ Active(c)
  BY DEF Data, Fin, Poll, Active
<1>2. ASSUME NEW st, NEW event, NEW new, Accept(c, st, event, new),
             new # <<>> => ~conn[c].stopped, conn[c].peer \notin spoiled'
      PROVE  Ready(c, new, App(c, event))
  <2>1. conn[c].peer \notin spoiled
    BY <1>2 DEF Accept, Spoils
  <2>. QED
    BY <1>1, <1>2, <2>1, OpenIsReady
<1>3. CASE Data(c)
  <2>1. PICK new \in Segments(conn[c].peer) : Accept(c, "established", "newdata", new)
    BY <1>3 DEF Data
  <2>2. ~conn[c].stopped
    BY <1>3 DEF Data
  <2>. QED
    BY <1>1, <1>2, <2>1, <2>2, AcceptIsStep
<1>4. CASE Fin(c)
  <2>1. PICK new \in Segments(conn[c].peer) : Accept(c, "last_ack", "closed", new)
    BY <1>4 DEF Fin
  <2>2. ~conn[c].stopped
    BY <1>4 DEF Fin
  <2>. QED
    BY <1>1, <1>2, <2>1, <2>2, AcceptIsStep
<1>5. CASE Poll(c)
  <2>1. Accept(c, "established", "poll", <<>>)
    BY <1>5 DEF Poll
  <2>. QED
    BY <1>1, <1>2, <2>1, AcceptIsStep, NothingIsSegment
<1>. QED
  BY <1>3, <1>4, <1>5

LEMMA BrokenStep ==
  ASSUME StreamInv, NEW c \in Index, TimedOut(c) \/ Reset(c) PROVE StreamInv'
<1>1. Active(c)
  BY DEF TimedOut, Reset, Active
<1>2. Accept(c, "closed", "closed", <<>>) \/ Accept(c, "closed", "aborted", <<>>)
  BY DEF TimedOut, Reset
<1>. QED
  BY <1>1, <1>2, AcceptIsStep, NothingIsSegment

---------------------------------------------------------------------------
(***************************************************************************)
(* A SYN takes a closed connection for a client that had none; the last    *)
(* acknowledgement gives one back.                                         *)
(***************************************************************************)
LEMMA SynStep ==
  ASSUME StreamInv, NEW k \in Clients, Syn(k) PROVE StreamInv'
<1>1. PICK c \in Index :
        /\ conn[c].st = "closed"
        /\ conn' = [conn EXCEPT ![c] = [@ EXCEPT !.st = "syn_rcvd", !.peer = k, !.stopped = FALSE]]
  <2>. DEFINE closed == {c \in Index : conn[c].st = "closed"}
  <2>1. Min(closed) \in closed
    BY MinIsIn DEF Syn
  <2>. QED
    BY <2>1 DEF Syn
<1>2. /\ rcv[k] = 0 /\ rcv' = [rcv EXCEPT ![k] = 1]
      /\ slot' = slot /\ taken' = taken /\ spoiled' = spoiled
  BY DEF Syn
<1>3. /\ conn' \in [Index -> ConnType]
      /\ conn'[c].st = "syn_rcvd" /\ conn'[c].peer = k /\ conn'[c].app = conn[c].app
      /\ ~conn'[c].stopped
      /\ \A x \in Index : x # c => conn'[x] = conn[x]
  <2>. DEFINE r == [conn[c] EXCEPT !.st = "syn_rcvd", !.peer = k, !.stopped = FALSE]
  <2>1. conn[c] \in ConnType
    BY DEF StreamInv, StreamType
  <2>2. r \in ConnType /\ r.st = "syn_rcvd" /\ r.peer = k /\ r.app = conn[c].app
        /\ ~r.stopped
    BY <2>1 DEF ConnType
  <2>3. conn' = [conn EXCEPT ![c] = r]
    BY <1>1
  <2>. HIDE DEF r
  <2>. QED
    BY <2>2, <2>3 DEF StreamInv, StreamType
<1>4. rcv' \in [Clients -> Nat] /\ rcv'[k] = 1
      /\ \A j \in Clients : j # k => rcv'[j] = rcv[j]
  BY <1>2 DEF StreamInv, StreamType
<1>5. \A x \in Index : Active(x) => conn[x].peer \in Clients /\ conn[x].peer # k
  BY <1>2 DEF StreamInv, OneConnection
<1>6. \A x \in Index : Active(x)' => x = c \/ (x # c /\ Active(x))
  BY <1>3 DEF Active
<1>7. Fresh(k) /\ Fresh(k)'
  BY <1>2 DEF Fresh, StreamInv, OneConnection
<1>8. StreamType'
  BY <1>2, <1>3, <1>4 DEF StreamInv, StreamType
<1>9. Owned'
  BY <1>2, <1>3 DEF StreamInv, Owned
<1>10. OneConnection'
  <2>1. \A x \in Index : Active(x)' => (conn[x].peer \in Clients /\ rcv[conn[x].peer] > 0)'
    BY <1>3, <1>4, <1>5, <1>6 DEF StreamInv, OneConnection
  <2>2. \A x, y \in Index :
          Active(x)' /\ Active(y)' /\ conn'[x].peer = conn'[y].peer => x = y
    BY <1>3, <1>5, <1>6 DEF StreamInv, OneConnection
  <2>3. \A j \in Clients : rcv'[j] = 0 => Fresh(j)'
    BY <1>2, <1>4 DEF StreamInv, OneConnection, Fresh
  <2>4. \A x \in Index : conn'[x].st = "syn_rcvd" =>
          (rcv[conn[x].peer] = 1 /\ Fresh(conn[x].peer))'
    <3>. TAKE x \in Index
    <3>1. CASE x = c
      BY <1>3, <1>4, <1>7, <3>1 DEF Fresh
    <3>2. CASE x # c
      BY <1>2, <1>3, <1>4, <1>5, <3>2 DEF StreamInv, OneConnection, Active, Fresh
    <3>. QED
      BY <3>1, <3>2
  <2>5. \A x \in Index : conn'[x].stopped => conn'[x].st = "established"
    BY <1>3 DEF StreamInv, OneConnection
  <2>. QED
    BY <2>1, <2>2, <2>3, <2>4, <2>5 DEF OneConnection
<1>11. OpenStreams'
  <2>. SUFFICES ASSUME NEW x \in Index, conn'[x].st = "established",
                       conn'[x].peer \notin spoiled'
                PROVE  OwnSlot(x)'
    BY DEF OpenStreams
  <2>1. x # c /\ conn'[x] = conn[x] /\ Active(x)
    BY <1>3 DEF Active
  <2>2. OwnSlot(x)
    BY <1>2, <2>1 DEF StreamInv, OpenStreams
  <2>3. rcv'[conn[x].peer] = rcv[conn[x].peer]
    BY <1>4, <1>5, <2>1
  <2>4. slot' = slot /\ taken' = taken
    BY <1>2
  <2>5. Unread(conn[x].peer, x, Len(slot[x].packets))'
    BY <2>1, <2>2, <2>4, Zenon DEF OwnSlot, Unread
  <2>. QED
    BY <2>1, <2>2, <2>3, <2>4, <2>5 DEF OwnSlot
<1>12. StreamKept'
  <2>. SUFFICES ASSUME NEW j \in Clients, j \notin spoiled', rcv'[j] > 0
                PROVE  \E d \in Index : \E m \in 0 .. Len(slot'[d].packets) :
                         Unread(j, d, m)' /\ Len(taken'[j]) + m = rcv'[j] - 1
    BY DEF StreamKept
  <2>1. CASE j # k
    <3>1. rcv'[j] = rcv[j]
      BY <1>4, <2>1
    <3>2. PICK d \in Index : \E m \in 0 .. Len(slot[d].packets) :
            Unread(j, d, m) /\ Len(taken[j]) + m = rcv[j] - 1
      BY <1>2, <3>1 DEF StreamInv, StreamKept
    <3>3. PICK m \in 0 .. Len(slot[d].packets) :
            Unread(j, d, m) /\ Len(taken[j]) + m = rcv[j] - 1
      BY <3>2
    <3>4. Unread(j, d, m)'
      BY <1>2, <3>3, Zenon DEF Unread
    <3>5. m \in 0 .. Len(slot'[d].packets) /\ Len(taken'[j]) + m = rcv'[j] - 1
      BY <1>2, <3>1, <3>3
    <3>. QED
      BY <3>4, <3>5
  <2>2. CASE j = k
    <3>1. taken'[k] = <<>> /\ Len(taken'[k]) = 0
      BY <1>7, EmptySeq DEF Fresh
    <3>2. Unread(k, c, 0)'
      BY <1>7, <3>1 DEF Unread, Fresh
    <3>3. 0 \in 0 .. Len(slot'[c].packets)
      BY <1>2, SlotTyped DEF StreamInv
    <3>4. Len(taken'[k]) + 0 = rcv'[k] - 1
      BY <1>4, <3>1
    <3>. QED
      BY <2>2, <3>2, <3>3, <3>4
  <2>. QED
    BY <2>1, <2>2
<1>. QED
  BY <1>8, <1>9, <1>10, <1>11, <1>12 DEF StreamInv

LEMMA LastAckStep ==
  ASSUME StreamInv, NEW c \in Index, LastAck(c) PROVE StreamInv'
<1>1. /\ slot' = slot /\ rcv' = rcv /\ taken' = taken /\ spoiled' = spoiled
      /\ conn[c].st = "last_ack" /\ conn' = [conn EXCEPT ![c].st = "closed"]
  BY DEF LastAck
<1>2. /\ conn' \in [Index -> ConnType]
      /\ conn'[c].st = "closed" /\ conn'[c].peer = conn[c].peer /\ conn'[c].app = conn[c].app
      /\ conn'[c].stopped = conn[c].stopped
      /\ \A x \in Index : x # c => conn'[x] = conn[x]
  <2>. DEFINE r == [conn[c] EXCEPT !.st = "closed"]
  <2>1. conn[c] \in ConnType
    BY DEF StreamInv, StreamType
  <2>2. r \in ConnType /\ r.st = "closed" /\ r.peer = conn[c].peer /\ r.app = conn[c].app
        /\ r.stopped = conn[c].stopped
    BY <2>1 DEF ConnType
  <2>3. conn' = [conn EXCEPT ![c] = r]
    BY <1>1
  <2>. HIDE DEF r
  <2>. QED
    BY <2>2, <2>3 DEF StreamInv, StreamType
<1>3. StreamType'
  BY <1>1, <1>2 DEF StreamInv, StreamType
<1>4. Owned'
  BY <1>1, <1>2 DEF StreamInv, Owned
<1>5. OneConnection'
  <2>1. \A x \in Index : Active(x)' => Active(x) /\ conn'[x] = conn[x]
    BY <1>2 DEF Active
  <2>2. \A x \in Index : Active(x)' => (conn[x].peer \in Clients /\ rcv[conn[x].peer] > 0)'
    BY <1>1, <2>1 DEF StreamInv, OneConnection
  <2>3. \A x, y \in Index :
          Active(x)' /\ Active(y)' /\ conn'[x].peer = conn'[y].peer => x = y
    BY <2>1 DEF StreamInv, OneConnection
  <2>4. \A j \in Clients : rcv'[j] = 0 => Fresh(j)'
    BY <1>1 DEF StreamInv, OneConnection, Fresh
  <2>5. \A x \in Index : conn'[x].st = "syn_rcvd" =>
          (rcv[conn[x].peer] = 1 /\ Fresh(conn[x].peer))'
    BY <1>1, <1>2 DEF StreamInv, OneConnection, Fresh
  <2>6. \A x \in Index : conn'[x].stopped => conn'[x].st = "established"
    BY <1>1, <1>2 DEF StreamInv, OneConnection
  <2>. QED
    BY <2>2, <2>3, <2>4, <2>5, <2>6 DEF OneConnection
<1>6. OpenStreams'
  <2>. SUFFICES ASSUME NEW x \in Index, conn'[x].st = "established",
                       conn'[x].peer \notin spoiled'
                PROVE  OwnSlot(x)'
    BY DEF OpenStreams
  <2>1. conn'[x] = conn[x]
    BY <1>2
  <2>2. OwnSlot(x)
    BY <1>1, <2>1 DEF StreamInv, OpenStreams
  <2>3. Unread(conn[x].peer, x, Len(slot[x].packets))'
    BY <1>1, <2>1, <2>2, Zenon DEF OwnSlot, Unread
  <2>. QED
    BY <1>1, <2>1, <2>2, <2>3 DEF OwnSlot
<1>7. StreamKept'
  BY <1>1 DEF StreamInv, StreamKept, Unread
<1>. QED
  BY <1>3, <1>4, <1>5, <1>6, <1>7 DEF StreamInv

---------------------------------------------------------------------------
(***************************************************************************)
(* The sketch takes the first packet of a slot, the line of one client.    *)
(***************************************************************************)
ReadStep(d, k, n) ==
  /\ k \in Clients /\ n \in Nat
  /\ Len(slot[d].packets) > 0
  /\ slot[d].packets[1] = [peer |-> k, n |-> n]
  /\ conn' = conn /\ rcv' = rcv /\ spoiled' = spoiled
  /\ taken' = [taken EXCEPT ![k] = Append(@, n)]
  /\ slot' \in [Index -> SlotType]
  /\ \A e \in Index : e # d => slot'[e] = slot[e]
  /\ Len(slot'[d].packets) = Len(slot[d].packets) - 1
  /\ \A i \in 1 .. Len(slot'[d].packets) : slot'[d].packets[i] = slot[d].packets[i + 1]
  /\ slot[d].st = "connected" => slot'[d].st = "connected"
  /\ slot'[d].st = "free" => slot'[d] = FreeSlot
  /\ slot'[d].restart => slot[d].restart \/ conn[d].stopped
  /\ conn[d].stopped /\ slot[d].st = "connected" => slot'[d].restart

LEMMA ServeIsStep ==
  ASSUME StreamInv, Serve
  PROVE  \E d \in Index : \E k, n : ReadStep(d, k, n)
<1>1. PICK d \in Index : Visible(d) /\ Read(d)
  <2>. DEFINE seen == {d \in Index : Visible(d)}
  <2>1. Min(seen) \in seen
    BY MinIsIn DEF Serve
  <2>. QED
    BY <2>1 DEF Serve
<1>2. PICK s : s = slot[d].packets
  OBVIOUS
<1>3. s \in Seq(Packet) /\ s # <<>> /\ slot[d] \in SlotType
  BY <1>1, <1>2 DEF StreamInv, StreamType, SlotType, Visible
<1>4. /\ Head(s) \in Packet /\ Tail(s) \in Seq(Packet)
      /\ Len(Tail(s)) = Len(s) - 1 /\ Len(s) > 0 /\ Head(s) = s[1]
      /\ \A i \in 1 .. Len(Tail(s)) : Tail(s)[i] = s[i + 1]
  BY <1>3, HeadTailProperties, EmptySeq, LenProperties
<1>5. PICK k \in Clients, n \in Nat : Head(s) = [peer |-> k, n |-> n]
  BY <1>4 DEF Packet
<1>6. slot[d].st # "free"
  BY <1>2, <1>3 DEF StreamInv, Owned, FreeSlot
<1>. DEFINE r == [slot[d] EXCEPT !.packets = Tail(s), !.restart = slot[d].restart \/ AsksRestart(d)]
            f == slot[d].st = "remoteclosed" /\ Tail(s) = <<>>
<1>7. /\ r \in SlotType /\ r.packets = Tail(s) /\ r.st = slot[d].st
      /\ r.restart => slot[d].restart \/ conn[d].stopped
      /\ conn[d].stopped /\ slot[d].st = "connected" => r.restart
  <2>1. AsksRestart(d) <=> conn[d].stopped /\ slot[d].st = "connected"
    BY DEF AsksRestart
  <2>. QED
    BY <1>3, <1>4, <2>1 DEF SlotType
<1>8. /\ FreeSlot \in SlotType /\ FreeSlot.packets = <<>> /\ ~FreeSlot.restart
      /\ FreeSlot.st = "free"
  BY DEF FreeSlot, SlotType
<1>9. /\ taken' = [taken EXCEPT ![k] = Append(@, n)]
      /\ slot' = [slot EXCEPT ![d] = IF f THEN FreeSlot ELSE r]
      /\ conn' = conn /\ rcv' = rcv /\ spoiled' = spoiled
  <2>1. Head(s).peer = k /\ Head(s).n = n
    BY <1>5
  <2>2. /\ taken' = [taken EXCEPT ![Head(s).peer] = Append(@, Head(s).n)]
        /\ slot' = [slot EXCEPT ![d] = IF f THEN FreeSlot ELSE r]
        /\ conn' = conn /\ rcv' = rcv /\ spoiled' = spoiled
    BY <1>1, <1>2 DEF Read
  <2>. QED
    BY <2>1, <2>2, Zenon
<1>. HIDE DEF r
<1>10. /\ slot' \in [Index -> SlotType]
       /\ slot'[d] = IF f THEN FreeSlot ELSE r
       /\ \A e \in Index : e # d => slot'[e] = slot[e]
  BY <1>7, <1>8, <1>9 DEF StreamInv, StreamType
<1>11. slot'[d].packets = Tail(s)
  BY <1>7, <1>8, <1>10
<1>12. /\ slot[d].st = "connected" => slot'[d].st = "connected"
       /\ slot'[d].st = "free" => slot'[d] = FreeSlot
       /\ slot'[d].restart => slot[d].restart \/ conn[d].stopped
       /\ conn[d].stopped /\ slot[d].st = "connected" => slot'[d].restart
  BY <1>6, <1>7, <1>8, <1>10
<1>13. /\ Len(slot[d].packets) > 0
       /\ slot[d].packets[1] = [peer |-> k, n |-> n]
       /\ Len(slot'[d].packets) = Len(slot[d].packets) - 1
       /\ \A i \in 1 .. Len(slot'[d].packets) :
            slot'[d].packets[i] = slot[d].packets[i + 1]
  BY <1>2, <1>4, <1>5, <1>11
<1>14. ReadStep(d, k, n)
  BY <1>9, <1>10, <1>12, <1>13 DEF ReadStep
<1>. QED
  BY <1>14

\* Every packet that is left was there before.
LEMMA ReadPackets ==
  ASSUME StreamType, NEW d \in Index, NEW k, NEW n, ReadStep(d, k, n),
         NEW e \in Index, NEW i \in 1 .. Len(slot'[e].packets)
  PROVE  IF e = d THEN /\ i + 1 \in 1 .. Len(slot[e].packets)
                       /\ slot'[e].packets[i] = slot[e].packets[i + 1]
                  ELSE slot'[e] = slot[e]
<1>1. Len(slot[d].packets) \in Nat
  BY SlotTyped
<1>2. PICK l \in Nat : l = Len(slot[d].packets) /\ Len(slot'[d].packets) = l - 1
  BY <1>1 DEF ReadStep
<1>3. e = d => i + 1 \in 1 .. l
  BY <1>2
<1>. QED
  BY <1>2, <1>3 DEF ReadStep

LEMMA ReadUnread ==
  ASSUME StreamType, NEW d \in Index, NEW k, NEW n, ReadStep(d, k, n),
         NEW j \in Clients, NEW e \in Index, NEW m \in Nat, m <= Len(slot[e].packets),
         Unread(j, e, m)
  PROVE  IF j = k THEN /\ e = d /\ m > 0 /\ Unread(j, d, m - 1)'
                       /\ Len(taken'[j]) = Len(taken[j]) + 1
                  ELSE /\ taken'[j] = taken[j] /\ Unread(j, e, m)'
                       /\ e = d => m = 0
<1>1. \A x \in Index : Len(slot[x].packets) \in Nat
  BY SlotTyped
<1>2. 1 \in 1 .. Len(slot[d].packets)
  BY <1>1 DEF ReadStep
<1>3. slot[d].packets[1].peer = k /\ slot[d].packets[1].n = n
  BY DEF ReadStep
<1>4. CASE j # k
  <2>1. taken'[j] = taken[j]
    BY <1>4 DEF ReadStep, StreamType
  <2>2. e = d => m = 0
    <3>. SUFFICES ASSUME e = d, m > 0 PROVE FALSE
      OBVIOUS
    <3>1. slot[d].packets[1] = [peer |-> j, n |-> Len(taken[j]) + 1]
      BY DEF Unread
    <3>. QED
      BY <1>3, <1>4, <3>1
  <2>3. \A i \in 1 .. m : slot'[e].packets[i] = slot[e].packets[i]
    BY <2>2 DEF ReadStep
  <2>4. \A x \in Index : \A i \in 1 .. Len(slot'[x].packets) :
          slot'[x].packets[i].peer = j => x = e /\ i <= m
    <3>. TAKE x \in Index
    <3>. TAKE i \in 1 .. Len(slot'[x].packets)
    <3>. HAVE slot'[x].packets[i].peer = j
    <3>1. CASE x = d
      <4>1. i + 1 \in 1 .. Len(slot[x].packets) /\ slot[x].packets[i + 1].peer = j
        BY <3>1, ReadPackets
      <4>2. x = e /\ i + 1 <= m
        BY <4>1 DEF Unread
      <4>. QED
        BY <2>2, <3>1, <4>2
    <3>2. CASE x # d
      BY <3>2, ReadPackets DEF Unread
    <3>. QED
      BY <3>1, <3>2
  <2>5. Unread(j, e, m)'
    BY <2>1, <2>3, <2>4 DEF Unread
  <2>. QED
    BY <1>4, <2>1, <2>2, <2>5
<1>5. CASE j = k
  <2>1. e = d /\ 1 <= m
    BY <1>2, <1>3, <1>5 DEF Unread
  <2>2. PICK t \in Nat : t = Len(taken[j])
    BY LenProperties DEF StreamType
  <2>3. n = t + 1
    <3>1. 1 \in 1 .. m
      BY <2>1
    <3>2. slot[d].packets[1] = [peer |-> j, n |-> t + 1]
      BY <2>1, <2>2, <3>1 DEF Unread
    <3>. QED
      BY <1>3, <3>2
  <2>4. taken[j] \in Seq(Nat) /\ taken'[j] = Append(taken[j], n) /\ n \in Nat
    BY <1>5 DEF ReadStep, StreamType
  <2>5. /\ Len(taken'[j]) = t + 1 /\ taken'[j][t + 1] = n
        /\ \A i \in 1 .. t : taken'[j][i] = taken[j][i]
    BY <2>2, <2>4, AppendProperties
  <2>6. \A i \in 1 .. Len(taken'[j]) : taken'[j][i] = i
    BY <2>2, <2>3, <2>5 DEF Unread
  <2>7. \A i \in 1 .. m - 1 :
          slot'[d].packets[i] = [peer |-> j, n |-> (t + 1) + i]
    <3>. TAKE i \in 1 .. m - 1
    <3>1. i + 1 \in 1 .. m /\ t + (i + 1) = (t + 1) + i
      OBVIOUS
    <3>2. slot[d].packets[i + 1] = [peer |-> j, n |-> (t + 1) + i]
      BY <2>1, <2>2, <3>1 DEF Unread
    <3>3. i \in 1 .. Len(slot'[d].packets)
      <4>1. PICK l \in Nat : l = Len(slot[d].packets)
        BY <1>1
      <4>2. m <= l /\ Len(slot'[d].packets) = l - 1
        BY <2>1, <4>1 DEF ReadStep
      <4>. QED
        BY <4>2
    <3>. QED
      BY <3>2, <3>3 DEF ReadStep
  <2>8. \A x \in Index : \A i \in 1 .. Len(slot'[x].packets) :
          slot'[x].packets[i].peer = j => x = d /\ i <= m - 1
    <3>. TAKE x \in Index
    <3>. TAKE i \in 1 .. Len(slot'[x].packets)
    <3>. HAVE slot'[x].packets[i].peer = j
    <3>1. CASE x = d
      <4>1. i + 1 \in 1 .. Len(slot[x].packets) /\ slot[x].packets[i + 1].peer = j
        BY <3>1, ReadPackets
      <4>2. i + 1 <= m
        BY <4>1 DEF Unread
      <4>. QED
        BY <3>1, <4>2
    <3>2. CASE x # d
      BY <2>1, <3>2, ReadPackets DEF Unread
    <3>. QED
      BY <3>1, <3>2
  <2>9. Unread(j, d, m - 1)'
    BY <2>5, <2>6, <2>7, <2>8 DEF Unread
  <2>. QED
    BY <1>5, <2>1, <2>2, <2>5, <2>9
<1>. QED
  BY <1>4, <1>5

LEMMA ReadOneConnection ==
  ASSUME StreamInv, NEW d \in Index, NEW k, NEW n, ReadStep(d, k, n)
  PROVE  StreamType' /\ Owned' /\ OneConnection'
<1>0. StreamType /\ Owned /\ OneConnection
  BY DEF StreamInv
<1>1. conn' = conn /\ rcv' = rcv /\ spoiled' = spoiled
  BY DEF ReadStep
<1>2. StreamType'
  <2>1. taken[k] \in Seq(Nat) /\ n \in Nat /\ k \in Clients
    BY <1>0 DEF ReadStep, StreamType
  <2>2. Append(taken[k], n) \in Seq(Nat)
    BY <2>1, AppendProperties
  <2>3. taken' \in [Clients -> Seq(Nat)]
    BY <1>0, <2>2 DEF ReadStep, StreamType
  <2>. QED
    BY <1>0, <1>1, <2>3 DEF ReadStep, StreamType
<1>3. Owned'
  <2>1. \A e \in Index : slot[e].st = "connected" => slot'[e].st = "connected"
    BY DEF ReadStep
  <2>2. \A c \in Index : conn'[c].app # None => slot'[conn'[c].app].st = "connected"
    BY <1>0, <1>1, <2>1 DEF Owned, StreamType, ConnType
  <2>3. \A e \in Index : slot'[e].st = "free" => slot'[e] = FreeSlot
    BY <1>0 DEF Owned, ReadStep
  <2>4. \A e \in Index : Len(slot'[e].packets) <= Packets
    <3>. TAKE e \in Index
    <3>1. PICK l \in Nat : l = Len(slot[e].packets)
      BY <1>0, SlotTyped
    <3>2. Len(slot'[e].packets) = l \/ Len(slot'[e].packets) = l - 1
      BY <3>1 DEF ReadStep
    <3>3. l <= Packets /\ Packets \in Nat
      BY <1>0, <3>1, UipSizes DEF Owned
    <3>. QED
      BY <3>2, <3>3
  <2>. QED
    BY <1>0, <1>1, <2>2, <2>3, <2>4 DEF Owned
<1>4. \A j \in Clients : Fresh(j) => Fresh(j)'
  <2>. TAKE j \in Clients
  <2>. HAVE Fresh(j)
  <2>1. 1 \in 1 .. Len(slot[d].packets) /\ slot[d].packets[1].peer = k
    BY <1>0, SlotTyped DEF ReadStep
  <2>2. j # k
    BY <2>1 DEF Fresh
  <2>3. taken'[j] = <<>>
    BY <1>0, <2>2 DEF Fresh, ReadStep, StreamType
  <2>4. \A e \in Index : \A i \in 1 .. Len(slot'[e].packets) : slot'[e].packets[i].peer # j
    <3>. TAKE e \in Index
    <3>. TAKE i \in 1 .. Len(slot'[e].packets)
    <3>1. CASE e = d
      <4>1. /\ i + 1 \in 1 .. Len(slot[e].packets)
            /\ slot'[e].packets[i] = slot[e].packets[i + 1]
        BY <1>0, <3>1, ReadPackets
      <4>. QED
        BY <4>1 DEF Fresh
    <3>2. CASE e # d
      <4>1. slot'[e] = slot[e]
        BY <3>2 DEF ReadStep
      <4>. QED
        BY <4>1 DEF Fresh
    <3>. QED
      BY <3>1, <3>2
  <2>. QED
    BY <2>3, <2>4 DEF Fresh
<1>5. OneConnection'
  <2>1. \A j \in Clients : rcv'[j] = 0 => Fresh(j)'
    BY <1>0, <1>1, <1>4 DEF OneConnection
  <2>2. \A c \in Index : conn'[c].st = "syn_rcvd" =>
          (rcv[conn[c].peer] = 1 /\ Fresh(conn[c].peer))'
    <3>. TAKE c \in Index
    <3>. HAVE conn'[c].st = "syn_rcvd"
    <3>1. Active(c)
      BY <1>1 DEF Active
    <3>2. PICK j : j = conn[c].peer
      OBVIOUS
    <3>3. j \in Clients /\ rcv[j] = 1 /\ Fresh(j)
      BY <1>0, <1>1, <3>1, <3>2 DEF OneConnection
    <3>4. rcv'[j] = 1 /\ Fresh(j)' /\ conn'[c].peer = j
      BY <1>1, <1>4, <3>2, <3>3
    <3>. QED
      BY <3>4 DEF Fresh
  <2>. QED
    BY <1>0, <1>1, <2>1, <2>2 DEF OneConnection, Active
<1>. QED
  BY <1>2, <1>3, <1>5

LEMMA ReadOpen ==
  ASSUME StreamInv, NEW d \in Index, NEW k, NEW n, ReadStep(d, k, n)
  PROVE  OpenStreams'
<1>0. StreamType /\ Owned /\ OneConnection /\ OpenStreams
  BY DEF StreamInv
<1>. SUFFICES ASSUME NEW x \in Index, conn'[x].st = "established",
                     conn'[x].peer \notin spoiled'
              PROVE  OwnSlot(x)'
  BY DEF OpenStreams
<1>1. conn' = conn /\ rcv' = rcv /\ spoiled' = spoiled
  BY DEF ReadStep
<1>2. OwnSlot(x)
  BY <1>0, <1>1 DEF OpenStreams
<1>3. PICK j \in Clients : j = conn[x].peer
  BY <1>0, <1>1 DEF OneConnection, Active
<1>4. PICK m \in Nat : m = Len(slot[x].packets)
  BY <1>0, SlotTyped
<1>5. PICK t \in Nat, r \in Nat : t = Len(taken[j]) /\ r = rcv[j]
  BY <1>0, LenProperties DEF StreamType
<1>6. Unread(j, x, m) /\ m <= Len(slot[x].packets) /\ t + m = r - 1 /\ m <= Packets
      /\ Packets \in Nat
  <2>1. Unread(j, x, m)
    BY <1>2, <1>3, <1>4 DEF OwnSlot
  <2>2. m <= Len(slot[x].packets)
    BY <1>4
  <2>3. t + m = r - 1
    BY <1>2, <1>3, <1>4, <1>5 DEF OwnSlot
  <2>4. m <= Packets /\ Packets \in Nat
    BY <1>0, <1>4, UipSizes DEF Owned
  <2>. QED
    BY <2>1, <2>2, <2>3, <2>4
<1>7. PICK m2 \in Nat, t2 \in Nat :
        /\ m2 = Len(slot'[x].packets) /\ t2 = Len(taken'[j])
        /\ Unread(j, x, m2)' /\ t2 + m2 = r - 1
        /\ m2 < Packets \/ (slot'[x] = slot[x] /\ m2 = m)
  <2>1. CASE j = k
    <3>1. x = d /\ m > 0 /\ Unread(j, d, m - 1)' /\ Len(taken'[j]) = t + 1
      BY <1>0, <1>4, <1>5, <1>6, <2>1, ReadUnread
    <3>2. Len(slot'[x].packets) = m - 1
      BY <1>4, <3>1 DEF ReadStep
    <3>3. m - 1 \in Nat /\ t + 1 \in Nat /\ (t + 1) + (m - 1) = r - 1 /\ m - 1 < Packets
      BY <1>6, <3>1
    <3>4. Unread(j, x, m - 1)'
      BY <3>1
    <3>. QED
      BY <3>1, <3>2, <3>3, <3>4
  <2>2. CASE j # k
    <3>1. taken'[j] = taken[j] /\ Unread(j, x, m)' /\ (x = d => m = 0)
      BY <1>0, <1>4, <1>6, <2>2, ReadUnread
    <3>2. x # d
      BY <1>4, <3>1 DEF ReadStep
    <3>3. slot'[x] = slot[x]
      BY <3>2 DEF ReadStep
    <3>. QED
      BY <1>4, <1>5, <1>6, <3>1, <3>3
  <2>. QED
    BY <2>1, <2>2
<1>8. Unread(conn[x].peer, x, Len(slot[x].packets))'
  BY <1>1, <1>3, <1>7 DEF Unread
<1>9. Len(taken'[conn'[x].peer]) + Len(slot'[x].packets) = rcv'[conn'[x].peer] - 1
  BY <1>1, <1>3, <1>5, <1>7
<1>10. ~conn'[x].stopped \/ slot'[x].restart => Len(slot'[x].packets) < Packets
  BY <1>1, <1>2, <1>4, <1>7 DEF OwnSlot
<1>11. slot'[x].restart => conn'[x].stopped
  <2>1. slot'[x].restart => slot[x].restart \/ conn[x].stopped
    BY DEF ReadStep
  <2>. QED
    BY <1>1, <1>2, <2>1 DEF OwnSlot
<1>12. conn'[x].app = x
  BY <1>1, <1>2 DEF OwnSlot
<1>13. conn'[x].stopped => Len(slot'[x].packets) > 0 \/ slot'[x].restart
  <2>1. slot[x].st = "connected"
    BY <1>0, <1>2, UipSizes DEF Owned, OwnSlot, Index
  <2>2. CASE x = d
    BY <1>1, <2>1, <2>2 DEF ReadStep
  <2>3. CASE x # d
    BY <1>1, <1>2, <2>3 DEF ReadStep, OwnSlot
  <2>. QED
    BY <2>2, <2>3
<1>. QED
  BY <1>8, <1>9, <1>10, <1>11, <1>12, <1>13 DEF OwnSlot

LEMMA ReadKept ==
  ASSUME StreamInv, NEW d \in Index, NEW k, NEW n, ReadStep(d, k, n)
  PROVE  StreamKept'
<1>0. StreamType /\ StreamKept
  BY DEF StreamInv
<1>. SUFFICES ASSUME NEW j \in Clients, j \notin spoiled', rcv'[j] > 0
              PROVE  \E e \in Index : \E m \in 0 .. Len(slot'[e].packets) :
                       Unread(j, e, m)' /\ Len(taken'[j]) + m = rcv'[j] - 1
  BY DEF StreamKept
<1>1. conn' = conn /\ rcv' = rcv /\ spoiled' = spoiled
  BY DEF ReadStep
<1>2. PICK e \in Index : \E m \in 0 .. Len(slot[e].packets) :
        Unread(j, e, m) /\ Len(taken[j]) + m = rcv[j] - 1
  BY <1>0, <1>1 DEF StreamKept
<1>3. PICK m \in 0 .. Len(slot[e].packets) :
        Unread(j, e, m) /\ Len(taken[j]) + m = rcv[j] - 1
  BY <1>2
<1>4. PICK l \in Nat, t \in Nat, r \in Nat :
        l = Len(slot[e].packets) /\ t = Len(taken[j]) /\ r = rcv[j]
  BY <1>0, SlotTyped, LenProperties DEF StreamType
<1>5. m \in Nat /\ m <= l /\ t + m = r - 1 /\ m <= Len(slot[e].packets)
  BY <1>3, <1>4
<1>6. CASE j = k
  <2>1. e = d /\ m > 0 /\ Unread(j, d, m - 1)' /\ Len(taken'[j]) = t + 1
    BY <1>0, <1>3, <1>4, <1>5, <1>6, ReadUnread
  <2>2. Len(slot'[d].packets) = l - 1
    BY <1>4, <2>1 DEF ReadStep
  <2>3. m - 1 \in 0 .. l - 1 /\ (t + 1) + (m - 1) = r - 1
    BY <1>5, <2>1
  <2>4. rcv'[j] = r
    BY <1>1, <1>4
  <2>. QED
    BY <2>1, <2>2, <2>3, <2>4
<1>7. CASE j # k
  <2>1. taken'[j] = taken[j] /\ Unread(j, e, m)' /\ (e = d => m = 0)
    BY <1>0, <1>3, <1>5, <1>7, ReadUnread
  <2>2. m \in 0 .. Len(slot'[e].packets)
    <3>1. CASE e = d
      <4>1. m = 0 /\ Len(slot'[d].packets) = l - 1 /\ l > 0
        BY <1>4, <2>1, <3>1 DEF ReadStep
      <4>. QED
        BY <3>1, <4>1
    <3>2. CASE e # d
      BY <3>2 DEF ReadStep
    <3>. QED
      BY <3>1, <3>2
  <2>3. Len(taken'[j]) + m = rcv'[j] - 1
    BY <1>1, <1>3, <2>1
  <2>. QED
    BY <2>1, <2>2, <2>3
<1>. QED
  BY <1>6, <1>7

LEMMA ServeStep ==
  ASSUME StreamInv, Serve PROVE StreamInv'
<1>1. PICK d \in Index : \E k, n : ReadStep(d, k, n)
  BY ServeIsStep
<1>2. PICK k, n : ReadStep(d, k, n)
  BY <1>1
<1>. QED
  BY <1>2, ReadOneConnection, ReadOpen, ReadKept DEF StreamInv

---------------------------------------------------------------------------
LEMMA StreamInitial == Init => StreamInv
<1>. SUFFICES ASSUME Init PROVE StreamInv
  OBVIOUS
<1>. DEFINE r == [st |-> "closed", peer |-> None, stopped |-> FALSE, app |-> None]
<1>1. r \in ConnType /\ r.st = "closed" /\ r.app = None /\ ~r.stopped
  BY DEF ConnType
<1>2. /\ FreeSlot \in SlotType /\ FreeSlot.packets = <<>> /\ Len(FreeSlot.packets) = 0
      /\ FreeSlot.st = "free"
  BY EmptySeq DEF FreeSlot, SlotType
<1>3. conn = [c \in Index |-> r]
  BY DEF Init
<1>. HIDE DEF r
<1>4. /\ \A c \in Index : conn[c] = r /\ ~Active(c)
      /\ \A d \in Index : slot[d] = FreeSlot
      /\ \A k \in Clients : rcv[k] = 0 /\ taken[k] = <<>>
  BY <1>1, <1>3 DEF Init, Active
<1>5. StreamType
  BY <1>1, <1>2, <1>3, EmptySeq DEF Init, StreamType
<1>6. Owned
  BY <1>1, <1>2, <1>4, UipSizes DEF Owned
<1>7. \A k \in Clients : Fresh(k)
  BY <1>2, <1>4 DEF Fresh
<1>8. OneConnection
  BY <1>1, <1>4, <1>7 DEF OneConnection
<1>9. OpenStreams
  BY <1>1, <1>4 DEF OpenStreams
<1>10. StreamKept
  BY <1>4 DEF StreamKept
<1>. QED
  BY <1>5, <1>6, <1>8, <1>9, <1>10 DEF StreamInv

LEMMA StreamStep == StreamInv /\ [Next]_vars => StreamInv'
<1>. SUFFICES ASSUME StreamInv, [Next]_vars PROVE StreamInv'
  OBVIOUS
<1>1. ASSUME NEW k \in Clients, Syn(k) PROVE StreamInv'
  BY <1>1, SynStep
<1>2. ASSUME NEW c \in Index, Connected(c) PROVE StreamInv'
  BY <1>2, ConnectedStep
<1>3. ASSUME NEW c \in Index, Data(c) \/ Fin(c) \/ Poll(c) PROVE StreamInv'
  BY <1>3, EstablishedStep
<1>4. ASSUME NEW c \in Index, LastAck(c) PROVE StreamInv'
  BY <1>4, LastAckStep
<1>5. ASSUME NEW c \in Index, TimedOut(c) \/ Reset(c) PROVE StreamInv'
  BY <1>5, BrokenStep
<1>6. CASE Serve
  BY <1>6, ServeStep
<1>7. CASE UNCHANGED vars
  <2>1. conn' = conn /\ slot' = slot /\ rcv' = rcv /\ taken' = taken /\ spoiled' = spoiled
    BY <1>7 DEF vars
  <2>2. StreamType'
    BY <2>1 DEF StreamInv, StreamType
  <2>3. Owned'
    BY <2>1 DEF StreamInv, Owned
  <2>4. OneConnection'
    BY <2>1 DEF StreamInv, OneConnection, Active, Fresh
  <2>5. \A j, d, m : Unread(j, d, m)' <=> Unread(j, d, m)
    BY <2>1, Zenon DEF Unread
  <2>6. \A c \in Index : OwnSlot(c)' <=> OwnSlot(c)
    BY <2>1, Zenon DEF OwnSlot, Unread
  <2>7. OpenStreams'
    BY <2>1, <2>6, Zenon DEF StreamInv, OpenStreams
  <2>8. StreamKept'
    BY <2>1, <2>5, Zenon DEF StreamInv, StreamKept
  <2>. QED
    BY <2>2, <2>3, <2>4, <2>7, <2>8 DEF StreamInv
<1>. QED
  BY <1>1, <1>2, <1>3, <1>4, <1>5, <1>6, <1>7 DEF Next

\* The inductive invariant holds: a client has one connection, whose slot is
\* its own until it closes, and a connection that takes segments has room for
\* one (UIPClient.cpp:373, :383).
THEOREM StreamsInvariant == Spec => []StreamInv
<1>. QED
  BY StreamInitial, StreamStep, PTL DEF Spec

\* What uip_process() has acknowledged to a client has been read or can still
\* be, all of it, once and in order (UIPClient.cpp:373, :400).
THEOREM StreamsAreKept == Spec => []StreamKept
<1>1. StreamInv => StreamKept
  BY DEF StreamInv
<1>. QED
  BY <1>1, StreamsInvariant, PTL

\* A connection that was stopped for want of room is never left so: the sketch
\* has a packet of it to read or its next poll restarts it (UIPClient.cpp:272,
\* :383).
THEOREM StopsHaveCause == Spec => []StopHasCause
<1>1. StreamInv => StopHasCause
  <2>. SUFFICES ASSUME StreamInv, NEW c \in Index,
                       conn[c].stopped, conn[c].peer \notin spoiled
                PROVE  slot[c].packets # <<>> \/ slot[c].restart
    BY DEF StopHasCause
  <2>1. OwnSlot(c)
    BY DEF StreamInv, OneConnection, OpenStreams
  <2>. QED
    BY <2>1, EmptySeq DEF OwnSlot
<1>. QED
  BY <1>1, StreamsInvariant, PTL
===========================================================================
