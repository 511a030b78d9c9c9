-------------------------- MODULE HomeNetProofs ---------------------------
(***************************************************************************)
(* What holds of HomeNet for any number of clients and any capacity of the *)
(* links.                                                                  *)
(***************************************************************************)
EXTENDS HomeNet, FiniteSetTheorems, TLAPS

\* The reports under way and stored, each labelled with its own device
OwnFrame == {f \in Frame : f.report.of = f.from}
OwnLine  == {l \in Lines : l.type = "info" =>
                             l.dev \in Devices /\ l.report.of = l.dev}
OwnRows  == {s \in [Devices \cup {base} -> Report \cup {Blank}] :
               \A d \in Devices : s[d] = Blank \/ s[d].of = d}

(***************************************************************************)
(* The label of a report is right at every stage of its way: in the radio  *)
(* queue, on the serial line, in the storage.                              *)
(***************************************************************************)
LabelInv ==
  /\ reported \in [Devices -> 0 .. MaxReports]
  /\ heard \in Seq(OwnFrame)
  /\ toEther \in Seq(OwnLine)
  /\ storage \in OwnRows

(***************************************************************************)
(* A device labels its report with itself, and the radio queue keeps it.   *)
(***************************************************************************)
LEMMA SendsOwn ==
  ASSUME LabelInv, NEW d \in Devices, Sends(d)
  PROVE  /\ reported' \in [Devices -> 0 .. MaxReports]
         /\ heard' \in Seq(OwnFrame)
<1> DEFINE r == [of |-> d, n |-> reported'[d]]
           f == [from |-> d, report |-> r]
<1>1. /\ reported' \in [Devices -> 0 .. MaxReports]
      /\ reported'[d] \in 1 .. MaxReports
  BY LinksAssumption DEF Sends, LabelInv
<1>2. r \in Report
  BY <1>1 DEF Report
<1>3. f \in OwnFrame
  BY <1>2 DEF OwnFrame, Frame
<1>4. heard' = heard \/ heard' = Append(heard, f)
  BY DEF Sends
<1>5. heard \in Seq(OwnFrame)
  BY DEF LabelInv
<1>6. Append(heard, f) \in Seq(OwnFrame)
  <2> HIDE DEF f
  <2> QED
    BY <1>3, <1>5
<1> QED
  BY <1>1, <1>4, <1>5, <1>6

(***************************************************************************)
(* baseRF24 prints a frame under the node of its header.                   *)
(***************************************************************************)
LEMMA HearsOwn ==
  ASSUME LabelInv, HearFrame
  PROVE  heard' \in Seq(OwnFrame) /\ toEther' \in Seq(OwnLine)
<1> DEFINE f == Head(heard)
           l == InfoLine(f.from, f.report)
<1>1. f \in OwnFrame /\ Tail(heard) \in Seq(OwnFrame)
  BY DEF HearFrame, LabelInv
<1>2. f.from \in Devices /\ f.report \in Report /\ f.report.of = f.from
  BY <1>1 DEF OwnFrame, Frame
<1>3. l \in Lines
  BY <1>2 DEF Lines
<1>4. l.dev = f.from /\ l.report = f.report
  BY DEF InfoLine
<1>5. l \in OwnLine
  BY <1>2, <1>3, <1>4 DEF OwnLine
<1>6. heard' = Tail(heard) /\ toEther' = Append(toEther, l)
  BY DEF HearFrame, Println
<1> QED
  BY <1>1, <1>5, <1>6 DEF LabelInv

(***************************************************************************)
(* "none" stores nothing.                                                  *)
(***************************************************************************)
LEMMA NoneOwn == NoneLine \in OwnLine
BY DEF OwnLine, Lines, NoneLine

(***************************************************************************)
(* A line that baseEthernet takes fills the row of its own device.         *)
(***************************************************************************)
LEMMA TakesOwn ==
  ASSUME LabelInv, TakeLine,
         storage' = IF Head(toEther).type = "info"
                      THEN updateStorage(Head(toEther)) ELSE storage
  PROVE  toEther' \in Seq(OwnLine) /\ storage' \in OwnRows
<1> DEFINE l == Head(toEther)
<1>1. l \in OwnLine /\ Tail(toEther) \in Seq(OwnLine)
  BY DEF TakeLine, LabelInv
<1>2. CASE l.type = "info"
  <2>1. l.dev \in Devices /\ l.report \in Report /\ l.report.of = l.dev
    BY <1>1, <1>2 DEF OwnLine, Lines, InfoLine, NoneLine
  <2>2. storage' = [storage EXCEPT ![l.dev] = l.report]
    BY <1>2 DEF updateStorage
  <2> QED
    BY <1>1, <2>1, <2>2 DEF TakeLine, LabelInv, OwnRows
<1>3. CASE l.type # "info"
  BY <1>1, <1>3 DEF TakeLine, LabelInv
<1> QED
  BY <1>2, <1>3

(***************************************************************************)
(* A step of baseEthernet keeps every label right.                         *)
(***************************************************************************)
LEMMA EtherOwn ==
  ASSUME LabelInv, EtherNext
  PROVE  LabelInv'
<1>1. CASE UNCHANGED <<storage, links>>
  BY <1>1 DEF LabelInv, links
<1>2. CASE \E c \in Clients : ServeSet(c) \/ ServeRequest(c)
  BY <1>2 DEF ServeSet, ServeRequest, LabelInv
<1>3. CASE StoreLine
  <2>1. toEther' \in Seq(OwnLine) /\ storage' \in OwnRows
    BY <1>3, TakesOwn DEF StoreLine
  <2> QED
    BY <1>3, <2>1 DEF StoreLine, TakeLine, LabelInv
<1>4. CASE AnswerLine
  <2>1. TakeLine /\ storage' = IF Head(toEther).type = "info"
                                 THEN updateStorage(Head(toEther)) ELSE storage
    BY <1>4 DEF AnswerLine
  <2>2. toEther' \in Seq(OwnLine) /\ storage' \in OwnRows
    BY <2>1, TakesOwn
  <2> QED
    BY <2>1, <2>2 DEF TakeLine, LabelInv
<1>5. CASE EtherRestart
  <2>1. storage' \in OwnRows
    BY <1>5 DEF EtherRestart, OwnRows
  <2>2. toEther' \in Seq(OwnLine)
    BY <1>5 DEF EtherRestart
  <2> QED
    BY <1>5, <2>1, <2>2 DEF EtherRestart, LabelInv
<1> QED
  BY <1>1, <1>2, <1>3, <1>4, <1>5
    DEF EtherNext, ServeNext, ClientAsks, ServeOld, GiveUp

(***************************************************************************)
(* A step of baseRF24 keeps every label right.                             *)
(***************************************************************************)
LEMMA RadioOwn ==
  ASSUME LabelInv, RadioNext, UNCHANGED etherVars
  PROVE  LabelInv'
<1>1. storage' = storage
  BY DEF etherVars
<1>2. CASE RelayLine
  BY <1>1, <1>2 DEF RelayLine, LabelInv
<1>3. CASE HearFrame
  BY <1>1, <1>3, HearsOwn DEF HearFrame, LabelInv
<1>4. CASE ListenTimeout
  <2>1. toEther' \in Seq(OwnLine)
    BY <1>4, NoneOwn DEF ListenTimeout, Println, LabelInv
  <2> QED
    BY <1>1, <1>4, <2>1 DEF ListenTimeout, LabelInv
<1>5. CASE RadioRestart
  BY <1>1, <1>5 DEF RadioRestart, LabelInv
<1> QED
  BY <1>2, <1>3, <1>4, <1>5 DEF RadioNext

(***************************************************************************)
(* A step of a device keeps every label right.                             *)
(***************************************************************************)
LEMMA DevicesOwn ==
  ASSUME LabelInv, DevicesNext, UNCHANGED etherVars
  PROVE  LabelInv'
<1>1. storage' = storage
  BY DEF etherVars
<1>2. toEther' = toEther
  BY DEF DevicesNext, ThermostatHears, FlowHears, ThermostatRestart, FlowRestart
<1>3. \/ \E d \in Devices : Sends(d)
      \/ UNCHANGED <<heard, reported>>
  BY DEF DevicesNext, ThermostatHears, FlowHears, ThermostatRestart,
         FlowRestart, Devices
<1> QED
  BY <1>1, <1>2, <1>3, SendsOwn DEF LabelInv

(***************************************************************************)
(* The values stored for a device are always its own, for any number of    *)
(* clients, of reports and of restarts.                                    *)
(***************************************************************************)
THEOREM StorageIsOwn == HomeSpec => []RowsAreOwn
<1>1. HomeInit => LabelInv
  <2> SUFFICES ASSUME HomeInit PROVE LabelInv
    OBVIOUS
  <2>1. storage \in OwnRows
    BY DEF HomeInit, EtherInit, OwnRows
  <2>2. reported \in [Devices -> 0 .. MaxReports]
    BY LinksAssumption DEF HomeInit, LinksInit
  <2> QED
    BY <2>1, <2>2 DEF HomeInit, LinksInit, LabelInv
<1>2. LabelInv /\ [HomeNext]_homeVars => LabelInv'
  <2> SUFFICES ASSUME LabelInv, [HomeNext]_homeVars PROVE LabelInv'
    OBVIOUS
  <2>1. CASE EtherNext /\ AtEther
    BY <2>1, EtherOwn
  <2>2. CASE RadioNext /\ AtRadio
    BY <2>2, RadioOwn DEF AtRadio
  <2>3. CASE DevicesNext /\ AtDevices
    BY <2>3, DevicesOwn DEF AtDevices
  <2>4. CASE UNCHANGED homeVars
    BY <2>4 DEF homeVars, links, etherVars, LabelInv
  <2> QED
    BY <2>1, <2>2, <2>3, <2>4 DEF HomeNext
<1>3. LabelInv => RowsAreOwn
  BY DEF LabelInv, OwnRows, RowsAreOwn
<1> QED
  BY <1>1, <1>2, <1>3, PTL DEF HomeSpec
---------------------------------------------------------------------------
(***************************************************************************)
(* The commands under way to the thermostat, in the order of their         *)
(* numbers: those in its own queue come before those on the serial line,   *)
(* and it has obeyed none of them.                                         *)
(***************************************************************************)
\* In the order of their numbers, by position in a queue
IsSet(q, i) == i \in 1 .. Len(q) /\ q[i].type = "set"

Ascending(q) ==
  \A i, j \in 1 .. Len(q) :
    IsSet(q, i) /\ IsSet(q, j) /\ i < j => q[i].n < q[j].n

Between(q, lo, hi) ==
  \A i \in 1 .. Len(q) : IsSet(q, i) => lo < q[i].n /\ q[i].n <= hi

Ahead(p, q) ==
  \A i \in 1 .. Len(p), j \in 1 .. Len(q) :
    IsSet(p, i) /\ IsSet(q, j) => p[i].n < q[j].n

Orders(p, q, last, made) ==
  /\ Ascending(p) /\ Ascending(q) /\ Ahead(p, q)
  /\ Between(p, last, made) /\ Between(q, last, made)

SetInv ==
  /\ toRadio \in Seq(Command)
  /\ down \in [Devices -> Seq(Command)]
  /\ pending \in [Clients -> Requests \cup {NoRequest}]
  /\ sets \in Nat
  /\ applied \in Nat
  /\ applied <= sets
  /\ Orders(down[thermostat], toRadio, applied, sets)

\* A command read by the thermostat, obeyed or not
LEMMA OrdersRead ==
  ASSUME NEW p \in Seq(Command), NEW q \in Seq(Command), p # << >>,
         NEW last \in Nat, NEW made \in Nat, Orders(p, q, last, made),
         NEW now, now = last \/ (Head(p).type = "set" /\ now = Head(p).n)
  PROVE  /\ Orders(Tail(p), q, now, made)
         /\ now \in Nat /\ now >= last
<1>0. /\ Tail(p) \in Seq(Command) /\ Len(Tail(p)) = Len(p) - 1
      /\ Len(p) \in Nat /\ 1 \in 1 .. Len(p) /\ Head(p) = p[1]
      /\ \A i \in 1 .. Len(p) : p[i] \in Command
      /\ \A i \in 1 .. Len(Tail(p)) :
           Tail(p)[i] = p[i + 1] /\ i + 1 \in 1 .. Len(p)
  OBVIOUS
<1>1. now \in Nat /\ now >= last
  <2>1. Head(p).n \in Nat
    BY <1>0 DEF Command
  <2>2. Head(p).type = "set" => last < Head(p).n
    BY <1>0 DEF Orders, Between, IsSet
  <2> QED
    BY <2>1, <2>2
<1>2. Ascending(Tail(p)) /\ Ahead(Tail(p), q)
  BY <1>0 DEF Orders, Ascending, Ahead, IsSet
<1>3. Between(Tail(p), now, made)
  <2> SUFFICES ASSUME NEW i \in 1 .. Len(Tail(p)), IsSet(Tail(p), i)
               PROVE  now < Tail(p)[i].n /\ Tail(p)[i].n <= made
    BY DEF Between
  <2>1. IsSet(p, i + 1) /\ Tail(p)[i] = p[i + 1] /\ 1 < i + 1
    BY <1>0 DEF IsSet
  <2>2. last < p[i + 1].n /\ p[i + 1].n <= made
    BY <1>0, <2>1 DEF Orders, Between
  <2>3. Head(p).type = "set" => Head(p).n < p[i + 1].n
    BY <1>0, <2>1 DEF Orders, Ascending, IsSet
  <2> QED
    BY <2>1, <2>2, <2>3
<1>4. Between(q, now, made)
  <2> SUFFICES ASSUME NEW j \in 1 .. Len(q), IsSet(q, j)
               PROVE  now < q[j].n /\ q[j].n <= made
    BY DEF Between
  <2>1. last < q[j].n /\ q[j].n <= made
    BY DEF Orders, Between
  <2>2. Head(p).type = "set" => Head(p).n < q[j].n
    BY <1>0 DEF Orders, Ahead, IsSet
  <2> QED
    BY <2>1, <2>2
<1> QED
  BY <1>1, <1>2, <1>3, <1>4 DEF Orders

\* baseRF24 takes a line; the frame reaches the thermostat's queue or not
LEMMA OrdersRelay ==
  ASSUME NEW p \in Seq(Command), NEW q \in Seq(Command), q # << >>,
         NEW last \in Nat, NEW made \in Nat, Orders(p, q, last, made)
  PROVE  /\ Orders(p, Tail(q), last, made)
         /\ Orders(Append(p, Head(q)), Tail(q), last, made)
<1> DEFINE r == Append(p, Head(q))
<1>0. /\ Tail(q) \in Seq(Command) /\ Len(Tail(q)) = Len(q) - 1
      /\ Len(q) \in Nat /\ 1 \in 1 .. Len(q) /\ Head(q) = q[1]
      /\ \A i \in 1 .. Len(Tail(q)) :
           Tail(q)[i] = q[i + 1] /\ i + 1 \in 1 .. Len(q)
  OBVIOUS
<1>1. /\ Ascending(Tail(q)) /\ Between(Tail(q), last, made) /\ Ahead(p, Tail(q))
  BY <1>0 DEF Orders, Ascending, Between, Ahead, IsSet
<1>2. /\ Len(r) = Len(p) + 1 /\ r[Len(p) + 1] = q[1] /\ Len(p) \in Nat
      /\ \A i \in 1 .. Len(p) : r[i] = p[i]
  BY <1>0
<1>3. Ascending(r)
  BY <1>0, <1>2 DEF Orders, Ascending, Ahead, IsSet
<1>4. Between(r, last, made)
  BY <1>0, <1>2 DEF Orders, Between, IsSet
<1>5. Ahead(r, Tail(q))
  BY <1>0, <1>2 DEF Orders, Ascending, Ahead, IsSet
<1> QED
  BY <1>1, <1>3, <1>4, <1>5 DEF Orders

\* baseEthernet forwards the next `set`
LEMMA OrdersForward ==
  ASSUME NEW p \in Seq(Command), NEW q \in Seq(Command), NEW e \in Command,
         NEW last \in Nat, NEW made \in Nat, NEW more \in Nat,
         Orders(p, q, last, made), last <= made,
         \/ e.type = "set" /\ e.n = made + 1 /\ more = made + 1
         \/ e.type = "request" /\ more = made
  PROVE  Orders(p, Append(q, e), last, more)
<1> DEFINE r == Append(q, e)
<1>1. /\ Len(r) = Len(q) + 1 /\ r[Len(q) + 1] = e /\ Len(q) \in Nat
      /\ \A i \in 1 .. Len(q) : r[i] = q[i]
  OBVIOUS
<1>2. \A i \in 1 .. Len(q) : q[i].n \in Nat
  <2>1. \A i \in 1 .. Len(q) : q[i] \in Command
    OBVIOUS
  <2> QED
    BY <2>1 DEF Command
<1>3. \A i \in 1 .. Len(p) : p[i].n \in Nat
  <2>1. \A i \in 1 .. Len(p) : p[i] \in Command
    OBVIOUS
  <2> QED
    BY <2>1 DEF Command
<1> HIDE DEF r
<1>4. Between(p, last, more)
  BY <1>3 DEF Orders, Between
<1>5. Between(r, last, more)
  BY <1>1, <1>2 DEF Orders, Between, IsSet
<1>6. Ascending(r)
  <2> SUFFICES ASSUME NEW i \in 1 .. Len(r), NEW j \in 1 .. Len(r), i < j,
                      r[i].type = "set", r[j].type = "set"
               PROVE  r[i].n < r[j].n
    BY DEF Ascending, IsSet
  <2>1. i \in 1 .. Len(q) /\ r[i] = q[i]
    BY <1>1
  <2>2. CASE j = Len(q) + 1
    <3>1. q[i].n <= made
      BY <2>1 DEF Orders, Between, IsSet
    <3> QED
      BY <1>1, <1>2, <2>1, <2>2, <3>1
  <2>3. CASE j \in 1 .. Len(q)
    <3>1. q[i].n < q[j].n
      BY <1>1, <2>1, <2>3 DEF Orders, Ascending, IsSet
    <3> QED
      BY <1>1, <2>1, <2>3, <3>1
  <2> QED
    BY <1>1, <2>2, <2>3
<1>7. Ahead(p, r)
  <2> SUFFICES ASSUME NEW i \in 1 .. Len(p), NEW j \in 1 .. Len(r),
                      p[i].type = "set", r[j].type = "set"
               PROVE  p[i].n < r[j].n
    BY DEF Ahead, IsSet
  <2>1. CASE j = Len(q) + 1
    <3>1. p[i].n <= made
      BY DEF Orders, Between, IsSet
    <3> QED
      BY <1>1, <1>3, <2>1, <3>1
  <2>2. CASE j \in 1 .. Len(q)
    BY <1>1, <2>2 DEF Orders, Ahead, IsSet
  <2> QED
    BY <1>1, <2>1, <2>2
<1> QED
  BY <1>4, <1>5, <1>6, <1>7 DEF Orders, r

(***************************************************************************)
(* baseEthernet numbers the commands it forwards.                          *)
(***************************************************************************)
LEMMA EtherOrders ==
  ASSUME SetInv, EtherNext, UNCHANGED <<radioVars, deviceVars>>
  PROVE  SetInv'
<1>1. applied' = applied
  BY DEF deviceVars
<1>2. NoRequest \in Requests \cup {NoRequest} /\ Asks \subseteq Requests
  BY ClientsAssumption
<1>3. CASE \E c \in Clients : ClientAsks(c)
  <2>1. pending' \in [Clients -> Requests \cup {NoRequest}]
    BY <1>2, <1>3 DEF ClientAsks, SetInv
  <2> QED
    BY <1>1, <1>3, <2>1 DEF ClientAsks, links, SetInv
<1>4. ASSUME NEW c \in Clients, ServeSet(c) \/ ServeRequest(c) \/ ServeOld(c)
      PROVE  SetInv'
  <2>1. pending' \in [Clients -> Requests \cup {NoRequest}]
    BY <1>2, <1>4 DEF ServeSet, ServeRequest, ServeOld, Serve, SetInv
  <2>2. CASE ServeOld(c)
    BY <1>1, <2>1, <2>2 DEF ServeOld, links, SetInv
  <2>3. CASE ServeSet(c) \/ ServeRequest(c)
    <3>1. /\ pending[c] \in Requests \cup {NoRequest}
          /\ pending[c] # NoRequest
      BY <2>3 DEF ServeSet, ServeRequest, Serve, Available, SetInv
    <3>2. pending[c].dev \in Devices \cup {base}
      BY <3>1 DEF Requests
    <3>3. PICK e \in Command :
            /\ toRadio' = Append(toRadio, e)
            /\ \/ e.type = "set" /\ e.n = sets + 1 /\ sets' = sets + 1
               \/ e.type = "request" /\ sets' = sets
      <4>1. CASE ServeSet(c)
        <5> DEFINE e == [type |-> "set", dev |-> pending[c].dev, n |-> sets']
        <5>1. e \in Command
          BY <3>2, <4>1 DEF ServeSet, Command, SetInv
        <5>2. toRadio' = Append(toRadio, e) /\ sets' = sets + 1
          BY <4>1 DEF ServeSet, Forward
        <5>3. e.type = "set" /\ e.n = sets + 1
          BY <5>2
        <5> HIDE DEF e
        <5> QED
          BY <5>1, <5>2, <5>3
      <4>2. CASE ServeRequest(c)
        <5> DEFINE e == [type |-> "request", dev |-> pending[c].dev, n |-> 0]
        <5>1. e \in Command
          BY <3>2 DEF Command
        <5>2. toRadio' = Append(toRadio, e) /\ sets' = sets
          BY <4>2 DEF ServeRequest, Forward
        <5>3. e.type = "request"
          OBVIOUS
        <5> HIDE DEF e
        <5> QED
          BY <5>1, <5>2, <5>3
      <4> QED
        BY <2>3, <4>1, <4>2
    <3>4. down' = down /\ down[thermostat] \in Seq(Command)
      BY <2>3 DEF ServeSet, ServeRequest, SetInv, Devices
    <3>5. sets' \in Nat /\ applied <= sets'
      BY <3>3 DEF SetInv
    <3>6. Orders(down[thermostat], Append(toRadio, e), applied, sets')
      BY <3>3, <3>4, <3>5, OrdersForward DEF SetInv
    <3>7. toRadio' \in Seq(Command)
      BY <3>3 DEF SetInv
    <3> QED
      BY <1>1, <2>1, <3>3, <3>4, <3>5, <3>6, <3>7 DEF SetInv
  <2> QED
    BY <1>4, <2>2, <2>3
<1>5. CASE StoreLine \/ AnswerLine \/ GiveUp \/ EtherRestart
  <2>1. /\ sets' = sets /\ toRadio' = toRadio /\ down' = down
        /\ \/ pending' = pending
           \/ pending' = [c \in Clients |-> NoRequest]
    BY <1>5 DEF StoreLine, AnswerLine, GiveUp, EtherRestart, TakeLine, links
  <2>2. pending' \in [Clients -> Requests \cup {NoRequest}]
    BY <1>2, <2>1 DEF SetInv
  <2> QED
    BY <1>1, <2>1, <2>2 DEF SetInv
<1> QED
  BY <1>3, <1>4, <1>5 DEF EtherNext, ServeNext

(***************************************************************************)
(* baseRF24 takes the lines in order and sends none of them twice.         *)
(***************************************************************************)
LEMMA RadioOrders ==
  ASSUME SetInv, RadioNext, UNCHANGED <<etherVars, deviceVars>>
  PROVE  SetInv'
<1>1. UNCHANGED <<applied, sets, pending>>
  BY DEF deviceVars, etherVars
<1>2. thermostat \in Devices /\ down[thermostat] \in Seq(Command)
  BY DEF Devices, SetInv
<1>3. CASE RelayLine
  <2>1. /\ toRadio # << >> /\ toRadio' = Tail(toRadio)
        /\ Tail(toRadio) \in Seq(Command) /\ Head(toRadio) \in Command
    BY <1>3 DEF RelayLine, SetInv
  <2>2. /\ Orders(down[thermostat], Tail(toRadio), applied, sets)
        /\ Orders(Append(down[thermostat], Head(toRadio)), Tail(toRadio),
                  applied, sets)
    BY <1>2, <2>1, OrdersRelay DEF SetInv
  <2>3. CASE down' = down
    BY <1>1, <2>1, <2>2, <2>3 DEF SetInv
  <2>4. CASE /\ NextLine.dev \in Devices
             /\ down' = [down EXCEPT ![NextLine.dev] = Append(@, NextLine)]
    <3>1. down' \in [Devices -> Seq(Command)]
      BY <2>1, <2>4 DEF SetInv, NextLine
    <3>2. \/ down'[thermostat] = down[thermostat]
          \/ down'[thermostat] = Append(down[thermostat], Head(toRadio))
      BY <1>2, <2>4 DEF SetInv, NextLine
    <3> QED
      BY <1>1, <2>1, <2>2, <3>1, <3>2 DEF SetInv
  <2> QED
    BY <1>3, <2>3, <2>4 DEF RelayLine, Transmit
<1>4. CASE HearFrame \/ ListenTimeout
  BY <1>1, <1>4 DEF HearFrame, ListenTimeout, SetInv
<1>5. CASE RadioRestart
  <2>1. toRadio' = << >> /\ down' = down
    BY <1>5 DEF RadioRestart
  <2>2. << >> \in Seq(Command) /\ Len(<< >>) = 0
    OBVIOUS
  <2>3. Orders(down[thermostat], << >>, applied, sets)
    BY <2>2 DEF SetInv, Orders, Ascending, Ahead, Between
  <2> QED
    BY <1>1, <2>1, <2>2, <2>3 DEF SetInv
<1> QED
  BY <1>3, <1>4, <1>5 DEF RadioNext

(***************************************************************************)
(* The thermostat obeys the oldest command of its queue, or drops it.      *)
(***************************************************************************)
LEMMA DeviceOrders ==
  ASSUME SetInv, DevicesNext, UNCHANGED <<etherVars, radioVars>>
  PROVE  SetInv' /\ applied' >= applied
<1>1. UNCHANGED <<sets, pending, toRadio>>
  BY DEF etherVars, DevicesNext, ThermostatHears, FlowHears,
         ThermostatRestart, FlowRestart
<1>2. /\ thermostat \in Devices /\ waterFlow \in Devices
      /\ thermostat # waterFlow
      /\ down[thermostat] \in Seq(Command) /\ down[waterFlow] \in Seq(Command)
  BY DEF Devices, thermostat, waterFlow, SetInv
<1>3. CASE ThermostatHears
  <2> DEFINE p == down[thermostat]
  <2>1. /\ p # << >>
        /\ down' = [down EXCEPT ![thermostat] = Tail(p)]
        /\ applied' = applied \/ (Head(p).type = "set" /\ applied' = Head(p).n)
    BY <1>3 DEF ThermostatHears, ReadFrame
  <2>2. Tail(p) \in Seq(Command)
    BY <1>2, <2>1
  <2>3. down' \in [Devices -> Seq(Command)] /\ down'[thermostat] = Tail(p)
    BY <1>2, <2>1, <2>2 DEF SetInv
  <2> HIDE DEF p
  <2>4. /\ Orders(Tail(p), toRadio, applied', sets)
        /\ applied' \in Nat /\ applied' >= applied
    <3>1. /\ p \in Seq(Command) /\ toRadio \in Seq(Command)
          /\ applied \in Nat /\ sets \in Nat
          /\ Orders(p, toRadio, applied, sets)
      BY <1>2 DEF SetInv, p
    <3> QED
      BY <2>1, <3>1, OrdersRead
  <2>5. applied' <= sets
    <3>1. Head(p).type = "set" => Head(p).n <= sets
      <4>1. 1 \in 1 .. Len(p) /\ Head(p) = p[1]
        BY <1>2, <2>1 DEF p
      <4> QED
        BY <4>1 DEF SetInv, Orders, Between, IsSet, p
    <3> QED
      BY <2>1, <3>1 DEF SetInv
  <2> QED
    BY <1>1, <2>3, <2>4, <2>5 DEF SetInv
<1>4. CASE FlowHears \/ FlowRestart
  <2>1. /\ applied' = applied
        /\ \/ /\ down[waterFlow] # << >>
              /\ down' = [down EXCEPT ![waterFlow] = Tail(@)]
           \/ down' = [down EXCEPT ![waterFlow] = << >>]
    BY <1>4 DEF FlowHears, FlowRestart, ReadFrame
  <2>2. /\ down' \in [Devices -> Seq(Command)]
        /\ down'[thermostat] = down[thermostat]
    <3>1. PICK q \in Seq(Command) : down' = [down EXCEPT ![waterFlow] = q]
      <4>1. << >> \in Seq(Command)
        OBVIOUS
      <4>2. down[waterFlow] # << >> => Tail(down[waterFlow]) \in Seq(Command)
        BY <1>2
      <4> QED
        BY <2>1, <4>1, <4>2
    <3> QED
      BY <1>2, <3>1 DEF SetInv
  <2> QED
    BY <1>1, <2>1, <2>2 DEF SetInv
<1>5. CASE ThermostatRestart
  <2>1. applied' = applied /\ down' = [down EXCEPT ![thermostat] = << >>]
    BY <1>5 DEF ThermostatRestart
  <2>2. << >> \in Seq(Command) /\ Len(<< >>) = 0
    OBVIOUS
  <2>3. down' \in [Devices -> Seq(Command)] /\ down'[thermostat] = << >>
    BY <1>2, <2>1, <2>2 DEF SetInv
  <2>4. Orders(<< >>, toRadio, applied, sets)
    BY <2>2 DEF SetInv, Orders, Ascending, Ahead, Between
  <2> QED
    BY <1>1, <2>1, <2>3, <2>4 DEF SetInv
<1> QED
  BY <1>3, <1>4, <1>5 DEF DevicesNext

(***************************************************************************)
(* Every step keeps the commands in order and never goes back to an older  *)
(* one.                                                                    *)
(***************************************************************************)
LEMMA StepOrders ==
  ASSUME SetInv, [HomeNext]_homeVars
  PROVE  SetInv' /\ (applied' # applied => applied' > applied)
<1>1. CASE EtherNext /\ AtEther
  BY <1>1, EtherOrders DEF AtEther, deviceVars
<1>2. CASE RadioNext /\ AtRadio
  BY <1>2, RadioOrders DEF AtRadio, deviceVars
<1>3. CASE DevicesNext /\ AtDevices
  <2>1. SetInv' /\ applied' >= applied
    BY <1>3, DeviceOrders DEF AtDevices
  <2> QED
    BY <2>1 DEF SetInv
<1>4. CASE UNCHANGED homeVars
  BY <1>4 DEF homeVars, links, etherVars, deviceVars, SetInv
<1> QED
  BY <1>1, <1>2, <1>3, <1>4 DEF HomeNext

(***************************************************************************)
(* Initially no command is under way.                                      *)
(***************************************************************************)
LEMMA InitOrders == HomeInit => SetInv
<1> SUFFICES ASSUME HomeInit PROVE SetInv
  OBVIOUS
<1>1. << >> \in Seq(Command) /\ Len(<< >>) = 0
  OBVIOUS
<1>2. /\ toRadio = << >> /\ down = [d \in Devices |-> << >>]
      /\ pending = [c \in Clients |-> NoRequest]
      /\ sets = 0 /\ applied = 0
  BY DEF HomeInit, LinksInit, EtherInit, DevicesInit
<1>3. down[thermostat] = << >>
  BY <1>2 DEF Devices
<1>4. Orders(<< >>, << >>, 0, 0)
  BY <1>1 DEF Orders, Ascending, Ahead, Between
<1> QED
  BY <1>1, <1>2, <1>3, <1>4 DEF SetInv

(***************************************************************************)
(* The thermostat obeys the commands it was sent at most once each and in  *)
(* the order they were forwarded, whatever is lost on the way, for any     *)
(* number of clients, commands, restarts and frames under way.             *)
(***************************************************************************)
THEOREM CommandsInOrder == HomeSpec => SetsInOrder
<1>1. HomeInit => SetInv
  BY InitOrders
<1>2. SetInv /\ [HomeNext]_homeVars => SetInv'
  BY StepOrders
<1>3. SetInv /\ [HomeNext]_homeVars
        => [applied' # applied => applied' > applied]_homeVars
  BY StepOrders
<1> QED
  BY <1>1, <1>2, <1>3, PTL DEF HomeSpec, SetsInOrder
---------------------------------------------------------------------------
(***************************************************************************)
(* The reports of a device under way: those on the serial line are older   *)
(* than those in the radio queue, and all are newer than the stored one.   *)
(***************************************************************************)
Oldest(q, d) ==
  \A i, j \in 1 .. Len(q) :
    q[i].report.of = d /\ q[j].report.of = d /\ i < j
      => q[i].report.n < q[j].report.n

Newer(q, d, lo, hi) ==
  \A i \in 1 .. Len(q) :
    q[i].report.of = d => lo < q[i].report.n /\ q[i].report.n <= hi

Older(p, q, d) ==
  \A i \in 1 .. Len(p), j \in 1 .. Len(q) :
    p[i].report.of = d /\ q[j].report.of = d
      => p[i].report.n < q[j].report.n

Reports(p, q, d, last, made) ==
  /\ Oldest(p, d) /\ Oldest(q, d) /\ Older(p, q, d)
  /\ Newer(p, d, last, made) /\ Newer(q, d, last, made)

RowInv ==
  \A d \in Devices :
    /\ Reports(toEther, heard, d, storage[d].n, reported[d])
    /\ storage[d].n <= reported[d]

\* A set of frames or of lines
Carries(S) == \A e \in S : e.report.n \in Nat

(***************************************************************************)
(* Frames and lines carry numbered reports, and so do the rows.            *)
(***************************************************************************)
LEMMA AllCarry ==
  /\ Carries(OwnFrame) /\ Carries(OwnLine)
  /\ \A e \in OwnFrame : e.report.of = e.from /\ e.from \in Devices
  /\ \A e \in OwnLine : \/ e.type = "info" /\ e.report.of = e.dev /\ e.dev \in Devices
                        \/ e = NoneLine
  /\ \A s \in OwnRows, d \in Devices : s[d].n \in Nat
<1>1. \A r \in Report : r.n \in Nat
  BY LinksAssumption DEF Report
<1>2. Carries(OwnFrame) /\ \A e \in OwnFrame : e.report.of = e.from /\ e.from \in Devices
  BY <1>1 DEF Carries, OwnFrame, Frame
<1>3. NoneLine.report.n \in Nat
  BY DEF NoneLine, Blank
<1>4. \A e \in OwnLine :
        /\ e.report.n \in Nat
        /\ \/ e.type = "info" /\ e.report.of = e.dev /\ e.dev \in Devices
           \/ e = NoneLine
  <2> SUFFICES ASSUME NEW e \in OwnLine, e # NoneLine
               PROVE  /\ e.report.n \in Nat
                      /\ e.type = "info" /\ e.report.of = e.dev /\ e.dev \in Devices
    BY <1>3
  <2>1. PICK d \in Devices, r \in Report : e = InfoLine(d, r)
    BY DEF OwnLine, Lines
  <2>2. e.type = "info" /\ e.report = r
    BY <2>1 DEF InfoLine
  <2> QED
    BY <1>1, <2>2 DEF OwnLine
<1>5. \A s \in OwnRows, d \in Devices : s[d].n \in Nat
  BY <1>1 DEF OwnRows, Blank
<1> QED
  BY <1>2, <1>4, <1>5 DEF Carries

\* The first line of the serial port is taken, and stored or not
LEMMA ReportsTaken ==
  ASSUME NEW P, NEW Q, Carries(P), Carries(Q), NEW p \in Seq(P), NEW q \in Seq(Q),
         p # << >>, NEW d, NEW last \in Nat, NEW made \in Nat,
         Reports(p, q, d, last, made), last <= made,
         NEW now, IF Head(p).report.of = d THEN now = Head(p).report.n ELSE now = last
  PROVE  Reports(Tail(p), q, d, now, made) /\ last <= now /\ now <= made
<1>0. /\ Tail(p) \in Seq(P) /\ Len(Tail(p)) = Len(p) - 1
      /\ Len(p) \in Nat /\ 1 \in 1 .. Len(p) /\ Head(p) = p[1]
      /\ \A i \in 1 .. Len(p) : p[i] \in P
      /\ \A i \in 1 .. Len(Tail(p)) :
           Tail(p)[i] = p[i + 1] /\ i + 1 \in 1 .. Len(p)
  OBVIOUS
<1>1. now \in Nat /\ last <= now /\ now <= made
  BY <1>0 DEF Reports, Newer, Carries
<1>2. Oldest(Tail(p), d) /\ Older(Tail(p), q, d)
  BY <1>0 DEF Reports, Oldest, Older
<1>3. Newer(Tail(p), d, now, made)
  <2> SUFFICES ASSUME NEW i \in 1 .. Len(Tail(p)), Tail(p)[i].report.of = d
               PROVE  now < Tail(p)[i].report.n /\ Tail(p)[i].report.n <= made
    BY DEF Newer
  <2>1. i + 1 \in 1 .. Len(p) /\ Tail(p)[i] = p[i + 1] /\ 1 < i + 1
    BY <1>0
  <2>2. last < p[i + 1].report.n /\ p[i + 1].report.n <= made
    BY <2>1 DEF Reports, Newer
  <2>3. Head(p).report.of = d => Head(p).report.n < p[i + 1].report.n
    BY <1>0, <2>1 DEF Reports, Oldest
  <2> QED
    BY <2>1, <2>2, <2>3
<1>4. Newer(q, d, now, made)
  <2> SUFFICES ASSUME NEW j \in 1 .. Len(q), q[j].report.of = d
               PROVE  now < q[j].report.n /\ q[j].report.n <= made
    BY DEF Newer
  <2>1. last < q[j].report.n /\ q[j].report.n <= made
    BY DEF Reports, Newer
  <2>2. Head(p).report.of = d => Head(p).report.n < q[j].report.n
    BY <1>0 DEF Reports, Older
  <2> QED
    BY <2>1, <2>2
<1> QED
  BY <1>1, <1>2, <1>3, <1>4 DEF Reports

\* The first frame of the radio queue becomes the last line
LEMMA ReportsHeard ==
  ASSUME NEW P, NEW Q, NEW p \in Seq(P), NEW q \in Seq(Q),
         q # << >>, NEW d, NEW last, NEW made,
         Reports(p, q, d, last, made), NEW e \in P, e.report = Head(q).report
  PROVE  Reports(Append(p, e), Tail(q), d, last, made)
<1> DEFINE r == Append(p, e)
<1>0. /\ Tail(q) \in Seq(Q) /\ Len(Tail(q)) = Len(q) - 1
      /\ Len(q) \in Nat /\ 1 \in 1 .. Len(q) /\ e.report = q[1].report
      /\ \A i \in 1 .. Len(Tail(q)) :
           Tail(q)[i] = q[i + 1] /\ i + 1 \in 1 .. Len(q)
  OBVIOUS
<1>1. /\ Len(r) = Len(p) + 1 /\ r[Len(p) + 1] = e /\ Len(p) \in Nat
      /\ \A i \in 1 .. Len(p) : r[i] = p[i]
  OBVIOUS
<1> HIDE DEF r
<1>2. Oldest(Tail(q), d) /\ Newer(Tail(q), d, last, made)
  BY <1>0 DEF Reports, Oldest, Newer
<1>3. Oldest(r, d)
  <2> SUFFICES ASSUME NEW i \in 1 .. Len(r), NEW j \in 1 .. Len(r), i < j,
                      r[i].report.of = d, r[j].report.of = d
               PROVE  r[i].report.n < r[j].report.n
    BY DEF Oldest
  <2>1. i \in 1 .. Len(p) /\ r[i] = p[i]
    BY <1>1
  <2>2. CASE j = Len(p) + 1
    BY <1>0, <1>1, <2>1, <2>2 DEF Reports, Older
  <2>3. CASE j \in 1 .. Len(p)
    BY <1>1, <2>1, <2>3 DEF Reports, Oldest
  <2> QED
    BY <1>1, <2>2, <2>3
<1>4. Newer(r, d, last, made)
  <2> SUFFICES ASSUME NEW i \in 1 .. Len(r), r[i].report.of = d
               PROVE  last < r[i].report.n /\ r[i].report.n <= made
    BY DEF Newer
  <2>1. CASE i = Len(p) + 1
    BY <1>0, <1>1, <2>1 DEF Reports, Newer
  <2>2. CASE i \in 1 .. Len(p)
    BY <1>1, <2>2 DEF Reports, Newer
  <2> QED
    BY <1>1, <2>1, <2>2
<1>5. Older(r, Tail(q), d)
  <2> SUFFICES ASSUME NEW i \in 1 .. Len(r), NEW j \in 1 .. Len(Tail(q)),
                      r[i].report.of = d, Tail(q)[j].report.of = d
               PROVE  r[i].report.n < Tail(q)[j].report.n
    BY DEF Older
  <2>1. Tail(q)[j] = q[j + 1] /\ j + 1 \in 1 .. Len(q) /\ 1 < j + 1
    BY <1>0
  <2>2. CASE i = Len(p) + 1
    BY <1>0, <1>1, <2>1, <2>2 DEF Reports, Oldest
  <2>3. CASE i \in 1 .. Len(p)
    BY <1>1, <2>1, <2>3 DEF Reports, Older
  <2> QED
    BY <1>1, <2>2, <2>3
<1> QED
  BY <1>2, <1>3, <1>4, <1>5 DEF Reports, r

\* A line without a report of the device
LEMMA ReportsBeside ==
  ASSUME NEW P, NEW Q, NEW p \in Seq(P), NEW q \in Seq(Q),
         NEW d, NEW last, NEW made,
         Reports(p, q, d, last, made), NEW e \in P, e.report.of # d
  PROVE  Reports(Append(p, e), q, d, last, made)
<1> DEFINE r == Append(p, e)
<1>1. /\ Len(r) = Len(p) + 1 /\ r[Len(p) + 1] = e /\ Len(p) \in Nat
      /\ \A i \in 1 .. Len(p) : r[i] = p[i]
  OBVIOUS
<1>2. \A i \in 1 .. Len(r) :
        r[i].report.of = d => i \in 1 .. Len(p) /\ r[i] = p[i]
  BY <1>1
<1> HIDE DEF r
<1>3. Oldest(r, d) /\ Newer(r, d, last, made) /\ Older(r, q, d)
  BY <1>1, <1>2 DEF Reports, Oldest, Newer, Older
<1> QED
  BY <1>3 DEF Reports, r

\* A device makes its next report, which is heard or lost
LEMMA ReportsMade ==
  ASSUME NEW P, NEW Q, Carries(P), Carries(Q), NEW p \in Seq(P), NEW q \in Seq(Q),
         NEW d, NEW last \in Nat, NEW made \in Nat, NEW more \in Nat,
         Reports(p, q, d, last, made), last <= made, NEW e \in Q,
         \/ e.report.of = d /\ e.report.n = made + 1 /\ more = made + 1
         \/ e.report.of # d /\ more = made
  PROVE  /\ Reports(p, Append(q, e), d, last, more)
         /\ Reports(p, q, d, last, more)
<1> DEFINE r == Append(q, e)
<1>1. /\ Len(r) = Len(q) + 1 /\ r[Len(q) + 1] = e /\ Len(q) \in Nat
      /\ \A i \in 1 .. Len(q) : r[i] = q[i]
  OBVIOUS
<1>2. /\ \A i \in 1 .. Len(p) : p[i].report.n \in Nat
      /\ \A i \in 1 .. Len(q) : q[i].report.n \in Nat
  BY DEF Carries
<1> HIDE DEF r
<1>3. Newer(p, d, last, more) /\ Newer(q, d, last, more)
  BY <1>2 DEF Reports, Newer
<1>4. Newer(r, d, last, more)
  BY <1>1, <1>3 DEF Newer
<1>5. Oldest(r, d)
  <2> SUFFICES ASSUME NEW i \in 1 .. Len(r), NEW j \in 1 .. Len(r), i < j,
                      r[i].report.of = d, r[j].report.of = d
               PROVE  r[i].report.n < r[j].report.n
    BY DEF Oldest
  <2>1. i \in 1 .. Len(q) /\ r[i] = q[i]
    BY <1>1
  <2>2. CASE j = Len(q) + 1
    BY <1>1, <1>2, <2>1, <2>2 DEF Reports, Newer
  <2>3. CASE j \in 1 .. Len(q)
    BY <1>1, <2>1, <2>3 DEF Reports, Oldest
  <2> QED
    BY <1>1, <2>2, <2>3
<1>6. Older(p, r, d)
  <2> SUFFICES ASSUME NEW i \in 1 .. Len(p), NEW j \in 1 .. Len(r),
                      p[i].report.of = d, r[j].report.of = d
               PROVE  p[i].report.n < r[j].report.n
    BY DEF Older
  <2>1. CASE j = Len(q) + 1
    BY <1>1, <1>2, <2>1 DEF Reports, Newer
  <2>2. CASE j \in 1 .. Len(q)
    BY <1>1, <2>2 DEF Reports, Older
  <2> QED
    BY <1>1, <2>1, <2>2
<1> QED
  BY <1>3, <1>4, <1>5, <1>6 DEF Reports, r
\* A row is kept, filled with something newer, or forgotten
RowsGrow ==
  \A d \in Devices : storage'[d] # Blank => storage'[d].n >= storage[d].n

(***************************************************************************)
(* baseEthernet files the lines in the order they come.                    *)
(***************************************************************************)
LEMMA EtherRows ==
  ASSUME LabelInv, RowInv, EtherNext
  PROVE  RowInv' /\ RowsGrow
<1>1. /\ heard \in Seq(OwnFrame) /\ toEther \in Seq(OwnLine)
      /\ \A d \in Devices : storage[d].n \in Nat /\ reported[d] \in Nat
  BY AllCarry DEF LabelInv
<1>2. heard' = heard /\ reported' = reported
  BY DEF EtherNext, ServeNext, ClientAsks, ServeSet, ServeRequest, ServeOld,
         StoreLine, AnswerLine, GiveUp, EtherRestart, TakeLine, links
<1>3. CASE UNCHANGED <<storage, toEther>>
  BY <1>1, <1>2, <1>3 DEF RowInv, RowsGrow
<1>4. CASE /\ TakeLine
           /\ storage' = IF Head(toEther).type = "info"
                           THEN updateStorage(Head(toEther)) ELSE storage
  <2> DEFINE l == Head(toEther)
  <2>1. /\ toEther # << >> /\ toEther' = Tail(toEther) /\ l \in OwnLine
    BY <1>1, <1>4 DEF TakeLine
  <2>2. \/ l.type = "info" /\ l.report.of = l.dev /\ l.dev \in Devices
        \/ l.type # "info" /\ l.report.of \notin Devices
    <3>1. NoneLine.type # "info" /\ NoneLine.report.of \notin Devices
      BY DEF NoneLine, Blank, Devices, base, thermostat, waterFlow
    <3> QED
      BY <2>1, <3>1, AllCarry
  <2>3. ASSUME NEW d \in Devices
        PROVE  IF l.report.of = d THEN storage'[d].n = l.report.n
                                  ELSE storage'[d].n = storage[d].n
    BY <1>4, <2>2 DEF updateStorage, LabelInv, OwnRows
  <2> HIDE DEF l
  <2>4. ASSUME NEW d \in Devices
        PROVE  /\ Reports(Tail(toEther), heard, d, storage'[d].n, reported[d])
               /\ storage[d].n <= storage'[d].n /\ storage'[d].n <= reported[d]
    <3>1. /\ Reports(toEther, heard, d, storage[d].n, reported[d])
          /\ storage[d].n <= reported[d]
          /\ storage[d].n \in Nat /\ reported[d] \in Nat
      BY <1>1 DEF RowInv
    <3>2. IF Head(toEther).report.of = d
            THEN storage'[d].n = Head(toEther).report.n
            ELSE storage'[d].n = storage[d].n
      BY <2>3 DEF l
    <3> QED
      BY <1>1, <2>1, <3>1, <3>2, AllCarry, ReportsTaken
  <2>5. RowInv'
    BY <1>2, <2>1, <2>4 DEF RowInv
  <2>6. \A d \in Devices : storage'[d].n \in Nat
    BY <1>1, <2>3, <2>1, AllCarry DEF Carries, l
  <2>7. RowsGrow
    BY <1>1, <2>4, <2>6 DEF RowsGrow
  <2> QED
    BY <2>5, <2>7
<1>5. CASE EtherRestart
  <2>1. \A d \in Devices : storage'[d] = Blank
    BY <1>5 DEF EtherRestart
  <2>2. toEther' = << >> /\ Len(toEther') = 0 /\ Blank.n = 0
    BY <1>5 DEF EtherRestart, Blank
  <2>3. ASSUME NEW d \in Devices
        PROVE  Reports(toEther', heard, d, 0, reported[d])
    <3>1. Newer(heard, d, 0, reported[d])
      <4>1. \A i \in 1 .. Len(heard) : heard[i].report.n \in Nat
        BY <1>1, AllCarry DEF Carries
      <4>2. Newer(heard, d, storage[d].n, reported[d])
        BY DEF RowInv, Reports
      <4> QED
        BY <1>1, <4>1, <4>2 DEF Newer
    <3> QED
      BY <2>2, <3>1 DEF RowInv, Reports, Oldest, Older, Newer
  <2> QED
    BY <1>1, <1>2, <2>1, <2>2, <2>3 DEF RowInv, RowsGrow
<1>6. CASE \/ \E c \in Clients : ClientAsks(c)
           \/ ServeNext
           \/ GiveUp
  BY <1>3, <1>6
    DEF ServeNext, ClientAsks, ServeSet, ServeRequest, ServeOld, GiveUp, links
<1>7. CASE StoreLine \/ AnswerLine
  BY <1>4, <1>7 DEF StoreLine, AnswerLine
<1> QED
  BY <1>5, <1>6, <1>7 DEF EtherNext

(***************************************************************************)
(* baseRF24 prints the frames in the order it heard them.                  *)
(***************************************************************************)
LEMMA RadioRows ==
  ASSUME LabelInv, RowInv, RadioNext, UNCHANGED etherVars
  PROVE  RowInv' /\ RowsGrow
<1>1. /\ heard \in Seq(OwnFrame) /\ toEther \in Seq(OwnLine)
      /\ \A d \in Devices : storage[d].n \in Nat /\ reported[d] \in Nat
  BY AllCarry DEF LabelInv
<1>2. storage' = storage /\ reported' = reported
  BY DEF etherVars, RadioNext, RelayLine, HearFrame, ListenTimeout, RadioRestart
<1>3. RowsGrow
  BY <1>1, <1>2 DEF RowsGrow
<1>4. CASE RelayLine
  BY <1>2, <1>3, <1>4 DEF RelayLine, RowInv
<1>5. CASE HearFrame
  <2> DEFINE f == Head(heard)
             l == InfoLine(f.from, f.report)
  <2>1. /\ heard # << >> /\ heard' = Tail(heard) /\ toEther' = Append(toEther, l)
    BY <1>5 DEF HearFrame, Println
  <2>2. f \in OwnFrame
    BY <1>1, <2>1
  <2>3. l \in OwnLine /\ l.report = f.report
    <3>1. f.from \in Devices /\ f.report \in Report /\ f.report.of = f.from
      BY <2>2 DEF OwnFrame, Frame
    <3>2. l \in Lines /\ l.dev = f.from /\ l.report = f.report
      BY <3>1 DEF Lines, InfoLine
    <3> QED
      BY <3>1, <3>2 DEF OwnLine
  <2> HIDE DEF l
  <2>4. ASSUME NEW d \in Devices
        PROVE  Reports(Append(toEther, l), Tail(heard), d, storage[d].n, reported[d])
    BY <1>1, <2>1, <2>3, ReportsHeard DEF RowInv
  <2> QED
    BY <1>2, <1>3, <2>1, <2>4 DEF RowInv
<1>6. CASE ListenTimeout
  <2>1. heard' = heard /\ toEther' = Append(toEther, NoneLine)
    BY <1>6 DEF ListenTimeout, Println
  <2>2. NoneLine \in OwnLine /\ \A d \in Devices : NoneLine.report.of # d
    BY NoneOwn DEF NoneLine, Blank, Devices, base, thermostat, waterFlow
  <2>3. ASSUME NEW d \in Devices
        PROVE  Reports(Append(toEther, NoneLine), heard, d, storage[d].n, reported[d])
    BY <1>1, <2>2, ReportsBeside DEF RowInv
  <2> QED
    BY <1>2, <1>3, <2>1, <2>3 DEF RowInv
<1>7. CASE RadioRestart
  <2>1. heard' = << >> /\ Len(heard') = 0 /\ toEther' = toEther
    BY <1>7 DEF RadioRestart
  <2> QED
    BY <1>2, <1>3, <2>1 DEF RowInv, Reports, Oldest, Older, Newer
<1> QED
  BY <1>4, <1>5, <1>6, <1>7 DEF RadioNext

(***************************************************************************)
(* A device numbers its reports.                                           *)
(***************************************************************************)
LEMMA DevicesRows ==
  ASSUME LabelInv, RowInv, DevicesNext, UNCHANGED etherVars
  PROVE  RowInv' /\ RowsGrow
<1>1. /\ heard \in Seq(OwnFrame) /\ toEther \in Seq(OwnLine)
      /\ \A d \in Devices : storage[d].n \in Nat /\ reported[d] \in Nat
  BY AllCarry DEF LabelInv
<1>2. storage' = storage /\ toEther' = toEther
  BY DEF etherVars, DevicesNext, ThermostatHears, FlowHears,
         ThermostatRestart, FlowRestart
<1>3. RowsGrow
  BY <1>1, <1>2 DEF RowsGrow
<1>4. ASSUME NEW m \in Devices, Sends(m)
      PROVE  RowInv'
  <2> DEFINE f == [from |-> m, report |-> [of |-> m, n |-> reported'[m]]]
  <2>1. /\ reported' = [reported EXCEPT ![m] = @ + 1]
        /\ heard' = heard \/ heard' = Append(heard, f)
    BY <1>4 DEF Sends
  <2>2. /\ reported'[m] = reported[m] + 1
        /\ \A d \in Devices \ {m} : reported'[d] = reported[d]
        /\ reported'[m] \in 1 .. MaxReports
    BY <1>4, <2>1, LinksAssumption DEF Sends, LabelInv
  <2>3. f \in OwnFrame
    BY <2>2 DEF OwnFrame, Frame, Report
  <2>4. f.report.of = m /\ f.report.n = reported[m] + 1
    BY <2>2
  <2> HIDE DEF f
  <2>5. ASSUME NEW d \in Devices
        PROVE  /\ Reports(toEther, Append(heard, f), d, storage[d].n, reported'[d])
               /\ Reports(toEther, heard, d, storage[d].n, reported'[d])
               /\ storage[d].n <= reported'[d]
    <3>1. /\ Reports(toEther, heard, d, storage[d].n, reported[d])
          /\ storage[d].n <= reported[d]
          /\ storage[d].n \in Nat /\ reported[d] \in Nat
      BY <1>1 DEF RowInv
    <3>2. /\ reported'[d] \in Nat
          /\ \/ f.report.of = d /\ f.report.n = reported[d] + 1
                /\ reported'[d] = reported[d] + 1
             \/ f.report.of # d /\ reported'[d] = reported[d]
      BY <2>2, <2>4, <3>1
    <3>3. storage[d].n <= reported'[d]
      BY <3>1, <3>2
    <3> QED
      BY <1>1, <2>3, <3>1, <3>2, <3>3, AllCarry, ReportsMade
  <2> QED
    BY <1>2, <2>1, <2>5 DEF RowInv
<1>5. CASE UNCHANGED <<heard, reported>>
  BY <1>2, <1>3, <1>5 DEF RowInv
<1>6. \/ \E d \in Devices : Sends(d)
      \/ UNCHANGED <<heard, reported>>
  BY DEF DevicesNext, ThermostatHears, FlowHears, ThermostatRestart,
         FlowRestart, Devices
<1> QED
  BY <1>3, <1>4, <1>5, <1>6

(***************************************************************************)
(* Every step keeps the labels and the order of the reports.               *)
(***************************************************************************)
LEMMA StepRows ==
  ASSUME LabelInv, RowInv, [HomeNext]_homeVars
  PROVE  LabelInv' /\ RowInv' /\ RowsGrow
<1>1. CASE EtherNext /\ AtEther
  BY <1>1, EtherOwn, EtherRows
<1>2. CASE RadioNext /\ AtRadio
  BY <1>2, RadioOwn, RadioRows DEF AtRadio
<1>3. CASE DevicesNext /\ AtDevices
  BY <1>3, DevicesOwn, DevicesRows DEF AtDevices
<1>4. CASE UNCHANGED homeVars
  <2>1. UNCHANGED <<reported, heard, toEther, storage>>
    BY <1>4 DEF homeVars, links, etherVars
  <2>2. \A d \in Devices : storage[d].n \in Nat
    BY AllCarry DEF LabelInv
  <2> QED
    BY <2>1, <2>2 DEF LabelInv, RowInv, RowsGrow
<1> QED
  BY <1>1, <1>2, <1>3, <1>4 DEF HomeNext

(***************************************************************************)
(* Initially every link and every row is empty.                            *)
(***************************************************************************)
LEMMA InitRows == HomeInit => LabelInv /\ RowInv
<1> SUFFICES ASSUME HomeInit PROVE LabelInv /\ RowInv
  OBVIOUS
<1>1. storage \in OwnRows
  BY DEF HomeInit, EtherInit, OwnRows
<1>2. reported \in [Devices -> 0 .. MaxReports]
  BY LinksAssumption DEF HomeInit, LinksInit
<1>3. /\ heard = << >> /\ toEther = << >> /\ Len(<< >>) = 0
      /\ \A d \in Devices : storage[d].n = 0 /\ reported[d] = 0
  BY DEF HomeInit, LinksInit, EtherInit, Blank
<1>4. RowInv
  BY <1>3 DEF RowInv, Reports, Oldest, Older, Newer
<1> QED
  BY <1>1, <1>2, <1>3, <1>4 DEF LabelInv

(***************************************************************************)
(* No row ever goes back to an older report, unless a restart forgets it,  *)
(* for any number of clients, reports, restarts and messages under way.    *)
(***************************************************************************)
THEOREM RowsOnlyAdvance == HomeSpec => RowsAdvance
<1>1. HomeInit => LabelInv /\ RowInv
  BY InitRows
<1>2. LabelInv /\ RowInv /\ [HomeNext]_homeVars => LabelInv' /\ RowInv'
  BY StepRows
<1>3. LabelInv /\ RowInv /\ [HomeNext]_homeVars
        => [ \A d \in Devices :
               storage'[d] # Blank => storage'[d].n >= storage[d].n ]_homeVars
  BY StepRows DEF RowsGrow
<1> QED
  BY <1>1, <1>2, <1>3, PTL DEF HomeSpec, RowsAdvance
---------------------------------------------------------------------------
(***************************************************************************)
(* While a request sent on a quiet network waits, every message under way  *)
(* is about the device asked for, and every report was made after it.      *)
(***************************************************************************)
OnlyAsked(q) == \A i \in 1 .. Len(q) : q[i].dev = asked.dev

HeardNew(q) ==
  \A i \in 1 .. Len(q) : q[i].from = asked.dev /\ q[i].report.n > baseline

LinesNew(q) ==
  \A i \in 1 .. Len(q) :
    q[i].type = "info" => q[i].dev = asked.dev /\ q[i].report.n > baseline

AskedInv ==
  /\ baseline \in Nat
  /\ baseline <= ReportsOf(asked.dev)
  /\ OnlyAsked(toRadio)
  /\ \A d \in Devices : d # asked.dev => down[d] = << >>
  /\ HeardNew(heard)
  /\ LinesNew(toEther)

QuietInv ==
  /\ LabelInv
  /\ SetInv
  /\ restarts \in Nat
  /\ waiting /\ clean => AskedInv

\* A request forwarded on a quiet network: the only message there is
LEMMA AskedFirst ==
  ASSUME QuietInv, NEW c \in Clients, ServeRequest(c), Quiet,
         baseline' = ReportsOf(asked'.dev)
  PROVE  AskedInv'
<1> DEFINE dev == pending[c].dev
<1>1. /\ asked' = [to |-> c, dev |-> dev] /\ asked'.dev = dev
      /\ reported' = reported /\ down' = down /\ heard' = heard /\ toEther' = toEther
      /\ toRadio' = Append(toRadio, [type |-> "request", dev |-> dev, n |-> 0])
  BY DEF ServeRequest, Forward
<1>2. baseline' \in Nat /\ baseline' <= ReportsOf(asked.dev)'
  <2>1. ReportsOf(asked.dev)' = ReportsOf(dev) /\ baseline' = ReportsOf(dev)
    BY <1>1 DEF ReportsOf
  <2>2. ReportsOf(dev) \in Nat
    BY LinksAssumption DEF ReportsOf, QuietInv, LabelInv
  <2> QED
    BY <2>1, <2>2
<1>3. /\ Len(toRadio') = 1 /\ toRadio'[1].dev = dev
      /\ Len(heard') = 0 /\ Len(toEther') = 0
      /\ \A d \in Devices : down'[d] = << >>
  BY <1>1 DEF Quiet
<1>4. \A i \in 1 .. Len(toRadio') : i = 1
  BY <1>3
<1>5. OnlyAsked(toRadio)'
  BY <1>1, <1>3, <1>4 DEF OnlyAsked
<1> QED
  BY <1>2, <1>3, <1>5 DEF AskedInv, HeardNew, LinesNew

\* The radio side of a step of baseRF24
LEMMA AskedRadio ==
  ASSUME QuietInv, AskedInv, RelayLine \/ HearFrame \/ ListenTimeout,
         UNCHANGED <<asked, baseline>>
  PROVE  AskedInv'
<1>1. /\ toRadio \in Seq(Command) /\ heard \in Seq(OwnFrame) /\ toEther \in Seq(OwnLine)
  BY DEF QuietInv, LabelInv, SetInv
<1>2. reported' = reported
  BY DEF RelayLine, HearFrame, ListenTimeout
<1>3. CASE RelayLine
  <2>1. /\ toRadio # << >> /\ toRadio' = Tail(toRadio)
        /\ heard' = heard /\ toEther' = toEther
        /\ \/ down' = down
           \/ down' = [down EXCEPT ![NextLine.dev] = Append(@, NextLine)]
    BY <1>3 DEF RelayLine, Transmit
  <2>2. /\ \A i \in 1 .. Len(Tail(toRadio)) :
             Tail(toRadio)[i] = toRadio[i + 1] /\ i + 1 \in 1 .. Len(toRadio)
        /\ 1 \in 1 .. Len(toRadio) /\ NextLine = toRadio[1]
    BY <1>1, <2>1 DEF NextLine
  <2>3. OnlyAsked(Tail(toRadio)) /\ NextLine.dev = asked.dev
    BY <2>2 DEF AskedInv, OnlyAsked
  <2>4. \A d \in Devices : d # asked.dev => down'[d] = << >>
    BY <2>1, <2>3 DEF AskedInv, QuietInv, SetInv
  <2> QED
    BY <1>2, <2>1, <2>3, <2>4 DEF AskedInv, ReportsOf, OnlyAsked, HeardNew, LinesNew
<1>4. CASE HearFrame
  <2> DEFINE l == InfoLine(Head(heard).from, Head(heard).report)
  <2>1. /\ heard # << >> /\ heard' = Tail(heard) /\ toEther' = Append(toEther, l)
        /\ toRadio' = toRadio /\ down' = down
    BY <1>4 DEF HearFrame, Println
  <2>2. /\ \A i \in 1 .. Len(Tail(heard)) :
             Tail(heard)[i] = heard[i + 1] /\ i + 1 \in 1 .. Len(heard)
        /\ 1 \in 1 .. Len(heard) /\ Head(heard) = heard[1]
    BY <1>1, <2>1
  <2>3. HeardNew(Tail(heard))
    BY <2>2 DEF AskedInv, HeardNew
  <2>4. l.dev = asked.dev /\ l.report.n > baseline
    BY <2>2 DEF AskedInv, HeardNew, InfoLine
  <2> HIDE DEF l
  <2>5. LinesNew(Append(toEther, l))
    <3>1. /\ Len(Append(toEther, l)) = Len(toEther) + 1 /\ Len(toEther) \in Nat
          /\ \A i \in 1 .. Len(toEther) : Append(toEther, l)[i] = toEther[i]
          /\ Append(toEther, l)[Len(toEther) + 1] = l
      BY <1>1
    <3> QED
      BY <2>4, <3>1 DEF AskedInv, LinesNew
  <2> QED
    BY <1>2, <2>1, <2>3, <2>5 DEF AskedInv, ReportsOf, OnlyAsked, HeardNew, LinesNew
<1>5. CASE ListenTimeout
  <2>1. /\ heard' = heard /\ toEther' = Append(toEther, NoneLine)
        /\ toRadio' = toRadio /\ down' = down
    BY <1>5 DEF ListenTimeout, Println
  <2>2. LinesNew(Append(toEther, NoneLine))
    <3>1. /\ Len(Append(toEther, NoneLine)) = Len(toEther) + 1 /\ Len(toEther) \in Nat
          /\ \A i \in 1 .. Len(toEther) : Append(toEther, NoneLine)[i] = toEther[i]
          /\ Append(toEther, NoneLine)[Len(toEther) + 1] = NoneLine
      BY <1>1
    <3>2. NoneLine.type # "info"
      BY DEF NoneLine
    <3> QED
      BY <3>1, <3>2 DEF AskedInv, LinesNew
  <2> QED
    BY <1>2, <2>1, <2>2 DEF AskedInv, ReportsOf, OnlyAsked, HeardNew, LinesNew
<1> QED
  BY <1>3, <1>4, <1>5

\* Only the device asked for has something to answer
LEMMA AskedDevice ==
  ASSUME QuietInv, AskedInv, ThermostatHears \/ FlowHears,
         UNCHANGED <<asked, baseline>>
  PROVE  AskedInv'
<1>1. heard \in Seq(OwnFrame) /\ reported \in [Devices -> 0 .. MaxReports]
  BY DEF QuietInv, LabelInv
<1>2. toRadio' = toRadio /\ toEther' = toEther
  BY DEF ThermostatHears, FlowHears
<1>3. PICK m \in Devices :
        /\ ReadFrame(m)
        /\ Sends(m) \/ UNCHANGED <<heard, reported>>
  BY DEF ThermostatHears, FlowHears, Devices
<1>4. m = asked.dev
  BY <1>3 DEF ReadFrame, AskedInv
<1>5. \A d \in Devices : d # asked.dev => down'[d] = << >>
  BY <1>3, <1>4 DEF ReadFrame, AskedInv, QuietInv, SetInv
<1>6. CASE UNCHANGED <<heard, reported>>
  BY <1>2, <1>5, <1>6 DEF AskedInv, ReportsOf, OnlyAsked, HeardNew, LinesNew
<1>7. CASE Sends(m)
  <2> DEFINE f == [from |-> m, report |-> [of |-> m, n |-> reported'[m]]]
  <2>1. /\ reported'[m] = reported[m] + 1 /\ reported[m] \in Nat
        /\ heard' = heard \/ heard' = Append(heard, f)
    BY <1>1, <1>7, LinksAssumption DEF Sends
  <2>2. baseline <= reported[m] /\ baseline \in Nat
    BY <1>4 DEF AskedInv, ReportsOf
  <2>3. f.from = asked.dev /\ f.report.n > baseline
    BY <1>4, <2>1, <2>2
  <2> HIDE DEF f
  <2>4. HeardNew(Append(heard, f))
    <3>1. /\ Len(Append(heard, f)) = Len(heard) + 1 /\ Len(heard) \in Nat
          /\ \A i \in 1 .. Len(heard) : Append(heard, f)[i] = heard[i]
          /\ Append(heard, f)[Len(heard) + 1] = f
      BY <1>1
    <3> QED
      BY <2>3, <3>1 DEF AskedInv, HeardNew
  <2>5. baseline <= ReportsOf(asked.dev)'
    BY <1>4, <2>1, <2>2 DEF ReportsOf
  <2> QED
    BY <1>2, <1>5, <2>1, <2>2, <2>4, <2>5
      DEF AskedInv, ReportsOf, OnlyAsked, HeardNew, LinesNew
<1> QED
  BY <1>3, <1>6, <1>7

(***************************************************************************)
(* Every step keeps what a request on a quiet network relies on.           *)
(***************************************************************************)
LEMMA StepQuiet ==
  ASSUME QuietInv, [HomeNext]_homeVars
  PROVE  QuietInv'
<1>1. LabelInv'
  <2>1. CASE EtherNext /\ AtEther
    BY <2>1, EtherOwn DEF QuietInv
  <2>2. CASE RadioNext /\ AtRadio
    BY <2>2, RadioOwn DEF AtRadio, QuietInv
  <2>3. CASE DevicesNext /\ AtDevices
    BY <2>3, DevicesOwn DEF AtDevices, QuietInv
  <2>4. CASE UNCHANGED homeVars
    BY <2>4 DEF homeVars, links, etherVars, LabelInv, QuietInv
  <2> QED
    BY <2>1, <2>2, <2>3, <2>4 DEF HomeNext
<1>2. SetInv'
  BY StepOrders DEF QuietInv
<1>3. restarts' = restarts \/ (restarts' = restarts + 1 /\ waiting' = waiting)
        \/ EtherRestart
  BY DEF HomeNext, homeVars, links, etherVars, AtRadio, AtDevices,
         EtherNext, ServeNext, ClientAsks, ServeSet, ServeRequest, ServeOld,
         StoreLine, AnswerLine, GiveUp, TakeLine, RadioNext, RelayLine, HearFrame,
         ListenTimeout, RadioRestart, DevicesNext, ThermostatHears, FlowHears,
         ThermostatRestart, FlowRestart, Restart
<1>4. restarts' \in Nat
  BY <1>3 DEF QuietInv, EtherRestart, Restart
<1>5. ASSUME waiting', clean'
      PROVE  AskedInv'
  <2>1. CASE UNCHANGED homeVars
    BY <1>5, <2>1
      DEF QuietInv, AskedInv, OnlyAsked, HeardNew, LinesNew, ReportsOf,
          homeVars, links, etherVars, witness
  <2>2. CASE ~waiting /\ Witness /\ HomeNext
    <3>1. Quiet /\ baseline' = ReportsOf(asked'.dev)
      BY <1>5, <2>2 DEF Witness
    <3>2. \E c \in Clients : ServeRequest(c)
      BY <1>5, <2>2
        DEF HomeNext, EtherNext, ServeNext, ClientAsks, ServeSet, ServeOld,
            StoreLine, AnswerLine, GiveUp, EtherRestart, AtRadio, AtDevices,
            etherVars
    <3> QED
      BY <3>1, <3>2, AskedFirst
  <2>3. CASE waiting /\ Witness /\ HomeNext
    <3>1. /\ clean /\ restarts' = restarts /\ baseline' = baseline
          /\ QuietInv /\ AskedInv
      BY <1>5, <2>3 DEF Witness, QuietInv
    <3>2. restarts' # restarts + 1
      BY <3>1 DEF QuietInv
    <3>3. CASE EtherNext /\ AtEther
      <4>1. asked' = asked /\ UNCHANGED links
        BY <1>5, <2>3, <3>3
          DEF EtherNext, ServeNext, ClientAsks, ServeSet, ServeRequest, ServeOld,
              Serve, StoreLine, AnswerLine, GiveUp, EtherRestart
      <4> QED
        BY <3>1, <4>1 DEF links, AskedInv, OnlyAsked, HeardNew, LinesNew, ReportsOf
    <3>4. CASE RadioNext /\ AtRadio
      <4>1. asked' = asked /\ (RelayLine \/ HearFrame \/ ListenTimeout)
        BY <3>2, <3>4 DEF RadioNext, RadioRestart, Restart, AtRadio, etherVars
      <4> QED
        BY <3>1, <4>1, AskedRadio
    <3>5. CASE DevicesNext /\ AtDevices
      <4>1. asked' = asked /\ (ThermostatHears \/ FlowHears)
        BY <3>2, <3>5
          DEF DevicesNext, ThermostatRestart, FlowRestart, Restart, AtDevices,
              etherVars
      <4> QED
        BY <3>1, <4>1, AskedDevice
    <3> QED
      BY <2>3, <3>3, <3>4, <3>5 DEF HomeNext
  <2> QED
    BY <2>1, <2>2, <2>3 DEF HomeNext, AtEther, AtRadio, AtDevices
<1> QED
  BY <1>1, <1>2, <1>4, <1>5 DEF QuietInv

(***************************************************************************)
(* The step that ends the wait answers with what it took off the line.     *)
(***************************************************************************)
LEMMA AnswerFresh ==
  ASSUME QuietInv, [HomeNext]_homeVars,
         waiting, ~waiting', clean, reply'.ok
  PROVE  reply'.values.of = asked.dev /\ reply'.values.n > baseline
<1>1. AnswerLine
  <2>1. EtherNext
    BY DEF HomeNext, homeVars, etherVars, AtRadio, AtDevices
  <2>2. ~GiveUp /\ ~EtherRestart
    BY DEF GiveUp, EtherRestart, NoReply, Reply
  <2> QED
    BY <2>1, <2>2
      DEF EtherNext, ServeNext, ClientAsks, ServeSet, ServeRequest, ServeOld,
          Serve, StoreLine
<1> DEFINE l == Head(toEther)
<1>2. l \in OwnLine /\ 1 \in 1 .. Len(toEther) /\ l = toEther[1]
  BY <1>1 DEF AnswerLine, TakeLine, QuietInv, LabelInv
<1> HIDE DEF l
<1>3. /\ l.type = "info"
      /\ storage' = updateStorage(l) /\ reply' = Reply(asked, TRUE, storage'[l.dev])
  BY <1>1 DEF AnswerLine, Reply, l
<1>4. l.dev = asked.dev /\ l.report.n > baseline
  BY <1>2, <1>3 DEF QuietInv, AskedInv, LinesNew
<1>5. l.dev \in Devices /\ l.report.of = l.dev
  BY <1>2, <1>3 DEF OwnLine
<1>6. reply'.values = l.report
  BY <1>3, <1>5 DEF updateStorage, Reply, QuietInv, LabelInv, OwnRows
<1> QED
  BY <1>4, <1>5, <1>6

(***************************************************************************)
(* A request sent on a quiet network is answered with a report its device  *)
(* made after it, or not at all, for any number of clients and restarts.   *)
(***************************************************************************)
THEOREM QuietAnswersAreFresh == HomeSpec => QuietRequestIsFresh
<1>1. HomeInit => QuietInv
  BY InitRows, InitOrders DEF HomeInit, LinksInit, EtherInit, QuietInv
<1>2. QuietInv /\ [HomeNext]_homeVars => QuietInv'
  BY StepQuiet
<1>3. QuietInv /\ [HomeNext]_homeVars
        => [ (waiting /\ ~waiting' /\ clean /\ reply'.ok) =>
               /\ reply'.values.of = asked.dev
               /\ reply'.values.n > baseline ]_homeVars
  BY AnswerFresh
<1> QED
  BY <1>1, <1>2, <1>3, PTL DEF HomeSpec, QuietRequestIsFresh
---------------------------------------------------------------------------
(***************************************************************************)
(* The clients with a `set` to serve count toward MaxSets.                 *)
(***************************************************************************)
Setters(p) == {c \in Clients : p[c].type = "set"}

MemoryType ==
  /\ pending \in [Clients -> Asks \cup {NoRequest}]
  /\ waiting \in BOOLEAN
  /\ asked \in Asked
  /\ reply \in [asked : Asked, ok : BOOLEAN, values : Report \cup {Blank}]
  /\ sets \in 0 .. MaxSets
  /\ sets + Cardinality(Setters(pending)) <= MaxSets
  /\ listening \in BOOLEAN
  /\ restarts \in 0 .. MaxRestarts
  /\ clean \in BOOLEAN
  /\ baseline \in 0 .. MaxReports

TypeInv == LabelInv /\ SetInv /\ MemoryType

LEMMA SettersFinite ==
  ASSUME NEW p
  PROVE  IsFiniteSet(Setters(p)) /\ Cardinality(Setters(p)) \in Nat
<1>1. Setters(p) \subseteq Clients
  BY DEF Setters
<1>2. IsFiniteSet(Setters(p))
  BY <1>1, FS_Subset, ClientsAssumption
<1> QED
  BY <1>2, FS_CardinalityType

\* What a client that asks, and one that is served, do to the count
LEMMA SetterJoins ==
  ASSUME pending \in [Clients -> Asks \cup {NoRequest}],
         NEW c \in Clients, pending[c] = NoRequest, NEW q,
         pending' = [pending EXCEPT ![c] = q]
  PROVE  Cardinality(Setters(pending'))
           = IF q.type = "set" THEN Cardinality(Setters(pending)) + 1
                               ELSE Cardinality(Setters(pending))
<1>1. c \notin Setters(pending)
  BY DEF Setters, NoRequest
<1>2. CASE q.type = "set"
  <2>1. Setters(pending') = Setters(pending) \cup {c}
    BY <1>2 DEF Setters
  <2> QED
    BY <1>1, <1>2, <2>1, SettersFinite, FS_AddElement
<1>3. CASE q.type # "set"
  <2>1. Setters(pending') = Setters(pending)
    BY <1>1, <1>3 DEF Setters
  <2> QED
    BY <1>3, <2>1
<1> QED
  BY <1>2, <1>3

LEMMA SetterLeaves ==
  ASSUME pending \in [Clients -> Asks \cup {NoRequest}],
         NEW c \in Clients, pending' = [pending EXCEPT ![c] = NoRequest]
  PROVE  Cardinality(Setters(pending'))
           = IF pending[c].type = "set" THEN Cardinality(Setters(pending)) - 1
                                        ELSE Cardinality(Setters(pending))
<1>1. CASE pending[c].type = "set"
  <2>1. Setters(pending') = Setters(pending) \ {c} /\ c \in Setters(pending)
    BY <1>1 DEF Setters, NoRequest
  <2> QED
    BY <1>1, <2>1, SettersFinite, FS_RemoveElement
<1>2. CASE pending[c].type # "set"
  <2>1. Setters(pending') = Setters(pending)
    BY <1>2 DEF Setters, NoRequest
  <2> QED
    BY <1>2, <2>1
<1> QED
  BY <1>1, <1>2

\* The replies of baseEthernet
LEMMA ReplyTyped ==
  ASSUME NEW a \in Asked, NEW ok \in BOOLEAN, NEW r \in Report \cup {Blank}
  PROVE  /\ Reply(a, ok, r) \in [asked : Asked, ok : BOOLEAN, values : Report \cup {Blank}]
         /\ NoReply \in [asked : Asked, ok : BOOLEAN, values : Report \cup {Blank}]
         /\ Nobody \in Asked
BY DEF Reply, NoReply, Nobody, Asked

(***************************************************************************)
(* A step of baseEthernet keeps its own memory in order.                   *)
(***************************************************************************)
LEMMA EtherTyped ==
  ASSUME TypeInv, EtherNext, UNCHANGED <<radioVars, deviceVars>>
  PROVE  /\ pending' \in [Clients -> Asks \cup {NoRequest}]
         /\ waiting' \in BOOLEAN
         /\ asked' \in Asked
         /\ reply' \in [asked : Asked, ok : BOOLEAN, values : Report \cup {Blank}]
         /\ sets' \in 0 .. MaxSets
         /\ sets' + Cardinality(Setters(pending')) <= MaxSets
         /\ restarts' \in 0 .. MaxRestarts
<1> DEFINE Rep == [asked : Asked, ok : BOOLEAN, values : Report \cup {Blank}]
           N(p) == Cardinality(Setters(p))
<1>1. /\ pending \in [Clients -> Asks \cup {NoRequest}] /\ waiting \in BOOLEAN
      /\ asked \in Asked /\ reply \in Rep /\ sets \in 0 .. MaxSets
      /\ sets + N(pending) <= MaxSets /\ restarts \in 0 .. MaxRestarts
      /\ storage \in [Devices \cup {base} -> Report \cup {Blank}]
  BY DEF TypeInv, MemoryType, LabelInv, OwnRows
<1>2. N(pending) \in Nat /\ N(pending') \in Nat /\ MaxSets \in Nat /\ MaxRestarts \in Nat
  BY SettersFinite, ClientsAssumption, LinksAssumption
<1>3. /\ Blank \in Report \cup {Blank} /\ NoReply \in Rep /\ Nobody \in Asked
      /\ \A ok \in BOOLEAN, r \in Report \cup {Blank} : Reply(asked, ok, r) \in Rep
  BY <1>1, ReplyTyped
<1> HIDE DEF Rep, N
<1>4. ASSUME NEW c \in Clients, ClientAsks(c)
      PROVE  /\ pending' \in [Clients -> Asks \cup {NoRequest}]
             /\ sets + N(pending') <= MaxSets
  <2>1. PICK q \in Asks : /\ q.type = "set" => SetsUnderWay < MaxSets
                          /\ pending' = [pending EXCEPT ![c] = q]
    BY <1>4 DEF ClientAsks
  <2>2. N(pending') = IF q.type = "set" THEN N(pending) + 1 ELSE N(pending)
    BY <1>1, <1>4, <2>1, SetterJoins DEF ClientAsks, N
  <2>3. SetsUnderWay = sets + N(pending)
    BY DEF SetsUnderWay, N, Setters
  <2>4. sets + N(pending') <= MaxSets
    BY <1>1, <1>2, <2>1, <2>2, <2>3
  <2> QED
    BY <1>1, <2>1, <2>4
<1>5. ASSUME NEW c \in Clients, NEW kind \in Kinds, Serve(c, kind)
      PROVE  /\ pending' \in [Clients -> Asks \cup {NoRequest}]
             /\ pending[c].dev \in Devices \cup {base}
             /\ N(pending') = IF kind = "set" THEN N(pending) - 1 ELSE N(pending)
  <2>1. /\ pending[c] # NoRequest /\ pending[c].type = kind
        /\ pending' = [pending EXCEPT ![c] = NoRequest]
    BY <1>5 DEF Serve, Available
  <2>2. pending[c] \in Asks
    BY <1>1, <2>1
  <2>3. pending[c].dev \in Devices \cup {base}
    BY <2>2, ClientsAssumption DEF Requests
  <2>4. pending' \in [Clients -> Asks \cup {NoRequest}]
    BY <1>1, <2>1
  <2> QED
    BY <1>1, <2>1, <2>3, <2>4, SetterLeaves DEF N
<1>6. ASSUME NEW c \in Clients, ServeSet(c)
      PROVE  /\ pending' \in [Clients -> Asks \cup {NoRequest}]
             /\ sets' \in 0 .. MaxSets /\ sets' + N(pending') <= MaxSets
  <2>1. Serve(c, "set") /\ sets' = sets + 1
    BY <1>6 DEF ServeSet
  <2>2. /\ pending' \in [Clients -> Asks \cup {NoRequest}]
        /\ N(pending') = N(pending) - 1
    BY <1>5, <2>1 DEF Kinds
  <2> QED
    BY <1>1, <1>2, <2>1, <2>2
<1>7. ASSUME NEW c \in Clients, ServeRequest(c)
      PROVE  /\ pending' \in [Clients -> Asks \cup {NoRequest}]
             /\ N(pending') = N(pending) /\ asked' \in Asked
  <2>1. Serve(c, "request") /\ asked' = [to |-> c, dev |-> pending[c].dev]
    BY <1>7 DEF ServeRequest
  <2>2. /\ pending' \in [Clients -> Asks \cup {NoRequest}]
        /\ N(pending') = N(pending) /\ pending[c].dev \in Devices \cup {base}
    BY <1>5, <2>1 DEF Kinds
  <2> QED
    BY <2>1, <2>2 DEF Asked
<1>8. ASSUME NEW c \in Clients, ServeOld(c)
      PROVE  /\ pending' \in [Clients -> Asks \cup {NoRequest}]
             /\ N(pending') = N(pending) /\ reply' \in Rep
  <2>1. /\ Serve(c, "requestOld")
        /\ reply' = Reply([to |-> c, dev |-> pending[c].dev], TRUE,
                          storage[pending[c].dev])
    BY <1>8 DEF ServeOld
  <2>2. /\ pending' \in [Clients -> Asks \cup {NoRequest}]
        /\ N(pending') = N(pending) /\ pending[c].dev \in Devices \cup {base}
    BY <1>5, <2>1 DEF Kinds
  <2>3. [to |-> c, dev |-> pending[c].dev] \in Asked
    BY <2>2 DEF Asked
  <2> QED
    BY <1>1, <2>1, <2>2, <2>3, ReplyTyped DEF Rep
<1>9. CASE \E c \in Clients : ClientAsks(c)
  BY <1>1, <1>4, <1>9 DEF ClientAsks, links, N, Rep
<1>10. CASE \E c \in Clients : ServeSet(c)
  BY <1>1, <1>3, <1>6, <1>10 DEF ServeSet, N, Rep
<1>11. CASE \E c \in Clients : ServeRequest(c)
  BY <1>1, <1>3, <1>7, <1>11 DEF ServeRequest, N, Rep
<1>12. CASE \E c \in Clients : ServeOld(c)
  BY <1>1, <1>8, <1>12 DEF ServeOld, links, N, Rep
<1>13. CASE StoreLine
  BY <1>1, <1>3, <1>13 DEF StoreLine, TakeLine, N, Rep
<1>14. CASE AnswerLine
  <2>1. storage' \in OwnRows
    BY <1>14, EtherOwn DEF EtherNext, TypeInv, LabelInv
  <2>2. Head(toEther).type = "info" => Head(toEther).dev \in Devices
    <3>1. Head(toEther) \in OwnLine
      BY <1>14 DEF AnswerLine, TakeLine, TypeInv, LabelInv
    <3> QED
      BY <3>1 DEF OwnLine
  <2>3. reply' \in Rep
    BY <1>3, <1>14, <2>1, <2>2 DEF AnswerLine, OwnRows
  <2> QED
    BY <1>1, <1>3, <1>14, <2>3 DEF AnswerLine, TakeLine, N, Rep
<1>15. CASE GiveUp
  BY <1>1, <1>3, <1>15 DEF GiveUp, links, N, Rep
<1>16. CASE EtherRestart
  <2>1. pending' \in [Clients -> Asks \cup {NoRequest}]
    BY <1>16 DEF EtherRestart
  <2>2. N(pending') = 0
    <3>1. Setters(pending') = {}
      BY <1>16 DEF EtherRestart, Setters, NoRequest
    <3> QED
      BY <3>1, FS_EmptySet DEF N
  <2>3. sets' = sets /\ sets' + N(pending') <= MaxSets
    BY <1>1, <1>2, <1>16, <2>2 DEF EtherRestart
  <2>4. restarts' \in 0 .. MaxRestarts
    BY <1>1, <1>2, <1>16 DEF EtherRestart, Restart
  <2> QED
    BY <1>1, <1>3, <1>16, <2>1, <2>3, <2>4 DEF EtherRestart, N, Rep
<1> QED
  BY <1>9, <1>10, <1>11, <1>12, <1>13, <1>14, <1>15, <1>16 DEF EtherNext, ServeNext
\* The history is of its kind after every step that makes one
LEMMA WitnessTyped ==
  ASSUME TypeInv, Witness
  PROVE  clean' \in BOOLEAN /\ baseline' \in 0 .. MaxReports
<1>1. clean' = TRUE \/ clean' = FALSE
  <2>1. clean' = \/ ~waiting /\ waiting' /\ Quiet
                 \/ waiting /\ waiting' /\ clean /\ restarts' = restarts
    BY DEF Witness
  <2> QED
    BY <2>1
<1>2. ReportsOf(asked'.dev) \in 0 .. MaxReports
  BY LinksAssumption DEF ReportsOf, TypeInv, LabelInv
<1>3. baseline \in 0 .. MaxReports /\ waiting \in BOOLEAN /\ 0 \in 0 .. MaxReports
  BY LinksAssumption DEF TypeInv, MemoryType
<1>4. \/ baseline' = 0 \/ baseline' = baseline
      \/ baseline' = ReportsOf(asked'.dev)
  <2>1. baseline' = CASE ~clean' -> 0
                      [] clean' /\ waiting -> baseline
                      [] clean' /\ ~waiting -> ReportsOf(asked'.dev)
    BY DEF Witness
  <2>2. CASE ~clean'
    BY <2>1, <2>2
  <2>3. CASE clean' /\ waiting
    BY <2>1, <2>3
  <2>4. CASE clean' /\ ~waiting
    BY <2>1, <2>4
  <2> QED
    BY <2>2, <2>3, <2>4
<1> QED
  BY <1>1, <1>2, <1>3, <1>4

(***************************************************************************)
(* A step of any board keeps every variable of its kind.                   *)
(***************************************************************************)
LEMMA StepTyped ==
  ASSUME TypeInv, [HomeNext]_homeVars
  PROVE  TypeInv'
<1>1. LabelInv'
  <2>1. CASE EtherNext /\ AtEther
    BY <2>1, EtherOwn DEF TypeInv
  <2>2. CASE RadioNext /\ AtRadio
    BY <2>2, RadioOwn DEF AtRadio, TypeInv
  <2>3. CASE DevicesNext /\ AtDevices
    BY <2>3, DevicesOwn DEF AtDevices, TypeInv
  <2>4. CASE UNCHANGED homeVars
    BY <2>4 DEF homeVars, links, etherVars, LabelInv, TypeInv
  <2> QED
    BY <2>1, <2>2, <2>3, <2>4 DEF HomeNext
<1>2. SetInv'
  BY StepOrders DEF TypeInv
<1>3. MaxRestarts \in Nat
  BY LinksAssumption
<1>4. CASE EtherNext /\ AtEther
  <2>1. listening' = listening
    BY <1>4 DEF AtEther, radioVars
  <2>2. UNCHANGED <<radioVars, deviceVars>>
    BY <1>4 DEF AtEther
  <2>3. clean' \in BOOLEAN /\ baseline' \in 0 .. MaxReports
    BY <1>4, WitnessTyped DEF AtEther
  <2>4. MemoryType'
    BY <1>4, <2>1, <2>2, <2>3, EtherTyped DEF TypeInv, MemoryType
  <2> QED
    BY <1>1, <1>2, <2>4 DEF TypeInv
<1>5. CASE RadioNext /\ AtRadio
  <2>1. /\ UNCHANGED etherVars
        /\ clean' \in BOOLEAN /\ baseline' \in 0 .. MaxReports
    BY <1>5, WitnessTyped DEF AtRadio
  <2>2. listening' \in BOOLEAN
    BY <1>5 DEF RadioNext, RelayLine, HearFrame, ListenTimeout, RadioRestart
  <2>3. restarts' \in 0 .. MaxRestarts
    BY <1>3, <1>5 DEF RadioNext, RelayLine, HearFrame, ListenTimeout,
                      RadioRestart, Restart, TypeInv, MemoryType
  <2>4. MemoryType'
    BY <2>1, <2>2, <2>3 DEF TypeInv, MemoryType, etherVars, Setters
  <2> QED
    BY <1>1, <1>2, <2>4 DEF TypeInv
<1>6. CASE DevicesNext /\ AtDevices
  <2>1. /\ UNCHANGED <<etherVars, radioVars>>
        /\ clean' \in BOOLEAN /\ baseline' \in 0 .. MaxReports
    BY <1>6, WitnessTyped DEF AtDevices
  <2>2. restarts' \in 0 .. MaxRestarts
    BY <1>3, <1>6 DEF DevicesNext, ThermostatHears, FlowHears, ThermostatRestart,
                      FlowRestart, Restart, TypeInv, MemoryType
  <2>3. MemoryType'
    BY <2>1, <2>2 DEF TypeInv, MemoryType, etherVars, radioVars, Setters
  <2> QED
    BY <1>1, <1>2, <2>3 DEF TypeInv
<1>7. CASE UNCHANGED homeVars
  <2>1. MemoryType'
    BY <1>7 DEF homeVars, links, etherVars, radioVars, witness,
                TypeInv, MemoryType, Setters
  <2> QED
    BY <1>1, <1>2, <2>1 DEF TypeInv
<1> QED
  BY <1>4, <1>5, <1>6, <1>7 DEF HomeNext

LEMMA InitTyped == HomeInit => TypeInv
<1> SUFFICES ASSUME HomeInit PROVE TypeInv
  OBVIOUS
<1>1. LabelInv /\ SetInv
  BY InitRows, InitOrders
<1>2. /\ pending = [c \in Clients |-> NoRequest] /\ waiting = FALSE
      /\ asked = Nobody /\ reply = NoReply /\ sets = 0 /\ listening = FALSE
      /\ restarts = 0 /\ clean = FALSE /\ baseline = 0
  BY DEF HomeInit, LinksInit, EtherInit, RadioInit
<1>3. Cardinality(Setters(pending)) = 0
  <2>1. Setters(pending) = {}
    BY <1>2 DEF Setters, NoRequest
  <2> QED
    BY <2>1, FS_EmptySet
<1>4. /\ 0 \in 0 .. MaxSets /\ 0 + 0 <= MaxSets
      /\ 0 \in 0 .. MaxRestarts /\ 0 \in 0 .. MaxReports
  BY LinksAssumption, ClientsAssumption
<1>5. Nobody \in Asked
  BY DEF Nobody, Asked
<1>6. NoReply \in [asked : Asked, ok : BOOLEAN, values : Report \cup {Blank}]
  BY <1>5, ReplyTyped
<1>7. MemoryType
  BY <1>2, <1>3, <1>4, <1>5, <1>6 DEF MemoryType
<1> QED
  BY <1>1, <1>7 DEF TypeInv

(***************************************************************************)
(* Every variable of every board always holds a value of its kind, for any *)
(* number of clients and any capacity of the links.                        *)
(***************************************************************************)
THEOREM HomeTyped == HomeSpec => []HomeType
<1>1. HomeInit => TypeInv
  BY InitTyped
<1>2. TypeInv /\ [HomeNext]_homeVars => TypeInv'
  BY StepTyped
<1>3. TypeInv => HomeType
  <2> SUFFICES ASSUME TypeInv PROVE HomeType
    OBVIOUS
  <2>1. heard \in Seq(Frame) /\ toEther \in Seq(Lines)
    <3>1. \A q \in Seq(OwnFrame) : q \in Seq(Frame)
      BY DEF OwnFrame
    <3>2. \A q \in Seq(OwnLine) : q \in Seq(Lines)
      BY DEF OwnLine
    <3> QED
      BY <3>1, <3>2 DEF TypeInv, LabelInv
  <2>2. LinksType
    BY <2>1 DEF LinksType, TypeInv, LabelInv, SetInv, MemoryType
  <2>3. EtherType
    BY DEF EtherType, TypeInv, LabelInv, OwnRows, MemoryType
  <2> QED
    BY <2>2, <2>3
      DEF HomeType, RadioType, DevicesType, TypeInv, SetInv, MemoryType
<1> QED
  BY <1>1, <1>2, <1>3, PTL DEF HomeSpec
---------------------------------------------------------------------------
(***************************************************************************)
(* The home implements what it promises: each step of a board is one of    *)
(* HomePromise or is not to be seen there.                                 *)
(***************************************************************************)
Rows     == [d \in Devices |-> storage[d].n]
Promised == <<reported, Rows, sets, applied>>


\* A line that is taken teaches the table something newer or nothing
LEMMA TakesPromised ==
  ASSUME LabelInv, RowInv, TakeLine, UNCHANGED <<sets, applied>>,
         storage' = IF Head(toEther).type = "info"
                      THEN updateStorage(Head(toEther)) ELSE storage
  PROVE  [Promise!Next]_Promised
<1> DEFINE l == Head(toEther)
<1>1. toEther \in Seq(OwnLine) /\ toEther # << >> /\ reported' = reported
  BY DEF TakeLine, LabelInv
<1>2. l \in OwnLine /\ 1 \in 1 .. Len(toEther) /\ l = toEther[1]
  BY <1>1
<1>3. CASE l.type = "info"
  <2>1. l.dev \in Devices /\ l.report.of = l.dev /\ l.report.n \in Nat
    <3>1. NoneLine.type # "info"
      BY DEF NoneLine
    <3> QED
      BY <1>2, <1>3, <3>1, AllCarry DEF Carries
  <2> DEFINE n == l.report.n
  <2>2. PICK d \in Devices : d = l.dev
    BY <2>1
  <2>3. Newer(toEther, d, storage[d].n, reported[d])
    BY DEF RowInv, Reports
  <2>4. storage[d].n < n /\ n <= reported[d]
    BY <1>2, <2>1, <2>2, <2>3 DEF Newer
  <2>5. storage[d].n \in Nat /\ reported[d] \in Nat
    BY AllCarry DEF LabelInv
  <2>6. n \in 1 .. reported[d] /\ Rows[d] < n
    BY <2>1, <2>4, <2>5 DEF Rows
  <2>7. Rows' = [Rows EXCEPT ![d] = n]
    <3>1. storage' = [storage EXCEPT ![d] = l.report]
      BY <1>3, <2>2 DEF updateStorage
    <3>2. \A e \in Devices :
            storage'[e].n = IF e = d THEN n ELSE storage[e].n
      BY <3>1 DEF LabelInv, OwnRows
    <3> QED
      BY <3>2 DEF Rows
  <2>8. Promise!Learn(d)
    BY <1>1, <2>6, <2>7 DEF Promise!Learn, Rows
  <2> QED
    BY <2>8 DEF Promise!Next
<1>4. CASE l.type # "info"
  BY <1>1, <1>4 DEF Promised, Rows
<1> QED
  BY <1>3, <1>4

(***************************************************************************)
(* baseEthernet gives commands, and learns and forgets the reports.        *)
(***************************************************************************)
LEMMA EtherPromised ==
  ASSUME LabelInv, RowInv, EtherNext, UNCHANGED <<radioVars, deviceVars>>
  PROVE  [Promise!Next]_Promised
<1>1. applied' = applied
  BY DEF deviceVars
<1>2. CASE \E c \in Clients : ServeSet(c)
  BY <1>1, <1>2 DEF ServeSet, Promise!Next, Promise!Give
<1>3. CASE \/ \E c \in Clients : ClientAsks(c) \/ ServeRequest(c) \/ ServeOld(c)
           \/ GiveUp
  BY <1>1, <1>3 DEF ClientAsks, ServeRequest, ServeOld, GiveUp, links, Promised, Rows
<1>4. CASE StoreLine \/ AnswerLine
  <2>1. /\ TakeLine /\ sets' = sets
        /\ storage' = IF Head(toEther).type = "info"
                        THEN updateStorage(Head(toEther)) ELSE storage
    BY <1>4 DEF StoreLine, AnswerLine
  <2> QED
    BY <1>1, <2>1, TakesPromised
<1>5. CASE EtherRestart
  <2>1. \A d \in Devices : storage'[d].n = 0
    BY <1>5 DEF EtherRestart, Blank
  <2>2. reported' = reported /\ sets' = sets
    BY <1>5 DEF EtherRestart
  <2>3. Promise!Forget
    BY <1>1, <2>1, <2>2 DEF Promise!Forget
  <2> QED
    BY <2>3 DEF Promise!Next
<1> QED
  BY <1>2, <1>3, <1>4, <1>5 DEF EtherNext, ServeNext

\* A device that reports without obeying
LEMMA SendsPromised ==
  ASSUME NEW d \in Devices, Sends(d), UNCHANGED <<storage, sets, applied>>
  PROVE  [Promise!Next]_Promised
<1>1. Promise!Make(d)
  BY DEF Sends, Promise!Make
<1> QED
  BY <1>1 DEF Promise!Next

(***************************************************************************)
(* The thermostat obeys a command it was given, later than the last one.   *)
(***************************************************************************)
LEMMA ObeysPromised ==
  ASSUME SetInv, ThermostatHears, UNCHANGED etherVars,
         applied' = Head(down[thermostat]).n,
         Head(down[thermostat]).type = "set"
  PROVE  [Promise!Next]_Promised
<1> DEFINE q == down[thermostat]
<1>1. q # << >> /\ q \in Seq(Command) /\ thermostat \in Devices
  BY DEF ThermostatHears, ReadFrame, SetInv, Devices
<1>2. IsSet(q, 1) /\ q[1] = Head(q) /\ Head(q) \in Command
  BY <1>1 DEF IsSet
<1>3. applied < applied' /\ applied' <= sets
  BY <1>1, <1>2 DEF SetInv, Orders, Between
<1>4. applied' \in 1 .. sets
  BY <1>2, <1>3 DEF SetInv, Command
<1>5. Promise!Obey
  BY <1>3, <1>4 DEF ThermostatHears, Sends, etherVars, Promise!Obey
<1> QED
  BY <1>5 DEF Promise!Next

(***************************************************************************)
(* The devices report and obey.                                            *)
(***************************************************************************)
LEMMA DevicesPromised ==
  ASSUME SetInv, DevicesNext, UNCHANGED etherVars
  PROVE  [Promise!Next]_Promised
<1>1. UNCHANGED <<storage, sets>>
  BY DEF etherVars
<1>2. CASE ThermostatHears
  <2>1. CASE applied' = applied
    BY <1>1, <1>2, <2>1, SendsPromised DEF ThermostatHears, Devices
  <2>2. CASE applied' # applied
    BY <1>2, <2>2, ObeysPromised DEF ThermostatHears
  <2> QED
    BY <2>1, <2>2
<1>3. CASE ThermostatRestart
  BY <1>1, <1>3, SendsPromised DEF ThermostatRestart, Devices
<1>4. CASE FlowHears /\ Sends(waterFlow)
  BY <1>1, <1>4, SendsPromised DEF FlowHears, Devices
<1>5. CASE (FlowHears \/ FlowRestart) /\ reported' = reported
  BY <1>1, <1>5 DEF FlowHears, FlowRestart, Promised, Rows
<1>6. FlowHears => Sends(waterFlow) \/ reported' = reported
  BY DEF FlowHears
<1>7. FlowRestart => reported' = reported
  BY DEF FlowRestart
<1> QED
  BY <1>2, <1>3, <1>4, <1>5, <1>6, <1>7 DEF DevicesNext

LEMMA StepPromised ==
  ASSUME LabelInv, RowInv, SetInv, [HomeNext]_homeVars
  PROVE  [Promise!Next]_Promised
<1>1. CASE EtherNext /\ AtEther
  BY <1>1, EtherPromised DEF AtEther
<1>2. CASE RadioNext /\ AtRadio
  <2>1. UNCHANGED <<reported, storage, sets, applied>>
    BY <1>2 DEF AtRadio, etherVars, deviceVars, RadioNext, RelayLine, HearFrame,
                ListenTimeout, RadioRestart
  <2> QED
    BY <2>1 DEF Promised, Rows
<1>3. CASE DevicesNext /\ AtDevices
  BY <1>3, DevicesPromised DEF AtDevices
<1>4. CASE UNCHANGED homeVars
  BY <1>4 DEF homeVars, links, etherVars, deviceVars, Promised, Rows
<1> QED
  BY <1>1, <1>2, <1>3, <1>4 DEF HomeNext

(***************************************************************************)
(* The four boards are a table that follows its devices and a line of      *)
(* commands obeyed in their order, for any number of clients, of reports,  *)
(* of commands, of restarts and of messages under way.                     *)
(***************************************************************************)
THEOREM HomeIsPromise == HomeSpec => HomeKeepsPromise
<1>1. HomeInit => LabelInv /\ RowInv /\ SetInv
  BY InitRows, InitOrders
<1>2. LabelInv /\ RowInv /\ SetInv /\ [HomeNext]_homeVars
        => LabelInv' /\ RowInv' /\ SetInv'
  BY StepRows, StepOrders
<1>3. HomeInit => Promise!Init
  BY DEF HomeInit, LinksInit, EtherInit, DevicesInit, Blank, Promise!Init
<1>4. LabelInv /\ RowInv /\ SetInv /\ [HomeNext]_homeVars
        => [Promise!Next]_Promised
  BY StepPromised
<1> QED
  BY <1>1, <1>2, <1>3, <1>4, PTL
    DEF HomeSpec, HomeKeepsPromise, Promise!Spec, Promised, Rows
===========================================================================
