--------------------------- MODULE BaseEthernet ---------------------------
(***************************************************************************)
(* baseEthernet/baseEthernet.ino: the TCP server.  It forwards the lines   *)
(* of its clients to baseRF24 over the serial line, keeps the latest       *)
(* values of every device in `storage` and answers from it.                *)
(*                                                                         *)
(* loop() is one thread: while it waits for the answer to a `request` it   *)
(* serves nobody else.                                                     *)
(***************************************************************************)
EXTENDS HomeLinks

CONSTANTS
  Clients,   \* socket slots: 1 .. n, n <= 4
  Asks,      \* the lines the clients send: a kind and a device number
  MaxSets    \* bound on the `set` commands of the clients

VARIABLES
  pending,   \* pending[c]: the line client c has sent and loop() not read
  waiting,   \* loop() is inside waitSerial(1100)
  asked,     \* the request it waits for: its client and device
  storage,   \* storage[d]: the values last stored for device d
  reply,     \* the line sent to a client in this board's latest step
  sets       \* how many `set` lines have been forwarded

etherVars == <<pending, waiting, asked, storage, reply, sets>>

Kinds     == {"set", "request", "requestOld"}
Requests  == [type : Kinds, dev : Devices \cup {base}]
NoRequest == [type |-> "nothing", dev |-> base]

ASSUME ClientsAssumption ==
  /\ Clients \subseteq Nat \ {0} /\ IsFiniteSet(Clients)
  /\ Asks \subseteq Requests
  /\ MaxSets \in Nat

Nobody    == [to |-> 0, dev |-> base]
Asked     == [to : Clients \cup {0}, dev : Devices \cup {base}]

\* A reply: to whom, for which device they asked, and the values sent.
\* "not available" carries no values.
Reply(a, ok, r) == [asked |-> a, ok |-> ok, values |-> r]
NoReply         == Reply(Nobody, FALSE, Blank)

EtherInit ==
  /\ pending = [c \in Clients |-> NoRequest]
  /\ waiting = FALSE
  /\ asked = Nobody
  /\ storage = [d \in Devices \cup {base} |-> Blank]
  /\ reply = NoReply
  /\ sets = 0

EtherType ==
  /\ pending \in [Clients -> Asks \cup {NoRequest}]
  /\ waiting \in BOOLEAN
  /\ asked \in Asked
  /\ storage \in [Devices \cup {base} -> Report \cup {Blank}]
  /\ reply \in [asked : Asked, ok : BOOLEAN, values : Report \cup {Blank}]
  /\ sets \in 0 .. MaxSets

---------------------------------------------------------------------------
SetsUnderWay == sets + Cardinality({c \in Clients : pending[c].type = "set"})

\* A client sends its next line
ClientAsks(c) ==
  /\ pending[c] = NoRequest
  /\ \E q \in Asks :
       /\ q.type = "set" => SetsUnderWay < MaxSets
       /\ pending' = [pending EXCEPT ![c] = q]
  /\ UNCHANGED <<waiting, asked, storage, reply, sets, links>>

SlipLastSlot(c) ==    \* slip: the last slot with input is served
  /\ pending[c] # NoRequest
  /\ \A b \in Clients : b > c => pending[b] = NoRequest

\* server.available() returns the first slot, in slot order, with input
Available(c) ==
  /\ pending[c] # NoRequest
  /\ \A b \in Clients : b < c => pending[b] = NoRequest

\* readPacket() and decipher() of the client's line
Serve(c, kind) ==
  /\ ~waiting
  /\ Available(c)
  /\ pending[c].type = kind
  /\ pending' = [pending EXCEPT ![c] = NoRequest]

\* Serial.println(rebuild())
Forward(kind, d, n) ==
  /\ Len(toRadio) < LineCap
  /\ toRadio' = Append(toRadio, [type |-> kind, dev |-> d, n |-> n])

ServeSet(c) ==
  /\ Serve(c, "set")
  /\ sets' = sets + 1
  /\ Forward("set", pending[c].dev, sets')
  /\ reply' = NoReply
  /\ UNCHANGED <<waiting, asked, storage>>
  /\ UNCHANGED <<toEther, down, heard, reported, restarts>>

ServeRequest(c) ==
  /\ Serve(c, "request")
  /\ Forward("request", pending[c].dev, 0)
  /\ waiting' = TRUE
  /\ asked' = [to |-> c, dev |-> pending[c].dev]
  /\ reply' = NoReply
  /\ UNCHANGED <<storage, sets>>
  /\ UNCHANGED <<toEther, down, heard, reported, restarts>>

ServeOld(c) ==
  /\ Serve(c, "requestOld")
  /\ reply' = Reply([to |-> c, dev |-> pending[c].dev], TRUE,
                    storage[pending[c].dev])
  /\ UNCHANGED <<waiting, asked, storage, sets, links>>

\* updateStorage(): the row of the device the line names
SlipAskedRow(line) == [storage EXCEPT ![asked.dev] = line.report]    \* slip
updateStorage(line) == [storage EXCEPT ![line.dev] = line.report]

TakeLine ==
  /\ toEther # << >>
  /\ toEther' = Tail(toEther)
  /\ UNCHANGED <<toRadio, down, heard, reported, restarts>>

\* serial() completed a line at the top of loop()
StoreLine ==
  /\ ~waiting
  /\ TakeLine
  /\ storage' = IF Head(toEther).type = "info"
                  THEN updateStorage(Head(toEther)) ELSE storage
  /\ reply' = NoReply
  /\ UNCHANGED <<pending, waiting, asked, sets>>

\* slip: only the answer of the device asked for is stored
SlipStoresAsked ==
  LET line == Head(toEther)
  IN  /\ waiting
      /\ TakeLine
      /\ waiting' = FALSE
      /\ IF line.type = "info" /\ line.dev = asked.dev
           THEN /\ storage' = updateStorage(line)
                /\ reply' = Reply(asked, TRUE, storage'[line.dev])
           ELSE /\ storage' = storage
                /\ reply' = Reply(asked, FALSE, Blank)
      /\ asked' = Nobody
      /\ UNCHANGED <<pending, sets>>

\* serial() completed a line inside waitSerial(): its device, not the one
\* asked for, is in devId when updateStorage() and getStorage() run
AnswerLine ==
  LET line == Head(toEther)
  IN  /\ waiting
      /\ TakeLine
      /\ waiting' = FALSE
      /\ IF line.type = "info"
           THEN /\ storage' = updateStorage(line)
                /\ reply' = Reply(asked, TRUE, storage'[line.dev])
           ELSE /\ storage' = storage
                /\ reply' = Reply(asked, FALSE, Blank)
      /\ asked' = Nobody
      /\ UNCHANGED <<pending, sets>>

\* slip: on a timeout the client gets the stored values
SlipCached ==
  /\ waiting
  /\ waiting' = FALSE
  /\ reply' = Reply(asked, TRUE, storage[asked.dev])
  /\ asked' = Nobody
  /\ UNCHANGED <<pending, storage, sets, links>>

\* waitSerial() timed out
GiveUp ==
  /\ waiting
  /\ waiting' = FALSE
  /\ reply' = Reply(asked, FALSE, Blank)
  /\ asked' = Nobody
  /\ UNCHANGED <<pending, storage, sets, links>>

\* Power cycle: RAM, the serial input and the connections are gone
EtherRestart ==
  /\ Restart
  /\ pending' = [c \in Clients |-> NoRequest]
  /\ waiting' = FALSE
  /\ asked' = Nobody
  /\ storage' = [d \in Devices \cup {base} |-> Blank]
  /\ reply' = NoReply
  /\ toEther' = << >>
  /\ UNCHANGED <<sets, toRadio, down, heard, reported>>

ServeNext ==
  \E c \in Clients : ServeSet(c) \/ ServeRequest(c) \/ ServeOld(c)

EtherNext ==
  \/ \E c \in Clients : ClientAsks(c)
  \/ ServeNext
  \/ StoreLine
  \/ AnswerLine
  \/ GiveUp
  \/ EtherRestart
===========================================================================
