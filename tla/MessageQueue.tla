--------------------------- MODULE MessageQueue ---------------------------
(***************************************************************************)
(* What the receiving side of RF24Network promises its application: a      *)
(* queue of whole messages.  A message of a sender may be lost, but those  *)
(* that arrive are the ones that were sent, each once and in the order of  *)
(* their sender.  NetQueue implements it.                                  *)
(***************************************************************************)
EXTENDS Naturals, Sequences

CONSTANTS
  Senders,
  Total       \* how many messages each sender sends

VARIABLES
  inbox,     \* the messages the application may read, <<sender, number>>
  arrived    \* the last message of each sender that arrived

Init ==
  /\ inbox = <<>>
  /\ arrived = [s \in Senders |-> 0]

Arrive(s, n) ==
  /\ arrived[s] < n
  /\ arrived' = [arrived EXCEPT ![s] = n]
  /\ inbox' = Append(inbox, <<s, n>>)

Take ==
  /\ inbox # <<>>
  /\ inbox' = Tail(inbox)
  /\ UNCHANGED arrived

Next ==
  \/ \E s \in Senders : \E n \in 1 .. Total[s] : Arrive(s, n)
  \/ Take

Spec == Init /\ [][Next]_<<inbox, arrived>>
===========================================================================
