---------------------------- MODULE NetRouting ----------------------------
(***************************************************************************)
(* A frame on its way through a tree of RF24Network nodes: each node that  *)
(* it reaches and that is not its destination passes it on.  The next node *)
(* is whoever listens to the address it is sent to, as begin() opened the  *)
(* six pipes of every node.  The tree that the digits of the addresses     *)
(* spell is the reference.                                                 *)
(***************************************************************************)
EXTENDS NetAddress

CONSTANTS
  Digits,     \* the digits in use
  MaxLevel    \* levels below the master

\* The digits a node may be given.  In the build with RF24NetworkMulticast,
\* is_valid_address() lets a 0 between digits pass as well, for the addresses
\* of levels; no node of the tree has such an address.
ASSUME DigitsAssumption == Digits \subseteq 1 .. 5 /\ MaxLevel \in 0 .. 4

\* The addresses of the tree
Nodes == { n \in 0 .. 8 ^ MaxLevel - 1 : \A i \in 1 .. Level(n) : Digit(n, i) \in Digits }

\* begin(): the addresses a node listens to
Listening == [n \in Nodes |-> { pipe_address(n, p) : p \in 0 .. 5 }]

Hearers(address) == { n \in Nodes : address \in Listening[n] }

VARIABLES from, to, at, hops

vars == <<from, to, at, hops>>

Init ==
  /\ from \in Nodes
  /\ to \in Nodes
  /\ at = from
  /\ hops = 0

\* update(): a frame for another node is written on as TX_ROUTED
Forward ==
  /\ at # to
  /\ LET hop == logicalToPhysicalAddress(at, to)
     IN at' \in Hearers(pipe_address(hop.node, hop.pipe))
  /\ hops' = hops + 1
  /\ UNCHANGED <<from, to>>

Spec == Init /\ [][Forward]_vars

---------------------------------------------------------------------------
\* The distance of two nodes of the tree, by what their ways from the
\* master have in common
Common(x, y) ==
  Cardinality({ i \in 1 .. MaxLevel :
                  \A j \in 1 .. i : Digit(x, j) = Digit(y, j) /\ Digit(x, j) # 0 })

Distance(x, y) == Level(x) + Level(y) - 2 * Common(x, y)

\* Masks, pipes and addresses agree on the tree: every hop is heard by one
\* node only, and it is the next one of the shortest way.  So no pair of
\* nodes is without a route, and no frame goes in circles.
ShortestWay ==
  /\ hops + Distance(at, to) = Distance(from, to)
  /\ at # to => LET hop == logicalToPhysicalAddress(at, to)
                IN Cardinality(Hearers(pipe_address(hop.node, hop.pipe))) = 1

\* A multicast frame relayed by a node below the master is heard by the
\* nodes of the next level, and by no other.
RelayedDown ==
  at # 0 => Hearers(RelayAddress(at)) = { n \in Nodes : Level(n) = Level(at) + 1 }
===========================================================================
