---------------------------- MODULE NetAddress ----------------------------
(***************************************************************************)
(* Addressing in libraries/RF24Network: the logical address of a node is   *)
(* a 16-bit number whose octal digits, from the lowest, are the way to it  *)
(* from the master 00.  The code works with masks and shifts of three      *)
(* bits; here they are divisions by powers of eight.                       *)
(***************************************************************************)
EXTENDS Integers, FiniteSets

\* The loop of setup_address() counts the octal digits of the address.
Level(node) ==
  CHOOSE c \in 0 .. 6 : node < 8 ^ c /\ (c = 0 \/ node >= 8 ^ (c - 1))

Digit(node, i) == (node \div 8 ^ (i - 1)) % 8

\* The part of the address in the mask of the next level down, and the
\* digit outside of it
parent_node(node) == IF node = 0 THEN 0 ELSE node % 8 ^ (Level(node) - 1)
parent_pipe(node) == IF node = 0 THEN 0 ELSE node \div 8 ^ (Level(node) - 1)

is_descendant(self, node) == node % 8 ^ Level(self) = self

SlipDeeper(self, node) ==      \* slip: the mask is one level too wide
  is_descendant(self, node) /\ node < 8 ^ (Level(self) + 2)

is_direct_child(self, node) ==
  is_descendant(self, node) /\ node < 8 ^ (Level(self) + 1)

direct_child_route_to(self, node) == node % 8 ^ (Level(self) + 1)

---------------------------------------------------------------------------
\* Where a frame goes physically: a node and one of its pipes
Hop(node, pipe) == [node |-> node, pipe |-> pipe]

\* logicalToPhysicalAddress() for TX_NORMAL and TX_ROUTED
logicalToPhysicalAddress(self, to) ==
  CASE is_direct_child(self, to) -> Hop(to, 5)
    [] ~is_direct_child(self, to) /\ is_descendant(self, to) ->
         Hop(direct_child_route_to(self, to), 5)
    [] OTHER -> Hop(parent_node(self), parent_pipe(self))

\* pipe_address(): the five bytes the radio uses, as indices into
\* address_translation; Pad is the byte 0xCC, which is not in the table.
Pad == 99

SlipNoPipe(node, pipe) ==      \* slip: the pipe does not enter the address
  [b \in 0 .. 4 |-> IF b \in 1 .. Level(node) THEN Digit(node, b) ELSE Pad]

pipe_address(node, pipe) ==
  IF pipe # 0 \/ node = 0
  THEN [b \in 0 .. 4 |-> CASE b = 0 -> pipe
                           [] b \in 1 .. Level(node) -> Digit(node, b)
                           [] OTHER -> Pad]
  ELSE [b \in 0 .. 4 |-> IF b = 1 THEN Level(node) ELSE Pad]

levelToAddress(level) == IF level = 0 THEN 0 ELSE 8 ^ (level - 1)

\* multicastRelay: update() passes a multicast frame on to
\* levelToAddress(multicast_level) << 3, on pipe 0
SlipOwnLevel(self) ==          \* slip: without the shift
  pipe_address(levelToAddress(Level(self)), 0)

RelayAddress(self) == pipe_address(8 * levelToAddress(Level(self)), 0)
===========================================================================
