------------------------- MODULE NetRoutingProofs -------------------------
(***************************************************************************)
(* The routing of RF24Network, for every set of digits in use and every    *)
(* number of levels: the masks and shifts of the code are worked out once, *)
(* as what they do to octal digits, and the rest is about digits.          *)
(***************************************************************************)
EXTENDS NetRouting, FiniteSetTheorems, TLAPS

---------------------------------------------------------------------------
(***************************************************************************)
(* Arithmetic of addresses.                                                *)
(***************************************************************************)
LEMMA Powers ==
  /\ 8 ^ 0 = 1 /\ 8 ^ 1 = 8 /\ 8 ^ 2 = 64 /\ 8 ^ 3 = 512 /\ 8 ^ 4 = 4096
  /\ 8 ^ 5 = 32768 /\ 8 ^ 6 = 262144
OBVIOUS

Addresses == 0 .. 4095

Power(l) == IF l = 0 THEN 1 ELSE IF l = 1 THEN 8 ELSE IF l = 2 THEN 64
            ELSE IF l = 3 THEN 512 ELSE 4096

LEMMA PowerIs ==
  ASSUME NEW l \in 0 .. 4
  PROVE  8 ^ l = Power(l)
<1>1. CASE l = 0
  BY <1>1, Powers DEF Power
<1>2. CASE l = 1
  BY <1>2, Powers DEF Power
<1>3. CASE l = 2
  BY <1>3, Powers DEF Power
<1>4. CASE l = 3
  BY <1>4, Powers DEF Power
<1>5. CASE l = 4
  BY <1>5, Powers DEF Power
<1>. QED
  BY <1>1, <1>2, <1>3, <1>4, <1>5

LEMMA UpTo4 ==
  /\ \A i \in 0 .. 4 : i = 0 \/ i = 1 \/ i = 2 \/ i = 3 \/ i = 4
  /\ \A i \in 1 .. 4 : i = 1 \/ i = 2 \/ i = 3 \/ i = 4
OBVIOUS

\* Four digits, which are those of n, the lowest first
Spells(n, a, b, c, d) ==
  /\ a \in 0 .. 7 /\ b \in 0 .. 7 /\ c \in 0 .. 7 /\ d \in 0 .. 7
  /\ n = a + 8 * b + 64 * c + 512 * d

LEMMA Spelling ==
  ASSUME NEW n \in Addresses
  PROVE  Spells(n, Digit(n, 1), Digit(n, 2), Digit(n, 3), Digit(n, 4))
<1>1. /\ Digit(n, 1) = n % 8 /\ Digit(n, 2) = (n \div 8) % 8
      /\ Digit(n, 3) = (n \div 64) % 8 /\ Digit(n, 4) = (n \div 512) % 8
  <2>1. 1 - 1 = 0 /\ 2 - 1 = 1 /\ 3 - 1 = 2 /\ 4 - 1 = 3
    OBVIOUS
  <2>2. n \div 1 = n
    BY DEF Addresses
  <2>. QED
    BY <2>1, <2>2, Powers DEF Digit
<1>2. /\ n % 8 \in 0 .. 7 /\ (n \div 8) % 8 \in 0 .. 7
      /\ (n \div 64) % 8 \in 0 .. 7 /\ (n \div 512) % 8 \in 0 .. 7
  BY DEF Addresses
<1>3. n = (n % 8) + 8 * ((n \div 8) % 8) + 64 * ((n \div 64) % 8) + 512 * ((n \div 512) % 8)
  BY DEF Addresses
<1>. QED
  BY <1>1, <1>2, <1>3 DEF Spells

LEMMA SpelledDigits ==
  ASSUME NEW n, NEW a, NEW b, NEW c, NEW d, Spells(n, a, b, c, d)
  PROVE  /\ n \in Addresses
         /\ Digit(n, 1) = a /\ Digit(n, 2) = b /\ Digit(n, 3) = c /\ Digit(n, 4) = d
<1>1. n \in Addresses
  BY DEF Spells, Addresses
<1>2. /\ n % 8 = a /\ (n \div 8) % 8 = b
      /\ (n \div 64) % 8 = c /\ (n \div 512) % 8 = d
  BY DEF Spells
<1>3. /\ Digit(n, 1) = n % 8 /\ Digit(n, 2) = (n \div 8) % 8
      /\ Digit(n, 3) = (n \div 64) % 8 /\ Digit(n, 4) = (n \div 512) % 8
  <2>1. 1 - 1 = 0 /\ 2 - 1 = 1 /\ 3 - 1 = 2 /\ 4 - 1 = 3
    OBVIOUS
  <2>2. n \div 1 = n
    BY <1>1 DEF Addresses
  <2>. QED
    BY <2>1, <2>2, Powers DEF Digit
<1>. QED
  BY <1>1, <1>2, <1>3

\* An address is its digits.
LEMMA SameDigits ==
  ASSUME NEW x \in Addresses, NEW y \in Addresses,
         \A i \in 1 .. 4 : Digit(x, i) = Digit(y, i)
  PROVE  x = y
<1>1. /\ Spells(x, Digit(x, 1), Digit(x, 2), Digit(x, 3), Digit(x, 4))
      /\ Spells(y, Digit(y, 1), Digit(y, 2), Digit(y, 3), Digit(y, 4))
  BY Spelling, Zenon
<1>2. /\ Digit(x, 1) = Digit(y, 1) /\ Digit(x, 2) = Digit(y, 2)
      /\ Digit(x, 3) = Digit(y, 3) /\ Digit(x, 4) = Digit(y, 4)
  OBVIOUS
<1>. QED
  BY <1>1, <1>2 DEF Spells

Octals(n) == IF n = 0 THEN 0 ELSE IF n < 8 THEN 1 ELSE IF n < 64 THEN 2
             ELSE IF n < 512 THEN 3 ELSE IF n < 4096 THEN 4 ELSE 5

LEMMA LevelIs ==
  ASSUME NEW n \in Nat, n < 32768
  PROVE  Level(n) = Octals(n)
<1>. DEFINE P(c) == n < 8 ^ c /\ (c = 0 \/ n >= 8 ^ (c - 1))
            l == IF n = 0 THEN 0 ELSE IF n < 8 THEN 1 ELSE IF n < 64 THEN 2
                 ELSE IF n < 512 THEN 3 ELSE IF n < 4096 THEN 4 ELSE 5
<1>1. l \in 0 .. 6
  OBVIOUS
<1>2. /\ P(0) <=> n = 0
      /\ P(1) <=> n < 8 /\ n >= 1
      /\ P(2) <=> n < 64 /\ n >= 8
      /\ P(3) <=> n < 512 /\ n >= 64
      /\ P(4) <=> n < 4096 /\ n >= 512
      /\ P(5) <=> n >= 4096
      /\ ~P(6)
  <2>1. 1 - 1 = 0 /\ 2 - 1 = 1 /\ 3 - 1 = 2 /\ 4 - 1 = 3 /\ 5 - 1 = 4 /\ 6 - 1 = 5
    OBVIOUS
  <2>. QED
    BY <2>1, Powers
<1>. HIDE DEF P, l
<1>3. \A c \in 0 .. 6 : P(c) <=> c = l
  <2>. TAKE c \in 0 .. 6
  <2>1. c = 0 \/ c = 1 \/ c = 2 \/ c = 3 \/ c = 4 \/ c = 5 \/ c = 6
    OBVIOUS
  <2>. QED
    BY <1>2, <2>1 DEF l
<1>4. (CHOOSE c \in 0 .. 6 : P(c)) = l
  BY <1>1, <1>3
<1>. QED
  BY <1>4 DEF Level, P, l, Octals

LEMMA AddressLevel ==
  ASSUME NEW n \in Addresses
  PROVE  Level(n) = Octals(n)
<1>1. n \in Nat /\ n < 32768
  BY DEF Addresses
<1>. QED
  BY <1>1, LevelIs

---------------------------------------------------------------------------
(***************************************************************************)
(* What the nodes of the tree look like, and the operations on them.       *)
(***************************************************************************)
\* The levels of a node and its digits, which end at its level
Formed(n) ==
  /\ n \in Addresses /\ Level(n) \in 0 .. MaxLevel
  /\ \A i \in 1 .. 4 : IF i <= Level(n) THEN Digit(n, i) \in Digits
                                         ELSE Digit(n, i) = 0

LEMMA NodeForm ==
  ASSUME NEW n
  PROVE  n \in Nodes <=> Formed(n)
<1>1. MaxLevel \in 0 .. 4 /\ Digits \subseteq 1 .. 5
  BY DigitsAssumption
<1>4. 8 ^ MaxLevel = Power(MaxLevel)
  BY <1>1, PowerIs, Zenon
<1>2. ASSUME n \in Nodes PROVE Formed(n)
  <2>1. n \in 0 .. 8 ^ MaxLevel - 1 /\ \A i \in 1 .. Level(n) : Digit(n, i) \in Digits
    BY <1>2 DEF Nodes
  <2>2. n \in Addresses
    <3>1. n \in 0 .. Power(MaxLevel) - 1
      BY <1>4, <2>1
    <3>. QED
      BY <1>1, <3>1 DEF Power, Addresses
  <2>3. Level(n) \in 0 .. MaxLevel
    <3>1. n \in 0 .. Power(MaxLevel) - 1
      BY <1>4, <2>1
    <3>2. Level(n) = Octals(n)
      BY <2>2, AddressLevel, Zenon
    <3>. QED
      BY <1>1, <3>1, <3>2 DEF Power, Octals
  <2>4. \A i \in 1 .. 4 : i > Level(n) => Digit(n, i) = 0
    <3>1. Spells(n, Digit(n, 1), Digit(n, 2), Digit(n, 3), Digit(n, 4))
      BY <2>2, Spelling, Zenon
    <3>2. n = 0 => Digit(n, 1) = 0 /\ Digit(n, 2) = 0 /\ Digit(n, 3) = 0 /\ Digit(n, 4) = 0
      BY <3>1 DEF Spells
    <3>3. n < 8 => Digit(n, 2) = 0 /\ Digit(n, 3) = 0 /\ Digit(n, 4) = 0
      BY <3>1 DEF Spells
    <3>4. n < 64 => Digit(n, 3) = 0 /\ Digit(n, 4) = 0
      BY <3>1 DEF Spells
    <3>5. n < 512 => Digit(n, 4) = 0
      BY <3>1 DEF Spells
    <3>6. /\ Level(n) < 1 => n = 0
          /\ Level(n) < 2 => n < 8
          /\ Level(n) < 3 => n < 64
          /\ Level(n) < 4 => n < 512
      <4>1. Level(n) = Octals(n)
        BY <2>2, AddressLevel, Zenon
      <4>. QED
        BY <2>2, <4>1 DEF Octals, Addresses
    <3>. TAKE i \in 1 .. 4
    <3>7. i = 1 \/ i = 2 \/ i = 3 \/ i = 4
      BY UpTo4
    <3>. QED
      BY <2>3, <3>2, <3>3, <3>4, <3>5, <3>6, <3>7
  <2>. QED
    BY <1>1, <2>1, <2>2, <2>3, <2>4 DEF Formed
<1>3. ASSUME Formed(n) PROVE n \in Nodes
  <2>1. /\ Level(n) = 0 => n < 1
        /\ Level(n) <= 1 => n < 8
        /\ Level(n) <= 2 => n < 64
        /\ Level(n) <= 3 => n < 512
    <3>1. n \in Addresses /\ Level(n) = Octals(n)
      BY <1>3, AddressLevel, Zenon DEF Formed
    <3>. QED
      BY <3>1 DEF Octals, Addresses
  <2>2. n \in 0 .. 8 ^ MaxLevel - 1
    <3>1. n \in 0 .. Power(MaxLevel) - 1
      BY <1>1, <1>3, <2>1 DEF Formed, Power, Addresses
    <3>. QED
      BY <1>4, <3>1
  <2>3. \A i \in 1 .. Level(n) : i \in 1 .. 4 /\ i <= Level(n)
    BY <1>1, <1>3 DEF Formed
  <2>. QED
    BY <1>3, <2>2, <2>3 DEF Formed, Nodes
<1>. QED
  BY <1>2, <1>3

\* The first l digits of a node are a node of level l.
Prefixed(m, n, l) ==
  /\ m \in Nodes /\ Level(m) = l
  /\ \A i \in 1 .. 4 : Digit(m, i) = IF i <= l THEN Digit(n, i) ELSE 0

LEMMA Prefix ==
  ASSUME NEW n \in Nodes, NEW l \in 0 .. 4
  PROVE  /\ l <= Level(n) => Prefixed(n % 8 ^ l, n, l)
         /\ l >= Level(n) => n % 8 ^ l = n
<1>1. Formed(n) /\ n \in Addresses
  BY NodeForm DEF Formed
<1>. DEFINE a == Digit(n, 1)
            b == Digit(n, 2)
            c == Digit(n, 3)
            d == Digit(n, 4)
            m == n % 8 ^ l
<1>2. Spells(n, a, b, c, d)
  BY <1>1, Spelling, Zenon
<1>3. MaxLevel \in 0 .. 4 /\ Digits \subseteq 1 .. 5
  BY DigitsAssumption
<1>4. /\ IF 1 <= Level(n) THEN a \in Digits ELSE a = 0
      /\ IF 2 <= Level(n) THEN b \in Digits ELSE b = 0
      /\ IF 3 <= Level(n) THEN c \in Digits ELSE c = 0
      /\ IF 4 <= Level(n) THEN d \in Digits ELSE d = 0
      /\ Level(n) \in 0 .. MaxLevel
  BY <1>1 DEF Formed
<1>. HIDE DEF a, b, c, d
<1>5. m = n % Power(l)
  BY PowerIs, Zenon
<1>. HIDE DEF m
<1>6. Spells(m, IF 1 <= l THEN a ELSE 0, IF 2 <= l THEN b ELSE 0,
                IF 3 <= l THEN c ELSE 0, IF 4 <= l THEN d ELSE 0)
  <2>1. CASE l = 0
    BY <1>2, <1>5, <2>1 DEF Spells, Power
  <2>2. CASE l = 1
    BY <1>2, <1>5, <2>2 DEF Spells, Power
  <2>3. CASE l = 2
    BY <1>2, <1>5, <2>3 DEF Spells, Power
  <2>4. CASE l = 3
    BY <1>2, <1>5, <2>4 DEF Spells, Power
  <2>5. CASE l = 4
    BY <1>2, <1>5, <2>5 DEF Spells, Power
  <2>. QED
    BY <2>1, <2>2, <2>3, <2>4, <2>5
<1>7. /\ m \in Addresses
      /\ Digit(m, 1) = IF 1 <= l THEN a ELSE 0
      /\ Digit(m, 2) = IF 2 <= l THEN b ELSE 0
      /\ Digit(m, 3) = IF 3 <= l THEN c ELSE 0
      /\ Digit(m, 4) = IF 4 <= l THEN d ELSE 0
  BY <1>6, SpelledDigits
<1>8. \A i \in 1 .. 4 : Digit(m, i) = IF i <= l THEN Digit(n, i) ELSE 0
  BY <1>7, UpTo4 DEF a, b, c, d
<1>9. l >= Level(n) => m = n
  <2>. SUFFICES ASSUME l >= Level(n) PROVE m = n
    OBVIOUS
  <2>1. \A i \in 1 .. 4 : Digit(m, i) = Digit(n, i)
    BY <1>1, <1>3, <1>8 DEF Formed
  <2>. QED
    BY <1>1, <1>7, <2>1, SameDigits
<1>10. l <= Level(n) => Prefixed(m, n, l)
  <2>. SUFFICES ASSUME l <= Level(n) PROVE Prefixed(m, n, l)
    OBVIOUS
  <2>1. Level(m) = Octals(m)
    BY <1>7, AddressLevel, Zenon
  <2>2. Level(m) = l
    <3>1. CASE l = 0
      BY <1>6, <2>1, <3>1 DEF Spells, Octals
    <3>2. CASE l = 1
      BY <1>3, <1>4, <1>6, <2>1, <3>2 DEF Spells, Octals
    <3>3. CASE l = 2
      BY <1>3, <1>4, <1>6, <2>1, <3>3 DEF Spells, Octals
    <3>4. CASE l = 3
      BY <1>3, <1>4, <1>6, <2>1, <3>4 DEF Spells, Octals
    <3>5. CASE l = 4
      BY <1>3, <1>4, <1>6, <2>1, <3>5 DEF Spells, Octals
    <3>. QED
      BY <3>1, <3>2, <3>3, <3>4, <3>5
  <2>3. Formed(m)
    BY <1>1, <1>3, <1>7, <1>8, <2>2 DEF Formed
  <2>. QED
    BY <1>8, <2>2, <2>3, NodeForm DEF Prefixed
<1>. QED
  BY <1>9, <1>10 DEF m

\* A node below another has all of its digits.
LEMMA Descends ==
  ASSUME NEW self \in Nodes, NEW node \in Nodes
  PROVE  is_descendant(self, node) <=>
           \A i \in 1 .. 4 : i <= Level(self) => Digit(node, i) = Digit(self, i)
<1>. DEFINE l == Level(self)
            m == node % 8 ^ l
<1>1. Formed(self) /\ Formed(node) /\ l \in 0 .. 4 /\ Digits \subseteq 1 .. 5
  BY NodeForm, DigitsAssumption DEF Formed
<1>2. is_descendant(self, node) <=> m = self
  BY DEF is_descendant
<1>3. /\ l <= Level(node) => Prefixed(m, node, l)
      /\ l >= Level(node) => m = node
  BY <1>1, Prefix
<1>. HIDE DEF m
<1>4. CASE l <= Level(node)
  <2>1. m \in Addresses /\ \A i \in 1 .. 4 : Digit(m, i) = IF i <= l THEN Digit(node, i) ELSE 0
    BY <1>3, <1>4, NodeForm DEF Prefixed, Formed
  <2>2. ASSUME \A i \in 1 .. 4 : i <= l => Digit(node, i) = Digit(self, i)
        PROVE  m = self
    <3>1. \A i \in 1 .. 4 : Digit(m, i) = Digit(self, i)
      BY <1>1, <2>1, <2>2 DEF Formed
    <3>. QED
      BY <1>1, <2>1, <3>1, SameDigits DEF Formed
  <2>. QED
    BY <1>2, <2>1, <2>2
<1>5. CASE l > Level(node)
  <2>1. m # self
    BY <1>1, <1>3, <1>5 DEF Formed
  <2>2. l \in 1 .. 4 /\ Digit(node, l) # Digit(self, l)
    BY <1>1, <1>5 DEF Formed
  <2>. QED
    BY <1>2, <2>1, <2>2
<1>. QED
  BY <1>1, <1>4, <1>5 DEF Formed

LEMMA PowerSmall ==
  ASSUME NEW n \in Addresses, NEW l \in 0 .. 4, n < 8 ^ l
  PROVE  n % 8 ^ l = n
<1>1. 8 ^ l = Power(l)
  BY PowerIs, Zenon
<1>2. n < Power(l)
  BY <1>1
<1>3. n % Power(l) = n
  <2>1. CASE l = 0
    <3>1. Power(l) = 1
      BY <2>1 DEF Power
    <3>2. n < 1
      BY <1>2, <3>1
    <3>3. n \in 0 .. 4095
      BY DEF Addresses
    <3>4. n = 0
      BY <3>2, <3>3
    <3>5. 0 % 1 = 0
      OBVIOUS
    <3>. QED
      BY <3>1, <3>4, <3>5, Zenon
  <2>2. CASE l = 1
    BY <1>2, <2>2 DEF Power, Addresses
  <2>3. CASE l = 2
    BY <1>2, <2>3 DEF Power, Addresses
  <2>4. CASE l = 3
    BY <1>2, <2>4 DEF Power, Addresses
  <2>5. CASE l = 4
    BY <1>2, <2>5 DEF Power, Addresses
  <2>. QED
    BY <2>1, <2>2, <2>3, <2>4, <2>5
<1>. QED
  BY <1>1, <1>3, Zenon

(***************************************************************************)
(* The next hop is one digit more of the destination's way, or one less of *)
(* its own.                                                                *)
(***************************************************************************)
LEMMA NextDown ==
  ASSUME NEW self \in Nodes, NEW dest \in Nodes, self # dest, is_descendant(self, dest)
  PROVE  /\ Level(self) < Level(dest)
         /\ \E m : /\ Prefixed(m, dest, Level(self) + 1)
                   /\ logicalToPhysicalAddress(self, dest) = Hop(m, 5)
<1>. DEFINE l == Level(self)
            m == dest % 8 ^ (l + 1)
<1>1. /\ Formed(self) /\ Formed(dest) /\ l \in 0 .. 4 /\ Level(dest) \in 0 .. 4
      /\ Digits \subseteq 1 .. 5
  BY NodeForm, DigitsAssumption DEF Formed
<1>2. \A i \in 1 .. 4 : i <= l => Digit(dest, i) = Digit(self, i)
  BY Descends
<1>3. l < Level(dest)
  <2>1. l <= Level(dest)
    <3>1. l = 0 \/ (l \in 1 .. 4 /\ Digit(dest, l) # 0)
      BY <1>1, <1>2 DEF Formed
    <3>. QED
      BY <1>1, <3>1 DEF Formed
  <2>2. l # Level(dest)
    <3>. SUFFICES ASSUME l = Level(dest) PROVE FALSE
      OBVIOUS
    <3>1. \A i \in 1 .. 4 : Digit(dest, i) = Digit(self, i)
      BY <1>1, <1>2 DEF Formed
    <3>. QED
      BY <1>1, <3>1, SameDigits DEF Formed
  <2>. QED
    BY <1>1, <2>1, <2>2
<1>4. l + 1 \in 0 .. 4 /\ l + 1 <= Level(dest)
  BY <1>1, <1>3
<1>5. Prefixed(m, dest, l + 1)
  BY <1>4, Prefix
<1>6. is_direct_child(self, dest) => dest = m
  BY <1>1, <1>4, PowerSmall DEF is_direct_child, Formed
<1>7. logicalToPhysicalAddress(self, dest) = Hop(m, 5)
  BY <1>6 DEF logicalToPhysicalAddress, direct_child_route_to
<1>. QED
  BY <1>3, <1>5, <1>7

LEMMA LastDigit ==
  ASSUME NEW n \in Nodes, Level(n) > 0
  PROVE  n \div 8 ^ (Level(n) - 1) = Digit(n, Level(n))
<1>1. Formed(n) /\ n \in Addresses /\ Level(n) \in 1 .. 4
  BY NodeForm, DigitsAssumption DEF Formed
<1>2. Level(n) = Octals(n)
  BY <1>1, AddressLevel, Zenon
<1>3. Level(n) - 1 \in 0 .. 4
  BY <1>1
<1>4. 8 ^ (Level(n) - 1) = Power(Level(n) - 1)
  BY <1>3, PowerIs, Zenon
<1>5. Digit(n, Level(n)) = (n \div Power(Level(n) - 1)) % 8
  BY <1>4 DEF Digit
<1>6. (n \div Power(Level(n) - 1)) % 8 = n \div Power(Level(n) - 1)
  <2>1. CASE Level(n) = 1
    BY <1>1, <1>2, <2>1 DEF Power, Octals, Addresses
  <2>2. CASE Level(n) = 2
    BY <1>1, <1>2, <2>2 DEF Power, Octals, Addresses
  <2>3. CASE Level(n) = 3
    BY <1>1, <1>2, <2>3 DEF Power, Octals, Addresses
  <2>4. CASE Level(n) = 4
    BY <1>1, <1>2, <2>4 DEF Power, Octals, Addresses
  <2>. QED
    BY <1>1, <2>1, <2>2, <2>3, <2>4
<1>. QED
  BY <1>4, <1>5, <1>6

LEMMA NextUp ==
  ASSUME NEW self \in Nodes, NEW dest \in Nodes, ~is_descendant(self, dest)
  PROVE  /\ Level(self) > 0
         /\ Prefixed(parent_node(self), self, Level(self) - 1)
         /\ parent_pipe(self) \in 1 .. 5
         /\ logicalToPhysicalAddress(self, dest) = Hop(parent_node(self), parent_pipe(self))
<1>1. Formed(self) /\ Formed(dest) /\ Level(self) \in 0 .. 4 /\ Digits \subseteq 1 .. 5
  BY NodeForm, DigitsAssumption DEF Formed
<1>2. Level(self) # 0
  BY <1>1, Descends
<1>3. self # 0
  <2>1. 0 \in Addresses
    BY DEF Addresses
  <2>2. Level(0) = 0
    BY <2>1, AddressLevel DEF Octals
  <2>. QED
    BY <1>2, <2>2
<1>4. Level(self) - 1 \in 0 .. 4 /\ Level(self) - 1 <= Level(self)
  BY <1>1, <1>2
<1>5. Prefixed(self % 8 ^ (Level(self) - 1), self, Level(self) - 1)
  BY <1>4, Prefix
<1>6. parent_pipe(self) = Digit(self, Level(self))
  BY <1>1, <1>2, <1>3, LastDigit DEF parent_pipe
<1>7. Digit(self, Level(self)) \in Digits
  BY <1>1, <1>2 DEF Formed
<1>8. logicalToPhysicalAddress(self, dest) = Hop(parent_node(self), parent_pipe(self))
  BY DEF logicalToPhysicalAddress, is_direct_child
<1>9. parent_node(self) = self % 8 ^ (Level(self) - 1)
  BY <1>3 DEF parent_node
<1>10. parent_pipe(self) \in 1 .. 5
  BY <1>1, <1>6, <1>7
<1>11. Level(self) > 0
  BY <1>1, <1>2
<1>. QED
  BY <1>5, <1>8, <1>9, <1>10, <1>11, Zenon

---------------------------------------------------------------------------
(***************************************************************************)
(* Who listens where.                                                      *)
(***************************************************************************)
LEMMA AddressBytes ==
  ASSUME NEW n \in Nodes, NEW p
  PROVE  /\ (p # 0 \/ n = 0) =>
              /\ pipe_address(n, p)[0] = p
              /\ \A b \in 1 .. 4 :
                   pipe_address(n, p)[b] = IF b <= Level(n) THEN Digit(n, b) ELSE Pad
         /\ ~(p # 0 \/ n = 0) =>
              /\ pipe_address(n, p)[0] = Pad
              /\ pipe_address(n, p)[1] = Level(n)
              /\ \A b \in 2 .. 4 : pipe_address(n, p)[b] = Pad
<1>1. Level(n) \in 0 .. 4
  BY NodeForm, DigitsAssumption DEF Formed
<1>2. ASSUME p # 0 \/ n = 0
      PROVE  /\ pipe_address(n, p)[0] = p
             /\ \A b \in 1 .. 4 : pipe_address(n, p)[b] = IF b <= Level(n) THEN Digit(n, b) ELSE Pad
  BY <1>1, <1>2 DEF pipe_address
<1>3. ASSUME ~(p # 0 \/ n = 0)
      PROVE  /\ pipe_address(n, p)[0] = Pad
             /\ pipe_address(n, p)[1] = Level(n)
             /\ \A b \in 2 .. 4 : pipe_address(n, p)[b] = Pad
  BY <1>1, <1>3 DEF pipe_address
<1>. QED
  BY <1>2, <1>3

\* A pipe of its own has one node listening.
LEMMA OneHearer ==
  ASSUME NEW node \in Nodes, NEW pipe \in 1 .. 5
  PROVE  Hearers(pipe_address(node, pipe)) = {node}
<1>1. pipe_address(node, pipe) \in Listening[node]
  BY DEF Listening
<1>2. ASSUME NEW n \in Nodes, NEW p \in 0 .. 5, pipe_address(n, p) = pipe_address(node, pipe)
      PROVE  n = node
  <2>1. /\ pipe_address(node, pipe)[0] = pipe
        /\ \A b \in 1 .. 4 :
             pipe_address(node, pipe)[b] = IF b <= Level(node) THEN Digit(node, b) ELSE Pad
    BY AddressBytes
  <2>2. p # 0 \/ n = 0
    <3>. SUFFICES ASSUME ~(p # 0 \/ n = 0) PROVE FALSE
      OBVIOUS
    <3>1. pipe_address(n, p)[0] = Pad
      BY AddressBytes
    <3>. QED
      BY <1>2, <2>1, <3>1 DEF Pad
  <2>3. \A b \in 1 .. 4 : pipe_address(n, p)[b] = IF b <= Level(n) THEN Digit(n, b) ELSE Pad
    BY <2>2, AddressBytes
  <2>4. \A b \in 1 .. 4 : /\ Digit(n, b) \in 0 .. 7
                          /\ Digit(node, b) \in 0 .. 7
                          /\ b > Level(n) => Digit(n, b) = 0
                          /\ b > Level(node) => Digit(node, b) = 0
    <3>1. Formed(n) /\ Formed(node) /\ Digits \subseteq 1 .. 5
      BY NodeForm, DigitsAssumption
    <3>2. Level(n) \in 0 .. 4 /\ Level(node) \in 0 .. 4
      BY <3>1, DigitsAssumption DEF Formed
    <3>. TAKE b \in 1 .. 4
    <3>3. /\ IF b <= Level(n) THEN Digit(n, b) \in 1 .. 5 ELSE Digit(n, b) = 0
          /\ IF b <= Level(node) THEN Digit(node, b) \in 1 .. 5 ELSE Digit(node, b) = 0
      BY <3>1 DEF Formed
    <3>. QED
      BY <3>2, <3>3
  <2>5. Level(n) \in 0 .. 4 /\ Level(node) \in 0 .. 4 /\ n \in Addresses /\ node \in Addresses
    BY NodeForm, DigitsAssumption DEF Formed
  <2>6. \A b \in 1 .. 4 : (IF b <= Level(n) THEN Digit(n, b) ELSE Pad)
                          = (IF b <= Level(node) THEN Digit(node, b) ELSE Pad)
    BY <1>2, <2>1, <2>3
  <2>7. \A b \in 1 .. 4 : Digit(n, b) = Digit(node, b)
    BY <2>4, <2>5, <2>6 DEF Pad
  <2>. QED
    BY <2>5, <2>7, SameDigits
<1>. QED
  BY <1>1, <1>2 DEF Hearers, Listening

---------------------------------------------------------------------------
(***************************************************************************)
(* Distances in the tree.                                                  *)
(***************************************************************************)
SameWay(x, y, j) == Digit(x, j) = Digit(y, j) /\ Digit(x, j) # 0

\* The ways to x and to y part after c digits.
Meets(x, y, c) ==
  /\ c \in 0 .. MaxLevel
  /\ \A j \in 1 .. 4 : (j <= c => SameWay(x, y, j)) /\ (j = c + 1 => ~SameWay(x, y, j))

LEMMA CommonIs ==
  ASSUME NEW x, NEW y, NEW c, Meets(x, y, c)
  PROVE  Common(x, y) = c
<1>. DEFINE S == { i \in 1 .. MaxLevel : \A j \in 1 .. i : SameWay(x, y, j) }
<1>1. MaxLevel \in 0 .. 4 /\ c \in 0 .. MaxLevel
  BY DigitsAssumption DEF Meets
<1>2. S = 1 .. c
  <2>1. ASSUME NEW i \in 1 .. MaxLevel, i <= c
        PROVE  \A j \in 1 .. i : SameWay(x, y, j)
    BY <1>1, <2>1 DEF Meets
  <2>2. ASSUME NEW i \in 1 .. MaxLevel, i > c
        PROVE  ~ \A j \in 1 .. i : SameWay(x, y, j)
    <3>1. c + 1 \in 1 .. i /\ c + 1 \in 1 .. 4
      BY <1>1, <2>2
    <3>2. ~SameWay(x, y, c + 1)
      BY <3>1 DEF Meets
    <3>. QED
      BY <3>1, <3>2
  <2>3. 1 .. c = { i \in 1 .. MaxLevel : i <= c }
    BY <1>1
  <2>. QED
    BY <1>1, <2>1, <2>2, <2>3
<1>3. Cardinality(1 .. c) = c
  BY <1>1, FS_Interval
<1>4. Common(x, y) = Cardinality(S)
  BY DEF Common, SameWay
<1>. QED
  BY <1>2, <1>3, <1>4

LEMMA SomeMeet ==
  ASSUME NEW x \in Nodes, NEW y \in Nodes
  PROVE  \E c \in 0 .. MaxLevel : Meets(x, y, c)
<1>1. MaxLevel \in 0 .. 4
  BY DigitsAssumption
<1>2. \A j \in 1 .. 4 : SameWay(x, y, j) => j <= MaxLevel
  <2>1. Formed(x)
    BY NodeForm
  <2>. QED
    BY <1>1, <2>1 DEF SameWay, Formed
<1>. DEFINE W(j) == SameWay(x, y, j)
<1>3. \E c \in 0 .. 4 : \A j \in 1 .. 4 : (j <= c => W(j)) /\ (j = c + 1 => ~W(j))
  <2>. HIDE DEF W
  <2>1. CASE ~W(1)
    <3>1. \A j \in 1 .. 4 : (j <= 0 => W(j)) /\ (j = 0 + 1 => ~W(j))
      BY <2>1
    <3>. QED
      BY <3>1
  <2>2. CASE W(1) /\ ~W(2)
    <3>1. \A j \in 1 .. 4 : (j <= 1 => W(j)) /\ (j = 1 + 1 => ~W(j))
      BY <2>2
    <3>. QED
      BY <3>1
  <2>3. CASE W(1) /\ W(2) /\ ~W(3)
    <3>1. \A j \in 1 .. 4 : (j <= 2 => W(j)) /\ (j = 2 + 1 => ~W(j))
      BY <2>3
    <3>. QED
      BY <3>1
  <2>4. CASE W(1) /\ W(2) /\ W(3) /\ ~W(4)
    <3>1. \A j \in 1 .. 4 : (j <= 3 => W(j)) /\ (j = 3 + 1 => ~W(j))
      BY <2>4
    <3>. QED
      BY <3>1
  <2>5. CASE W(1) /\ W(2) /\ W(3) /\ W(4)
    <3>1. \A j \in 1 .. 4 : (j <= 4 => W(j)) /\ (j = 4 + 1 => ~W(j))
      BY <2>5
    <3>. QED
      BY <3>1
  <2>. QED
    BY <2>1, <2>2, <2>3, <2>4, <2>5
<1>4. PICK c \in 0 .. 4 : \A j \in 1 .. 4 : (j <= c => W(j)) /\ (j = c + 1 => ~W(j))
  BY <1>3
<1>5. c <= MaxLevel
  <2>1. c = 0 \/ W(c)
    BY <1>4
  <2>. QED
    BY <1>1, <1>2, <2>1
<1>. QED
  BY <1>1, <1>4, <1>5 DEF Meets

\* The distance of two nodes of the tree, by the digit where their ways part
LEMMA DistanceIs ==
  ASSUME NEW x \in Nodes, NEW y \in Nodes, NEW c, Meets(x, y, c)
  PROVE  Distance(x, y) = Level(x) + Level(y) - 2 * c
BY CommonIs DEF Distance

(***************************************************************************)
(* Every hop goes to a node of the tree, on one of its pipes, and is one   *)
(* step nearer.                                                            *)
(***************************************************************************)
LEMMA OneNearer ==
  ASSUME NEW self \in Nodes, NEW dest \in Nodes, self # dest
  PROVE  \E next \in Nodes, pipe \in 1 .. 5 :
           /\ logicalToPhysicalAddress(self, dest) = Hop(next, pipe)
           /\ Distance(next, dest) = Distance(self, dest) - 1
<1>1. /\ Formed(self) /\ Formed(dest) /\ Level(self) \in 0 .. 4 /\ Level(dest) \in 0 .. 4
      /\ Digits \subseteq 1 .. 5 /\ MaxLevel \in 0 .. 4
      /\ Level(self) <= MaxLevel /\ Level(dest) <= MaxLevel
  BY NodeForm, DigitsAssumption DEF Formed
<1>2. CASE is_descendant(self, dest)
  <2>1. PICK m : /\ Prefixed(m, dest, Level(self) + 1)
                 /\ logicalToPhysicalAddress(self, dest) = Hop(m, 5)
    BY <1>2, NextDown
  <2>2. Level(self) < Level(dest)
    BY <1>2, NextDown
  <2>3. m \in Nodes /\ Level(m) = Level(self) + 1
    BY <2>1 DEF Prefixed
  <2>4. \A i \in 1 .. 4 : i <= Level(self) => Digit(dest, i) = Digit(self, i)
    BY <1>2, Descends
  <2>5. Meets(self, dest, Level(self))
    BY <1>1, <2>4 DEF Meets, SameWay, Formed
  <2>6. Meets(m, dest, Level(self) + 1)
    <3>1. \A i \in 1 .. 4 : Digit(m, i) = IF i <= Level(self) + 1 THEN Digit(dest, i) ELSE 0
      BY <2>1 DEF Prefixed
    <3>2. Level(self) + 1 \in 0 .. MaxLevel
      BY <1>1, <2>2
    <3>. QED
      BY <1>1, <2>2, <3>1, <3>2 DEF Meets, SameWay, Formed
  <2>7. Distance(m, dest) = Distance(self, dest) - 1
    <3>1. Distance(m, dest) = Level(m) + Level(dest) - 2 * (Level(self) + 1)
      BY <2>3, <2>6, DistanceIs
    <3>2. Distance(self, dest) = Level(self) + Level(dest) - 2 * Level(self)
      BY <2>5, DistanceIs
    <3>. QED
      BY <1>1, <2>3, <3>1, <3>2
  <2>. QED
    BY <2>1, <2>3, <2>7
<1>3. CASE ~is_descendant(self, dest)
  <2>. DEFINE next == parent_node(self)
              pipe == parent_pipe(self)
  <2>1. /\ Level(self) > 0 /\ Prefixed(next, self, Level(self) - 1)
        /\ pipe \in 1 .. 5 /\ logicalToPhysicalAddress(self, dest) = Hop(next, pipe)
    BY <1>3, NextUp
  <2>. HIDE DEF next, pipe
  <2>2. next \in Nodes /\ Level(next) = Level(self) - 1
    BY <2>1 DEF Prefixed
  <2>3. PICK c \in 0 .. MaxLevel : Meets(self, dest, c)
    BY SomeMeet
  <2>4. c < Level(self)
    <3>. SUFFICES ASSUME c >= Level(self) PROVE FALSE
      BY <1>1
    <3>1. \A i \in 1 .. 4 : i <= Level(self) => Digit(dest, i) = Digit(self, i)
      BY <1>1, <2>3 DEF Meets, SameWay
    <3>. QED
      BY <1>3, <3>1, Descends
  <2>5. Meets(next, dest, c)
    <3>1. \A i \in 1 .. 4 : Digit(next, i) = IF i <= Level(self) - 1 THEN Digit(self, i) ELSE 0
      BY <2>1 DEF Prefixed
    <3>. QED
      BY <1>1, <2>3, <2>4, <3>1 DEF Meets, SameWay
  <2>6. Distance(next, dest) = Distance(self, dest) - 1
    <3>1. Distance(next, dest) = Level(next) + Level(dest) - 2 * c
      BY <2>2, <2>5, DistanceIs
    <3>2. Distance(self, dest) = Level(self) + Level(dest) - 2 * c
      BY <2>3, DistanceIs
    <3>. QED
      BY <1>1, <2>2, <3>1, <3>2
  <2>. QED
    BY <2>1, <2>2, <2>6
<1>. QED
  BY <1>2, <1>3

---------------------------------------------------------------------------
(***************************************************************************)
(* The invariant: what a frame has gone and what it has to go add up.      *)
(***************************************************************************)
RouteInv ==
  /\ from \in Nodes /\ to \in Nodes /\ at \in Nodes
  /\ hops \in Nat
  /\ hops + Distance(at, to) = Distance(from, to)

LEMMA DistanceType ==
  ASSUME NEW x \in Nodes, NEW y \in Nodes
  PROVE  Distance(x, y) \in Int
<1>1. PICK c \in 0 .. MaxLevel : Meets(x, y, c)
  BY SomeMeet
<1>2. Distance(x, y) = Level(x) + Level(y) - 2 * c
  BY <1>1, DistanceIs
<1>3. Level(x) \in Int /\ Level(y) \in Int /\ c \in Int
  BY NodeForm, DigitsAssumption DEF Formed
<1>. QED
  BY <1>2, <1>3

\* The hop a frame takes has one hearer.
LEMMA HeardOnce ==
  ASSUME NEW self \in Nodes, NEW dest \in Nodes, self # dest
  PROVE  \E next \in Nodes :
           /\ LET hop == logicalToPhysicalAddress(self, dest)
              IN Hearers(pipe_address(hop.node, hop.pipe)) = {next}
           /\ Distance(next, dest) = Distance(self, dest) - 1
<1>1. PICK next \in Nodes, pipe \in 1 .. 5 :
        /\ logicalToPhysicalAddress(self, dest) = Hop(next, pipe)
        /\ Distance(next, dest) = Distance(self, dest) - 1
  BY OneNearer
<1>2. Hop(next, pipe).node = next /\ Hop(next, pipe).pipe = pipe
  BY DEF Hop
<1>3. Hearers(pipe_address(next, pipe)) = {next}
  BY OneHearer
<1>. QED
  BY <1>1, <1>2, <1>3

LEMMA RouteInductive == Spec => []RouteInv
<1>1. Init => RouteInv
  <2>. SUFFICES ASSUME Init PROVE RouteInv
    OBVIOUS
  <2>1. Distance(from, to) \in Int
    BY DistanceType DEF Init
  <2>. QED
    BY <2>1 DEF Init, RouteInv
<1>2. RouteInv /\ [Forward]_vars => RouteInv'
  <2>. SUFFICES ASSUME RouteInv, [Forward]_vars PROVE RouteInv'
    OBVIOUS
  <2>1. CASE Forward
    <3>1. at \in Nodes /\ to \in Nodes /\ from \in Nodes /\ at # to
      BY <2>1 DEF Forward, RouteInv
    <3>2. PICK next \in Nodes :
            /\ LET hop == logicalToPhysicalAddress(at, to)
               IN Hearers(pipe_address(hop.node, hop.pipe)) = {next}
            /\ Distance(next, to) = Distance(at, to) - 1
      BY <3>1, HeardOnce
    <3>3. at' = next /\ hops' = hops + 1 /\ from' = from /\ to' = to
      BY <2>1, <3>2 DEF Forward
    <3>4. Distance(at, to) \in Int /\ Distance(from, to) \in Int
      BY <3>1, DistanceType
    <3>5. hops + 1 + (Distance(at, to) - 1) = Distance(from, to)
      BY <3>4 DEF RouteInv
    <3>6. hops' + Distance(next, to) = Distance(from, to)
      BY <3>2, <3>3, <3>5
    <3>7. (Distance(at, to) = Distance(next, to))' /\ (Distance(from, to))' = Distance(from, to)
      BY <3>3 DEF Distance, Common
    <3>. QED
      BY <3>1, <3>3, <3>6, <3>7 DEF RouteInv
  <2>2. CASE UNCHANGED vars
    BY <2>2 DEF vars, RouteInv, Distance, Common
  <2>. QED
    BY <2>1, <2>2
<1>. QED
  BY <1>1, <1>2, PTL DEF Spec

---------------------------------------------------------------------------
(***************************************************************************)
(* A frame between two nodes of the tree is heard at every hop by one node *)
(* and no other, and is after k hops k steps nearer to its destination     *)
(* (write(), logicalToPhysicalAddress(), pipe_address()), whatever the     *)
(* digits in use and the depth of the tree.                                *)
(***************************************************************************)
THEOREM RoutesAreShortest == Spec => []ShortestWay
<1>1. RouteInv => ShortestWay
  <2>. SUFFICES ASSUME RouteInv PROVE ShortestWay
    OBVIOUS
  <2>1. at # to => LET hop == logicalToPhysicalAddress(at, to)
                   IN Cardinality(Hearers(pipe_address(hop.node, hop.pipe))) = 1
    <3>. SUFFICES ASSUME at # to
                  PROVE  LET hop == logicalToPhysicalAddress(at, to)
                         IN Cardinality(Hearers(pipe_address(hop.node, hop.pipe))) = 1
      OBVIOUS
    <3>1. \E next \in Nodes :
            LET hop == logicalToPhysicalAddress(at, to)
            IN Hearers(pipe_address(hop.node, hop.pipe)) = {next}
      BY HeardOnce DEF RouteInv
    <3>. QED
      BY <3>1, FS_Singleton
  <2>. QED
    BY <2>1 DEF RouteInv, ShortestWay
<1>. QED
  BY <1>1, RouteInductive, PTL

(***************************************************************************)
(* What a node below the master relays is heard by every node of the next  *)
(* level and by no other (update() with multicastRelay, levelToAddress()). *)
(***************************************************************************)
THEOREM RelaysGoDown == Spec => []RelayedDown
<1>1. ASSUME NEW self \in Nodes, self # 0
      PROVE  Hearers(RelayAddress(self)) = { n \in Nodes : Level(n) = Level(self) + 1 }
  <2>. DEFINE l == Level(self)
  <2>1. l \in 1 .. 4
    <3>1. Formed(self) /\ l \in 0 .. 4 /\ self \in Addresses
      BY NodeForm, DigitsAssumption DEF Formed
    <3>2. l = Octals(self)
      BY <3>1, AddressLevel, Zenon
    <3>. QED
      BY <1>1, <3>1, <3>2 DEF Octals, Addresses
  <2>. HIDE DEF l
  <2>2. 8 * levelToAddress(l) = Power(l)
    <3>1. l - 1 \in 0 .. 4
      BY <2>1
    <3>2. 8 ^ (l - 1) = Power(l - 1)
      BY <3>1, PowerIs, Zenon
    <3>3. 8 * Power(l - 1) = Power(l)
      BY <2>1 DEF Power
    <3>. QED
      BY <2>1, <3>2, <3>3 DEF levelToAddress
  <2>3. Power(l) # 0 /\ Level(Power(l)) = l + 1
    <3>1. Power(l) \in Nat /\ Power(l) < 32768 /\ Power(l) # 0 /\ Octals(Power(l)) = l + 1
      BY <2>1 DEF Power, Octals
    <3>. QED
      BY <3>1, LevelIs
  <2>4. RelayAddress(self) = [b \in 0 .. 4 |-> IF b = 1 THEN l + 1 ELSE Pad]
    BY <2>2, <2>3 DEF RelayAddress, pipe_address, l
  <2>5. ASSUME NEW n \in Nodes, Level(n) = l + 1
        PROVE  RelayAddress(self) \in Listening[n]
    <3>1. n # 0
      <4>1. 0 \in Addresses
        BY DEF Addresses
      <4>2. Level(0) = 0
        BY <4>1, AddressLevel DEF Octals
      <4>. QED
        BY <2>1, <2>5, <4>2
    <3>2. pipe_address(n, 0) = RelayAddress(self)
      BY <2>4, <2>5, <3>1 DEF pipe_address
    <3>. QED
      BY <3>2 DEF Listening
  <2>6. ASSUME NEW n \in Nodes, RelayAddress(self) \in Listening[n]
        PROVE  Level(n) = l + 1
    <3>1. PICK p \in 0 .. 5 : pipe_address(n, p) = RelayAddress(self)
      BY <2>6 DEF Listening
    <3>2. pipe_address(n, p)[0] = Pad /\ pipe_address(n, p)[1] = l + 1
      BY <2>4, <3>1
    <3>3. ~(p # 0 \/ n = 0)
      <4>1. p # Pad
        BY DEF Pad
      <4>. QED
        BY <3>2, <4>1, AddressBytes
    <3>. QED
      BY <3>2, <3>3, AddressBytes
  <2>. QED
    BY <2>5, <2>6 DEF Hearers, l
<1>2. RouteInv => RelayedDown
  BY <1>1 DEF RouteInv, RelayedDown
<1>. QED
  BY <1>2, RouteInductive, PTL
===========================================================================
