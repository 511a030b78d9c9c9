--------------------------- MODULE MCUipStreams ---------------------------
(***************************************************************************)
(* Two connections and slots of three packets, a pool that holds five, and *)
(* three clients one after the other or at once, which may send for ever:  *)
(* states are told apart by how far a line is ahead of what the sketch has *)
(* read, so that Lines is beyond what the run comes to.  Of a client the   *)
(* library has failed the numbers of the lines do not matter.              *)
(***************************************************************************)
EXTENDS UipStreams

CONSTANTS A, B, C

MCClients == {A, B, C}

Ahead(k, n) == IF k \in spoiled THEN 1 ELSE n - Len(taken[k])

StreamView ==
  <<conn, spoiled,
    [d \in Index |-> <<slot[d].st, slot[d].restart,
       [i \in DOMAIN slot[d].packets |->
          LET p == slot[d].packets[i] IN <<p.peer, Ahead(p.peer, p.n)>>]>>],
    [k \in Clients |-> IF rcv[k] = 0 THEN 0 ELSE Ahead(k, rcv[k])]>>
===========================================================================
