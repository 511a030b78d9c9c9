--------------------------- MODULE HomePromise ----------------------------
(***************************************************************************)
(* What the home promises its users, without boards, lines or radio: the   *)
(* server's table follows the values its devices report, it may lag and it *)
(* may be forgotten but it never goes back or shows what nobody reported;  *)
(* and the commands given are obeyed in their order, each once or never,   *)
(* with a report of what became of it.  HomeNet implements it.             *)
(***************************************************************************)
EXTENDS Naturals

CONSTANTS
  Devices,
  Commanded   \* the device that obeys commands

VARIABLES
  made,     \* made[d]: the reports device d has made
  rows,     \* rows[d]: the number of its report in the table, 0 for none
  given,    \* the commands given
  obeyed    \* the number of the command obeyed last

Init ==
  /\ made = [d \in Devices |-> 0]
  /\ rows = [d \in Devices |-> 0]
  /\ given = 0
  /\ obeyed = 0

Make(d) ==
  /\ made' = [made EXCEPT ![d] = @ + 1]
  /\ UNCHANGED <<rows, given, obeyed>>

Learn(d) ==
  /\ \E n \in 1 .. made[d] : rows[d] < n /\ rows' = [rows EXCEPT ![d] = n]
  /\ UNCHANGED <<made, given, obeyed>>

Forget ==
  /\ rows' = [d \in Devices |-> 0]
  /\ UNCHANGED <<made, given, obeyed>>

Give ==
  /\ given' = given + 1
  /\ UNCHANGED <<made, rows, obeyed>>

Obey ==
  /\ obeyed' \in 1 .. given
  /\ obeyed < obeyed'
  /\ made' = [made EXCEPT ![Commanded] = @ + 1]
  /\ UNCHANGED <<rows, given>>

Next ==
  \/ \E d \in Devices : Make(d) \/ Learn(d)
  \/ Forget
  \/ Give
  \/ Obey

Spec == Init /\ [][Next]_<<made, rows, given, obeyed>>
===========================================================================
