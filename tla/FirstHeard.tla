---------------------------- MODULE FirstHeard ----------------------------
(***************************************************************************)
(* What a learning switch promises, without a table: a packet goes to the  *)
(* port on which its destination was first heard as a source, and to all   *)
(* ports while it has not been heard.  SwitchTable implements it.          *)
(***************************************************************************)
CONSTANTS
  Src,    \* ids of the nodes that send packets
  Dst,    \* ids packets are sent to
  Ports,
  None    \* no port

VARIABLES
  heard,  \* heard[i]: the port on which node i was first heard
  out     \* the ports to which the last packet went

vars == <<heard, out>>

Init ==
  /\ heard = [i \in Src \cup Dst |-> None]
  /\ out = {}

\* A packet from s to d comes in on port k.
Packet(s, d, k) ==
  /\ out' = IF heard[d] = None THEN Ports ELSE {heard[d]}
  /\ heard' = [heard EXCEPT ![s] = IF @ = None THEN k ELSE @]

Next == \E s \in Src, d \in Dst, k \in Ports : Packet(s, d, k)

Spec == Init /\ [][Next]_vars
=============================================================================
