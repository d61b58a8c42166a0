------------------------------ MODULE TreeNet ------------------------------
(***************************************************************************)
(* A network whose switches form a tree, which is what a learning switch   *)
(* without a spanning tree is made for.  A switch with no entry for a      *)
(* destination sends the packet back where it came from as well, so        *)
(* between two switches packets echo, and a switch hears the packets of a  *)
(* host on ports that do not lead to it.                                   *)
(***************************************************************************)
EXTENDS Net367

CONSTANT Route  \* Route[s][h]: the port of switch s on the way to host h

\* The node that is next on the way from switch s to host h.
Toward(s, h) == Port[s][Route[s][h]]

\* A host next to a switch is reached directly, and of two switches next to
\* each other one is on the way of the other: for a host next to a switch,
\* there is no such Route if there is a cycle.
ASSUME TreeAssumption ==
  /\ \A s \in Switches : \A h \in Hosts :
       /\ Route[s][h] \in 1..Len(Port[s])
       /\ h \in Neighbours(s) => Toward(s, h) = h
  /\ \A s, t \in Switches : \A h \in Hosts :
       t \in Neighbours(s) => Toward(s, h) = t \/ Toward(t, h) = s

\* The table of a switch has nothing, or the port that leads to the host
\* (switch_util.c:92).  Were an entry overwritten by a later packet of the
\* same host, an echo would turn it the wrong way.
LearnedPortsLead ==
  \A s \in Switches : \A h \in Hosts : fwd[s][h] \in {0, Route[s][h]}

\* The hosts whose packets are among those of q.
Sources(q) == {q[i].src : i \in DOMAIN q}

\* Why: a switch that has learned a host, or that has sent a packet of it, has
\* every switch on its way to that host know it too.  So the first packet of a
\* host that a switch sees comes from where the host is, and an echo is later.
LearnedOnTheWay ==
  \A s \in Switches : \A h \in Hosts :
    fwd[s][h] # 0 /\ Toward(s, h) \in Switches => fwd[Toward(s, h)][h] # 0

SendersHaveLearned ==
  \A w \in Wires : \A h \in Sources(link[w]) :
    w[1] \in Switches => fwd[w[1]][h] # 0

EchoesComeLater ==
  \A w \in Wires : \A h \in Sources(link[w]) :
    w[2] \in Switches /\ Toward(w[2], h) # w[1] => fwd[w[2]][h] # 0

\* The three together: where a packet of a host has been, every switch between
\* there and the host knows the host, however the packets are flooded, echoed
\* and overtaken (switch.c:128-138).
WayBackIsKnown == LearnedOnTheWay /\ SendersHaveLearned /\ EchoesComeLater

\* Two switches send each other's floods back (switch.c:138).  While nobody
\* pings a host that does not exist, the storm dies down: the answer teaches
\* the switches where the host is.
EchoesDie == [](target \in Hosts \cup {None}) => TrafficDrains
=============================================================================
