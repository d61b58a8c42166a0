---------------------------- MODULE MCNetConfig ----------------------------
(***************************************************************************)
(* All configurations of two hosts and a switch, in any order, with three  *)
(* pipe links at most between different nodes; and such with socket links. *)
(***************************************************************************)
EXTENDS NetConfig

Node(id) == [id |-> id, type |-> IF id = 2 THEN "SWITCH" ELSE "HOST"]

Orders == {o \in [1..3 -> 0..2] : IsInjective(o)}

PipeLinks == {[type |-> "PIPE", node0 |-> a, node1 |-> b] :
                <<a, b>> \in {e \in (0..2) \X (0..2) : e[1] # e[2]}}

SocketLink == [type |-> "SOCKET"]

With(linkLists) == {[nodes |-> [i \in 1..3 |-> Node(o[i])], links |-> ls] :
                      o \in Orders, ls \in linkLists}

PipeConfigs == With(UNION {[1..n -> PipeLinks] : n \in 1..3})

\* A pipe link and a socket link, as in configurations 1 to 3.
SocketConfigs == With({<<p, SocketLink>> : p \in PipeLinks})

TwoSocketConfigs == With({<<SocketLink, SocketLink>>})

AllConfigs == PipeConfigs \cup SocketConfigs \cup TwoSocketConfigs

\* What may be in the memory of a new port.
Anything == 0..2 \cup {Null}
=============================================================================
