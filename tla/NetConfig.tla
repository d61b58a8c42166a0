----------------------------- MODULE NetConfig -----------------------------
(***************************************************************************)
(* How the network comes to be (net.c, main.c).  The parent reads the      *)
(* configuration and makes the lists of nodes and ports, with the pipes of *)
(* the links; then it forks a process for each node, which takes its ports *)
(* out of its own copy of the list, and goes on as the manager.  What the  *)
(* other modules assume of the topology is what comes out here.            *)
(***************************************************************************)
EXTENDS Naturals, Sequences, FiniteSets, SequencesExt

CONSTANTS
  Configs,  \* configurations: nodes in their order, and links in theirs
  Memory,   \* what malloc may return memory with, in place of a node id
  Null      \* no value

\* Ids differ and are numbers, there is a host and a link, and the links join
\* different nodes.
ASSUME ConfigsAssumption ==
  \A c \in Configs :
    /\ c.nodes \in Seq([id : Nat, type : {"HOST", "SWITCH"}])
    /\ \A i, j \in DOMAIN c.nodes : c.nodes[i].id = c.nodes[j].id => i = j
    /\ \E i \in DOMAIN c.nodes : c.nodes[i].type = "HOST"
    /\ c.links \in Seq([type : {"PIPE"}, node0 : Nat, node1 : Nat]
                       \cup [type : {"SOCKET"}])
    /\ c.links # <<>>
    /\ \A l \in DOMAIN c.links :
         c.links[l].type = "PIPE" => c.links[l].node0 # c.links[l].node1

ASSUME NullAssumption == Null \notin Nat

VARIABLES
  config,    \* g_net_node and g_net_link
  nodeList,  \* g_node_list
  portList,  \* g_port_list
  sendTo,    \* the socket link whose address and port g_net_data has
  manList,   \* g_man_man_port_list: the hosts
  forked,    \* nodes whose processes run
  ports      \* ports[n]: node_port of node n, once it has it

netVars == <<config, nodeList, portList, sendTo, manList, forked, ports>>

NodeIds  == {config.nodes[i].id : i \in DOMAIN config.nodes}
Links    == config.links
IsSocket(l) == Links[l].type = "SOCKET"

\* What a loop makes that puts each item at the front of a list.
Pushed(seq) == Reverse(seq)

\* The members of a finite set of numbers in their order, and the items that a
\* list has at those places.
Sorted(S) ==
  CHOOSE f \in [1..Cardinality(S) -> S] :
    \A i, j \in DOMAIN f : i < j => f[i] < f[j]

At(list, S) == [k \in 1..Cardinality(S) |-> list[Sorted(S)[k]]]

\* The last node of a type in the file, and the last socket link: g_net_data
\* has one of each.
LastOf(seq, type) ==
  LET those == {i \in DOMAIN seq : seq[i].type = type}
  IN  IF those = {} THEN Null ELSE CHOOSE i \in those : \A j \in those : j <= i

SwitchHostId == config.nodes[LastOf(config.nodes, "SWITCH")].id

\* load_net_data_file, then create_node_list.
NetInit ==
  /\ config \in Configs
  /\ nodeList = Pushed(config.nodes)
  /\ sendTo = LastOf(Links, "SOCKET")
  /\ portList = <<>> /\ manList = <<>>
  /\ forked = {}
  /\ ports = [n \in NodeIds |-> Null]

\* The links are taken in their order, and l is the next one.
NextLink(l) == l = IF portList = <<>> THEN 1 ELSE portList[1].link + 1

\* One end of a pipe link: what it sends goes into one pipe, and what it
\* receives comes out of another.
PipePort(l, n, out, in) ==
  [link |-> l, type |-> "PIPE", pipe_host_id |-> n, sock_host_id |-> Null,
   send |-> <<l, out>>, recv |-> <<l, in>>]

\* (mutant) Both ports are for the first node.
CreatePipePortsOneNode(l) ==
  /\ NextLink(l) /\ l \in DOMAIN Links /\ ~IsSocket(l)
  /\ portList' = <<PipePort(l, Links[l].node0, "01", "10"),
                   PipePort(l, Links[l].node0, "10", "01")>> \o portList
  /\ UNCHANGED <<config, nodeList, sendTo, manList, forked, ports>>

\* (mutant) Both ends write to the same pipe.
CreatePipePortsCrossed(l) ==
  /\ NextLink(l) /\ l \in DOMAIN Links /\ ~IsSocket(l)
  /\ portList' = <<PipePort(l, Links[l].node0, "01", "10"),
                   PipePort(l, Links[l].node1, "01", "10")>> \o portList
  /\ UNCHANGED <<config, nodeList, sendTo, manList, forked, ports>>

CreatePipePorts(l) ==
  /\ NextLink(l) /\ l \in DOMAIN Links /\ ~IsSocket(l)
  /\ portList' = <<PipePort(l, Links[l].node0, "01", "10"),
                   PipePort(l, Links[l].node1, "10", "01")>> \o portList
  /\ UNCHANGED <<config, nodeList, sendTo, manList, forked, ports>>

\* The pipe_host_id of the one port of a socket link is not set.
CreateSocketPort(l) ==
  /\ NextLink(l) /\ l \in DOMAIN Links /\ IsSocket(l)
  /\ \E m \in Memory :
       portList' = <<[link |-> l, type |-> "SOCKET", pipe_host_id |-> m,
                      sock_host_id |-> SwitchHostId,
                      send |-> Null, recv |-> Null]>> \o portList
  /\ UNCHANGED <<config, nodeList, sendTo, manList, forked, ports>>

HostNodes(list) == At(list, {i \in DOMAIN list : list[i].type = "HOST"})

\* (mutant) The ports are added at the end.
CreateManPortsAppend ==
  /\ NextLink(Len(Links) + 1)
  /\ manList = <<>>
  /\ manList' = [i \in DOMAIN HostNodes(nodeList) |-> HostNodes(nodeList)[i].id]
  /\ UNCHANGED <<config, nodeList, portList, sendTo, forked, ports>>

CreateManPorts ==
  /\ NextLink(Len(Links) + 1)
  /\ manList = <<>>
  /\ manList' = Pushed([i \in DOMAIN HostNodes(nodeList) |->
                          HostNodes(nodeList)[i].id])
  /\ UNCHANGED <<config, nodeList, portList, sendTo, forked, ports>>

\* main() goes through the list of nodes.
Fork ==
  /\ manList # <<>>
  /\ Cardinality(forked) < Len(nodeList)
  /\ forked' = forked \cup {nodeList[Cardinality(forked) + 1].id}
  /\ UNCHANGED <<config, nodeList, portList, sendTo, manList, ports>>

\* The places of the ports whose pipe_host_id or sock_host_id is n.
PortsOf(n) ==
  {i \in DOMAIN portList :
     n \in {portList[i].pipe_host_id, portList[i].sock_host_id}}

\* (mutant) The ports are taken in the order in which the list has them.
NetGetPortListAsIs(n) == At(portList, PortsOf(n))

NetGetPortList(n) == Pushed(At(portList, PortsOf(n)))

NodeMain(n) ==
  /\ n \in forked
  /\ ports[n] = Null
  /\ ports' = [ports EXCEPT ![n] = NetGetPortList(n)]
  /\ UNCHANGED <<config, nodeList, portList, sendTo, manList, forked>>

NetNext ==
  \/ \E l \in DOMAIN Links : CreatePipePorts(l) \/ CreateSocketPort(l)
  \/ CreateManPorts
  \/ Fork
  \/ \E n \in NodeIds : NodeMain(n)

NetSpec == NetInit /\ [][NetNext]_netVars

-----------------------------------------------------------------------------
Ends(l) == {Links[l].node0, Links[l].node1}

\* The links the configuration gives to node n.
LinksOf(n) ==
  Sorted({l \in DOMAIN Links :
            IF IsSocket(l) THEN n = SwitchHostId ELSE n \in Ends(l)})

\* The port of a socket link that a node takes by chance, because the
\* pipe_host_id that nobody has set is the node's id.
Astray(p, n) == p.type = "SOCKET" /\ p.sock_host_id # n

\* A node has one port for each of its links, in the order of the links in the
\* configuration: the Port of module Pipes (net.c:117-137, 414, 424).  Only
\* ports of socket links can go astray, to a node they do not belong to, and
\* never is one missing where it belongs.
PortsAreTheLinks ==
  \A n \in NodeIds : ports[n] # Null =>
    LET own == At(ports[n], {k \in DOMAIN ports[n] : ~Astray(ports[n][k], n)})
    IN  [k \in DOMAIN own |-> own[k].link] = LinksOf(n)

HasPipe(n, k) ==
  ports[n] # Null /\ k \in DOMAIN ports[n] /\ ports[n][k].type = "PIPE"

\* No pipe has two writers or two readers, and the port that reads what a port
\* writes is that of the other end of the link, which writes what it reads
\* (net.c:399-424).
PipesJoinTheEnds ==
  \A n, m \in NodeIds : \A k, j \in 1..Len(Links) :
    HasPipe(n, k) /\ HasPipe(m, j) /\ <<n, k>> # <<m, j>> =>
      /\ ports[n][k].send # ports[m][j].send
      /\ ports[n][k].link = ports[m][j].link <=>
           /\ ports[n][k].send = ports[m][j].recv
           /\ ports[m][j].send = ports[n][k].recv

\* All links are pipes between nodes of the configuration, one for two nodes.
PlainNetwork ==
  /\ \A l \in DOMAIN Links : ~IsSocket(l) /\ Ends(l) \subseteq NodeIds
  /\ \A l, m \in DOMAIN Links : Ends(l) = Ends(m) => l = m

\* The node that reads what n writes to its port k, and writes what n reads.
FarEnd(n, k) ==
  CHOOSE m \in NodeIds :
    \E j \in DOMAIN ports[m] : /\ ports[m][j].recv = ports[n][k].send
                              /\ ports[m][j].send = ports[n][k].recv

\* Once they all have their ports, the nodes of such a network are in what the
\* other modules take for granted (TopologyAssumption of Pipes, with FarEnd for
\* Port): each port leads to another node, which has one that leads back, and no
\* two ports of a node lead to the same (net.c:394-431, 117-137).
TopologyHolds ==
  PlainNetwork /\ (\A n \in NodeIds : ports[n] # Null) =>
    \A n \in NodeIds : \A k \in DOMAIN ports[n] :
      /\ FarEnd(n, k) \in NodeIds \ {n}
      /\ \E j \in DOMAIN ports[FarEnd(n, k)] : FarEnd(FarEnd(n, k), j) = n
      /\ \A j \in DOMAIN ports[n] : FarEnd(n, j) = FarEnd(n, k) => j = k

\* The manager starts at the host that the configuration names first.  Both
\* lists are made back to front (net.c:361-373, 346).
FirstHostIsCurrent ==
  manList # <<>> => manList[1] = HostNodes(config.nodes)[1].id
=============================================================================
