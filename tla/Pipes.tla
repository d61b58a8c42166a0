------------------------------- MODULE Pipes -------------------------------
(***************************************************************************)
(* The processes of net367 share no memory once main() has forked them.    *)
(* All they share are the pipes net_init() made before the fork: for every *)
(* link of the configuration one pipe in each direction between the two    *)
(* nodes, and for every host a command pipe from the manager and a reply   *)
(* pipe back.  Every end is O_NONBLOCK.  This module has the topology, the *)
(* packets, and what write() and read() do to a pipe.                      *)
(***************************************************************************)
EXTENDS Naturals, Sequences

CONSTANTS
  Hosts,         \* ids of the HOST nodes of the configuration
  Switches,      \* ids of its SWITCH nodes
  Ids,           \* ids a user may type: those of the hosts, and others
  Port,          \* Port[n][k]: the node at the far end of port k of node n
  Names,         \* file names
  Chunks,        \* pieces of a file of at most PKT_PAYLOAD_MAX bytes
  FullChunks,    \* those of just so many, which all of a file but its last are
  Dirs,          \* directories that exist beside the program's own
  Room,          \* packets that fit in a pipe
  FramesPerRead, \* packets one read() of PAYLOAD_MAX + 4 bytes takes in
  None,          \* no value
  Garbled        \* text in which two commands run into each other

Nodes == Hosts \cup Switches

Neighbours(n) == {Port[n][k] : k \in DOMAIN Port[n]}

\* One pipe for each direction of each link.
Wires == {w \in Nodes \X Nodes : w[2] \in Neighbours(w[1])}

\* Node ids are distinct, and a link gives one port to each of its two ends.
\* A switch has a link, and no node has two links to the same neighbour.
ASSUME TopologyAssumption ==
  /\ Hosts \cap Switches = {}
  /\ Hosts \subseteq Ids
  /\ Switches \cap Ids = {}
  /\ \A n \in Nodes : Port[n] \in Seq(Nodes)
  /\ \A s \in Switches : Port[s] # <<>>
  /\ \A n \in Nodes : \A k \in 1..Len(Port[n]) :
       /\ Port[n][k] # n
       /\ n \in Neighbours(Port[n][k])
       /\ \A j \in 1..Len(Port[n]) : Port[n][j] = Port[n][k] => j = k

ASSUME SizeAssumption ==
  /\ Room \in Nat \ {0}
  /\ FullChunks \subseteq Chunks
  /\ FramesPerRead \in Nat \ {0}

ASSUME SentinelAssumption ==
  /\ None \notin Ids /\ None \notin Names /\ None \notin Dirs
  /\ Garbled \notin Names /\ Garbled \notin Dirs
  /\ None # Garbled

PacketOf(T, B) == [src : Hosts, dst : Ids, type : T, body : B]

\* Pings and the end of an upload carry nothing, the start of one carries the
\* file name, and the packets in between a piece of the file each.
Packet == PacketOf({"PING_REQ", "PING_REPLY", "FILE_UPLOAD_END"}, {None})
          \cup PacketOf({"FILE_UPLOAD_START"}, Names)
          \cup PacketOf({"FILE_UPLOAD_CONT"}, Chunks)

NewPacket(s, d, t, b) == [src |-> s, dst |-> d, type |-> t, body |-> b]

VARIABLES
  link,      \* link[<<a, b>>]: the packets in the pipe from node a to node b
  cmdPipe,   \* cmdPipe[h]: the commands in the pipe from the manager to h
  replyPipe  \* replyPipe[h]: the answers in the pipe from h to the manager

pipeVars == <<link, cmdPipe, replyPipe>>

\* write() on a full pipe fails with EAGAIN.  packet_send ignores the result,
\* so the packet is lost.
Write(pipe, p) == IF Len(pipe) < Room THEN Append(pipe, p) ELSE pipe

\* packet_recv reads PAYLOAD_MAX + 4 bytes and unpacks one packet from their
\* start: whatever else those bytes held is gone.  A packet with a full chunk
\* is just as long as they are.
Taken(pipe) ==
  IF Head(pipe).type = "FILE_UPLOAD_CONT" /\ Head(pipe).body \in FullChunks
  THEN 1 ELSE FramesPerRead

Unread(pipe) == SubSeq(pipe, Taken(pipe) + 1, Len(pipe))

\* The pipes after p is written to those of ws.
PutOn(ws, pipes, p) ==
  [w \in Wires |-> IF w \in ws THEN Write(pipes[w], p) ELSE pipes[w]]

\* The pipes after a read from w.
TakeFrom(w, pipes) == [pipes EXCEPT ![w] = Unread(@)]

\* Every port of node n.
AllPorts(n) == {<<n, m>> : m \in Neighbours(n)}

PipeInit ==
  /\ link      = [w \in Wires |-> <<>>]
  /\ cmdPipe   = [h \in Hosts |-> <<>>]
  /\ replyPipe = [h \in Hosts |-> <<>>]
============================================================================
