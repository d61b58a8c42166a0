------------------------------ MODULE Sockets ------------------------------
(***************************************************************************)
(* A socket link (sockets.c, switch.c).  A switch that sends a packet over *)
(* it makes a connection for that packet alone, on a socket that does not  *)
(* block.  Each switch of the program at the other end has forked a server *)
(* process, which takes one connection at a time, reads from it once, with *)
(* a read that blocks, and writes the bytes to a pipe that its switch      *)
(* reads in turn with its other ports.  All those servers share a TCP port *)
(* (SO_REUSEPORT), but only one switch has a port for the link.            *)
(*                                                                         *)
(* TCP connects the client before the server: the client is connected when *)
(* the server's machine has answered, and may write and close, and connect *)
(* again, before the connection is in the queue of a server.  Connections  *)
(* get there in any order, or not at all.                                  *)
(*                                                                         *)
(* Packet k of client c is <<c, k>>.  Either program may end at any time,  *)
(* and the one of the servers may be started late or again.                *)
(***************************************************************************)
EXTENDS Integers, Sequences

CONSTANTS
  Clients,       \* switches of other programs that send to this one
  Servers,       \* the server processes, one a switch
  Reader,        \* the one whose switch has the port of the link
  Backlog,       \* connections that wait at a server
  Room,          \* packets that fit in the pipe of a server
  FramesPerRead, \* most packets that one read of the switch takes off it
  Remote,        \* the clients that run on another machine than the servers
  MaxPackets,    \* bound on the packets of a client
  MaxStarts,     \* bound on the starts of the servers' program
  None

ASSUME SocketsAssumption ==
  /\ Reader \in Servers
  /\ Backlog \in Nat \ {0} /\ Room \in Nat \ {0} /\ FramesPerRead \in Nat \ {0}
  /\ Remote \subseteq Clients
  /\ MaxPackets \in Nat /\ MaxStarts \in Nat
  /\ None \notin Clients \X Nat

VARIABLES
  client,   \* what client c is at: idle, connecting, connected, or gone
  count,    \* count[c]: packets client c has sent, the one it is at included
  starts,   \* times the program of the servers was started
  up,       \* it runs
  coming,   \* connections that their clients have and no server has yet
  queue,    \* queue[s]: the connections that server s has not accepted
  serving,  \* serving[s]: the one whose packet it waits for
  written,  \* packets that have been written to their connections
  pipe,     \* pipe[s]: what server s has passed on
  accepted, \* (history) the connections that Reader has accepted, in order
  got       \* (history) what the switch at Reader has received, in order

clientVars == <<client, count, written>>
serverVars == <<queue, serving, pipe, accepted>>
vars == <<clientVars, coming, serverVars, starts, up, got>>

Quiet == [s \in Servers |-> <<>>]

Init ==
  /\ client = [c \in Clients |-> "idle"]
  /\ count = [c \in Clients |-> 0]
  /\ starts = 0 /\ up = FALSE
  /\ coming = {}
  /\ queue = Quiet /\ pipe = Quiet
  /\ serving = [s \in Servers |-> None]
  /\ written = {}
  /\ accepted = <<>> /\ got = <<>>

Current(c) == <<c, count[c]>>

-----------------------------------------------------------------------------
\* create_client

\* A server that has room answers.  To the client that is the connection.
Reaches(c, k) ==
  /\ up
  /\ \E s \in Servers : Len(queue[s]) < Backlog
  /\ coming' = coming \cup {<<c, k>>}
  /\ client' = [client EXCEPT ![c] = "connected"]

\* connect() never waits.  On one machine the answer is there when the client
\* writes, or there is none; between machines it is not there yet.
Connect(c) ==
  /\ client[c] = "idle"
  /\ count[c] < MaxPackets
  /\ count' = [count EXCEPT ![c] = @ + 1]
  /\ \/ c \notin Remote /\ Reaches(c, count'[c])
     \/ /\ c \in Remote \/ ~up \/ \E s \in Servers : Len(queue[s]) = Backlog
        /\ client' = [client EXCEPT ![c] = "connecting"]
        /\ UNCHANGED coming
  /\ UNCHANGED <<written, serverVars, starts, up, got>>

\* The answer of the server's machine comes.
Established(c) ==
  /\ c \in Remote
  /\ client[c] = "connecting"
  /\ Reaches(c, count[c])
  /\ UNCHANGED <<count, written, serverVars, starts, up, got>>

\* (mutant) The packet is only sent, and the socket only closed, when connect()
\* has not returned an error; it returns EINPROGRESS.
SendPacketChecked(c) ==
  /\ client[c] \in {"connected", "connecting"}
  /\ client' = [client EXCEPT ![c] = "idle"]
  /\ UNCHANGED <<count, written, coming, serverVars, starts, up, got>>

\* write() fails when there is no connection, and nobody looks; then close().
SendPacket(c) ==
  /\ client[c] \in {"connected", "connecting"}
  /\ client' = [client EXCEPT ![c] = "idle"]
  /\ written' = IF client[c] = "connected"
                THEN written \cup {Current(c)} ELSE written
  /\ UNCHANGED <<count, coming, serverVars, starts, up, got>>

\* The client's program ends, or the name of the server is not found.
Exit(c) ==
  /\ client[c] # "gone"
  /\ client' = [client EXCEPT ![c] = "gone"]
  /\ UNCHANGED <<count, written, coming, serverVars, starts, up, got>>

\* The client's side of connection p, its acknowledgement or what it wrote,
\* comes to the server's machine.
Queue(p, s) ==
  /\ p \in coming
  /\ Len(queue[s]) < Backlog
  /\ coming' = coming \ {p}
  /\ queue' = [queue EXCEPT ![s] = Append(@, p)]
  /\ UNCHANGED <<clientVars, serving, pipe, accepted, starts, up, got>>

\* Nothing of it comes, or only to a server that has no room.
Lose(p) ==
  /\ p \in coming
  /\ coming' = coming \ {p}
  /\ UNCHANGED <<clientVars, serverVars, starts, up, got>>

-----------------------------------------------------------------------------
\* create_server

StartServers ==
  /\ ~up
  /\ starts < MaxStarts
  /\ up' = TRUE
  /\ starts' = starts + 1
  /\ UNCHANGED <<clientVars, coming, serverVars, got>>

\* All that had come to the servers and their switches is gone, and so are the
\* connections they have answered.
KillServers ==
  /\ up
  /\ up' = FALSE
  /\ coming' = {}
  /\ queue' = Quiet /\ pipe' = Quiet
  /\ serving' = [s \in Servers |-> None]
  /\ UNCHANGED <<clientVars, starts, accepted, got>>

Accept(s) ==
  /\ serving[s] = None
  /\ queue[s] # <<>>
  /\ serving' = [serving EXCEPT ![s] = Head(queue[s])]
  /\ queue' = [queue EXCEPT ![s] = Tail(@)]
  /\ accepted' = IF s = Reader THEN Append(accepted, Head(queue[s])) ELSE accepted
  /\ UNCHANGED <<clientVars, coming, pipe, starts, up, got>>

\* The packet of the connection is there: it goes to the pipe, if that is not
\* full.  The connection is closed.
ReadPacket(s) ==
  /\ serving[s] \in written
  /\ pipe' = [pipe EXCEPT ![s] =
                IF Len(@) < Room THEN Append(@, serving[s]) ELSE @]
  /\ serving' = [serving EXCEPT ![s] = None]
  /\ UNCHANGED <<clientVars, coming, queue, accepted, starts, up, got>>

\* The client is gone and has sent nothing, so the read gives no bytes.
ReadEnd(s) ==
  /\ serving[s] # None /\ serving[s] \notin written
  /\ client[serving[s][1]] = "gone"
  /\ serving' = [serving EXCEPT ![s] = None]
  /\ UNCHANGED <<clientVars, coming, queue, pipe, accepted, starts, up, got>>

\* One read of the switch takes n packets off a pipe, of which it has the first.
ReadFrom(s, n) ==
  /\ pipe[s] # <<>>
  /\ got' = Append(got, Head(pipe[s]))
  /\ pipe' = [pipe EXCEPT ![s] = SubSeq(@, n + 1, Len(@))]
  /\ UNCHANGED <<clientVars, coming, queue, serving, accepted, starts, up>>

\* (mutant) The packets of every server are received.
PacketRecvAny == \E s \in Servers, n \in 1..FramesPerRead : ReadFrom(s, n)

\* The switch reads its port of the link.
PacketRecv == \E n \in 1..FramesPerRead : ReadFrom(Reader, n)

ServerStep(s) == Accept(s) \/ ReadPacket(s) \/ ReadEnd(s)

Next ==
  \/ \E c \in Clients : Connect(c) \/ Established(c) \/ SendPacket(c) \/ Exit(c)
  \/ \E p \in Clients \X (1..MaxPackets) : Lose(p) \/ \E s \in Servers : Queue(p, s)
  \/ StartServers \/ KillServers
  \/ \E s \in Servers : ServerStep(s)
  \/ PacketRecv

Spec == Init /\ [][Next]_vars

\* A client in create_client does not stop there, nor do servers and switch.
FairSpec ==
  /\ Spec
  /\ \A c \in Clients : WF_vars(SendPacket(c))
  /\ \A s \in Servers : WF_vars(ServerStep(s))
  /\ WF_vars(PacketRecv)

\* Nothing is sent before the program of the servers runs.
ServersFirst == Init /\ [][Next /\ (up \/ UNCHANGED count)]_vars

-----------------------------------------------------------------------------
\* The server accepted p before q.
Before(p, q) == \E i, j \in DOMAIN accepted :
                  i < j /\ accepted[i] = p /\ accepted[j] = q

\* Connections come to the server in any order, and packets get lost before and
\* behind it, but from there on none overtakes another, comes twice or is one of
\* another server, although the servers and their pipes end and start again
\* (sockets.c:137-152).
PacketsComeInTurn ==
  /\ \A i, j \in DOMAIN accepted : accepted[i] = accepted[j] => i = j
  /\ \A i \in DOMAIN got : \E j \in DOMAIN accepted : got[i] = accepted[j]
  /\ \A i, j \in DOMAIN got : i < j => Before(got[i], got[j])

\* The read of a server blocks, and others wait behind it, but not for ever: a
\* client sends its packet or is gone, so every connection is served in its
\* turn, unless the program of the server ends (sockets.c:137-152).
AcceptedIsServed ==
  \A c \in Clients : \A k \in 1..MaxPackets :
    (\E s \in Servers : \E i \in DOMAIN queue[s] : queue[s][i] = <<c, k>>)
      ~> (~up \/ \E s \in Servers : serving[s] = <<c, k>>)

\* A packet given to create_client while the server runs is sent to it
\* (sockets.c:158).
SentToTheServer ==
  [][\A c \in Clients :
       SendPacket(c) /\ up => Current(c) \in written']_vars
=============================================================================
