-------------------------------- MODULE Link --------------------------------
(***************************************************************************)
(* One direction of a pipe link, byte by byte (packet.c).  A pipe is a     *)
(* stream of bytes without marks: packet_send writes the header and the    *)
(* payload of a packet in one write(), and packet_recv takes what there    *)
(* is, MaxRead bytes at most, and unpacks one packet from the start of     *)
(* them.  What it takes behind that packet is gone, and a read that starts *)
(* inside a packet unpacks garbage.                                        *)
(*                                                                         *)
(* Bytes are counted from the start of the program: those from rd on and   *)
(* before wr are in the pipe.                                              *)
(***************************************************************************)
EXTENDS Naturals, Sequences, FiniteSets

CONSTANTS
  Packets,
  Size,        \* Size[p]: bytes packet p takes on the pipe, header included
  MaxRead,     \* PAYLOAD_MAX + 4
  Capacity,    \* bytes a pipe holds
  MaxPackets   \* bound on the packets that are sent

ASSUME LinkAssumption ==
  /\ MaxRead \in Nat \ {0}
  /\ Capacity \in Nat
  /\ Size \in [Packets -> 1..MaxRead]
  /\ MaxPackets \in Nat

VARIABLES
  sent,    \* the packets the pipe has taken and where each of them starts
  wr, rd,  \* bytes written and read so far
  got,     \* the numbers of the packets that have been unpacked
  late     \* (history) a packet was written before the last one was read

linkVars == <<sent, wr, rd, got, late>>

Init ==
  /\ sent = <<>>
  /\ wr = 0 /\ rd = 0
  /\ got = {}
  /\ late = FALSE

\* write() of that few bytes is all or nothing: with no room for all of them
\* it fails with EAGAIN, which packet_send does not look at.
PacketSend(p) ==
  /\ Len(sent) < MaxPackets
  /\ IF wr - rd + Size[p] <= Capacity
     THEN /\ sent' = Append(sent, [start |-> wr, pkt |-> p])
          /\ wr' = wr + Size[p]
     ELSE UNCHANGED <<sent, wr>>
  /\ late' = (late \/ rd # wr)
  /\ UNCHANGED <<rd, got>>

\* The numbers of the packets that start where the next read does.
AtFront == {k \in DOMAIN sent : sent[k].start = rd}

\* (mutant) read() is thought to fill msg whatever there is.
TakenFull == MaxRead

\* What read() takes.
Taken == IF wr - rd < MaxRead THEN wr - rd ELSE MaxRead

\* (mutant) A packet that the bytes hold is kept, and unpacked again.
PacketRecvKeep ==
  /\ rd < wr
  /\ rd' \in {rd, rd + Taken}
  /\ got' = {k \in DOMAIN sent : sent[k].start \in rd..(rd + Taken - 1)}
  /\ UNCHANGED <<sent, wr, late>>

\* (mutant) A read that does not fill msg is no packet.
PacketRecvFull ==
  /\ rd < wr
  /\ rd' = rd + Taken
  /\ got' = IF Taken = MaxRead THEN got \cup AtFront ELSE got
  /\ UNCHANGED <<sent, wr, late>>

PacketRecv ==
  /\ rd < wr
  /\ rd' = rd + Taken
  /\ got' = got \cup AtFront
  /\ UNCHANGED <<sent, wr, late>>

Next == (\E p \in Packets : PacketSend(p)) \/ PacketRecv

Spec == Init /\ [][Next]_linkVars

-----------------------------------------------------------------------------
TypeOK ==
  /\ sent \in Seq([start : Nat, pkt : Packets])
  /\ wr \in Nat /\ rd \in Nat /\ rd <= wr
  /\ got \subseteq DOMAIN sent
  /\ late \in BOOLEAN

\* Packets come out in the order they went in and none comes twice, whatever
\* reads cut off and swallow on the way (packet.c:77-91).
OrderedChannel == INSTANCE Channel WITH count <- Len(sent)

ChannelSpec == OrderedChannel!Spec

\* As long as its reader keeps up, the pipe of bytes is the queue of packets
\* that the networks use, one packet a read, whatever the sizes of the packets
\* are: a write finds room, and a read takes all of a packet and nothing of
\* another (packet.c:52, 77).
Waiting == Cardinality({k \in DOMAIN sent : sent[k].start >= rd})

PipeQueue == INSTANCE PacketQueue WITH
  queue         <- [i \in 1..Waiting |-> Len(sent) - Waiting + i],
  count         <- Len(sent),
  Room          <- Capacity \div MaxRead,
  FramesPerRead <- 1

PipeSpec ==
  /\ PipeQueue!Init
  /\ [][late' \/ PipeQueue!Next \/ UNCHANGED PipeQueue!vars]_linkVars
=============================================================================
