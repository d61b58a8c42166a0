----------------------------- MODULE LinkProofs -----------------------------
(***************************************************************************)
(* A pipe link is an ordered channel for packets of any sizes and whatever *)
(* the reader misses, and the queue of packets of the networks as long as  *)
(* the reader keeps up; and the uploads of module UploadLink over it.      *)
(***************************************************************************)
EXTENDS UploadLink, SequenceTheorems, FiniteSetTheorems, TLAPS

\* Packets start one behind the other, and those that have come out start
\* before the place where the next read does.
StartsGrow ==
  \A j, k \in DOMAIN sent : j < k => sent[j].start < sent[k].start

StartsAreWritten == \A k \in DOMAIN sent : sent[k].start < wr

GotIsRead == \A k \in got : sent[k].start < rd

IInv == TypeOK /\ StartsGrow /\ StartsAreWritten /\ GotIsRead

\* A packet takes at least its one byte on the pipe.
LEMMA SizesArePositive == \A p \in Packets : Size[p] \in Nat /\ Size[p] > 0
BY LinkAssumption

LEMMA TakenIsThere ==
  ASSUME TypeOK, rd < wr
  PROVE  Taken \in Nat /\ Taken > 0 /\ rd + Taken <= wr
BY LinkAssumption DEF TypeOK, Taken

LEMMA StartsAreNumbers ==
  ASSUME TypeOK, NEW k \in DOMAIN sent
  PROVE  k \in 1..Len(sent) /\ sent[k].start \in Nat
<1>1. sent \in Seq([start : Nat, pkt : Packets])
  BY DEF TypeOK
<1>2. k \in 1..Len(sent)
  BY <1>1
<1>3. sent[k] \in [start : Nat, pkt : Packets]
  BY <1>1, <1>2, ElementOfSeq
<1> QED BY <1>2, <1>3

LEMMA InitInv ==
  ASSUME Init PROVE IInv
<1>1. late \in BOOLEAN
  BY Zenon DEF Init
<1>2. sent = <<>> /\ wr = 0 /\ rd = 0 /\ got = {}
  BY DEF Init
<1> QED BY <1>1, <1>2 DEF IInv, TypeOK, StartsGrow, StartsAreWritten, GotIsRead

\* packet_send leaves the packets before it where they are.
LEMMA SendKeepsInv ==
  ASSUME IInv, NEW p \in Packets, PacketSend(p)
  PROVE  IInv'
<1>1. CASE UNCHANGED <<sent, wr>>
  <2>1. late' \in BOOLEAN
    BY Zenon DEF PacketSend
  <2> QED BY <1>1, <2>1 DEF IInv, TypeOK, StartsGrow, StartsAreWritten, GotIsRead,
                            PacketSend
<1>2. CASE sent' = Append(sent, [start |-> wr, pkt |-> p]) /\ wr' = wr + Size[p]
  <2> DEFINE n == Len(sent)
  <2>1. /\ sent \in Seq([start : Nat, pkt : Packets])
        /\ wr \in Nat /\ rd \in Nat /\ rd <= wr
        /\ Size[p] \in Nat /\ Size[p] > 0
        /\ UNCHANGED <<rd, got>>
    BY SizesArePositive DEF IInv, TypeOK, PacketSend
  <2>2. /\ sent' \in Seq([start : Nat, pkt : Packets])
        /\ n \in Nat /\ DOMAIN sent = 1..n /\ DOMAIN sent' = 1..(n + 1)
        /\ sent'[n + 1].start = wr
        /\ \A k \in 1..n : sent'[k] = sent[k]
    BY <1>2, <2>1
  <2>3. TypeOK'
    <3>1. late' \in BOOLEAN
      BY Zenon DEF PacketSend
    <3> QED BY <1>2, <2>1, <2>2, <3>1 DEF IInv, TypeOK
  <2>4. \A k \in 1..n : sent[k].start \in Nat
    BY <2>2, StartsAreNumbers DEF IInv
  <2>5. StartsGrow'
    <3> SUFFICES ASSUME NEW j \in 1..(n + 1), NEW k \in 1..(n + 1), j < k
                 PROVE  sent'[j].start < sent'[k].start
      BY <2>2 DEF StartsGrow
    <3>1. CASE k = n + 1
      BY <2>2, <3>1 DEF IInv, StartsAreWritten
    <3>2. CASE k \in 1..n
      <4>1. j \in 1..n
        BY <2>2, <3>2
      <4> QED BY <2>2, <3>2, <4>1 DEF IInv, StartsGrow
    <3> QED BY <2>2, <3>1, <3>2
  <2>6. StartsAreWritten'
    <3> SUFFICES ASSUME NEW k \in 1..(n + 1) PROVE sent'[k].start < wr'
      BY <2>2 DEF StartsAreWritten
    <3>1. CASE k = n + 1
      BY <1>2, <2>1, <2>2, <3>1
    <3>2. CASE k \in 1..n
      <4>1. sent[k].start < wr
        BY <2>2, <3>2 DEF IInv, StartsAreWritten
      <4> QED BY <1>2, <2>1, <2>2, <2>4, <3>2, <4>1
    <3> QED BY <2>2, <3>1, <3>2
  <2>7. GotIsRead'
    <3>1. got \subseteq 1..n
      BY <2>2 DEF IInv, TypeOK
    <3> QED BY <2>1, <2>2, <3>1 DEF IInv, GotIsRead
  <2> QED BY <2>3, <2>5, <2>6, <2>7 DEF IInv
<1> QED BY <1>1, <1>2 DEF PacketSend

\* packet_recv unpacks what starts at rd and goes on behind it.
LEMMA RecvKeepsInv ==
  ASSUME IInv, PacketRecv
  PROVE  IInv'
<1>1. /\ Taken \in Nat /\ Taken > 0 /\ rd + Taken <= wr
      /\ rd' = rd + Taken /\ got' = got \cup AtFront /\ UNCHANGED <<sent, wr, late>>
      /\ rd \in Nat /\ wr \in Nat
  BY TakenIsThere DEF IInv, TypeOK, PacketRecv
<1>2. TypeOK'
  BY <1>1 DEF IInv, TypeOK, AtFront
<1>3. GotIsRead'
  <2> SUFFICES ASSUME NEW k \in got' PROVE sent[k].start < rd'
    BY <1>1 DEF GotIsRead
  <2>1. k \in DOMAIN sent /\ sent[k].start \in Nat
    BY <1>1, <1>2, StartsAreNumbers DEF TypeOK, IInv
  <2>2. CASE k \in got
    <3>1. sent[k].start < rd
      BY <2>2 DEF IInv, GotIsRead
    <3> QED BY <1>1, <2>1, <3>1
  <2>3. CASE k \in AtFront
    BY <1>1, <2>1, <2>3 DEF AtFront
  <2> QED BY <1>1, <2>2, <2>3
<1> QED BY <1>1, <1>2, <1>3 DEF IInv, StartsGrow, StartsAreWritten

\* At most one packet starts where a read does, and it is later than all that
\* have come out.
LEMMA RecvDelivers ==
  ASSUME IInv, PacketRecv
  PROVE  [OrderedChannel!Next]_(OrderedChannel!vars)
<1>1. /\ got' = got \cup AtFront /\ sent' = sent
      /\ DOMAIN sent = 1..Len(sent) /\ Len(sent) \in Nat
      /\ got \subseteq DOMAIN sent
  BY DEF IInv, TypeOK, PacketRecv
<1>2. CASE AtFront = {}
  <2>1. UNCHANGED <<Len(sent), got>>
    BY <1>1, <1>2
  <2> QED BY <2>1 DEF OrderedChannel!vars
<1>3. CASE AtFront # {}
  <2>1. PICK k \in DOMAIN sent : sent[k].start = rd
    BY <1>3 DEF AtFront
  <2>2. AtFront = {k}
    <3> SUFFICES ASSUME NEW j \in AtFront PROVE j = k
      BY <2>1 DEF AtFront
    <3>1. j \in 1..Len(sent) /\ k \in 1..Len(sent) /\ sent[j].start = sent[k].start
          /\ sent[j].start \in Nat
      BY <1>1, <2>1, StartsAreNumbers DEF AtFront, IInv
    <3>2. ~(j < k) /\ ~(k < j)
      BY <1>1, <3>1 DEF IInv, StartsGrow
    <3> QED BY <3>1, <3>2
  <2>3. \A j \in got : j < k
    <3> SUFFICES ASSUME NEW j \in got PROVE j < k
      OBVIOUS
    <3>1. j \in 1..Len(sent) /\ k \in 1..Len(sent) /\ sent[j].start \in Nat
          /\ sent[k].start \in Nat
      BY <1>1, <2>1, StartsAreNumbers DEF IInv
    <3>2. sent[j].start < sent[k].start
      BY <1>1, <2>1 DEF IInv, GotIsRead
    <3>3. j # k /\ ~(k < j)
      BY <1>1, <3>1, <3>2 DEF IInv, StartsGrow
    <3> QED BY <3>1, <3>3
  <2>4. OrderedChannel!Deliver(k)
    BY <1>1, <2>2, <2>3 DEF OrderedChannel!Deliver
  <2> QED BY <1>1, <2>1, <2>4 DEF OrderedChannel!Next
<1> QED BY <1>2, <1>3

LEMMA SendSends ==
  ASSUME IInv, NEW p \in Packets, PacketSend(p)
  PROVE  [OrderedChannel!Next]_(OrderedChannel!vars)
<1>1. CASE UNCHANGED <<sent, wr>>
  <2>1. UNCHANGED <<Len(sent), got>>
    BY <1>1 DEF PacketSend
  <2> QED BY <2>1 DEF OrderedChannel!vars
<1>2. CASE sent' = Append(sent, [start |-> wr, pkt |-> p]) /\ wr' = wr + Size[p]
  <2>1. Len(sent)' = Len(sent) + 1 /\ UNCHANGED got
    BY <1>2 DEF PacketSend, IInv, TypeOK
  <2> QED BY <2>1 DEF OrderedChannel!Next, OrderedChannel!Send
<1> QED BY <1>1, <1>2 DEF PacketSend

LEMMA NextKeepsInv ==
  ASSUME IInv, [Next]_linkVars
  PROVE  IInv'
<1>1. CASE UNCHANGED linkVars
  BY <1>1 DEF linkVars, IInv, TypeOK, StartsGrow, StartsAreWritten, GotIsRead
<1> QED BY <1>1, SendKeepsInv, RecvKeepsInv DEF Next

\* The counts of bytes and packets of a link keep their types, and the reader
\* is never ahead of the writer (packet.c:52, 77).
THEOREM LinkTyped == Spec => []TypeOK
<1>1. Init => IInv
  BY InitInv
<1>2. IInv /\ [Next]_linkVars => IInv'
  BY NextKeepsInv
<1>3. IInv => TypeOK
  BY DEF IInv
<1> QED BY <1>1, <1>2, <1>3, PTL DEF Spec

\* Whatever is lost when a pipe is full, cut or read late, no packet comes out
\* twice or is overtaken (packet.c:40-94).
THEOREM LinkIsOrdered == Spec => ChannelSpec
<1>1. Init => IInv /\ OrderedChannel!Init
  BY InitInv DEF Init, OrderedChannel!Init
<1>2. IInv /\ [Next]_linkVars => IInv'
  BY NextKeepsInv
<1>3. IInv /\ [Next]_linkVars => [OrderedChannel!Next]_(OrderedChannel!vars)
  <2> SUFFICES ASSUME IInv, [Next]_linkVars
               PROVE  [OrderedChannel!Next]_(OrderedChannel!vars)
    OBVIOUS
  <2>1. CASE UNCHANGED linkVars
    BY <2>1 DEF linkVars, OrderedChannel!vars
  <2> QED BY <2>1, SendSends, RecvDelivers DEF Next
<1> QED BY <1>1, <1>2, <1>3, PTL DEF Spec, ChannelSpec, OrderedChannel!Spec

-----------------------------------------------------------------------------
(* A reader that keeps up                                                  *)

\* The packet that was sent last is in the pipe, and nothing else.
LastWaits ==
  /\ sent # <<>>
  /\ sent[Len(sent)].start = rd
  /\ wr = rd + Size[sent[Len(sent)].pkt]

\* As long as no packet is sent before the last one was read, the pipe has no
\* packet or one, which begins where the next read does.
KeepsUp == late \/ rd = wr \/ LastWaits

\* A pipe that holds what one read takes: 64 KiB for 104 bytes.
PipeHoldsARead == Capacity \in Nat /\ Capacity >= MaxRead

LEMMA LastWaitingIsRead ==
  ASSUME IInv, LastWaits
  PROVE  /\ AtFront = {Len(sent)}
         /\ rd < wr /\ rd + Taken = wr
         /\ {k \in DOMAIN sent : sent[k].start >= rd} = {Len(sent)}
<1> DEFINE n == Len(sent)
<1>1. /\ sent \in Seq([start : Nat, pkt : Packets])
      /\ n \in Nat \ {0} /\ DOMAIN sent = 1..n /\ n \in DOMAIN sent
      /\ rd \in Nat /\ wr \in Nat /\ rd <= wr
  BY DEF IInv, TypeOK, LastWaits
<1>2. \A k \in DOMAIN sent : sent[k].start \in Nat /\ (k # n => sent[k].start < rd)
  <2> SUFFICES ASSUME NEW k \in DOMAIN sent
               PROVE  sent[k].start \in Nat /\ (k # n => sent[k].start < rd)
    OBVIOUS
  <2>1. k # n => k < n
    BY <1>1
  <2> QED BY <1>1, <2>1, StartsAreNumbers DEF IInv, StartsGrow, LastWaits
<1>3. sent[n].start = rd
  BY DEF LastWaits
<1>4. sent[n].pkt \in Packets
  <2>1. sent[n] \in [start : Nat, pkt : Packets]
    BY <1>1, ElementOfSeq
  <2> QED BY <2>1
<1>5. Size[sent[n].pkt] \in 1..MaxRead /\ MaxRead \in Nat
  BY <1>4, LinkAssumption
<1>6. rd < wr /\ rd + Taken = wr
  <2>1. wr = rd + Size[sent[n].pkt]
    BY DEF LastWaits
  <2>2. wr - rd \in Nat /\ wr - rd > 0 /\ wr - rd <= MaxRead
    <3> HIDE DEF n
    <3> QED BY <1>1, <1>5, <2>1
  <2>3. Taken = wr - rd
    BY <1>5, <2>2 DEF Taken
  <2> QED BY <1>1, <2>2, <2>3
<1>7. AtFront = {n}
  BY <1>1, <1>2, <1>3 DEF AtFront
<1>8. {k \in DOMAIN sent : sent[k].start >= rd} = {n}
  BY <1>1, <1>2, <1>3
<1> QED BY <1>6, <1>7, <1>8

\* A packet finds room in an empty pipe.
LEMMA EmptyPipeTakes ==
  ASSUME IInv, PipeHoldsARead, NEW p \in Packets, PacketSend(p), rd = wr
  PROVE  /\ sent' = Append(sent, [start |-> wr, pkt |-> p]) /\ wr' = wr + Size[p]
         /\ LastWaits' /\ sent'[Len(sent')].pkt = p /\ Len(sent') = Len(sent) + 1
<1>1. /\ wr \in Nat /\ rd \in Nat /\ sent \in Seq([start : Nat, pkt : Packets])
      /\ Size[p] \in 1..MaxRead /\ MaxRead \in Nat
  BY LinkAssumption DEF IInv, TypeOK
<1>2. wr - rd + Size[p] <= Capacity
  BY <1>1 DEF PipeHoldsARead
<1>3. /\ sent' = Append(sent, [start |-> wr, pkt |-> p]) /\ wr' = wr + Size[p]
      /\ rd' = rd
  BY <1>2 DEF PacketSend
<1>4. /\ [start |-> wr, pkt |-> p] \in [start : Nat, pkt : Packets]
      /\ Len(sent') = Len(sent) + 1
      /\ sent'[Len(sent) + 1] = [start |-> wr, pkt |-> p]
      /\ sent' # <<>>
  BY <1>1, <1>3
<1> QED BY <1>1, <1>3, <1>4 DEF LastWaits

LEMMA NextKeepsUp ==
  ASSUME IInv, PipeHoldsARead, KeepsUp, [Next]_linkVars
  PROVE  KeepsUp'
<1>1. CASE UNCHANGED linkVars
  BY <1>1 DEF linkVars, KeepsUp, LastWaits
<1>2. ASSUME NEW p \in Packets, PacketSend(p) PROVE KeepsUp'
  <2>1. CASE late \/ rd # wr
    BY <1>2, <2>1, Zenon DEF PacketSend, KeepsUp
  <2>2. CASE rd = wr
    BY <1>2, <2>2, EmptyPipeTakes DEF KeepsUp
  <2> QED BY <2>1, <2>2
<1>3. CASE PacketRecv
  <2>1. CASE late
    BY <1>3, <2>1, Zenon DEF PacketRecv, KeepsUp
  <2>2. CASE LastWaits
    BY <1>3, <2>2, LastWaitingIsRead DEF PacketRecv, KeepsUp
  <2>3. CASE rd = wr
    BY <1>3, <2>3 DEF PacketRecv, IInv, TypeOK
  <2> QED BY <2>1, <2>2, <2>3 DEF KeepsUp
<1> QED BY <1>1, <1>2, <1>3 DEF Next

\* How many packets wait in the pipe, and the queue they make.
LEMMA QueueOfNone ==
  ASSUME IInv, rd = wr
  PROVE  Waiting = 0
<1>1. \A k \in DOMAIN sent : ~(sent[k].start >= rd)
  <2> SUFFICES ASSUME NEW k \in DOMAIN sent PROVE ~(sent[k].start >= rd)
    OBVIOUS
  <2>1. sent[k].start \in Nat /\ sent[k].start < wr /\ wr \in Nat
    BY StartsAreNumbers DEF IInv, TypeOK, StartsAreWritten
  <2> QED BY <2>1
<1>2. {k \in DOMAIN sent : sent[k].start >= rd} = {}
  BY <1>1
<1> QED BY <1>2, FS_EmptySet DEF Waiting

LEMMA QueueOfOne ==
  ASSUME IInv, LastWaits
  PROVE  Waiting = 1
BY LastWaitingIsRead, FS_Singleton DEF Waiting

LEMMA WaitingTyped ==
  ASSUME IInv
  PROVE  Waiting \in Nat
<1>1. /\ {k \in DOMAIN sent : sent[k].start >= rd} \subseteq 1..Len(sent)
      /\ Len(sent) \in Nat
  BY DEF IInv, TypeOK
<1>2. IsFiniteSet(1..Len(sent))
  BY <1>1, FS_Interval
<1>3. IsFiniteSet({k \in DOMAIN sent : sent[k].start >= rd})
  BY <1>1, <1>2, FS_Subset
<1> QED BY <1>3, FS_CardinalityType DEF Waiting

\* A pipe of bytes whose reader keeps up is the queue of packets that modules
\* Pipes and Host use, one packet a read: no packet that is written in time
\* is cut, merged or dropped (packet.c:52, 77).
THEOREM LinkIsPacketQueue ==
  ASSUME PipeHoldsARead
  PROVE  Spec => PipeSpec
<1> DEFINE Q == [i \in 1..Waiting |-> Len(sent) - Waiting + i]
<1>1. Init => PipeQueue!Init
  <2> SUFFICES ASSUME Init PROVE PipeQueue!Init
    OBVIOUS
  <2>1. IInv /\ rd = wr /\ sent = <<>> /\ got = {}
    BY InitInv DEF Init
  <2>2. Waiting = 0
    BY <2>1, QueueOfNone
  <2>3. Q = <<>> /\ Len(sent) = 0
    BY <2>1, <2>2
  <2> QED BY <2>1, <2>3 DEF PipeQueue!Init
<1>2. /\ (IInv /\ rd = wr => Waiting = 0)'
      /\ (IInv /\ LastWaits => Waiting = 1)'
  <2>1. /\ IInv /\ rd = wr => Waiting = 0
        /\ IInv /\ LastWaits => Waiting = 1
    BY QueueOfNone, QueueOfOne
  <2> QED BY <2>1, PTL
<1>5. Init => IInv /\ KeepsUp
  BY InitInv DEF Init, KeepsUp
<1>3. IInv /\ KeepsUp /\ [Next]_linkVars => IInv' /\ KeepsUp'
  BY NextKeepsInv, NextKeepsUp
<1>4. IInv /\ KeepsUp /\ [Next]_linkVars
        => [late' \/ PipeQueue!Next \/ UNCHANGED PipeQueue!vars]_linkVars
  <2> SUFFICES ASSUME IInv, KeepsUp, [Next]_linkVars, ~late', ~UNCHANGED linkVars
               PROVE  PipeQueue!Next
    OBVIOUS
  <2>1. IInv' /\ KeepsUp'
    BY <1>3
  <2>2. /\ sent \in Seq([start : Nat, pkt : Packets]) /\ Len(sent) \in Nat
        /\ Waiting \in Nat
    BY WaitingTyped DEF IInv, TypeOK
  <2>3. ASSUME NEW p \in Packets, PacketSend(p) PROVE PipeQueue!Write
    <3>1. rd = wr
      BY <2>3, Zenon DEF PacketSend
    <3>2. LastWaits' /\ Len(sent') = Len(sent) + 1 /\ got' = got
      BY <2>3, <3>1, EmptyPipeTakes DEF PacketSend
    <3>3. Waiting = 0
      BY <3>1, QueueOfNone
    <3>4. Waiting' = 1
      BY <1>2, <2>1, <3>2
    <3>5. Q = <<>> /\ Len(Q) = 0
      BY <3>3
    <3>6. Q' = <<Len(sent) + 1>>
      BY <2>2, <3>2, <3>4
    <3>7. Append(<<>>, Len(sent) + 1) = <<Len(sent) + 1>> /\ Len(<<>>) = 0
      OBVIOUS
    <3>8. 0 < Capacity \div MaxRead
      BY LinkAssumption DEF PipeHoldsARead
    <3> QED BY <3>2, <3>5, <3>6, <3>7, <3>8 DEF PipeQueue!Write
  <2>4. CASE PacketRecv
    <3>0. ~late /\ rd # wr
      <4>1. late' = late /\ rd < wr
        BY <2>4, Zenon DEF PacketRecv
      <4>2. rd \in Nat /\ wr \in Nat
        BY DEF IInv, TypeOK
      <4> QED BY <4>1, <4>2
    <3>1. LastWaits
      BY <3>0, Zenon DEF KeepsUp
    <3>2. /\ AtFront = {Len(sent)} /\ rd' = wr' /\ sent' = sent
          /\ got' = got \cup {Len(sent)}
      BY <2>4, <3>1, LastWaitingIsRead DEF PacketRecv
    <3>3. Waiting = 1
      BY <3>1, QueueOfOne
    <3>4. Waiting' = 0
      BY <1>2, <2>1, <3>2
    <3>5. Q = <<Len(sent)>>
      BY <2>2, <3>3
    <3>6. Q' = <<>>
      BY <3>4
    <3>7. LET q == <<Len(sent)>>
          IN  q # <<>> /\ Head(q) = Len(sent) /\ SubSeq(q, 1 + 1, Len(q)) = <<>>
      OBVIOUS
    <3>8. Len(sent') = Len(sent)
      BY <3>2
    <3> QED BY <3>2, <3>5, <3>6, <3>7, <3>8 DEF PipeQueue!Read, PipeQueue!Next
  <2> QED BY <2>3, <2>4 DEF Next, PipeQueue!Next, linkVars
<1> QED BY <1>1, <1>5, <1>3, <1>4, PTL DEF Spec, PipeSpec

-----------------------------------------------------------------------------
(* Uploads: the packets of a file and their places in it                   *)

\* Place 0 of file f is its start packet, place k the packet of its chunk k,
\* and the one behind them the end packet.  Nothing stands for no packet.
Places == {p \in Files \X Nat : p[2] <= Len(Content[p[1]]) + 1}

Nothing == <<None, 0>>

PacketAt(p) ==
  IF p[2] = 0 THEN Start(p[1])
  ELSE IF p[2] <= Len(Content[p[1]]) THEN Cont(Content[p[1]][p[2]]) ELSE End

IsEnd(p) == p = Nothing \/ p[2] = Len(Content[p[1]]) + 1

Follows(p, q) == IF IsEnd(p) THEN q[2] = 0 ELSE q = <<p[1], p[2] + 1>>

\* The packets to be sent are at places pl[1], pl[2], ..., and pl[0] is the
\* place of the packet that was sent last.
Stream(pl) ==
  /\ pl \in [0..Len(todo) -> Places \cup {Nothing}]
  /\ \A i \in 1..Len(todo) : /\ pl[i] \in Places
                             /\ todo[i] = PacketAt(pl[i])
                             /\ Follows(pl[i - 1], pl[i])
  /\ IsEnd(pl[Len(todo)])

\* The receiver is idle and has the first k chunks of f in its buffer.
Has(f, k) ==
  /\ open = None
  /\ fbuf = [name |-> f, data |-> SubSeq(Content[f], 1, k)]

\* The receiver has all that was sent up to place p, the last packet of which
\* may still be in the pipe.
InStep(p) ==
  \/ rd = wr /\ (IsEnd(p) \/ Has(p[1], p[2]))
  \/ /\ LastWaits /\ p # Nothing
     /\ sent[Len(sent)].pkt = PacketAt(p)
     /\ p[2] > 0 => Has(p[1], p[2] - 1)

\* No packet of the session was late, or none of this upload.
InTime == ~late \/ prompt

InOrder ==
  \E pl \in [0..Len(todo) -> Places \cup {Nothing}] :
    Stream(pl) /\ (InTime => InStep(pl[0]))

OpenIsWhole ==
  InTime /\ open # None => fbuf = [name |-> open, data |-> Content[open]]

Buffers == [name : Files \cup {None}, data : Seq(Chunks)]

UploadTyped ==
  /\ todo \in Seq(Packets)
  /\ fbuf \in Buffers
  /\ open \in Files \cup {None}
  /\ disk = [f \in Files |-> disk[f]]

UploadInv ==
  IInv /\ UploadTyped /\ InOrder /\ OpenIsWhole /\ FilesAreWholeOrEmpty

LEMMA ContentTyped ==
  ASSUME NEW f \in Files
  PROVE  /\ Content[f] \in Seq(Chunks) /\ Len(Content[f]) \in Nat
         /\ DOMAIN Content[f] = 1..Len(Content[f])
         /\ \A k \in 1..Len(Content[f]) : Content[f][k] \in Chunks
         /\ f # None
<1>1. Content[f] \in Seq(Chunks)
  BY UploadAssumption
<1> QED BY <1>1, ElementOfSeq, LenProperties, UploadAssumption

LEMMA PlacesArePackets ==
  ASSUME NEW p \in Places
  PROVE  /\ PacketAt(p) \in Packets
         /\ p[1] \in Files /\ p[2] \in Nat /\ p = <<p[1], p[2]>> /\ p # Nothing
<1>1. /\ p[1] \in Files /\ p[2] \in Nat /\ p = <<p[1], p[2]>>
      /\ p[2] <= Len(Content[p[1]]) + 1
  BY DEF Places
<1>2. p # Nothing
  BY <1>1, UploadAssumption DEF Nothing
<1>3. CASE p[2] = 0
  <2>1. Start(p[1]) \in Packets
    BY <1>1, UploadAssumption
  <2> QED BY <1>1, <1>2, <1>3, <2>1 DEF PacketAt
<1>4. CASE p[2] # 0 /\ p[2] <= Len(Content[p[1]])
  <2>1. Content[p[1]][p[2]] \in Chunks
    BY <1>1, <1>4, ContentTyped
  <2>2. Cont(Content[p[1]][p[2]]) \in Packets
    BY <2>1, UploadAssumption
  <2> QED BY <1>1, <1>2, <1>4, <2>2 DEF PacketAt
<1>5. CASE p[2] # 0 /\ ~(p[2] <= Len(Content[p[1]]))
  BY <1>1, <1>2, <1>5, UploadAssumption DEF PacketAt
<1> QED BY <1>3, <1>4, <1>5

\* What reads the file puts its packets into the queue in the order of places.
LEMMA FilePackets ==
  ASSUME todo \in Seq(Packets), NEW f \in Files, FileUploadSend(f)
  PROVE  /\ todo' \in Seq(Packets) /\ Len(todo) \in Nat
         /\ Len(todo') = Len(todo) + Len(Content[f]) + 2
         /\ \A i \in 1..Len(todo) : todo'[i] = todo[i]
         /\ \A i \in (Len(todo) + 1)..Len(todo') :
              todo'[i] = PacketAt(<<f, i - Len(todo) - 1>>)
<1> DEFINE c == Len(Content[f])
           n == Len(todo)
           C == [i \in DOMAIN Content[f] |-> Cont(Content[f][i])]
           A == todo \o <<Start(f)>>
           B == A \o C
<1>1. todo \in Seq(Packets) /\ n \in Nat /\ c \in Nat
  BY ContentTyped
<1>2. <<Start(f)>> \in Seq(Packets) /\ <<End>> \in Seq(Packets)
      /\ Len(<<Start(f)>>) = 1 /\ Len(<<End>>) = 1
  BY UploadAssumption
<1>3. C \in Seq(Packets) /\ Len(C) = c
      /\ \A i \in 1..c : C[i] = Cont(Content[f][i])
  <2>1. DOMAIN Content[f] = 1..c
    BY ContentTyped
  <2>2. \A i \in 1..c : Cont(Content[f][i]) \in Packets
    BY ContentTyped, UploadAssumption
  <2> HIDE DEF c
  <2> QED BY <1>1, <2>1, <2>2
<1>4. /\ A \in Seq(Packets) /\ Len(A) = n + 1
      /\ \A i \in 1..n : A[i] = todo[i]
      /\ A[n + 1] = Start(f)
  BY <1>1, <1>2
<1> HIDE DEF A, C
<1>5. /\ B \in Seq(Packets) /\ Len(B) = n + 1 + c
      /\ \A i \in 1..(n + 1) : B[i] = A[i]
      /\ \A i \in (n + 2)..(n + 1 + c) : B[i] = C[i - n - 1]
  <2> HIDE DEF c, n
  <2>1. /\ Len(A \o C) = Len(A) + Len(C) /\ A \o C \in Seq(Packets)
        /\ \A i \in 1..(Len(A) + Len(C)) :
             (A \o C)[i] = IF i <= Len(A) THEN A[i] ELSE C[i - Len(A)]
    BY <1>3, <1>4, ConcatProperties
  <2>2. \A i \in (n + 2)..(n + 1 + c) : i - (n + 1) = i - n - 1
    BY <1>1
  <2> QED BY <1>1, <1>3, <1>4, <2>1, <2>2
<1>6. todo' = B \o <<End>>
  BY DEF FileUploadSend, A, C
<1> HIDE DEF B
<1>7. /\ todo' \in Seq(Packets) /\ Len(todo') = n + c + 2
      /\ \A i \in 1..(n + 1 + c) : todo'[i] = B[i]
      /\ todo'[n + c + 2] = End
  <2> HIDE DEF c, n
  <2> QED BY <1>1, <1>2, <1>5, <1>6, ConcatProperties
<1>8. /\ PacketAt(<<f, 0>>) = Start(f)
      /\ \A k \in 1..c : PacketAt(<<f, k>>) = Cont(Content[f][k])
      /\ PacketAt(<<f, c + 1>>) = End
  BY <1>1 DEF PacketAt
<1> HIDE DEF c, n
<1>9. ASSUME NEW i \in (n + 1)..(n + c + 2)
      PROVE  todo'[i] = PacketAt(<<f, i - n - 1>>)
  <2>1. CASE i = n + 1
    <3>1. i - n - 1 = 0
      BY <1>1, <2>1
    <3> QED BY <1>1, <1>4, <1>5, <1>7, <1>8, <2>1, <3>1
  <2>2. CASE i \in (n + 2)..(n + 1 + c)
    <3>1. i - n - 1 \in 1..c
      BY <1>1, <2>2
    <3>2. todo'[i] = C[i - n - 1]
      BY <1>1, <1>5, <1>7, <2>2
    <3> QED BY <1>3, <1>8, <3>1, <3>2
  <2>3. CASE i = n + c + 2
    <3>1. i - n - 1 = c + 1
      BY <1>1, <2>3
    <3> QED BY <1>7, <1>8, <2>3, <3>1
  <2> QED BY <1>1, <2>1, <2>2, <2>3
<1>10. \A i \in 1..n : todo'[i] = todo[i]
  BY <1>1, <1>4, <1>5, <1>7
<1> QED BY <1>1, <1>7, <1>9, <1>10 DEF c, n

LEMMA UploadInitInv ==
  ASSUME UploadInit
  PROVE  UploadInv
<1>1. /\ Init /\ todo = <<>> /\ open = None /\ disk = Old /\ rd = wr
      /\ Len(todo) = 0
  BY DEF UploadInit, Init
<1>2. IInv
  BY <1>1, InitInv
<1>3. UploadTyped
  <2>1. fbuf \in Buffers
    BY DEF UploadInit, Buffers
  <2> QED BY <1>1, <2>1, UploadAssumption DEF UploadTyped
<1> DEFINE pl == [i \in 0..Len(todo) |-> Nothing]
<1>4. pl \in [0..Len(todo) -> Places \cup {Nothing}] /\ pl[0] = Nothing
  BY <1>1
<1>5. Stream(pl)
  BY <1>1, <1>4 DEF Stream, IsEnd
<1>6. InStep(pl[0])
  BY <1>1, <1>4 DEF InStep, IsEnd
<1>7. InOrder
  BY <1>4, <1>5, <1>6 DEF InOrder
<1> QED BY <1>1, <1>2, <1>3, <1>7 DEF UploadInv, OpenIsWhole, FilesAreWholeOrEmpty

LEMMA FileUploadSendKeeps ==
  ASSUME UploadInv, NEW f \in Files, FileUploadSend(f)
  PROVE  UploadInv'
<1>1. UNCHANGED <<fbuf, open, disk, killed, prompt, sent, wr, rd, got, late>>
  BY DEF FileUploadSend, receiverVars, linkVars
<1>2. IInv'
  BY <1>1 DEF UploadInv, IInv, TypeOK, StartsGrow, StartsAreWritten, GotIsRead
<1> DEFINE n == Len(todo)
           m == Len(todo')
           c == Len(Content[f])
<1>3. /\ todo' \in Seq(Packets) /\ n \in Nat /\ c \in Nat /\ m = n + c + 2
      /\ \A i \in 1..n : todo'[i] = todo[i]
      /\ \A i \in (n + 1)..m : todo'[i] = PacketAt(<<f, i - n - 1>>)
  BY FilePackets, ContentTyped DEF UploadInv, UploadTyped
<1>4. UploadTyped'
  BY <1>1, <1>3 DEF UploadInv, UploadTyped
<1>5. PICK pl \in [0..n -> Places \cup {Nothing}] : Stream(pl) /\ (InTime => InStep(pl[0]))
  BY DEF UploadInv, InOrder
<1>0. PICK q : q = [i \in 0..m |-> IF i <= n THEN pl[i] ELSE <<f, i - n - 1>>]
  OBVIOUS
<1>6. \A k \in 0..(c + 1) : <<f, k>> \in Places
  BY <1>3 DEF Places
<1>7. q \in [0..m -> Places \cup {Nothing}]
  <2> SUFFICES ASSUME NEW i \in 0..m, ~(i <= n)
               PROVE  <<f, i - n - 1>> \in Places
    BY <1>0, <1>3
  <2>1. i - n - 1 \in 0..(c + 1)
    BY <1>3
  <2> QED BY <1>6, <2>1
<1>8. Stream(q)'
  <2> HIDE DEF n, m, c
  <2>1. ASSUME NEW i \in 1..m
        PROVE  q[i] \in Places /\ todo'[i] = PacketAt(q[i]) /\ Follows(q[i - 1], q[i])
    <3>1. CASE i \in 1..n
      <4>1. i \in 0..m /\ i - 1 \in 0..m /\ i <= n /\ i - 1 <= n
        BY <1>3, <3>1
      <4>2. q[i] = pl[i] /\ q[i - 1] = pl[i - 1] /\ todo'[i] = todo[i]
        BY <1>0, <1>3, <3>1, <4>1
      <4>3. pl[i] \in Places /\ todo[i] = PacketAt(pl[i]) /\ Follows(pl[i - 1], pl[i])
        BY <1>5, <3>1 DEF Stream, n
      <4> QED BY <4>2, <4>3
    <3>2. CASE i = n + 1
      <4>1. i - 1 = n /\ n \in 0..m /\ i \in 0..m /\ ~(i <= n) /\ i - n - 1 = 0
        BY <1>3, <3>2
      <4>2. q[i] = <<f, 0>> /\ q[i - 1] = pl[n] /\ q[i][2] = 0
        BY <1>0, <4>1
      <4>3. IsEnd(pl[n])
        BY <1>5 DEF Stream, n
      <4>4. q[i] \in Places
        BY <1>3, <1>6, <4>2
      <4>5. todo'[i] = PacketAt(q[i])
        BY <1>3, <4>1, <4>2, <3>2
      <4>6. Follows(q[i - 1], q[i])
        <5> QED BY <4>2, <4>3 DEF Follows
      <4> QED BY <4>4, <4>5, <4>6
    <3>3. CASE i \in (n + 2)..m
      <4>1. /\ i \in 0..m /\ i - 1 \in 0..m /\ ~(i <= n) /\ ~(i - 1 <= n)
            /\ i - n - 1 \in 1..(c + 1) /\ (i - 1) - n - 1 = i - n - 2
            /\ i - n - 2 \in 0..c /\ i - n - 1 = (i - n - 2) + 1
        BY <1>3, <3>3
      <4>2. q[i] = <<f, i - n - 1>> /\ q[i - 1] = <<f, i - n - 2>>
        BY <1>0, <4>1
      <4>3. q[i] \in Places
        BY <1>3, <1>6, <4>1, <4>2
      <4>4. todo'[i] = PacketAt(q[i])
        BY <1>3, <4>2, <3>3
      <4>5. <<f, i - n - 2>> # Nothing /\ i - n - 2 # c + 1
        BY <1>3, <4>1, ContentTyped DEF Nothing
      <4>6. ~IsEnd(<<f, i - n - 2>>)
        BY <4>5 DEF IsEnd, c
      <4>7. Follows(q[i - 1], q[i])
        <5> QED BY <4>1, <4>2, <4>6 DEF Follows
      <4> QED BY <4>3, <4>4, <4>7
    <3> QED BY <1>3, <3>1, <3>2, <3>3
  <2>2. IsEnd(q[m])
    <3>1. m \in 0..m /\ ~(m <= n) /\ m - n - 1 = c + 1
      BY <1>3
    <3>2. q[m] = <<f, c + 1>>
      BY <1>0, <3>1
    <3> QED BY <3>2 DEF IsEnd, c
  <2> QED BY <1>7, <2>1, <2>2 DEF Stream, m
<1>9. q[0] = pl[0]
  BY <1>0, <1>3
<1>10. InTime' => InStep(q[0])'
  <2> QED BY <1>1, <1>5, <1>9 DEF InTime, InStep, LastWaits, Has
<1>11. InOrder'
  <2> QED BY <1>7, <1>8, <1>10 DEF InOrder
<1>12. OpenIsWhole' /\ FilesAreWholeOrEmpty'
  BY <1>1 DEF UploadInv, OpenIsWhole, FilesAreWholeOrEmpty, InTime
<1> QED BY <1>2, <1>4, <1>11, <1>12 DEF UploadInv

\* packet_send takes the first packet of the stream.
LEMMA SendPktKeeps ==
  ASSUME UploadInv, PipeHoldsARead, SendPkt
  PROVE  UploadInv'
<1>1. /\ todo # <<>> /\ PacketSend(Head(todo)) /\ todo' = Tail(todo)
      /\ UNCHANGED <<asked, fbuf, open, disk, killed>>
  BY DEF SendPkt, receiverVars
<1>2. prompt' => rd = wr /\ open = None /\ (prompt \/ Head(todo).type = "FILE_UPLOAD_START")
  BY Zenon DEF SendPkt
<1>3. ~late' => ~late /\ rd = wr
  BY <1>1, Zenon DEF PacketSend
<1> DEFINE n == Len(todo)
           m == Len(todo')
<1>4. /\ todo \in Seq(Packets) /\ n \in Nat \ {0} /\ m = n - 1
      /\ Head(todo) = todo[1] /\ Head(todo) \in Packets
      /\ todo' \in Seq(Packets)
      /\ \A i \in 1..m : todo'[i] = todo[i + 1]
  BY <1>1 DEF UploadInv, UploadTyped
<1>5. IInv'
  BY <1>1, <1>4, SendKeepsInv DEF UploadInv
<1>6. UploadTyped'
  BY <1>1, <1>4 DEF UploadInv, UploadTyped
<1>7. PICK pl \in [0..n -> Places \cup {Nothing}] : Stream(pl) /\ (InTime => InStep(pl[0]))
  BY DEF UploadInv, InOrder
<1>0. PICK q : q = [i \in 0..m |-> pl[i + 1]]
  OBVIOUS
<1> HIDE DEF n, m
<1>8. /\ q \in [0..m -> Places \cup {Nothing}]
      /\ q[0] = pl[1]
      /\ \A i \in 1..m : q[i] = pl[i + 1] /\ q[i - 1] = pl[i]
      /\ q[m] = pl[n]
  BY <1>0, <1>4, <1>7
<1>9. /\ pl[1] \in Places /\ Head(todo) = PacketAt(pl[1]) /\ Follows(pl[0], pl[1])
      /\ pl[0] \in Places \cup {Nothing}
  BY <1>4, <1>7 DEF Stream, n
<1>10. Stream(q)'
  <2>1. ASSUME NEW i \in 1..m
        PROVE  q[i] \in Places /\ todo'[i] = PacketAt(q[i]) /\ Follows(q[i - 1], q[i])
    <3>1. i + 1 \in 1..n /\ (i + 1) - 1 = i
      BY <1>4
    <3>2. pl[i + 1] \in Places /\ todo[i + 1] = PacketAt(pl[i + 1])
          /\ Follows(pl[i], pl[i + 1])
      BY <1>7, <3>1 DEF Stream, n
    <3> QED BY <1>4, <1>8, <3>2
  <2>2. IsEnd(q[m])
    BY <1>7, <1>8 DEF Stream, n
  <2> QED BY <1>8, <2>1, <2>2 DEF Stream, m
<1>11. pl[1] # Nothing /\ pl[1][2] \in Nat
  BY <1>9, PlacesArePackets
<1>12. ASSUME InTime' PROVE InStep(q[0])'
  <2>1. rd = wr
    BY <1>2, <1>3, <1>12 DEF InTime
  <2>2. LastWaits' /\ sent'[Len(sent')].pkt = Head(todo)
    BY <1>1, <1>4, <2>1, EmptyPipeTakes DEF UploadInv
  <2>3. ASSUME pl[1][2] > 0 PROVE Has(pl[1][1], pl[1][2] - 1)'
    <3>1. Head(todo).type # "FILE_UPLOAD_START"
      BY <1>9, <1>11, <2>3 DEF PacketAt, Cont, End
    <3>2. InTime
      BY <1>2, <1>3, <1>12, <3>1 DEF InTime
    <3>3. ~IsEnd(pl[0]) /\ pl[1] = <<pl[0][1], pl[0][2] + 1>>
      BY <1>9, <1>11, <2>3 DEF Follows
    <3>4. pl[0] \in Places
      BY <1>9, <3>3 DEF IsEnd
    <3>5. ~LastWaits
      BY <2>1, LastWaitingIsRead DEF UploadInv, IInv, TypeOK
    <3>6. Has(pl[0][1], pl[0][2])
      BY <1>7, <3>2, <3>3, <3>5 DEF InStep
    <3>7. pl[1][1] = pl[0][1] /\ pl[1][2] - 1 = pl[0][2]
      BY <3>3, <3>4, PlacesArePackets
    <3> QED BY <1>1, <3>6, <3>7 DEF Has
  <2> QED BY <1>8, <1>9, <1>11, <2>2, <2>3 DEF InStep
<1>13. InOrder'
  BY <1>8, <1>10, <1>12 DEF InOrder, m
<1>14. OpenIsWhole'
  <2> SUFFICES ASSUME InTime', open' # None
               PROVE  fbuf' = [name |-> open', data |-> Content[open']]
    BY DEF OpenIsWhole
  <2>1. InTime /\ open # None
    BY <1>1, <1>2, <1>3 DEF InTime
  <2> QED BY <1>1, <2>1 DEF UploadInv, OpenIsWhole
<1>15. FilesAreWholeOrEmpty'
  BY <1>1, <1>3, Zenon DEF UploadInv, FilesAreWholeOrEmpty
<1> QED BY <1>5, <1>6, <1>13, <1>14, <1>15 DEF UploadInv

\* What the receiver may find when it reads in time.
LEMMA RecvInStep ==
  ASSUME UploadInv, Recv, InTime
  PROVE  /\ rd' = wr' /\ AtFront = {Len(sent)}
         /\ \E pl \in [0..Len(todo) -> Places \cup {Nothing}] :
              /\ Stream(pl) /\ pl[0] \in Places
              /\ sent[Len(sent)].pkt = PacketAt(pl[0])
              /\ pl[0][2] > 0 => Has(pl[0][1], pl[0][2] - 1)
<1>1. PICK pl \in [0..Len(todo) -> Places \cup {Nothing}] : Stream(pl) /\ InStep(pl[0])
  BY DEF UploadInv, InOrder
<1>2. rd < wr /\ rd' = rd + Taken /\ wr' = wr /\ rd \in Nat /\ wr \in Nat
  BY DEF Recv, PacketRecv, UploadInv, IInv, TypeOK
<1>3. /\ LastWaits /\ pl[0] # Nothing
      /\ sent[Len(sent)].pkt = PacketAt(pl[0])
      /\ pl[0][2] > 0 => Has(pl[0][1], pl[0][2] - 1)
  <2>1. rd # wr
    BY <1>2
  <2> QED BY <1>1, <2>1 DEF InStep
<1>4. rd + Taken = wr /\ AtFront = {Len(sent)}
  BY <1>3, LastWaitingIsRead DEF UploadInv
<1>5. pl[0] \in Places
  <2>1. 0 \in 0..Len(todo)
    BY DEF UploadInv, UploadTyped
  <2> QED BY <1>1, <1>3, <2>1
<1> QED BY <1>1, <1>2, <1>3, <1>4, <1>5

\* Once packets were late, it is enough that the types are kept.
LEMMA OutOfTime ==
  ASSUME UploadInv, ~InTime, UNCHANGED <<todo, prompt, late, sent>>,
         IInv', UploadTyped'
  PROVE  UploadInv'
<1>1. ~InTime' /\ FilesAreWholeOrEmpty'
  BY DEF InTime, FilesAreWholeOrEmpty
<1>2. PICK pl \in [0..Len(todo) -> Places \cup {Nothing}] : Stream(pl)
  BY DEF UploadInv, InOrder
<1>3. Stream(pl)'
  BY <1>2 DEF Stream
<1> QED BY <1>1, <1>2, <1>3 DEF UploadInv, InOrder, OpenIsWhole

\* It is enough that what comes out of a read leaves the receiver in step, or
\* opens the file that was sent.
LEMMA RecvKeeps ==
  ASSUME UploadInv, Recv, UNCHANGED <<open, disk>>, fbuf' \in Buffers,
         \A p \in Places : InTime /\ sent[Len(sent)].pkt = PacketAt(p)
             /\ AtFront = {Len(sent)} /\ (p[2] > 0 => Has(p[1], p[2] - 1))
           => Has(p[1], p[2])'
  PROVE  UploadInv'
<1>1. UNCHANGED <<asked, todo, killed, prompt, late, sent>> /\ open = None /\ PacketRecv
  BY DEF Recv, PacketRecv
<1>2. IInv'
  BY <1>1, RecvKeepsInv DEF UploadInv
<1>3. UploadTyped' /\ FilesAreWholeOrEmpty'
  BY <1>1 DEF UploadInv, UploadTyped, FilesAreWholeOrEmpty
<1>4. InTime' <=> InTime
  BY <1>1 DEF InTime
<1>5. CASE ~InTime
  <2>1. PICK pl \in [0..Len(todo) -> Places \cup {Nothing}] : Stream(pl)
    BY DEF UploadInv, InOrder
  <2>2. Stream(pl)'
    BY <1>1, <2>1 DEF Stream
  <2> QED BY <1>1, <1>2, <1>3, <1>4, <1>5, <2>1, <2>2 DEF UploadInv, InOrder, OpenIsWhole
<1>6. CASE InTime
  <2>1. PICK pl \in [0..Len(todo) -> Places \cup {Nothing}] :
          /\ Stream(pl) /\ pl[0] \in Places
          /\ sent[Len(sent)].pkt = PacketAt(pl[0])
          /\ pl[0][2] > 0 => Has(pl[0][1], pl[0][2] - 1)
    BY <1>6, RecvInStep
  <2>2. rd' = wr' /\ Has(pl[0][1], pl[0][2])'
    BY <1>6, <2>1, RecvInStep
  <2>3. Stream(pl)'
    BY <1>1, <2>1 DEF Stream
  <2>4. InStep(pl[0])'
    BY <2>2 DEF InStep
  <2>5. open' = None
    BY <2>2 DEF Has
  <2> QED BY <1>1, <1>2, <1>3, <2>1, <2>3, <2>4, <2>5 DEF UploadInv, InOrder, OpenIsWhole
<1> QED BY <1>5, <1>6

\* No two packets of different types are alike, and chunks and names are read
\* as they were sent.
LEMMA PacketsDiffer ==
  ASSUME NEW p \in Places
  PROVE  /\ \A f : PacketAt(p) = Start(f) => p[2] = 0 /\ p[1] = f
         /\ \A c : PacketAt(p) = Cont(c) =>
              p[2] \in 1..Len(Content[p[1]]) /\ Content[p[1]][p[2]] = c
         /\ PacketAt(p) = End => IsEnd(p)
<1>1. p[1] \in Files /\ p[2] \in Nat /\ p[2] <= Len(Content[p[1]]) + 1
      /\ Len(Content[p[1]]) \in Nat
  BY ContentTyped DEF Places
<1>2. \A f, c : Start(f) # Cont(c) /\ Start(f) # End /\ Cont(c) # End
  BY DEF Start, Cont, End
<1>3. \A f, g : /\ Start(f) = Start(g) => f = g
                /\ Cont(f) = Cont(g) => f = g
  <2>1. \A f : Start(f).body = f /\ Cont(f).body = f
    BY DEF Start, Cont
  <2> QED BY <2>1
<1>4. CASE p[2] = 0
  BY <1>2, <1>3, <1>4 DEF PacketAt
<1>5. CASE p[2] # 0 /\ p[2] <= Len(Content[p[1]])
  BY <1>1, <1>2, <1>3, <1>5 DEF PacketAt
<1>6. CASE p[2] # 0 /\ ~(p[2] <= Len(Content[p[1]]))
  BY <1>1, <1>2, <1>6 DEF PacketAt, IsEnd
<1> QED BY <1>4, <1>5, <1>6

LEMMA RecvStartKeeps ==
  ASSUME UploadInv, NEW f \in Files, RecvStart(f)
  PROVE  UploadInv'
<1>1. Recv /\ disk' = disk /\ open' = open /\ fbuf' = [name |-> f, data |-> <<>>]
      /\ open = None
  BY DEF RecvStart, StartFile, Recv
<1>2. ASSUME NEW p \in Places, AtFront = {Len(sent)},
             sent[Len(sent)].pkt = PacketAt(p)
      PROVE  Has(p[1], p[2])'
  <2>1. PacketAt(p) = Start(f)
    BY <1>2 DEF RecvStart, Arrives, Start
  <2>2. p[2] = 0 /\ p[1] = f
    BY <2>1, PacketsDiffer
  <2>3. SubSeq(Content[f], 1, 0) = <<>>
    BY ContentTyped
  <2> QED BY <1>1, <2>2, <2>3 DEF Has
<1>3. fbuf' \in Buffers
  BY <1>1 DEF Buffers
<1> QED BY <1>1, <1>2, <1>3, RecvKeeps

LEMMA RecvContKeeps ==
  ASSUME UploadInv, NEW c \in Chunks, RecvCont(c)
  PROVE  UploadInv'
<1>1. Recv /\ disk' = disk /\ open' = open
      /\ fbuf' = [fbuf EXCEPT !.data = Append(@, c)] /\ open = None
  BY DEF RecvCont, AddChunk, Recv
<1>2. ASSUME NEW p \in Places, AtFront = {Len(sent)},
             sent[Len(sent)].pkt = PacketAt(p), p[2] > 0 => Has(p[1], p[2] - 1)
      PROVE  Has(p[1], p[2])'
  <2>1. PacketAt(p) = Cont(c)
    BY <1>2 DEF RecvCont, Arrives, Cont
  <2>2. p[2] \in 1..Len(Content[p[1]]) /\ Content[p[1]][p[2]] = c /\ p[1] \in Files
    BY <2>1, PacketsDiffer, PlacesArePackets
  <2>3. Content[p[1]] \in Seq(Chunks) /\ Len(Content[p[1]]) \in Nat
    BY <2>2, ContentTyped
  <2>4. fbuf = [name |-> p[1], data |-> SubSeq(Content[p[1]], 1, p[2] - 1)]
    BY <1>2, <2>2, <2>3 DEF Has
  <2>5. Append(SubSeq(Content[p[1]], 1, p[2] - 1), c) = SubSeq(Content[p[1]], 1, p[2])
    <3> DEFINE C == Content[p[1]]
               k == p[2]
    <3>1. C \in Seq(Chunks) /\ k \in 1..Len(C) /\ Len(C) \in Nat /\ c = C[k]
      BY <2>2, <2>3
    <3> HIDE DEF C, k
    <3>2. /\ SubSeq(C, 1, k - 1) \in Seq(Chunks) /\ Len(SubSeq(C, 1, k - 1)) = k - 1
          /\ SubSeq(C, 1, k) \in Seq(Chunks) /\ Len(SubSeq(C, 1, k)) = k
          /\ \A i \in 1..(k - 1) : SubSeq(C, 1, k - 1)[i] = C[i]
          /\ \A i \in 1..k : SubSeq(C, 1, k)[i] = C[i]
      BY <3>1
    <3>3. Append(SubSeq(C, 1, k - 1), c) = SubSeq(C, 1, k)
      BY <3>1, <3>2
    <3> QED BY <3>3 DEF C, k
  <2>6. fbuf' = [name |-> p[1], data |-> SubSeq(Content[p[1]], 1, p[2])]
    BY <1>1, <2>4, <2>5
  <2> QED BY <1>1, <2>6 DEF Has
<1>3. fbuf' \in Buffers
  <2>1. fbuf \in Buffers /\ fbuf.data \in Seq(Chunks)
    BY DEF UploadInv, UploadTyped, Buffers
  <2>2. Append(fbuf.data, c) \in Seq(Chunks)
    BY <2>1
  <2> QED BY <1>1, <2>1, <2>2 DEF Buffers
<1> QED BY <1>1, <1>2, <1>3, RecvKeeps

\* Bytes from inside a packet are only read when packets were late.
LEMMA RecvGarbageKeeps ==
  ASSUME UploadInv, RecvGarbage
  PROVE  UploadInv'
<1>1. /\ Recv /\ PacketRecv /\ AtFront = {} /\ open = None
      /\ UNCHANGED <<asked, todo, killed, prompt, late, sent>>
  BY DEF RecvGarbage, Recv, PacketRecv
<1>2. ~InTime
  <2>1. InTime => AtFront = {Len(sent)}
    BY <1>1, RecvInStep
  <2> QED BY <1>1, <2>1
<1>3. IInv'
  BY <1>1, RecvKeepsInv DEF UploadInv
<1>4. ASSUME NEW f \in Files, StartFile(f) PROVE fbuf' \in Buffers
  BY <1>4 DEF StartFile, Buffers
<1>5. ASSUME NEW c \in Chunks, AddChunk(c) PROVE fbuf' \in Buffers
  <2>1. fbuf \in Buffers /\ fbuf.data \in Seq(Chunks)
    BY DEF UploadInv, UploadTyped, Buffers
  <2>2. Append(fbuf.data, c) \in Seq(Chunks)
    BY <2>1
  <2> QED BY <1>5, <2>1, <2>2 DEF AddChunk, Buffers
<1>6. CASE OpenFile
  <2>1. UploadTyped'
    BY <1>1, <1>6 DEF OpenFile, UploadInv, UploadTyped, Buffers
  <2> QED BY <1>1, <1>2, <1>3, <2>1, OutOfTime
<1>7. CASE UNCHANGED <<open, disk>> /\ fbuf' \in Buffers
  <2>1. UploadTyped'
    BY <1>1, <1>7 DEF UploadInv, UploadTyped
  <2> QED BY <1>1, <1>2, <1>3, <2>1, OutOfTime
<1>8. CASE UNCHANGED receiverVars
  BY <1>7, <1>8 DEF receiverVars, UploadInv, UploadTyped
<1> QED BY <1>4, <1>5, <1>6, <1>7, <1>8 DEF RecvGarbage, StartFile, AddChunk

\* The end packet opens the file that was sent, and finds all of it.
LEMMA RecvEndKeeps ==
  ASSUME UploadInv, RecvEnd
  PROVE  UploadInv'
<1>1. /\ Recv /\ PacketRecv /\ UNCHANGED <<asked, todo, killed, prompt, late, sent, fbuf>>
      /\ open' = fbuf.name
      /\ disk' = [f \in Files |-> IF f = fbuf.name THEN <<>> ELSE disk[f]]
  BY DEF RecvEnd, OpenFile, Recv, PacketRecv
<1>2. IInv'
  BY <1>1, RecvKeepsInv DEF UploadInv
<1>3. UploadTyped' /\ FilesAreWholeOrEmpty'
  BY <1>1 DEF UploadInv, UploadTyped, Buffers, FilesAreWholeOrEmpty
<1>4. InTime' <=> InTime
  BY <1>1 DEF InTime
<1>5. CASE ~InTime
  <2>1. PICK pl \in [0..Len(todo) -> Places \cup {Nothing}] : Stream(pl)
    BY DEF UploadInv, InOrder
  <2>2. Stream(pl)'
    BY <1>1, <2>1 DEF Stream
  <2> QED BY <1>1, <1>2, <1>3, <1>4, <1>5, <2>1, <2>2 DEF UploadInv, InOrder, OpenIsWhole
<1>6. CASE InTime
  <2>1. PICK pl \in [0..Len(todo) -> Places \cup {Nothing}] :
          /\ Stream(pl) /\ pl[0] \in Places
          /\ sent[Len(sent)].pkt = PacketAt(pl[0])
          /\ pl[0][2] > 0 => Has(pl[0][1], pl[0][2] - 1)
    BY <1>1, <1>6, RecvInStep
  <2>2. rd' = wr' /\ AtFront = {Len(sent)}
    BY <1>1, <1>6, RecvInStep
  <2>3. PacketAt(pl[0]) = End
    BY <2>1, <2>2 DEF RecvEnd, Arrives, End
  <2>4. IsEnd(pl[0]) /\ pl[0] # Nothing
    BY <2>1, <2>3, PacketsDiffer, PlacesArePackets
  <2> DEFINE f == pl[0][1]
  <2>5. /\ f \in Files /\ pl[0][2] = Len(Content[f]) + 1
        /\ Content[f] \in Seq(Chunks) /\ Len(Content[f]) \in Nat /\ f # None
    BY <2>1, <2>4, PlacesArePackets, ContentTyped DEF IsEnd
  <2>6. fbuf = [name |-> f, data |-> SubSeq(Content[f], 1, Len(Content[f]))]
    BY <2>1, <2>5 DEF Has
  <2>7. SubSeq(Content[f], 1, Len(Content[f])) = Content[f]
    BY <2>5, SubSeqFull
  <2>8. fbuf' = [name |-> open', data |-> Content[open']]
    BY <1>1, <2>6, <2>7
  <2>9. Stream(pl)'
    BY <1>1, <2>1 DEF Stream
  <2>10. InStep(pl[0])'
    BY <2>2, <2>4 DEF InStep
  <2> QED BY <1>1, <1>2, <1>3, <2>1, <2>8, <2>9, <2>10 DEF UploadInv, InOrder, OpenIsWhole
<1> QED BY <1>5, <1>6

LEMMA WriteFileKeeps ==
  ASSUME UploadInv, WriteFile
  PROVE  /\ UploadInv'
         /\ prompt => disk'[open] = Content[open]
<1>1. /\ open # None /\ open' = None
      /\ disk' = [disk EXCEPT ![open] = fbuf.data]
      /\ UNCHANGED <<asked, todo, killed, prompt, sent, wr, rd, got, late>>
  BY DEF WriteFile, linkVars
<1>2. IInv'
  BY <1>1 DEF UploadInv, IInv, TypeOK, StartsGrow, StartsAreWritten, GotIsRead
<1>3. UploadTyped'
  <2>1. disk = [f \in Files |-> disk[f]]
    BY DEF UploadInv, UploadTyped
  <2>2. disk' = [f \in Files |-> disk'[f]]
    BY <1>1, <2>1
  <2>3. fbuf' \in Buffers
    <3>1. fbuf' = [fbuf EXCEPT !.data = <<>>] /\ <<>> \in Seq(Chunks)
      BY DEF WriteFile
    <3>2. fbuf \in Buffers
      BY DEF UploadInv, UploadTyped
    <3> QED BY <3>1, <3>2 DEF Buffers
  <2> QED BY <1>1, <2>2, <2>3 DEF UploadInv, UploadTyped
<1>4. InTime => fbuf.data = Content[open]
  BY <1>1 DEF UploadInv, OpenIsWhole
<1>5. \A f \in Files : disk'[f] = IF f = open THEN fbuf.data ELSE disk[f]
  <2>1. disk = [f \in Files |-> disk[f]]
    BY DEF UploadInv, UploadTyped
  <2> QED BY <1>1, <2>1
<1>6. FilesAreWholeOrEmpty'
  BY <1>1, <1>4, <1>5 DEF UploadInv, FilesAreWholeOrEmpty, InTime
<1>7. OpenIsWhole'
  BY <1>1 DEF OpenIsWhole
<1>8. PICK pl \in [0..Len(todo) -> Places \cup {Nothing}] : Stream(pl) /\ (InTime => InStep(pl[0]))
  BY DEF UploadInv, InOrder
<1>9. Stream(pl)'
  BY <1>1, <1>8 DEF Stream
<1>10. InTime' => InStep(pl[0])'
  BY <1>1, <1>8 DEF InTime, InStep, LastWaits, Has
<1>11. InOrder'
  BY <1>1, <1>8, <1>9, <1>10 DEF InOrder
<1>12. open \in Files
  BY <1>1 DEF UploadInv, UploadTyped
<1> QED BY <1>2, <1>3, <1>4, <1>12, <1>5, <1>6, <1>7, <1>11 DEF UploadInv, InTime

LEMMA UploadStays ==
  ASSUME UploadInv,
         UNCHANGED <<todo, fbuf, open, disk, prompt, sent, wr, rd, got, late>>
  PROVE  UploadInv'
<1>1. IInv' /\ UploadTyped' /\ OpenIsWhole' /\ FilesAreWholeOrEmpty'
  BY DEF UploadInv, IInv, TypeOK, StartsGrow, StartsAreWritten, GotIsRead, UploadTyped,
         OpenIsWhole, FilesAreWholeOrEmpty, InTime
<1>2. PICK pl \in [0..Len(todo) -> Places \cup {Nothing}] : Stream(pl) /\ (InTime => InStep(pl[0]))
  BY DEF UploadInv, InOrder
<1>3. Stream(pl)'
  BY <1>2 DEF Stream
<1>4. InTime' => InStep(pl[0])'
  BY <1>2 DEF InTime, InStep, LastWaits, Has
<1> QED BY <1>1, <1>2, <1>3, <1>4 DEF UploadInv, InOrder

LEMMA UploadNextKeeps ==
  ASSUME UploadInv, PipeHoldsARead, [UploadNext]_vars
  PROVE  UploadInv'
<1>1. CASE UNCHANGED vars
  BY <1>1, UploadStays DEF vars, receiverVars, linkVars
<1>2. CASE Kill
  BY <1>2, UploadStays DEF Kill, receiverVars, linkVars
<1>3. ASSUME NEW f \in Files, FileUploadSend(f) \/ RecvStart(f) PROVE UploadInv'
  BY <1>3, FileUploadSendKeeps, RecvStartKeeps
<1>4. ASSUME NEW c \in Chunks, RecvCont(c) PROVE UploadInv'
  BY <1>4, RecvContKeeps
<1>5. CASE SendPkt
  BY <1>5, SendPktKeeps
<1>6. CASE RecvGarbage
  BY <1>6, RecvGarbageKeeps
<1>7. CASE RecvEnd
  BY <1>7, RecvEndKeeps
<1>8. CASE WriteFile
  BY <1>8, WriteFileKeeps
<1> QED BY <1>1, <1>2, <1>3, <1>4, <1>5, <1>6, <1>7, <1>8 DEF UploadNext

\* A file at a receiver that keeps up is the old one, the new one or empty,
\* wherever the manager kills the receiver (host.c:603-624, main.c:59).
THEOREM UploadsAreWholeOrEmpty ==
  ASSUME PipeHoldsARead
  PROVE  UploadSpec => []FilesAreWholeOrEmpty
<1>1. UploadInit => UploadInv
  BY UploadInitInv
<1>2. UploadInv /\ [UploadNext]_vars => UploadInv'
  BY UploadNextKeeps
<1>3. UploadInv => FilesAreWholeOrEmpty
  BY DEF UploadInv
<1> QED BY <1>1, <1>2, <1>3, PTL DEF UploadSpec

\* An upload whose packets all find the pipe empty and the receiver idle is
\* stored whole, whatever was lost, cut or late in those before (host.c:563).
THEOREM PromptUploads ==
  ASSUME PipeHoldsARead
  PROVE  UploadSpec => PromptUploadsAreWhole
<1>1. UploadInit => UploadInv
  BY UploadInitInv
<1>2. UploadInv /\ [UploadNext]_vars => UploadInv'
  BY UploadNextKeeps
<1>3. UploadInv => [WriteFile /\ prompt => disk'[open] = Content[open]]_vars
  BY WriteFileKeeps
<1> QED BY <1>1, <1>2, <1>3, PTL DEF UploadSpec, PromptUploadsAreWhole

\* The pipe under the uploads is a Link: what is shown of links holds there.
LEMMA UploadsUseALink == UploadSpec => Spec
<1> DEFINE Typed == todo \in Seq(Packets)
<1>1. UploadInit => Typed /\ Init
  BY DEF UploadInit
<1>2. Typed /\ [UploadNext]_vars => Typed' /\ [Next]_linkVars
  <2> SUFFICES ASSUME Typed, [UploadNext]_vars PROVE Typed' /\ [Next]_linkVars
    OBVIOUS
  <2>1. CASE UNCHANGED vars
    BY <2>1 DEF vars
  <2>2. CASE SendPkt
    <3>1. PacketSend(Head(todo)) /\ Head(todo) \in Packets /\ todo' \in Seq(Packets)
      BY <2>2 DEF SendPkt
    <3> QED BY <3>1 DEF Next
  <2>3. CASE Recv
    BY <2>3 DEF Recv, Next
  <2>4. ASSUME NEW f \in Files, RecvStart(f) PROVE Recv
    BY <2>4 DEF RecvStart
  <2>5. ASSUME NEW c \in Chunks, RecvCont(c) PROVE Recv
    BY <2>5 DEF RecvCont
  <2>6. CASE RecvGarbage \/ RecvEnd
    BY <2>3, <2>6 DEF RecvGarbage, RecvEnd
  <2>7. ASSUME NEW f \in Files, FileUploadSend(f) PROVE Typed' /\ UNCHANGED linkVars
    BY <2>7, FilePackets DEF FileUploadSend
  <2>8. CASE WriteFile \/ Kill
    BY <2>8 DEF WriteFile, Kill
  <2> QED BY <2>1, <2>2, <2>3, <2>4, <2>5, <2>6, <2>7, <2>8 DEF UploadNext
<1> QED BY <1>1, <1>2, PTL DEF UploadSpec, Spec

\* Under uploads the pipe is a channel, and the queue of packets of the network
\* while its reader keeps up (packet.c:52, 77).
THEOREM LinkUnderUploads ==
  ASSUME PipeHoldsARead
  PROVE  UploadSpec => []TypeOK /\ ChannelSpec /\ PipeSpec
BY UploadsUseALink, LinkTyped, LinkIsOrdered, LinkIsPacketQueue, PTL
=============================================================================
