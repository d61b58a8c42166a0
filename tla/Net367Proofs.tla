---------------------------- MODULE Net367Proofs ----------------------------
(***************************************************************************)
(* Proofs about module Net367, for every network, every user and every     *)
(* size of the pipes; then about TreeNet, for every tree of switches, which*)
(* is where TreeAssumption is used; and at the end about Uploads, for      *)
(* every network with one switch.                                          *)
(***************************************************************************)
EXTENDS TreeNet, Uploads, SequenceTheorems, TLAPS

-----------------------------------------------------------------------------
(* The pipes                                                               *)

\* A read leaves a pipe of packets, and a write adds at most its packet.
LEMMA UnreadType ==
  ASSUME NEW S, NEW q \in Seq(S)
  PROVE  Unread(q) \in Seq(S) /\ Taken(q) \in Nat \ {0}
<1>1. Taken(q) \in Nat \ {0}
  BY SizeAssumption DEF Taken
<1> QED BY <1>1, SubSeqProperties DEF Unread

\* A packet written to pipes leaves them pipes of packets.
LEMMA PutOnType ==
  ASSUME NEW pipes \in [Wires -> Seq(Packet)], NEW ws, NEW p \in Packet
  PROVE  PutOn(ws, pipes, p) \in [Wires -> Seq(Packet)]
BY DEF PutOn, Write

\* And so does a read.
LEMMA TakeFromType ==
  ASSUME NEW pipes \in [Wires -> Seq(Packet)], NEW w \in Wires
  PROVE  TakeFrom(w, pipes) \in [Wires -> Seq(Packet)]
<1>1. Unread(pipes[w]) \in Seq(Packet)
  BY UnreadType
<1> QED
  BY <1>1 DEF TakeFrom

\* Every node has a number of ports, and a switch at least one.
LEMMA PortNumber ==
  /\ \A n \in Nodes : Len(Port[n]) \in Nat
  /\ \A h \in Hosts : Len(Port[h]) \in Nat
  /\ \A s \in Switches : Len(Port[s]) \in Nat \ {0}
<1>1. \A n \in Nodes : Port[n] \in Seq(Nodes)
  BY TopologyAssumption
<1>2. \A s \in Switches : Port[s] # <<>>
  BY TopologyAssumption
<1> QED
  BY <1>1, <1>2, EmptySeq, LenProperties DEF Nodes

\* Every port of a node is the far end of a wire that comes in on it.
LEMMA PortWire ==
  ASSUME NEW n \in Nodes, NEW k \in 1..Len(Port[n])
  PROVE  <<Port[n][k], n>> \in Wires
<1>1. Port[n] \in Seq(Nodes) /\ n \in Neighbours(Port[n][k])
  BY TopologyAssumption
<1> QED
  BY <1>1 DEF Wires

-----------------------------------------------------------------------------
(* Types                                                                   *)

\* The program starts with a value of its type in every variable.
LEMMA InitTyped == Init => TypeOK
<1> SUFFICES ASSUME Init PROVE TypeOK
  OBVIOUS
<1> USE DEF Init, ManInit, HostInit, SwitchInit, PipeInit
<1>1. ManTypeOK
  BY UserAssumption DEF ManTypeOK
<1>2. HostTypeOK
  BY PortNumber, HostAssumption DEF HostTypeOK
<1>3. SwitchTypeOK
  BY PortNumber DEF SwitchTypeOK
<1> QED
  BY <1>1, <1>2, <1>3 DEF TypeOK

\* What the user types next is a command of the user, and so is the rest.
LEMMA TypedType ==
  ASSUME TypeOK, NEW o, Typed(o)
  PROVE  /\ Head(script) \in UserOp
         /\ Head(script).op = o
         /\ script' \in Seq(UserOp)
BY HeadTailProperties DEF TypeOK, ManTypeOK, Typed

\* A command sent to the current host changes that host's pipe only.
LEMMA SendCommandType ==
  ASSUME TypeOK, NEW c \in Command, SendCommand(c)
  PROVE  /\ cmdPipe' \in [Hosts -> Seq(Command)]
         /\ curr' \in Hosts /\ UNCHANGED <<link, replyPipe>>
<1>1. Append(cmdPipe[curr], c) \in Seq(Command)
  BY AppendProperties DEF TypeOK, ManTypeOK
<1> QED
  BY <1>1 DEF TypeOK, ManTypeOK, SendCommand

\* Types are kept by every step of the manager (man.c:350).
LEMMA ManStepTyped ==
  ASSUME TypeOK, ManStep
  PROVE  TypeOK'
<1> DEFINE c == Head(script)
<1>1. /\ HostTypeOK' /\ SwitchTypeOK'
  BY DEF TypeOK, HostTypeOK, SwitchTypeOK, ManStep, hostVars, switchVars
<1> SUFFICES /\ ManTypeOK'
             /\ link' \in [Wires -> Seq(Packet)]
             /\ cmdPipe' \in [Hosts -> Seq(Command)]
             /\ replyPipe' \in [Hosts -> Seq(Reply)]
  BY <1>1 DEF TypeOK
<1>2. CASE DisplayHostState
  <2>1. c \in Command /\ script' \in Seq(UserOp)
    BY <1>2, TypedType DEF DisplayHostState, UserOp, Command
  <2> QED
    BY <1>2, <2>1, SendCommandType
    DEF DisplayHostState, TypeOK, ManTypeOK
<1>3. CASE Ping
  <2>1. c \in Command /\ script' \in Seq(UserOp) /\ c.dst \in Ids
    BY <1>3, TypedType DEF Ping, UserOp, Command
  <2> QED
    BY <1>3, <2>1, SendCommandType DEF Ping, TypeOK, ManTypeOK
<1>4. CASE SetHostDir
  <2>1. c \in Command /\ script' \in Seq(UserOp)
    BY <1>4, TypedType DEF SetHostDir, UserOp, Command
  <2> QED
    BY <1>4, <2>1, SendCommandType DEF SetHostDir, TypeOK, ManTypeOK
<1>5. CASE FileUpload
  <2>1. c \in Command /\ script' \in Seq(UserOp)
    BY <1>5, TypedType DEF FileUpload, UserOp, Command
  <2> QED
    BY <1>5, <2>1, SendCommandType DEF FileUpload, TypeOK, ManTypeOK
<1>6. CASE FileDownload
  <2>1. [c EXCEPT !.op = "u"] \in Command /\ script' \in Seq(UserOp)
    BY <1>6, TypedType DEF FileDownload, UserOp, Command
  <2> QED
    BY <1>6, <2>1, SendCommandType DEF FileDownload, TypeOK, ManTypeOK
<1>7. CASE ChangeHost
  <2>1. script' \in Seq(UserOp)
    BY <1>7, TypedType DEF ChangeHost
  <2> QED
    BY <1>7, <2>1 DEF ChangeHost, TypeOK, ManTypeOK, pipeVars
<1>8. CASE Quit
  <2>1. script' \in Seq(UserOp)
    BY <1>8, TypedType DEF Quit
  <2> QED
    BY <1>8, <2>1 DEF Quit, TypeOK, ManTypeOK, pipeVars
<1>9. CASE GetReply
  BY <1>9 DEF GetReply, TypeOK, ManTypeOK
<1> QED
  BY <1>2, <1>3, <1>4, <1>5, <1>6, <1>7, <1>8, <1>9 DEF ManStep, UserStep

\* The command a host executes.
LEMMA GetCommandType ==
  ASSUME TypeOK, NEW h \in Hosts, NEW o, GetCommand(h, o)
  PROVE  /\ Head(cmdPipe[h]) \in Command
         /\ Head(cmdPipe[h]).op = o
         /\ cmdPipe' \in [Hosts -> Seq(Command)]
         /\ at' \in [Hosts -> Nat]
         /\ \A g \in Hosts : at'[g] <= Len(Port[g]) + 1
         /\ UNCHANGED <<link, fbuf, disk>>
<1>1. Head(cmdPipe[h]) \in Command
  BY HeadTailProperties DEF TypeOK, GetCommand
<1> QED
  BY <1>1, PortNumber DEF TypeOK, HostTypeOK, GetCommand

\* An answer is one of the texts of a Reply, with a directory at most.
LEMMA AnswerType ==
  ASSUME TypeOK, NEW h \in Hosts, NEW text, NEW d \in Dirs \cup {None, Garbled},
         text \in {"state", "Ping acked!", "Ping time out!"},
         Answer(h, text, d)
  PROVE  replyPipe' \in [Hosts -> Seq(Reply)]
<1>1. [text |-> text, dir |-> d] \in Reply
  BY DEF Reply
<1>2. Append(replyPipe[h], [text |-> text, dir |-> d]) \in Seq(Reply)
  BY <1>1, AppendProperties DEF TypeOK
<1> QED
  BY <1>2 DEF TypeOK, Answer

\* Types are kept when a host reads its command pipe (host.c:133).
LEMMA CommandStepTyped ==
  ASSUME TypeOK, NEW h \in Hosts, CommandStep(h)
  PROVE  /\ HostTypeOK'
         /\ link' \in [Wires -> Seq(Packet)]
         /\ cmdPipe' \in [Hosts -> Seq(Command)]
         /\ replyPipe' \in [Hosts -> Seq(Reply)]
<1> DEFINE c == Head(cmdPipe[h])
<1>1. CASE NoCommand(h)
  BY <1>1, PortNumber DEF NoCommand, TypeOK, HostTypeOK, pipeVars
<1>2. CASE ReplyDisplayHostState(h)
  <2>1. dir[h] \in Dirs \cup {None, Garbled}
    BY DEF TypeOK, HostTypeOK
  <2>2. replyPipe' \in [Hosts -> Seq(Reply)]
    BY <1>2, <2>1, AnswerType DEF ReplyDisplayHostState
  <2> QED
    BY <1>2, <2>2, GetCommandType
    DEF ReplyDisplayHostState, TypeOK, HostTypeOK
<1>3. CASE SetDir(h)
  <2>1. c \in Command /\ c.op = "m"
    BY <1>3, GetCommandType DEF SetDir
  <2>2. LastArgument(h) \in Dirs \cup {Garbled}
    BY <2>1 DEF LastArgument, Command
  <2> QED
    BY <1>3, <2>2, GetCommandType DEF SetDir, TypeOK, HostTypeOK
<1>4. CASE StartPing(h)
  <2> DEFINE req == NewPacket(h, c.dst, "PING_REQ", None)
  <2>1. c \in Command /\ c.op = "p"
    BY <1>4, GetCommandType DEF StartPing
  <2>2. SendJob(req) \in Job /\ WaitFor(PingTimer) \in Job
    BY <2>1, HostAssumption
    DEF Command, NewPacket, Packet, PacketOf, SendJob, NewJob, WaitFor, Job,
        PacketJob, WaitJob
  <2>3. jobs[h] \o <<SendJob(req), WaitFor(PingTimer)>> \in Seq(Job)
    BY <2>2, ConcatProperties DEF TypeOK, HostTypeOK
  <2>4. jobs' \in [Hosts -> Seq(Job)]
    BY <1>4, <2>3 DEF StartPing, TypeOK, HostTypeOK
  <2> QED
    BY <1>4, <2>4, GetCommandType DEF StartPing, TypeOK, HostTypeOK
<1>5. CASE StartUpload(h)
  <2> DEFINE start == NewPacket(h, c.dst, "FILE_UPLOAD_START", LastArgument(h))
  <2>1. c \in Command /\ c.op = "u"
    BY <1>5, GetCommandType DEF StartUpload
  <2>2. NewJob("FILE_UPLOAD_SEND", start) \in Job
    BY <2>1
    DEF Command, LastArgument, NewPacket, PacketOf, NewJob, Job, UploadJob
  <2>3. Append(jobs[h], NewJob("FILE_UPLOAD_SEND", start)) \in Seq(Job)
    BY <2>2, AppendProperties DEF TypeOK, HostTypeOK
  <2>4. jobs' \in [Hosts -> Seq(Job)]
    BY <1>5, <2>3 DEF StartUpload, TypeOK, HostTypeOK
  <2> QED
    BY <1>5, <2>4, GetCommandType DEF StartUpload, TypeOK, HostTypeOK
<1> QED
  BY <1>1, <1>2, <1>3, <1>4, <1>5 DEF CommandStep

\* A packet for the host is not a ping reply: then it becomes a job.
LEMMA JobForType ==
  ASSUME NEW p \in Packet, p.type # "PING_REPLY"
  PROVE  JobFor(p) \in Job /\ ~IsWait(JobFor(p))
<1>1. CASE p.type = "PING_REQ"
  BY <1>1 DEF JobFor, NewJob, Packet, PacketOf, Job, PacketJob, IsWait
<1>2. CASE p.type = "FILE_UPLOAD_START"
  BY <1>2 DEF JobFor, NewJob, Packet, PacketOf, Job, PacketJob, IsWait
<1>3. CASE p.type = "FILE_UPLOAD_CONT"
  BY <1>3 DEF JobFor, NewJob, Packet, PacketOf, Job, PacketJob, IsWait
<1>4. CASE p.type = "FILE_UPLOAD_END"
  BY <1>4 DEF JobFor, NewJob, Packet, PacketOf, Job, PacketJob, IsWait
<1> QED
  BY <1>1, <1>2, <1>3, <1>4 DEF Packet, PacketOf

\* A scan reads a wire that exists, and takes packets off it only.
LEMMA ScanType ==
  ASSUME TypeOK, NEW h \in Hosts, ScanPort(h)
  PROVE  /\ InWire(h) \in Wires
         /\ link[InWire(h)] \in Seq(Packet)
         /\ at' \in [Hosts -> Nat]
         /\ \A g \in Hosts : at'[g] <= Len(Port[g]) + 1
<1>1. InWire(h) \in Wires
  BY PortWire DEF ScanPort, InWire, Nodes
<1>2. link[InWire(h)] \in Seq(Packet)
  BY <1>1 DEF TypeOK
<1>3. at \in [Hosts -> Nat] /\ \A g \in Hosts : at[g] <= Len(Port[g]) + 1
  BY DEF TypeOK, HostTypeOK
<1>4. at[h] + 1 \in Nat /\ at[h] + 1 <= Len(Port[h]) + 1
  BY <1>3, PortNumber DEF ScanPort
<1> QED
  BY <1>1, <1>2, <1>3, <1>4 DEF ScanPort

\* What a host reads from a wire is a packet.
LEMMA RecvType ==
  ASSUME TypeOK, NEW h \in Hosts, Recv(h)
  PROVE  Arrived(h) \in Packet /\ link' \in [Wires -> Seq(Packet)]
<1>1. InWire(h) \in Wires /\ link[InWire(h)] \in Seq(Packet)
  BY ScanType DEF Recv
<1>2. Arrived(h) \in Packet
  BY <1>1, HeadTailProperties DEF Recv, Arrived
<1> QED
  BY <1>1, <1>2, TakeFromType DEF Recv, TypeOK

\* Types are kept when a host reads a port (host.c:260).
LEMMA ScanStepTyped ==
  ASSUME TypeOK, NEW h \in Hosts, ScanStep(h)
  PROVE  /\ HostTypeOK'
         /\ link' \in [Wires -> Seq(Packet)]
         /\ cmdPipe' \in [Hosts -> Seq(Command)]
         /\ replyPipe' \in [Hosts -> Seq(Reply)]
<1>1. ScanPort(h)
  BY DEF ScanStep, RecvNothing, RecvOthers, RecvPingReply, RecvJob, Recv
<1>2. CASE RecvNothing(h)
  BY <1>1, <1>2, ScanType DEF RecvNothing, ScanPort, TypeOK, HostTypeOK
<1>3. CASE RecvOthers(h)
  <2>1. Recv(h)
    BY <1>3 DEF RecvOthers
  <2> QED
    BY <1>1, <1>3, <2>1, ScanType, RecvType
    DEF RecvOthers, ScanPort, TypeOK, HostTypeOK
<1>4. CASE RecvPingReply(h)
  <2>1. Recv(h)
    BY <1>4 DEF RecvPingReply
  <2>2. Arrived(h).src \in Hosts
    BY <2>1, RecvType DEF Packet, PacketOf
  <2> QED
    BY <1>1, <1>4, <2>1, <2>2, ScanType, RecvType
    DEF RecvPingReply, ScanPort, TypeOK, HostTypeOK
<1>5. CASE RecvJob(h)
  <2>1. Recv(h)
    BY <1>5 DEF RecvJob
  <2>2. JobFor(Arrived(h)) \in Job
    BY <1>5, <2>1, RecvType, JobForType DEF RecvJob
  <2>3. jobs' \in [Hosts -> Seq(Job)]
    <3>1. Append(jobs[h], JobFor(Arrived(h))) \in Seq(Job)
      BY <2>2, AppendProperties DEF TypeOK, HostTypeOK
    <3> QED
      BY <1>5, <3>1 DEF RecvJob, TypeOK, HostTypeOK
  <2> QED
    BY <1>1, <1>5, <2>1, <2>3, ScanType, RecvType
    DEF RecvJob, ScanPort, TypeOK, HostTypeOK
<1> QED
  BY <1>2, <1>3, <1>4, <1>5 DEF ScanStep

-----------------------------------------------------------------------------
(* Types: the jobs                                                         *)

\* A job that runs leaves a queue of jobs, with those it adds at the end.
LEMMA RunJobType ==
  ASSUME TypeOK, NEW h \in Hosts, NEW t, NEW more \in Seq(Job),
         RunJob(h, t, more)
  PROVE  /\ jobs[h] \in Seq(Job) /\ jobs[h] # <<>>
         /\ Head(jobs[h]) \in Job
         /\ Head(jobs[h]).type = t
         /\ jobs' \in [Hosts -> Seq(Job)]
         /\ jobs'[h] = Tail(jobs[h]) \o more
         /\ \A g \in Hosts \ {h} : jobs'[g] = jobs[g]
<1>1. jobs[h] \in Seq(Job) /\ jobs[h] # <<>> /\ Head(jobs[h]).type = t
  BY DEF RunJob, TypeOK, HostTypeOK
<1>2. Head(jobs[h]) \in Job /\ Tail(jobs[h]) \in Seq(Job)
  BY <1>1, HeadTailProperties
<1>3. Tail(jobs[h]) \o more \in Seq(Job)
  BY <1>2, ConcatProperties
<1> QED
  BY <1>1, <1>2, <1>3 DEF RunJob, TypeOK, HostTypeOK

\* The turn of the job queue goes back to the command pipe.
LEMMA JobTurnType ==
  ASSUME TypeOK, NEW h \in Hosts, JobTurn(h)
  PROVE  /\ at' \in [Hosts -> Nat]
         /\ \A g \in Hosts : at'[g] <= Len(Port[g]) + 1
         /\ UNCHANGED <<pinged, dir, cmdPipe>>
BY PortNumber DEF JobTurn, TypeOK, HostTypeOK

\* An upload is packets for the destination of its first one.
LEMMA UploadPacketsType ==
  ASSUME NEW start \in PacketOf({"FILE_UPLOAD_START"}, Names),
         NEW data \in Seq(Chunks)
  PROVE  /\ UploadPackets(start, data) \in Seq(Packet)
         /\ \A i \in DOMAIN UploadPackets(start, data) :
              /\ UploadPackets(start, data)[i].src = start.src
              /\ UploadPackets(start, data)[i].dst = start.dst
<1> DEFINE n     == IF Len(data) < MaxChunks THEN Len(data) ELSE MaxChunks
           sent  == SubSeq(data, 1, n)
           P     == {p \in Packet : p.src = start.src /\ p.dst = start.dst}
           conts == [i \in 1..Len(sent) |->
                       NewPacket(start.src, start.dst, "FILE_UPLOAD_CONT",
                                 sent[i])]
           last  == NewPacket(start.src, start.dst, "FILE_UPLOAD_END", None)
<1>1. n \in 0..Len(data)
  BY HostAssumption
<1>2. sent \in Seq(Chunks)
  BY <1>1, SubSeqProperties
<1>3. conts \in Seq(P)
  <2>1. \A i \in 1..Len(sent) : sent[i] \in Chunks
    BY <1>2
  <2> HIDE DEF sent
  <2>2. \A i \in 1..Len(sent) : conts[i] \in P
    BY <2>1 DEF NewPacket, Packet, PacketOf
  <2>3. Len(sent) \in Nat
    BY <1>2
  <2> QED
    BY <2>2, <2>3
<1>4. <<start>> \in Seq(P) /\ <<last>> \in Seq(P)
  BY DEF NewPacket, Packet, PacketOf
<1>5. UploadPackets(start, data) = <<start>> \o conts \o <<last>>
  BY DEF UploadPackets
<1> HIDE DEF conts, last, P, sent, n
<1>6. UploadPackets(start, data) \in Seq(P)
  BY <1>3, <1>4, <1>5, ConcatProperties
<1> QED
  BY <1>6, LenProperties, SeqMonotonic DEF P

\* Packets make as many send jobs, and no waits.
LEMMA SendJobsType ==
  ASSUME NEW ps \in Seq(Packet)
  PROVE  /\ SendJobs(ps) \in Seq(Job)
         /\ \A i \in DOMAIN SendJobs(ps) : ~IsWait(SendJobs(ps)[i])
<1>1. \A i \in 1..Len(ps) : SendJob(ps[i]) \in Job /\ ~IsWait(SendJob(ps[i]))
  BY DEF SendJob, NewJob, Job, PacketJob, IsWait
<1>2. Len(ps) \in Nat
  BY LenProperties
<1> QED
  BY <1>1, <1>2 DEF SendJobs

\* Types are kept by every kind of job (host.c:353).
LEMMA JobStepTyped ==
  ASSUME TypeOK, NEW h \in Hosts, JobStep(h)
  PROVE  /\ HostTypeOK'
         /\ link' \in [Wires -> Seq(Packet)]
         /\ cmdPipe' \in [Hosts -> Seq(Command)]
         /\ replyPipe' \in [Hosts -> Seq(Reply)]
<1> DEFINE j == Head(jobs[h])
<1>0. JobTurn(h)
  BY DEF JobStep, NoJob, RunJob, SendPktAllPorts, PingSendReply, PingAcked,
         PingWaitOn, PingTimeOut, FileUploadSend, FileUploadRecvStart,
         FileUploadRecvCont, FileUploadRecvEnd
<1> /\ <<>> \in Seq(Job)
    /\ fbuf \in [Hosts -> [name : Names \cup {None}, data : Seq(Chunks)]]
    /\ disk \in [Dirs -> [Names -> Contents]]
    /\ link \in [Wires -> Seq(Packet)]
    /\ cmdPipe \in [Hosts -> Seq(Command)]
    /\ replyPipe \in [Hosts -> Seq(Reply)]
  BY DEF TypeOK, HostTypeOK
<1> SUFFICES /\ jobs' \in [Hosts -> Seq(Job)]
             /\ fbuf' \in [Hosts -> [name : Names \cup {None},
                                     data : Seq(Chunks)]]
             /\ disk' \in [Dirs -> [Names -> Contents]]
             /\ link' \in [Wires -> Seq(Packet)]
             /\ replyPipe' \in [Hosts -> Seq(Reply)]
  BY <1>0, JobTurnType DEF TypeOK, HostTypeOK
<1>1. CASE NoJob(h)
  BY <1>1 DEF NoJob, TypeOK, HostTypeOK
<1>2. CASE SendPktAllPorts(h)
  <2>1. j \in Job /\ j.type = "SEND_PKT_ALL_PORTS"
        /\ jobs' \in [Hosts -> Seq(Job)]
    BY <1>2, RunJobType DEF SendPktAllPorts
  <2>2. j.pkt \in Packet
    BY <2>1 DEF Job, PacketJob, WaitJob, UploadJob
  <2> QED
    BY <1>2, <2>1, <2>2, PutOnType DEF SendPktAllPorts
<1>3. CASE PingSendReply(h)
  <2> DEFINE r == SendJob(NewPacket(h, j.pkt.src, "PING_REPLY", None))
  <2>1. RunJob(h, "PING_SEND_REPLY", <<r>>)
    BY <1>3 DEF PingSendReply
  <2>2. jobs[h] # <<>> /\ j.type = "PING_SEND_REPLY"
    BY <2>1 DEF RunJob
  <2>3. j \in Job
    BY <2>2, HeadTailProperties DEF TypeOK, HostTypeOK
  <2>4. j.pkt.src \in Ids
    BY <2>2, <2>3, TopologyAssumption
    DEF Job, PacketJob, WaitJob, UploadJob, PacketOf
  <2>5. r \in Job
    BY <2>4 DEF SendJob, NewJob, NewPacket, Job, PacketJob, Packet, PacketOf
  <2>6. jobs' \in [Hosts -> Seq(Job)]
    <3> HIDE DEF r
    <3>1. <<r>> \in Seq(Job)
      BY <2>5
    <3> QED
      BY <2>1, <3>1, RunJobType
  <2> QED
    BY <1>3, <2>6 DEF PingSendReply
<1>4. CASE PingAcked(h)
  <2>1. jobs' \in [Hosts -> Seq(Job)]
    BY <1>4, RunJobType DEF PingAcked
  <2>2. replyPipe' \in [Hosts -> Seq(Reply)]
    BY <1>4, AnswerType DEF PingAcked
  <2> QED
    BY <1>4, <2>1, <2>2 DEF PingAcked
<1>5. CASE PingWaitOn(h)
  <2> DEFINE w == WaitFor(j.timer - 1)
  <2>1. RunJob(h, "PING_WAIT_FOR_REPLY", <<w>>) /\ j.timer > 1
    BY <1>5 DEF PingWaitOn
  <2>2. jobs[h] # <<>> /\ j.type = "PING_WAIT_FOR_REPLY"
    BY <2>1 DEF RunJob
  <2>3. j \in Job
    BY <2>2, HeadTailProperties DEF TypeOK, HostTypeOK
  <2>4. j.timer \in 1..PingTimer
    BY <2>2, <2>3 DEF Job, PacketJob, WaitJob, UploadJob
  <2>5. w \in Job
    BY <2>1, <2>4, HostAssumption DEF WaitFor, Job, WaitJob
  <2>6. jobs' \in [Hosts -> Seq(Job)]
    <3> HIDE DEF w
    <3>1. <<w>> \in Seq(Job)
      BY <2>5
    <3> QED
      BY <2>1, <3>1, RunJobType
  <2> QED
    BY <1>5, <2>6 DEF PingWaitOn
<1>6. CASE PingTimeOut(h)
  <2>1. jobs' \in [Hosts -> Seq(Job)]
    BY <1>6, RunJobType DEF PingTimeOut
  <2>2. replyPipe' \in [Hosts -> Seq(Reply)]
    BY <1>6, AnswerType DEF PingTimeOut
  <2> QED
    BY <1>6, <2>1, <2>2 DEF PingTimeOut
<1>7. CASE FileUploadSend(h)
  <2> DEFINE data == FileOf(h, j.pkt.body)
             more == IF data = None THEN <<>>
                     ELSE SendJobs(UploadPackets(j.pkt, data))
  <2>1. RunJob(h, "FILE_UPLOAD_SEND", more)
    BY <1>7 DEF FileUploadSend
  <2>2. jobs[h] # <<>> /\ j.type = "FILE_UPLOAD_SEND"
    BY <2>1 DEF RunJob
  <2>3. j \in Job
    BY <2>2, HeadTailProperties DEF TypeOK, HostTypeOK
  <2>4. ASSUME data # None
        PROVE  /\ j.pkt \in PacketOf({"FILE_UPLOAD_START"}, Names)
               /\ data \in Seq(Chunks)
    BY <2>2, <2>3, <2>4
    DEF FileOf, Contents, Job, PacketJob, WaitJob, UploadJob, PacketOf
  <2>5. more \in Seq(Job)
    <3> HIDE DEF data
    <3>1. CASE data = None
      BY <3>1
    <3>2. CASE data # None
      BY <3>2, <2>4, UploadPacketsType, SendJobsType
    <3> QED
      BY <3>1, <3>2
  <2>6. jobs' \in [Hosts -> Seq(Job)]
    BY <2>1, <2>5, RunJobType
  <2> QED
    BY <1>7, <2>6 DEF FileUploadSend
<1>8. CASE FileUploadRecvStart(h)
  <2>1. j \in Job /\ j.type = "FILE_UPLOAD_RECV_START"
        /\ jobs' \in [Hosts -> Seq(Job)]
    BY <1>8, RunJobType DEF FileUploadRecvStart
  <2>2. j.pkt.body \in Names
    BY <2>1 DEF Job, PacketJob, WaitJob, UploadJob, PacketOf
  <2>3. [name |-> j.pkt.body, data |-> <<>>]
          \in [name : Names \cup {None}, data : Seq(Chunks)]
    BY <2>2
  <2>4. fbuf' \in [Hosts -> [name : Names \cup {None}, data : Seq(Chunks)]]
    BY <1>8, <2>3, Zenon DEF FileUploadRecvStart
  <2> QED
    BY <1>8, <2>1, <2>4 DEF FileUploadRecvStart
<1>9. CASE FileUploadRecvCont(h)
  <2>1. j \in Job /\ j.type = "FILE_UPLOAD_RECV_CONT"
        /\ jobs' \in [Hosts -> Seq(Job)]
    BY <1>9, RunJobType DEF FileUploadRecvCont
  <2>2. j.pkt.body \in Chunks
    BY <2>1 DEF Job, PacketJob, WaitJob, UploadJob, PacketOf
  <2>3. fbuf[h].data \in Seq(Chunks)
    OBVIOUS
  <2>4. Append(fbuf[h].data, j.pkt.body) \in Seq(Chunks)
    BY <2>2, <2>3, AppendProperties
  <2> QED
    BY <1>9, <2>1, <2>3, <2>4 DEF FileUploadRecvCont
<1>10. CASE FileUploadRecvEnd(h)
  <2>1. jobs' \in [Hosts -> Seq(Job)]
    BY <1>10, RunJobType DEF FileUploadRecvEnd
  <2>2. CASE Stored(h)
    <3> DEFINE d == dir[h]
               f == fbuf[h].name
    <3>1. /\ disk' = [disk EXCEPT ![d][f] = fbuf[h].data]
          /\ fbuf' = [fbuf EXCEPT ![h].data = <<>>]
          /\ UNCHANGED <<link, replyPipe>>
      BY <1>10, <2>2 DEF FileUploadRecvEnd
    <3>2. d \in Dirs /\ f \in Names /\ fbuf[h].data \in Contents
      BY <2>2 DEF Stored, Contents
    <3>3. <<>> \in Seq(Chunks)
      OBVIOUS
    <3>4. fbuf' \in [Hosts -> [name : Names \cup {None}, data : Seq(Chunks)]]
      BY <3>1, <3>3
    <3> HIDE DEF d, f
    <3>5. disk' \in [Dirs -> [Names -> Contents]]
      BY <3>1, <3>2
    <3> QED
      BY <2>1, <3>1, <3>4, <3>5
  <2>3. CASE ~Stored(h)
    BY <1>10, <2>1, <2>3 DEF FileUploadRecvEnd
  <2> QED
    BY <2>2, <2>3
<1> QED
  BY <1>1, <1>2, <1>3, <1>4, <1>5, <1>6, <1>7, <1>8, <1>9, <1>10 DEF JobStep

\* So types are kept by every step of a host.
LEMMA HostTurnTyped ==
  ASSUME TypeOK, NEW h \in Hosts, HostTurn(h)
  PROVE  TypeOK'
<1>1. ManTypeOK' /\ SwitchTypeOK'
  BY DEF TypeOK, ManTypeOK, SwitchTypeOK, HostTurn, manVars, switchVars
<1> QED
  BY <1>1, CommandStepTyped, ScanStepTyped, JobStepTyped
  DEF HostTurn, HostStep, TypeOK

-----------------------------------------------------------------------------
(* Types: the switches                                                     *)

\* A packet a switch reads comes from a host, and its table stays one of ports.
LEMMA PassOnType ==
  ASSUME TypeOK, NEW s \in Switches, NEW ws, link[SwWire(s)] # <<>>,
         PassOn(s, ws)
  PROVE  /\ SwArrived(s) \in Packet
         /\ link' \in [Wires -> Seq(Packet)]
         /\ SwitchTypeOK'
         /\ UNCHANGED <<cmdPipe, replyPipe>>
<1>1. swAt[s] \in 1..Len(Port[s]) /\ Len(Port[s]) \in Nat \ {0}
  BY PortNumber DEF TypeOK, SwitchTypeOK
<1>2. SwWire(s) \in Wires
  BY <1>1, PortWire DEF SwWire, Nodes
<1>3. SwArrived(s) \in Packet
  BY <1>2, HeadTailProperties DEF SwArrived, TypeOK
<1>4. link' \in [Wires -> Seq(Packet)]
  BY <1>2, <1>3, TakeFromType, PutOnType DEF PassOn, TypeOK
<1>5. SwArrived(s).src \in Ids
  BY <1>3, TopologyAssumption DEF Packet, PacketOf
<1>6. SwitchTypeOK'
  <2>1. /\ swAt' \in [Switches -> Nat]
        /\ \A t \in Switches : swAt'[t] \in 1..Len(Port[t])
    BY <1>1 DEF PassOn, ScanNext, TypeOK, SwitchTypeOK
  <2>2. /\ fwd' \in [Switches -> [Ids -> Nat]]
        /\ \A t \in Switches : \A i \in Ids : fwd'[t][i] <= Len(Port[t])
    BY <1>1, <1>5 DEF PassOn, AddSrc, TypeOK, SwitchTypeOK
  <2> QED
    BY <2>1, <2>2 DEF SwitchTypeOK
<1> QED
  BY <1>3, <1>4, <1>6 DEF PassOn

\* Types are kept by every step of a switch (switch.c:121).
LEMMA SwitchTurnTyped ==
  ASSUME TypeOK, NEW s \in Switches, SwitchTurn(s)
  PROVE  TypeOK'
<1>1. ManTypeOK' /\ HostTypeOK'
  BY DEF TypeOK, ManTypeOK, HostTypeOK, SwitchTurn, manVars, hostVars
<1>2. CASE PortEmpty(s)
  <2>1. swAt[s] \in 1..Len(Port[s]) /\ Len(Port[s]) \in Nat \ {0}
    BY PortNumber DEF TypeOK, SwitchTypeOK
  <2>2. SwitchTypeOK'
    BY <1>2, <2>1 DEF PortEmpty, ScanNext, TypeOK, SwitchTypeOK
  <2> QED
    BY <1>1, <1>2, <2>2 DEF PortEmpty, pipeVars, TypeOK
<1>3. CASE Forward(s)
  BY <1>1, <1>3, PassOnType DEF Forward, TypeOK
<1>4. CASE Flood(s)
  BY <1>1, <1>4, PassOnType DEF Flood, TypeOK
<1> QED
  BY <1>2, <1>3, <1>4 DEF SwitchTurn, SwitchStep

\* A step that changes nothing keeps types.
LEMMA StutterTyped ==
  ASSUME TypeOK, UNCHANGED vars
  PROVE  TypeOK'
BY DEF TypeOK, ManTypeOK, HostTypeOK, SwitchTypeOK, vars, manVars, hostVars,
       switchVars, pipeVars

\* Types are kept by every step of the program.
LEMMA NextTyped == TypeOK /\ [Next]_vars => TypeOK'
<1> SUFFICES ASSUME TypeOK, [Next]_vars
             PROVE  TypeOK'
  OBVIOUS
<1> QED
  BY ManStepTyped, HostTurnTyped, SwitchTurnTyped, StutterTyped
  DEF Next, Terminated

\* Every variable keeps its type in every network, whatever the users type.
THEOREM TypeCorrect == Spec => []TypeOK
<1>1. Init => TypeOK
  BY InitTyped
<1>2. TypeOK /\ [Next]_vars => TypeOK'
  BY NextTyped
<1> QED
  BY <1>1, <1>2, PTL DEF Spec

-----------------------------------------------------------------------------
(* Waits in a job queue                                                    *)

\* The waits of two queues put together are those of the two.
LEMMA ConcatWaits ==
  ASSUME NEW q \in Seq(Job), NEW r \in Seq(Job)
  PROVE  /\ HasWait(q \o r) <=> HasWait(q) \/ HasWait(r)
         /\ OneWait(q) /\ ~HasWait(r) => OneWait(q \o r)
         /\ ~HasWait(q) /\ OneWait(r) => OneWait(q \o r)
<1>1. /\ Len(q) \in Nat /\ Len(r) \in Nat
      /\ DOMAIN q = 1..Len(q) /\ DOMAIN r = 1..Len(r)
  BY LenProperties
<1>2. /\ DOMAIN (q \o r) = 1..(Len(q) + Len(r))
      /\ \A i \in 1..Len(q) : (q \o r)[i] = q[i]
      /\ \A i \in (Len(q) + 1)..(Len(q) + Len(r)) :
           (q \o r)[i] = r[i - Len(q)] /\ i - Len(q) \in 1..Len(r)
  BY <1>1, ConcatProperties
<1>3. \A i \in 1..Len(r) : (q \o r)[i + Len(q)] = r[i]
  BY <1>1, <1>2
<1>4. HasWait(q \o r) <=> HasWait(q) \/ HasWait(r)
  <2>1. ASSUME NEW i \in DOMAIN q, IsWait(q[i])
        PROVE  HasWait(q \o r)
    BY <1>1, <1>2, <2>1 DEF HasWait
  <2>2. ASSUME NEW i \in DOMAIN r, IsWait(r[i])
        PROVE  HasWait(q \o r)
    <3>1. i + Len(q) \in DOMAIN (q \o r)
      BY <1>1, <1>2
    <3> QED
      BY <1>1, <1>3, <2>2, <3>1 DEF HasWait
  <2>3. ASSUME NEW i \in DOMAIN (q \o r), IsWait((q \o r)[i])
        PROVE  HasWait(q) \/ HasWait(r)
    <3>1. CASE i <= Len(q)
      BY <1>1, <1>2, <2>3, <3>1 DEF HasWait
    <3>2. CASE i > Len(q)
      BY <1>1, <1>2, <2>3, <3>2 DEF HasWait
    <3> QED
      BY <1>1, <1>2, <3>1, <3>2
  <2> QED
    BY <2>1, <2>2, <2>3 DEF HasWait
<1>5. ASSUME OneWait(q), ~HasWait(r)
      PROVE  OneWait(q \o r)
  <2>1. ASSUME NEW i \in DOMAIN (q \o r), IsWait((q \o r)[i])
        PROVE  i \in DOMAIN q /\ IsWait(q[i])
    BY <1>1, <1>2, <1>5, <2>1 DEF HasWait
  <2> QED
    BY <1>5, <2>1 DEF OneWait
<1>6. ASSUME ~HasWait(q), OneWait(r)
      PROVE  OneWait(q \o r)
  <2>1. ASSUME NEW i \in DOMAIN (q \o r), IsWait((q \o r)[i])
        PROVE  i - Len(q) \in DOMAIN r /\ IsWait(r[i - Len(q)])
    BY <1>1, <1>2, <1>6, <2>1 DEF HasWait
  <2>2. SUFFICES ASSUME NEW i \in DOMAIN (q \o r), NEW k \in DOMAIN (q \o r),
                        IsWait((q \o r)[i]), IsWait((q \o r)[k])
                 PROVE  i = k
    BY DEF OneWait
  <2>3. i - Len(q) = k - Len(q)
    BY <1>6, <2>1, <2>2 DEF OneWait
  <2> QED
    BY <1>1, <1>2, <2>3
<1> QED
  BY <1>4, <1>5, <1>6

\* A job that is no wait adds none.
LEMMA AppendWaits ==
  ASSUME NEW q \in Seq(Job), NEW j \in Job, ~IsWait(j)
  PROVE  /\ HasWait(Append(q, j)) <=> HasWait(q)
         /\ OneWait(q) => OneWait(Append(q, j))
<1>1. Append(q, j) = q \o <<j>> /\ <<j>> \in Seq(Job)
  BY AppendIsConcat
<1>2. ~HasWait(<<j>>)
  BY DEF HasWait
<1>3. /\ HasWait(q \o <<j>>) <=> HasWait(q) \/ HasWait(<<j>>)
      /\ OneWait(q) /\ ~HasWait(<<j>>) => OneWait(q \o <<j>>)
  BY <1>1, ConcatWaits
<1> QED
  BY <1>1, <1>2, <1>3

\* A queue loses the wait at its head when that job is taken.
LEMMA TailWaits ==
  ASSUME NEW q \in Seq(Job), q # <<>>
  PROVE  /\ HasWait(q) <=> IsWait(Head(q)) \/ HasWait(Tail(q))
         /\ OneWait(q) => OneWait(Tail(q))
         /\ OneWait(q) /\ IsWait(Head(q)) => ~HasWait(Tail(q))
<1>1. Len(q) \in Nat \ {0} /\ DOMAIN q = 1..Len(q)
  BY EmptySeq, LenProperties
<1>2. /\ Head(q) = q[1]
      /\ DOMAIN Tail(q) = 1..(Len(q) - 1)
      /\ \A i \in 1..(Len(q) - 1) : Tail(q)[i] = q[i + 1]
  BY <1>1, HeadTailProperties, LenProperties
<1>3. ASSUME NEW i \in DOMAIN Tail(q), IsWait(Tail(q)[i])
      PROVE  i + 1 \in DOMAIN q /\ IsWait(q[i + 1]) /\ i + 1 # 1
  BY <1>1, <1>2, <1>3
<1>4. ASSUME NEW i \in DOMAIN q, IsWait(q[i]), i # 1
      PROVE  HasWait(Tail(q))
  <2>1. i - 1 \in DOMAIN Tail(q) /\ Tail(q)[i - 1] = q[i]
    BY <1>1, <1>2, <1>4
  <2> QED
    BY <1>4, <2>1 DEF HasWait
<1>5. HasWait(q) <=> IsWait(Head(q)) \/ HasWait(Tail(q))
  BY <1>1, <1>2, <1>3, <1>4 DEF HasWait
<1>6. ASSUME OneWait(q)
      PROVE  OneWait(Tail(q))
  <2>1. SUFFICES ASSUME NEW i \in DOMAIN Tail(q), NEW k \in DOMAIN Tail(q),
                        IsWait(Tail(q)[i]), IsWait(Tail(q)[k])
                 PROVE  i = k
    BY DEF OneWait
  <2>2. i + 1 = k + 1
    BY <1>3, <1>6, <2>1 DEF OneWait
  <2> QED
    BY <1>1, <1>2, <2>2
<1>7. ASSUME OneWait(q), IsWait(Head(q))
      PROVE  ~HasWait(Tail(q))
  BY <1>1, <1>2, <1>3, <1>7 DEF OneWait, HasWait
<1> QED
  BY <1>5, <1>6, <1>7

-----------------------------------------------------------------------------
(* One answer for each request                                             *)

\* What makes one answer per request inductive: the kinds must fit as well, or
\* a request for a state could turn into a wait.
Inv == TypeOK /\ OneAnswerPerRequest /\ AnswerFits

\* No request is anywhere when the program starts.
LEMMA InitInv == Init => Inv
<1> SUFFICES ASSUME Init PROVE Inv
  OBVIOUS
<1>1. \A h \in Hosts : /\ cmdPipe[h] = <<>> /\ replyPipe[h] = <<>>
                       /\ jobs[h] = <<>> /\ mgr = "prompt"
  BY DEF Init, ManInit, HostInit, PipeInit
<1>2. ~HasWait(<<>>) /\ OneWait(<<>>)
  BY DEF HasWait, OneWait
<1> QED
  BY <1>1, <1>2, InitTyped
  DEF Inv, OneAnswerPerRequest, OneAnswerAt, AnswerFits, AnswerFitsAt, Asked,
      Waits, Answered

\* The hosts that a step leaves alone keep their part of the invariant.
LEMMA OthersKeep ==
  ASSUME Inv, NEW h \in Hosts, UNCHANGED <<mgr, curr, target>>,
         \A g \in Hosts \ {h} : /\ cmdPipe'[g] = cmdPipe[g]
                                /\ jobs'[g] = jobs[g]
                                /\ replyPipe'[g] = replyPipe[g],
         OneAnswerAt(h)', AnswerFitsAt(h)'
  PROVE  OneAnswerPerRequest' /\ AnswerFits'
<1>1. ASSUME NEW g \in Hosts \ {h}
      PROVE  OneAnswerAt(g)' /\ AnswerFitsAt(g)'
  <2>1. OneAnswerAt(g) /\ AnswerFitsAt(g)
    BY DEF Inv, OneAnswerPerRequest, AnswerFits
  <2> QED
    BY <2>1 DEF OneAnswerAt, AnswerFitsAt, Asked, Waits, Answered
<1> QED
  BY <1>1 DEF OneAnswerPerRequest, AnswerFits

\* A step that moves no request, wait or answer keeps the invariant.
LEMMA SameWaitsKeep ==
  ASSUME Inv, NEW h \in Hosts,
         UNCHANGED <<mgr, curr, target, cmdPipe, replyPipe>>,
         \A g \in Hosts \ {h} : jobs'[g] = jobs[g],
         HasWait(jobs'[h]) <=> HasWait(jobs[h]),
         OneWait(jobs'[h])
  PROVE  OneAnswerPerRequest' /\ AnswerFits'
<1>1. OneAnswerAt(h) /\ AnswerFitsAt(h)
  BY DEF Inv, OneAnswerPerRequest, AnswerFits
<1>2. OneAnswerAt(h)' /\ AnswerFitsAt(h)'
  BY <1>1 DEF OneAnswerAt, AnswerFitsAt, Asked, Waits, Answered
<1> QED
  BY <1>2, OthersKeep

\* The one answer in a pipe that was empty.
LEMMA AnswerAlone ==
  ASSUME TypeOK, NEW h \in Hosts, NEW text, NEW d, Answer(h, text, d),
         ~Answered(h)
  PROVE  /\ Len(replyPipe'[h]) = 1 /\ Answered(h)'
         /\ Head(replyPipe'[h]).text = text
         /\ \A g \in Hosts \ {h} : replyPipe'[g] = replyPipe[g]
<1> DEFINE r == [text |-> text, dir |-> d]
<1>1. replyPipe'[h] = Append(<<>>, r)
      /\ \A g \in Hosts \ {h} : replyPipe'[g] = replyPipe[g]
  BY DEF TypeOK, Answer, Answered
<1>2. Append(<<>>, r) = <<r>>
  OBVIOUS
<1>3. Len(<<r>>) = 1 /\ Head(<<r>>) = r /\ <<r>> # <<>> /\ r.text = text
  OBVIOUS
<1> QED
  BY <1>1, <1>2, <1>3 DEF Answered

\* A command read is answered, or becomes the wait of its ping.
LEMMA CommandStepKeeps ==
  ASSUME Inv, NEW h \in Hosts, CommandStep(h), UNCHANGED manVars
  PROVE  OneAnswerPerRequest' /\ AnswerFits'
<1>0. /\ TypeOK /\ OneAnswerAt(h) /\ AnswerFitsAt(h)
      /\ UNCHANGED <<mgr, curr, target>>
      /\ jobs[h] \in Seq(Job)
  BY DEF Inv, OneAnswerPerRequest, AnswerFits, manVars, TypeOK, HostTypeOK
<1> DEFINE c == Head(cmdPipe[h])
<1>1. ASSUME NEW o, GetCommand(h, o)
      PROVE  /\ cmdPipe'[h] = <<>> /\ ~Asked(h)' /\ Len(cmdPipe'[h]) <= 1
             /\ \A g \in Hosts \ {h} : cmdPipe'[g] = cmdPipe[g]
             /\ c.op = o /\ (o \in {"s", "p"} <=> Asked(h))
  BY <1>0, <1>1 DEF GetCommand, TypeOK, Asked
<1>2. CASE NoCommand(h)
  BY <1>0, <1>2, SameWaitsKeep DEF NoCommand, pipeVars, OneAnswerAt
<1>3. CASE ReplyDisplayHostState(h)
  <2>1. /\ GetCommand(h, "s") /\ Answer(h, "state", dir[h])
        /\ UNCHANGED jobs
    BY <1>3 DEF ReplyDisplayHostState
  <2>2. Asked(h) /\ ~Waits(h) /\ ~Answered(h) /\ target = None
    BY <1>0, <1>1, <2>1 DEF OneAnswerAt, AnswerFitsAt
  <2>3. /\ Len(replyPipe'[h]) = 1 /\ Answered(h)'
        /\ Head(replyPipe'[h]).text = "state"
        /\ \A g \in Hosts \ {h} : replyPipe'[g] = replyPipe[g]
    BY <1>0, <2>1, <2>2, AnswerAlone
  <2>4. OneAnswerAt(h)' /\ AnswerFitsAt(h)'
    BY <1>0, <1>1, <2>1, <2>2, <2>3 DEF OneAnswerAt, AnswerFitsAt, Waits
  <2> QED
    BY <1>0, <1>1, <2>1, <2>3, <2>4, OthersKeep
<1>4. CASE SetDir(h)
  <2>1. /\ GetCommand(h, "m")
        /\ UNCHANGED <<jobs, replyPipe>>
    BY <1>4 DEF SetDir
  <2>2. ~Asked(h)
    BY <1>1, <2>1
  <2>3. OneAnswerAt(h)' /\ AnswerFitsAt(h)'
    BY <1>0, <1>1, <2>1, <2>2 DEF OneAnswerAt, AnswerFitsAt, Waits, Answered
  <2> QED
    BY <1>0, <1>1, <2>1, <2>3, OthersKeep
<1>5. CASE StartPing(h)
  <2> DEFINE req == NewPacket(h, c.dst, "PING_REQ", None)
             new == <<SendJob(req), WaitFor(PingTimer)>>
  <2>1. /\ GetCommand(h, "p") /\ UNCHANGED replyPipe
        /\ jobs' = [jobs EXCEPT ![h] = @ \o new]
    BY <1>5 DEF StartPing
  <2>2. Asked(h) /\ ~Waits(h) /\ ~Answered(h) /\ target # None
    BY <1>0, <1>1, <2>1 DEF OneAnswerAt, AnswerFitsAt
  <2>3. /\ new[1] = SendJob(req) /\ new[2] = WaitFor(PingTimer)
        /\ DOMAIN new = 1..2 /\ ~IsWait(SendJob(req))
        /\ IsWait(WaitFor(PingTimer))
    BY DEF SendJob, NewJob, WaitFor, IsWait
  <2>4. HasWait(new) /\ OneWait(new)
    <3> HIDE DEF new
    <3> QED
      BY <2>3 DEF HasWait, OneWait
  <2>5. new \in Seq(Job)
    <3>1. c \in Command /\ c.op = "p"
      BY <1>0, <2>1, GetCommandType
    <3>2. SendJob(req) \in Job /\ WaitFor(PingTimer) \in Job
      BY <3>1, HostAssumption
      DEF Command, NewPacket, Packet, PacketOf, SendJob, NewJob, WaitFor, Job,
          PacketJob, WaitJob
    <3> QED
      BY <3>2
  <2>6. /\ jobs'[h] = jobs[h] \o new
        /\ \A g \in Hosts \ {h} : jobs'[g] = jobs[g]
    BY <1>0, <2>1 DEF TypeOK, HostTypeOK
  <2> HIDE DEF new
  <2>7. Waits(h)' /\ OneWait(jobs'[h])
    BY <1>0, <2>2, <2>4, <2>5, <2>6, ConcatWaits DEF Waits
  <2>8. OneAnswerAt(h)' /\ AnswerFitsAt(h)'
    BY <1>0, <1>1, <2>1, <2>2, <2>7 DEF OneAnswerAt, AnswerFitsAt, Answered
  <2> QED
    BY <1>0, <1>1, <2>1, <2>6, <2>8, OthersKeep
<1>6. CASE StartUpload(h)
  <2> DEFINE start == NewPacket(h, c.dst, "FILE_UPLOAD_START", LastArgument(h))
             new   == NewJob("FILE_UPLOAD_SEND", start)
  <2>1. /\ GetCommand(h, "u") /\ UNCHANGED replyPipe
        /\ jobs' = [jobs EXCEPT ![h] = Append(@, new)]
    BY <1>6 DEF StartUpload
  <2>2. ~Asked(h)
    BY <1>1, <2>1
  <2>3. new \in Job /\ ~IsWait(new)
    <3>1. c \in Command /\ c.op = "u"
      BY <1>0, <2>1, GetCommandType
    <3> QED
      BY <3>1
      DEF Command, LastArgument, NewPacket, PacketOf, NewJob, Job, UploadJob,
          IsWait
  <2>4. /\ jobs'[h] = Append(jobs[h], new)
        /\ \A g \in Hosts \ {h} : jobs'[g] = jobs[g]
    BY <1>0, <2>1 DEF TypeOK, HostTypeOK
  <2> HIDE DEF new
  <2>5. (Waits(h)' <=> Waits(h)) /\ OneWait(jobs'[h])
    BY <1>0, <2>3, <2>4, AppendWaits DEF Waits, OneAnswerAt
  <2>6. OneAnswerAt(h)' /\ AnswerFitsAt(h)'
    BY <1>0, <1>1, <2>1, <2>2, <2>5 DEF OneAnswerAt, AnswerFitsAt, Answered
  <2> QED
    BY <1>0, <1>1, <2>1, <2>4, <2>6, OthersKeep
<1> QED
  BY <1>2, <1>3, <1>4, <1>5, <1>6 DEF CommandStep

\* Packets, whatever they are, neither answer nor make a wait.
LEMMA ScanStepKeeps ==
  ASSUME Inv, NEW h \in Hosts, ScanStep(h), UNCHANGED manVars
  PROVE  OneAnswerPerRequest' /\ AnswerFits'
<1>0. /\ TypeOK /\ OneAnswerAt(h)
      /\ UNCHANGED <<mgr, curr, target, cmdPipe, replyPipe>>
      /\ jobs[h] \in Seq(Job)
  BY DEF Inv, OneAnswerPerRequest, manVars, TypeOK, HostTypeOK, ScanStep,
         RecvNothing, RecvOthers, RecvPingReply, RecvJob, Recv, ScanPort
<1>1. CASE UNCHANGED jobs
  BY <1>0, <1>1, SameWaitsKeep DEF OneAnswerAt
<1>2. CASE RecvJob(h)
  <2>1. /\ Recv(h) /\ Arrived(h).type # "PING_REPLY"
        /\ jobs' = [jobs EXCEPT ![h] = Append(@, JobFor(Arrived(h)))]
    BY <1>2 DEF RecvJob
  <2>2. JobFor(Arrived(h)) \in Job /\ ~IsWait(JobFor(Arrived(h)))
    BY <1>0, <2>1, RecvType, JobForType
  <2>3. /\ jobs'[h] = Append(jobs[h], JobFor(Arrived(h)))
        /\ \A g \in Hosts \ {h} : jobs'[g] = jobs[g]
    BY <1>0, <2>1 DEF TypeOK, HostTypeOK
  <2>4. (HasWait(jobs'[h]) <=> HasWait(jobs[h])) /\ OneWait(jobs'[h])
    BY <1>0, <2>2, <2>3, AppendWaits DEF OneAnswerAt
  <2> QED
    BY <1>0, <2>3, <2>4, SameWaitsKeep
<1> QED
  BY <1>1, <1>2 DEF ScanStep, RecvNothing, RecvOthers, RecvPingReply

\* A job that is no wait, and adds none.
LEMMA OtherJobKeeps ==
  ASSUME Inv, NEW h \in Hosts, NEW t, NEW more \in Seq(Job),
         RunJob(h, t, more), t # "PING_WAIT_FOR_REPLY", ~HasWait(more),
         UNCHANGED <<mgr, curr, target, cmdPipe, replyPipe>>
  PROVE  OneAnswerPerRequest' /\ AnswerFits'
<1>1. /\ jobs[h] \in Seq(Job) /\ jobs[h] # <<>> /\ ~IsWait(Head(jobs[h]))
      /\ jobs'[h] = Tail(jobs[h]) \o more
      /\ \A g \in Hosts \ {h} : jobs'[g] = jobs[g]
  BY RunJobType DEF Inv, IsWait
<1>2. Tail(jobs[h]) \in Seq(Job) /\ OneWait(jobs[h])
  BY <1>1, HeadTailProperties DEF Inv, OneAnswerPerRequest, OneAnswerAt
<1>3. (HasWait(jobs[h]) <=> HasWait(Tail(jobs[h]))) /\ OneWait(Tail(jobs[h]))
  BY <1>1, <1>2, TailWaits
<1>4. ASSUME NEW q \in Seq(Job), OneWait(q)
      PROVE  (HasWait(q \o more) <=> HasWait(q)) /\ OneWait(q \o more)
  BY <1>4, ConcatWaits
<1>5. (HasWait(jobs'[h]) <=> HasWait(jobs[h])) /\ OneWait(jobs'[h])
  <2> DEFINE T == Tail(jobs[h])
  <2>1. (HasWait(T \o more) <=> HasWait(T)) /\ OneWait(T \o more)
    BY <1>2, <1>3, <1>4
  <2> QED
    BY <1>1, <1>3, <2>1
<1> QED
  BY <1>1, <1>5, SameWaitsKeep

\* A wait is the only one, and its job takes it out of the queue.
LEMMA WaitJobRuns ==
  ASSUME Inv, NEW h \in Hosts, NEW more \in Seq(Job),
         RunJob(h, "PING_WAIT_FOR_REPLY", more)
  PROVE  /\ Waits(h) /\ target # None /\ ~Asked(h) /\ ~Answered(h)
         /\ mgr = "wait" /\ curr = h
         /\ HasWait(jobs'[h]) <=> HasWait(more)
         /\ OneWait(more) => OneWait(jobs'[h])
         /\ \A g \in Hosts \ {h} : jobs'[g] = jobs[g]
<1>1. /\ jobs[h] \in Seq(Job) /\ jobs[h] # <<>> /\ IsWait(Head(jobs[h]))
      /\ jobs'[h] = Tail(jobs[h]) \o more
      /\ \A g \in Hosts \ {h} : jobs'[g] = jobs[g]
  BY RunJobType DEF Inv, IsWait
<1>2. OneAnswerAt(h) /\ AnswerFitsAt(h)
  BY DEF Inv, OneAnswerPerRequest, AnswerFits
<1>3. Tail(jobs[h]) \in Seq(Job) /\ ~HasWait(Tail(jobs[h])) /\ Waits(h)
  BY <1>1, <1>2, HeadTailProperties, TailWaits DEF OneAnswerAt, Waits
<1>4. ASSUME NEW q \in Seq(Job), ~HasWait(q)
      PROVE  /\ HasWait(q \o more) <=> HasWait(more)
             /\ OneWait(more) => OneWait(q \o more)
  BY <1>4, ConcatWaits
<1>5. /\ HasWait(jobs'[h]) <=> HasWait(more)
      /\ OneWait(more) => OneWait(jobs'[h])
  BY <1>1, <1>3, <1>4
<1> QED
  BY <1>1, <1>2, <1>3, <1>5 DEF OneAnswerAt, AnswerFitsAt

\* The end of a wait is an answer, be it an ack or a time out.
LEMMA WaitEndKeeps ==
  ASSUME Inv, NEW h \in Hosts, RunJob(h, "PING_WAIT_FOR_REPLY", <<>>),
         NEW text, text # "state", Answer(h, text, None),
         UNCHANGED <<mgr, curr, target, cmdPipe>>
  PROVE  OneAnswerPerRequest' /\ AnswerFits'
<1>1. <<>> \in Seq(Job) /\ ~HasWait(<<>>) /\ OneWait(<<>>)
  BY DEF HasWait, OneWait
<1>2. /\ target # None /\ ~Asked(h) /\ ~Answered(h)
      /\ mgr = "wait" /\ curr = h
      /\ ~HasWait(jobs'[h]) /\ OneWait(jobs'[h])
      /\ \A g \in Hosts \ {h} : jobs'[g] = jobs[g]
  BY <1>1, WaitJobRuns
<1>3. /\ Len(replyPipe'[h]) = 1 /\ Answered(h)'
      /\ Head(replyPipe'[h]).text = text
      /\ \A g \in Hosts \ {h} : replyPipe'[g] = replyPipe[g]
  BY <1>2, AnswerAlone DEF Inv
<1>4. OneAnswerAt(h)
  BY DEF Inv, OneAnswerPerRequest
<1>5. OneAnswerAt(h)' /\ AnswerFitsAt(h)'
  BY <1>2, <1>3, <1>4 DEF OneAnswerAt, AnswerFitsAt, Asked, Waits
<1> QED
  BY <1>2, <1>3, <1>5, OthersKeep

\* A wait that runs is answered or put back; other jobs leave waits alone.
LEMMA JobStepKeeps ==
  ASSUME Inv, NEW h \in Hosts, JobStep(h), UNCHANGED manVars
  PROVE  OneAnswerPerRequest' /\ AnswerFits'
<1> DEFINE j == Head(jobs[h])
<1> JobTurn(h)
  BY DEF JobStep, NoJob, RunJob, SendPktAllPorts, PingSendReply, PingAcked,
         PingWaitOn, PingTimeOut, FileUploadSend, FileUploadRecvStart,
         FileUploadRecvCont, FileUploadRecvEnd
<1> <<>> \in Seq(Job) /\ ~HasWait(<<>>)
  BY DEF HasWait
<1>0. /\ TypeOK /\ OneAnswerAt(h)
      /\ UNCHANGED <<mgr, curr, target, cmdPipe>>
      /\ <<>> \in Seq(Job) /\ ~HasWait(<<>>)
  BY DEF Inv, OneAnswerPerRequest, manVars, JobTurn
<1>1. CASE NoJob(h)
  BY <1>0, <1>1, SameWaitsKeep DEF NoJob, OneAnswerAt
<1>2. CASE SendPktAllPorts(h)
  BY <1>0, <1>2, OtherJobKeeps DEF SendPktAllPorts
<1>3. CASE PingSendReply(h)
  <2> DEFINE r == SendJob(NewPacket(h, j.pkt.src, "PING_REPLY", None))
  <2>1. RunJob(h, "PING_SEND_REPLY", <<r>>) /\ UNCHANGED replyPipe
    BY <1>3 DEF PingSendReply
  <2>2. jobs[h] # <<>> /\ j.type = "PING_SEND_REPLY"
    BY <2>1 DEF RunJob
  <2>3. j \in Job
    BY <1>0, <2>2, HeadTailProperties DEF TypeOK, HostTypeOK
  <2>4. j.pkt.src \in Ids
    BY <2>2, <2>3, TopologyAssumption
    DEF Job, PacketJob, WaitJob, UploadJob, PacketOf
  <2>5. r \in Job /\ ~IsWait(r)
    BY <2>4
    DEF SendJob, NewJob, NewPacket, Job, PacketJob, Packet, PacketOf, IsWait
  <2> HIDE DEF r
  <2>6. <<r>> \in Seq(Job) /\ ~HasWait(<<r>>)
    BY <2>5 DEF HasWait
  <2> QED
    BY <1>0, <2>1, <2>6, OtherJobKeeps
<1>4. CASE PingAcked(h)
  BY <1>0, <1>4, WaitEndKeeps DEF PingAcked
<1>5. CASE PingWaitOn(h)
  <2> DEFINE w == WaitFor(j.timer - 1)
  <2>1. /\ RunJob(h, "PING_WAIT_FOR_REPLY", <<w>>) /\ j.timer > 1
        /\ UNCHANGED replyPipe
    BY <1>5 DEF PingWaitOn
  <2>2. jobs[h] # <<>> /\ j.type = "PING_WAIT_FOR_REPLY"
    BY <2>1 DEF RunJob
  <2>3. j \in Job
    BY <1>0, <2>2, HeadTailProperties DEF TypeOK, HostTypeOK
  <2>4. j.timer \in 1..PingTimer
    BY <2>2, <2>3 DEF Job, PacketJob, WaitJob, UploadJob
  <2>5. w \in Job /\ IsWait(w)
    BY <2>1, <2>4, HostAssumption DEF WaitFor, Job, WaitJob, IsWait
  <2> HIDE DEF w
  <2>6. <<w>> \in Seq(Job) /\ HasWait(<<w>>) /\ OneWait(<<w>>)
    BY <2>5 DEF HasWait, OneWait
  <2>7. /\ Waits(h) /\ HasWait(jobs'[h]) /\ OneWait(jobs'[h])
        /\ \A g \in Hosts \ {h} : jobs'[g] = jobs[g]
    BY <2>1, <2>6, WaitJobRuns
  <2> QED
    BY <1>0, <2>1, <2>7, SameWaitsKeep DEF Waits
<1>6. CASE PingTimeOut(h)
  BY <1>0, <1>6, WaitEndKeeps DEF PingTimeOut
<1>7. CASE FileUploadSend(h)
  <2> DEFINE data == FileOf(h, j.pkt.body)
             more == IF data = None THEN <<>>
                     ELSE SendJobs(UploadPackets(j.pkt, data))
  <2>1. RunJob(h, "FILE_UPLOAD_SEND", more) /\ UNCHANGED replyPipe
    BY <1>7 DEF FileUploadSend
  <2>2. jobs[h] # <<>> /\ j.type = "FILE_UPLOAD_SEND"
    BY <2>1 DEF RunJob
  <2>3. j \in Job
    BY <1>0, <2>2, HeadTailProperties DEF TypeOK, HostTypeOK
  <2>4. ASSUME data # None
        PROVE  /\ j.pkt \in PacketOf({"FILE_UPLOAD_START"}, Names)
               /\ data \in Seq(Chunks)
    BY <1>0, <2>2, <2>3, <2>4
    DEF FileOf, Contents, Job, PacketJob, WaitJob, UploadJob, PacketOf, TypeOK,
        HostTypeOK
  <2>5. more \in Seq(Job) /\ ~HasWait(more)
    <3> HIDE DEF data
    <3>1. CASE data = None
      BY <1>0, <3>1
    <3>2. CASE data # None
      BY <3>2, <2>4, UploadPacketsType, SendJobsType DEF HasWait
    <3> QED
      BY <3>1, <3>2
  <2> HIDE DEF more
  <2> QED
    BY <1>0, <2>1, <2>5, OtherJobKeeps
<1>8. CASE FileUploadRecvStart(h)
  BY <1>0, <1>8, OtherJobKeeps DEF FileUploadRecvStart
<1>9. CASE FileUploadRecvCont(h)
  BY <1>0, <1>9, OtherJobKeeps DEF FileUploadRecvCont
<1>10. CASE FileUploadRecvEnd(h)
  BY <1>0, <1>10, OtherJobKeeps DEF FileUploadRecvEnd
<1> QED
  BY <1>1, <1>2, <1>3, <1>4, <1>5, <1>6, <1>7, <1>8, <1>9, <1>10 DEF JobStep

\* With a patient user the pipe to the current host is empty when a command is
\* typed, so a request is alone there.
LEMMA ManStepKeeps ==
  ASSUME Patient, Inv, ManStep
  PROVE  OneAnswerPerRequest' /\ AnswerFits'
<1> DEFINE c == Head(script)
<1>0. /\ TypeOK /\ OneAnswerPerRequest /\ AnswerFits /\ UNCHANGED jobs
      /\ curr \in Hosts
  BY DEF Inv, ManStep, hostVars, TypeOK, ManTypeOK
<1>1. ASSUME mgr = "prompt"
      PROVE  \A h \in Hosts : ~Asked(h) /\ ~Waits(h) /\ ~Answered(h)
  BY <1>0, <1>1 DEF OneAnswerPerRequest, OneAnswerAt
<1>2. ASSUME NEW d, SendCommand(d)
      PROVE  /\ cmdPipe'[curr] # <<>> /\ Head(cmdPipe'[curr]) = d
             /\ Len(cmdPipe'[curr]) <= 1
             /\ \A g \in Hosts \ {curr} : cmdPipe'[g] = cmdPipe[g]
             /\ UNCHANGED <<replyPipe, curr>>
  <2>1. cmdPipe'[curr] = Append(<<>>, d)
    BY <1>0, <1>2 DEF SendCommand, TypeOK
  <2>2. /\ Append(<<>>, d) # <<>> /\ Head(Append(<<>>, d)) = d
        /\ Len(Append(<<>>, d)) <= 1
    OBVIOUS
  <2> QED
    BY <1>0, <1>2, <2>1, <2>2 DEF SendCommand, TypeOK
<1>3. CASE DisplayHostState \/ Ping
  <2>1. /\ mgr = "prompt" /\ mgr' = "wait" /\ SendCommand(c)
        /\ c.op \in {"s", "p"} /\ (c.op = "s" <=> target' = None)
    <3>1. CASE DisplayHostState
      BY <3>1 DEF DisplayHostState, Typed
    <3>2. CASE Ping
      <4>1. c \in UserOp /\ c.op = "p"
        BY <1>0, <3>2, TypedType DEF Ping
      <4>2. c.dst # None
        BY <4>1, SentinelAssumption DEF UserOp
      <4> QED
        BY <3>2, <4>1, <4>2 DEF Ping, Typed
    <3> QED
      BY <1>3, <3>1, <3>2
  <2>2. \A h \in Hosts : ~Asked(h) /\ ~Waits(h) /\ ~Answered(h)
    BY <1>1, <2>1
  <2>3. Asked(curr)' /\ \A g \in Hosts \ {curr} : ~Asked(g)'
    BY <1>0, <1>2, <2>1, <2>2 DEF Asked
  <2>4. ASSUME NEW h \in Hosts
        PROVE  OneAnswerAt(h)' /\ AnswerFitsAt(h)'
    <3>1. OneAnswerAt(h)
      BY <1>0 DEF OneAnswerPerRequest
    <3>2. Len(cmdPipe'[h]) <= 1
      <4>1. CASE h = curr
        BY <1>2, <2>1, <4>1
      <4>2. CASE h # curr
        BY <1>2, <2>1, <3>1, <4>2 DEF OneAnswerAt
      <4> QED
        BY <4>1, <4>2
    <3>3. ~Waits(h)' /\ ~Answered(h)' /\ curr' = curr
      BY <1>0, <1>2, <2>1, <2>2 DEF Waits, Answered
    <3>4. OneAnswerAt(h)'
      BY <1>0, <1>2, <2>1, <2>3, <3>1, <3>2, <3>3 DEF OneAnswerAt
    <3>5. AnswerFitsAt(h)'
      BY <1>2, <2>1, <2>3, <3>3 DEF AnswerFitsAt
    <3> QED
      BY <3>4, <3>5
  <2> QED
    BY <2>4 DEF OneAnswerPerRequest, AnswerFits
<1>4. CASE SetHostDir \/ FileUpload \/ FileDownload
  <2>1. \E d : /\ mgr = "prompt" /\ UNCHANGED <<mgr, target>>
               /\ SendCommand(d) /\ d.op \notin {"s", "p"}
    <3>1. CASE SetHostDir
      BY <3>1 DEF SetHostDir, Typed
    <3>2. CASE FileUpload
      BY <3>2 DEF FileUpload, Typed
    <3>3. CASE FileDownload
      <4>1. [c EXCEPT !.op = "u"].op = "u"
        BY <1>0, <3>3, TypedType DEF FileDownload, UserOp
      <4> QED
        BY <3>3, <4>1 DEF FileDownload, Typed
    <3> QED
      BY <1>4, <3>1, <3>2, <3>3
  <2>2. PICK d : /\ mgr = "prompt" /\ UNCHANGED <<mgr, target>>
                 /\ SendCommand(d) /\ d.op \notin {"s", "p"}
    BY <2>1
  <2>3. \A h \in Hosts : ~Asked(h) /\ ~Waits(h) /\ ~Answered(h)
    BY <1>1, <2>2
  <2>4. \A h \in Hosts : ~Asked(h)'
    BY <1>0, <1>2, <2>2, <2>3 DEF Asked
  <2>5. ASSUME NEW h \in Hosts
        PROVE  OneAnswerAt(h)' /\ AnswerFitsAt(h)'
    <3>1. OneAnswerAt(h)
      BY <1>0 DEF OneAnswerPerRequest
    <3>2. Len(cmdPipe'[h]) <= 1
      <4>1. CASE h = curr
        BY <1>2, <2>2, <4>1
      <4>2. CASE h # curr
        BY <1>2, <2>2, <3>1, <4>2 DEF OneAnswerAt
      <4> QED
        BY <4>1, <4>2
    <3>3. ~Waits(h)' /\ ~Answered(h)' /\ mgr' # "wait"
      BY <1>0, <1>2, <2>2, <2>3 DEF Waits, Answered
    <3> QED
      BY <1>0, <1>2, <2>2, <2>4, <3>1, <3>2, <3>3 DEF OneAnswerAt, AnswerFitsAt
  <2> QED
    BY <2>5 DEF OneAnswerPerRequest, AnswerFits
<1>5. CASE ChangeHost \/ Quit
  <2>1. /\ mgr = "prompt" /\ mgr' # "wait"
        /\ UNCHANGED <<target, cmdPipe, replyPipe>>
    BY <1>5 DEF ChangeHost, Quit, Typed, pipeVars
  <2>2. ASSUME NEW h \in Hosts
        PROVE  OneAnswerAt(h)' /\ AnswerFitsAt(h)'
    BY <1>0, <1>1, <2>1
    DEF OneAnswerPerRequest, OneAnswerAt, AnswerFitsAt, Asked, Waits, Answered
  <2> QED
    BY <2>2 DEF OneAnswerPerRequest, AnswerFits
<1>6. CASE GetReply
  <2>1. /\ mgr = "wait" /\ mgr' = "prompt"
        /\ UNCHANGED <<curr, target, cmdPipe>>
        /\ Answered(curr) /\ replyPipe'[curr] = <<>>
        /\ \A g \in Hosts \ {curr} : replyPipe'[g] = replyPipe[g]
    BY <1>0, <1>6 DEF GetReply, Answered, TypeOK
  <2>2. ASSUME NEW h \in Hosts
        PROVE  OneAnswerAt(h)' /\ AnswerFitsAt(h)'
    <3>1. OneAnswerAt(h) /\ OneAnswerAt(curr)
      BY <1>0 DEF OneAnswerPerRequest
    <3>2. ~Asked(h) /\ ~Waits(h) /\ ~Answered(h)'
      BY <2>1, <3>1 DEF OneAnswerAt, Answered
    <3>3. Len(replyPipe'[h]) <= 1
      BY <2>1, <3>1 DEF OneAnswerAt
    <3> QED
      BY <1>0, <2>1, <3>1, <3>2, <3>3
      DEF OneAnswerAt, AnswerFitsAt, Asked, Waits
  <2> QED
    BY <2>2 DEF OneAnswerPerRequest, AnswerFits
<1> QED
  BY <1>3, <1>4, <1>5, <1>6 DEF ManStep, UserStep

\* The switches have no part in requests and answers.
LEMMA SwitchTurnKeeps ==
  ASSUME Inv, NEW s \in Switches, SwitchTurn(s)
  PROVE  OneAnswerPerRequest' /\ AnswerFits'
<1>1. UNCHANGED <<mgr, curr, target, jobs, cmdPipe, replyPipe>>
  BY DEF SwitchTurn, SwitchStep, PortEmpty, Forward, Flood, PassOn, manVars,
         hostVars, pipeVars
<1> QED
  BY <1>1 DEF Inv, OneAnswerPerRequest, OneAnswerAt, AnswerFits, AnswerFitsAt,
              Asked, Waits, Answered

\* The invariant is inductive if the user is patient.
LEMMA NextInv ==
  ASSUME Patient
  PROVE  Inv /\ [Next]_vars => Inv'
<1> SUFFICES ASSUME Inv, [Next]_vars
             PROVE  OneAnswerPerRequest' /\ AnswerFits'
  BY NextTyped DEF Inv
<1>1. CASE ManStep
  BY <1>1, ManStepKeeps
<1>2. ASSUME NEW h \in Hosts, HostTurn(h)
      PROVE  OneAnswerPerRequest' /\ AnswerFits'
  BY <1>2, CommandStepKeeps, ScanStepKeeps, JobStepKeeps DEF HostTurn, HostStep
<1>3. ASSUME NEW s \in Switches, SwitchTurn(s)
      PROVE  OneAnswerPerRequest' /\ AnswerFits'
  BY <1>3, SwitchTurnKeeps
<1>4. CASE UNCHANGED vars
  <2>1. UNCHANGED <<mgr, curr, target, jobs, cmdPipe, replyPipe>>
    BY <1>4 DEF vars, manVars, hostVars, pipeVars
  <2> QED
    BY <2>1 DEF Inv, OneAnswerPerRequest, OneAnswerAt, AnswerFits,
                AnswerFitsAt, Asked, Waits, Answered
<1> QED
  BY <1>1, <1>2, <1>3, <1>4 DEF Next, Terminated

\* A request of a patient user is always in exactly one place on its way to
\* its one answer, in every network and whatever the switches lose or repeat.
THEOREM OneAnswer ==
  ASSUME Patient
  PROVE  Spec => []OneAnswerPerRequest
<1>1. Init => Inv
  BY InitInv
<1>2. Inv /\ [Next]_vars => Inv'
  BY NextInv
<1>3. Inv => OneAnswerPerRequest
  BY DEF Inv
<1> QED
  BY <1>1, <1>2, <1>3, PTL DEF Spec

\* What a patient user reads is of the kind of the command typed last, in every
\* network: man.c:162 and 229 take whatever text is in the pipe.
THEOREM AnswersFit ==
  ASSUME Patient
  PROVE  Spec => []AnswerFits
<1>1. Init => Inv
  BY InitInv
<1>2. Inv /\ [Next]_vars => Inv'
  BY NextInv
<1>3. Inv => AnswerFits
  BY DEF Inv
<1> QED
  BY <1>1, <1>2, <1>3, PTL DEF Spec

-----------------------------------------------------------------------------
(* The console                                                             *)

\* The program starts as a console that nobody has asked anything.
LEMMA InitShown == Init => console!Init
<1> SUFFICES ASSUME Init PROVE console!Init
  OBVIOUS
<1>1. /\ mgr = "prompt" /\ target = None
      /\ \A h \in Hosts : replyPipe[h] = <<>>
  BY DEF Init, ManInit, PipeInit
<1>2. ShownAnswer = [h \in Hosts |-> None]
  BY <1>1 DEF ShownAnswer
<1> QED
  BY <1>1, <1>2 DEF console!Init, ShownAsked, ShownKind, ShownOver

\* A step that changes nothing the user sees.
LEMMA NotShown ==
  ASSUME \/ UNCHANGED <<mgr, curr, target, replyPipe>>
         \/ UNCHANGED <<mgr, target, replyPipe>> /\ mgr # "wait"
  PROVE  UNCHANGED console!vars
BY DEF console!vars, ShownAsked, ShownKind, ShownAnswer, ShownOver

\* To the console a step of the manager asks, shows, quits or is nothing.
LEMMA ManStepShown ==
  ASSUME Inv, Inv', ManStep
  PROVE  [console!Next]_(console!vars)
<1> DEFINE c == Head(script)
<1>0. /\ TypeOK /\ OneAnswerPerRequest /\ AnswerFits /\ curr \in Hosts
      /\ None \notin Hosts
  BY SentinelAssumption, TopologyAssumption DEF Inv, TypeOK, ManTypeOK
<1>1. CASE DisplayHostState \/ Ping
  <2>1. /\ mgr = "prompt" /\ mgr' = "wait" /\ UNCHANGED <<curr, replyPipe>>
    BY <1>1 DEF DisplayHostState, Ping, Typed, SendCommand
  <2>2. console!Ask(curr, ShownKind')
    BY <1>0, <2>1
    DEF console!Ask, ShownAsked, ShownKind, ShownAnswer, ShownOver
  <2>3. ShownKind' \in console!Kinds
    BY DEF ShownKind, console!Kinds
  <2> QED
    BY <1>0, <2>2, <2>3 DEF console!Next
<1>2. CASE SetHostDir \/ FileUpload \/ FileDownload \/ ChangeHost
  <2>1. /\ mgr = "prompt" /\ UNCHANGED <<mgr, target, replyPipe>>
    BY <1>2 DEF SetHostDir, FileUpload, FileDownload, ChangeHost, Typed,
                SendCommand, pipeVars
  <2> QED
    BY <2>1, NotShown
<1>3. CASE Quit
  <2>1. /\ mgr = "prompt" /\ mgr' = "quit"
        /\ UNCHANGED <<curr, target, replyPipe>>
    BY <1>3 DEF Quit, Typed, pipeVars
  <2>2. console!Quit
    BY <2>1
    DEF console!Quit, ShownAsked, ShownKind, ShownAnswer, ShownOver
  <2> QED
    BY <2>2 DEF console!Next
<1>4. CASE GetReply
  <2>1. /\ mgr = "wait" /\ mgr' = "prompt" /\ UNCHANGED <<curr, target>>
        /\ replyPipe[curr] # <<>>
        /\ replyPipe' = [replyPipe EXCEPT ![curr] = <<>>]
    BY <1>4 DEF GetReply
  <2>2. Head(replyPipe[curr]).text = "state" <=> target = None
    BY <1>0, <2>1 DEF AnswerFits, AnswerFitsAt, Answered
  <2>3. ShownAnswer[curr] = ShownKind
    BY <1>0, <2>1, <2>2 DEF ShownAnswer, ShownKind, KindOf
  <2>4. ShownAnswer' = [ShownAnswer EXCEPT ![curr] = None]
    BY <1>0, <2>1 DEF ShownAnswer, TypeOK
  <2>5. console!Show
    BY <1>0, <2>1, <2>3, <2>4
    DEF console!Show, ShownAsked, ShownKind, ShownOver
  <2> QED
    BY <2>5 DEF console!Next
<1> QED
  BY <1>1, <1>2, <1>3, <1>4 DEF ManStep, UserStep

\* A host answers when it is asked, once, and what it is asked.
LEMMA AnswerShown ==
  ASSUME Inv, Inv', NEW h \in Hosts, NEW text, NEW d, Answer(h, text, d),
         Asked(h) \/ Waits(h), UNCHANGED <<mgr, curr, target>>
  PROVE  console!Answer
<1>1. /\ TypeOK /\ OneAnswerAt(h) /\ AnswerFitsAt(h)' /\ h # None
  BY SentinelAssumption, TopologyAssumption
  DEF Inv, OneAnswerPerRequest, AnswerFits
<1>2. mgr = "wait" /\ curr = h /\ ~Answered(h)
  BY <1>1 DEF OneAnswerAt
<1>3. /\ Answered(h)' /\ \A g \in Hosts \ {h} : replyPipe'[g] = replyPipe[g]
  BY <1>1, <1>2, AnswerAlone
<1>4. Head(replyPipe'[h]).text = "state" <=> target = None
  BY <1>1, <1>3 DEF AnswerFitsAt
<1>5. ShownAnswer'[h] = ShownKind
  BY <1>3, <1>4 DEF ShownAnswer, ShownKind, KindOf, Answered
<1>6. /\ ShownAnswer' = [ShownAnswer EXCEPT ![h] = ShownKind]
      /\ ShownAnswer[h] = None
  BY <1>2, <1>3, <1>5 DEF ShownAnswer, Answered
<1> QED
  BY <1>1, <1>2, <1>6 DEF console!Answer, ShownAsked, ShownKind, ShownOver

\* To the console a step of a host answers or is nothing.
LEMMA HostTurnShown ==
  ASSUME Inv, Inv', NEW h \in Hosts, HostTurn(h)
  PROVE  [console!Next]_(console!vars)
<1>0. TypeOK /\ UNCHANGED <<mgr, curr, target>> /\ jobs[h] \in Seq(Job)
  BY DEF Inv, HostTurn, manVars, TypeOK, HostTypeOK
<1>1. CASE UNCHANGED replyPipe
  BY <1>0, <1>1, NotShown
<1>2. CASE ReplyDisplayHostState(h)
  <2>1. Asked(h) /\ Answer(h, "state", dir[h])
    BY <1>2 DEF ReplyDisplayHostState, GetCommand, Asked
  <2> QED
    BY <1>0, <2>1, AnswerShown DEF console!Next
<1>3. CASE PingAcked(h) \/ PingTimeOut(h)
  <2> <<>> \in Seq(Job)
    OBVIOUS
  <2>1. RunJob(h, "PING_WAIT_FOR_REPLY", <<>>)
    BY <1>3 DEF PingAcked, PingTimeOut
  <2>2. Waits(h)
    BY <2>1, WaitJobRuns
  <2>3. CASE PingAcked(h)
    BY <1>0, <2>2, <2>3, AnswerShown DEF PingAcked, console!Next
  <2>4. CASE PingTimeOut(h)
    BY <1>0, <2>2, <2>4, AnswerShown DEF PingTimeOut, console!Next
  <2> QED
    BY <1>3, <2>3, <2>4
<1>4. CASE NoCommand(h) \/ SetDir(h) \/ StartPing(h) \/ StartUpload(h)
  BY <1>1, <1>4 DEF NoCommand, SetDir, StartPing, StartUpload, pipeVars
<1>5. CASE ScanStep(h)
  BY <1>1, <1>5 DEF ScanStep, RecvNothing, RecvOthers, RecvPingReply, RecvJob,
                    Recv, ScanPort
<1>6. CASE \/ NoJob(h) \/ SendPktAllPorts(h) \/ PingSendReply(h)
           \/ PingWaitOn(h) \/ FileUploadSend(h) \/ FileUploadRecvStart(h)
           \/ FileUploadRecvCont(h) \/ FileUploadRecvEnd(h)
  BY <1>1, <1>6 DEF NoJob, SendPktAllPorts, PingSendReply, PingWaitOn,
                    FileUploadSend, FileUploadRecvStart, FileUploadRecvCont,
                    FileUploadRecvEnd
<1> QED
  BY <1>2, <1>3, <1>4, <1>5, <1>6 DEF HostTurn, HostStep, CommandStep, JobStep

\* Every step of the program is one of the console, or none.
LEMMA NextShown ==
  Inv /\ Inv' /\ [Next]_vars => [console!Next]_(console!vars)
<1> SUFFICES ASSUME Inv, Inv', [Next]_vars
             PROVE  [console!Next]_(console!vars)
  OBVIOUS
<1>1. CASE ManStep
  BY <1>1, ManStepShown
<1>2. ASSUME NEW h \in Hosts, HostTurn(h)
      PROVE  [console!Next]_(console!vars)
  BY <1>2, HostTurnShown
<1>3. ASSUME NEW s \in Switches, SwitchTurn(s)
      PROVE  [console!Next]_(console!vars)
  <2>1. UNCHANGED <<mgr, curr, target, replyPipe>>
    BY <1>3 DEF SwitchTurn, SwitchStep, PortEmpty, Forward, Flood, PassOn,
                manVars, pipeVars
  <2> QED
    BY <2>1, NotShown
<1>4. CASE UNCHANGED vars
  <2>1. UNCHANGED <<mgr, curr, target, replyPipe>>
    BY <1>4 DEF vars, manVars, pipeVars
  <2> QED
    BY <2>1, NotShown
<1> QED
  BY <1>1, <1>2, <1>3, <1>4 DEF Next, Terminated

\* For a patient user the program is the console: one request, one answer of
\* its kind, from the host asked.
THEOREM ImplementsConsole ==
  ASSUME Patient
  PROVE  Spec => ConsoleSpec
<1>1. Init => Inv /\ console!Init
  BY InitInv, InitShown
<1>2. Inv /\ [Next]_vars => Inv'
  BY NextInv
<1>3. Inv /\ Inv' /\ [Next]_vars => [console!Next]_(console!vars)
  BY NextShown
<1> QED
  BY <1>1, <1>2, <1>3, PTL DEF Spec, ConsoleSpec, console!Spec

-----------------------------------------------------------------------------
(* The sources of the packets in a pipe                                    *)

\* The packets of a pipe have sources in S exactly if it is a sequence of such.
LEMMA SourcesSeq ==
  ASSUME NEW q \in Seq(Packet), NEW S
  PROVE  q \in Seq({p \in Packet : p.src \in S}) <=> Sources(q) \subseteq S
<1>1. DOMAIN q = 1..Len(q) /\ \A i \in 1..Len(q) : q[i] \in Packet
  BY ElementOfSeq, LenProperties
<1>2. ASSUME q \in Seq({p \in Packet : p.src \in S})
      PROVE  Sources(q) \subseteq S
  BY <1>1, <1>2, ElementOfSeq DEF Sources
<1>3. ASSUME Sources(q) \subseteq S
      PROVE  q \in Seq({p \in Packet : p.src \in S})
  <2>1. \A i \in 1..Len(q) : q[i] \in {p \in Packet : p.src \in S}
    BY <1>1, <1>3 DEF Sources
  <2>2. Len(q) \in Nat /\ q = [i \in 1..Len(q) |-> q[i]]
    BY LenProperties
  <2> QED
    BY <2>1, <2>2, IsASeq
<1> QED
  BY <1>2, <1>3

\* A read leaves no new source behind.
LEMMA SourcesUnread ==
  ASSUME NEW q \in Seq(Packet)
  PROVE  Sources(Unread(q)) \subseteq Sources(q)
<1> DEFINE P == {p \in Packet : p.src \in Sources(q)}
<1>1. q \in Seq(P)
  BY SourcesSeq
<1>2. Unread(q) \in Seq(P) /\ Unread(q) \in Seq(Packet)
  BY <1>1, UnreadType
<1> QED
  BY <1>2, SourcesSeq

\* A write adds the source of its packet at most.
LEMMA SourcesWrite ==
  ASSUME NEW q \in Seq(Packet), NEW p \in Packet
  PROVE  Sources(Write(q, p)) \subseteq Sources(q) \cup {p.src}
<1> DEFINE S == Sources(q) \cup {p.src}
           P == {r \in Packet : r.src \in S}
<1>1. q \in Seq(P) /\ p \in P
  BY SourcesSeq
<1>2. Write(q, p) \in Seq(P) /\ Write(q, p) \in Seq(Packet)
  BY <1>1, AppendProperties DEF Write
<1> QED
  BY <1>2, SourcesSeq

\* The packet read has its source among those of its pipe.
LEMMA SourcesHead ==
  ASSUME NEW q \in Seq(Packet), q # <<>>
  PROVE  Head(q).src \in Sources(q)
<1>1. Len(q) \in Nat \ {0} /\ DOMAIN q = 1..Len(q) /\ Head(q) = q[1]
  BY EmptySeq, LenProperties, HeadTailProperties
<1> QED
  BY <1>1 DEF Sources

\* What a read from one wire and writes to others do to the sources.
LEMMA SourcesTakeFrom ==
  ASSUME NEW pipes \in [Wires -> Seq(Packet)], NEW w0 \in Wires,
         NEW w \in Wires
  PROVE  Sources(TakeFrom(w0, pipes)[w]) \subseteq Sources(pipes[w])
BY SourcesUnread DEF TakeFrom

\* Writes add the source of the packet to the wires written to.
LEMMA SourcesPutOn ==
  ASSUME NEW pipes \in [Wires -> Seq(Packet)], NEW ws, NEW p \in Packet,
         NEW w \in Wires
  PROVE  /\ w \notin ws => PutOn(ws, pipes, p)[w] = pipes[w]
         /\ Sources(PutOn(ws, pipes, p)[w]) \subseteq Sources(pipes[w]) \cup {p.src}
BY SourcesWrite DEF PutOn

-----------------------------------------------------------------------------
(* Hosts send packets of their own only                                    *)

\* The packets of uploads.  Pair <<h, r>> is in May if host h may send some to r.
UpTypes == {"FILE_UPLOAD_START", "FILE_UPLOAD_CONT", "FILE_UPLOAD_END"}

Own(May, h, p) == p.src = h /\ (p.type \in UpTypes => <<h, p.dst>> \in May)

OwnPacket(May, h) == {p \in Packet : Own(May, h, p)}

OwnJob(May, h) ==
  {j \in Job : j.type \in {"SEND_PKT_ALL_PORTS", "FILE_UPLOAD_SEND"}
                 => Own(May, h, j.pkt)}

\* The upload a host is told to begin is one it may make.
UploadsOf(May) ==
  \A h \in Hosts :
    cmdPipe[h] # <<>> /\ Head(cmdPipe[h]).op = "u"
      => <<h, Head(cmdPipe[h]).dst>> \in May

OwnTraffic(May) ==
  /\ \A h \in Hosts : jobs[h] \in Seq(OwnJob(May, h))
  /\ \A w \in Wires : w[1] \in Hosts => link[w] \in Seq(OwnPacket(May, w[1]))

\* At the start there is no traffic.
LEMMA OwnInit ==
  ASSUME NEW May, Init
  PROVE  OwnTraffic(May)
BY DEF Init, HostInit, PipeInit, OwnTraffic

\* Job steps of host h that put its own jobs, or others' work, in its queue.
LEMMA OwnRunJob ==
  ASSUME NEW May, TypeOK, OwnTraffic(May), NEW h \in Hosts, NEW t,
         NEW more \in Seq(OwnJob(May, h)), RunJob(h, t, more)
  PROVE  /\ \A g \in Hosts : jobs'[g] \in Seq(OwnJob(May, g))
         /\ Head(jobs[h]) \in OwnJob(May, h)
<1>1. jobs[h] \in Seq(OwnJob(May, h)) /\ jobs[h] # <<>>
  BY DEF OwnTraffic, RunJob
<1>2. Head(jobs[h]) \in OwnJob(May, h) /\ Tail(jobs[h]) \in Seq(OwnJob(May, h))
  BY <1>1, HeadTailProperties
<1>3. Tail(jobs[h]) \o more \in Seq(OwnJob(May, h))
  BY <1>2, ConcatProperties
<1> QED
  BY <1>2, <1>3 DEF RunJob, OwnTraffic, TypeOK, HostTypeOK

\* A command makes jobs for packets of the host itself (host.c:159-193).
LEMMA OwnCommandStep ==
  ASSUME NEW May, TypeOK, OwnTraffic(May), UploadsOf(May), NEW h \in Hosts, CommandStep(h)
  PROVE  OwnTraffic(May)'
<1> DEFINE c == Head(cmdPipe[h])
<1>0. jobs[h] \in Seq(OwnJob(May, h)) /\ jobs \in [Hosts -> Seq(Job)]
  BY DEF OwnTraffic, TypeOK, HostTypeOK
<1>1. UNCHANGED link
  BY DEF CommandStep, NoCommand, ReplyDisplayHostState, SetDir, StartPing,
         StartUpload, GetCommand, pipeVars
<1>2. CASE NoCommand(h) \/ ReplyDisplayHostState(h) \/ SetDir(h)
  BY <1>1, <1>2 DEF NoCommand, ReplyDisplayHostState, SetDir, OwnTraffic
<1>3. CASE StartPing(h)
  <2> DEFINE req == NewPacket(h, c.dst, "PING_REQ", None)
  <2>1. c \in Command /\ c.op = "p"
    BY <1>3, GetCommandType DEF StartPing
  <2>2. SendJob(req) \in OwnJob(May, h) /\ WaitFor(PingTimer) \in OwnJob(May, h)
    BY <2>1, HostAssumption
    DEF Command, NewPacket, Packet, PacketOf, SendJob, NewJob, WaitFor, Job,
        PacketJob, WaitJob, OwnJob, Own, UpTypes
  <2>3. jobs[h] \o <<SendJob(req), WaitFor(PingTimer)>> \in Seq(OwnJob(May, h))
    BY <1>0, <2>2, ConcatProperties
  <2> QED
    BY <1>0, <1>1, <1>3, <2>3 DEF StartPing, OwnTraffic
<1>4. CASE StartUpload(h)
  <2> DEFINE start == NewPacket(h, c.dst, "FILE_UPLOAD_START", LastArgument(h))
  <2>1. c \in Command /\ c.op = "u" /\ <<h, c.dst>> \in May
    BY <1>4, GetCommandType DEF StartUpload, GetCommand, UploadsOf
  <2>2. NewJob("FILE_UPLOAD_SEND", start) \in OwnJob(May, h)
    BY <2>1
    DEF Command, LastArgument, NewPacket, PacketOf, NewJob, Job, UploadJob,
        OwnJob, Own
  <2>3. Append(jobs[h], NewJob("FILE_UPLOAD_SEND", start)) \in Seq(OwnJob(May, h))
    BY <1>0, <2>2, AppendProperties
  <2> QED
    BY <1>0, <1>1, <1>4, <2>3 DEF StartUpload, OwnTraffic
<1> QED
  BY <1>2, <1>3, <1>4 DEF CommandStep

\* A read from a wire into host h.
LEMMA OwnRecv ==
  ASSUME NEW May, TypeOK, OwnTraffic(May), NEW h \in Hosts, Recv(h)
  PROVE  \A w \in Wires : w[1] \in Hosts => link'[w] \in Seq(OwnPacket(May, w[1]))
<1>1. InWire(h) \in Wires
  BY ScanType DEF Recv
<1> QED
  BY <1>1, UnreadType DEF Recv, TakeFrom, OwnTraffic, TypeOK

\* A packet that comes in makes no job that sends it (host.c:265-315).
LEMMA OwnScanStep ==
  ASSUME NEW May, TypeOK, OwnTraffic(May), NEW h \in Hosts, ScanStep(h)
  PROVE  OwnTraffic(May)'
<1>0. jobs[h] \in Seq(OwnJob(May, h)) /\ jobs \in [Hosts -> Seq(Job)]
  BY DEF OwnTraffic, TypeOK, HostTypeOK
<1>1. CASE RecvNothing(h)
  BY <1>1 DEF RecvNothing, OwnTraffic
<1>2. CASE RecvOthers(h) \/ RecvPingReply(h)
  BY <1>2, OwnRecv DEF RecvOthers, RecvPingReply, OwnTraffic
<1>3. CASE RecvJob(h)
  <2>1. Arrived(h) \in Packet /\ Arrived(h).type # "PING_REPLY"
    BY <1>3, RecvType DEF RecvJob
  <2>2. JobFor(Arrived(h)) \in Job
    BY <2>1, JobForType
  <2>3. JobFor(Arrived(h)).type
          \notin {"SEND_PKT_ALL_PORTS", "FILE_UPLOAD_SEND"}
    BY <2>1 DEF JobFor, NewJob, Packet, PacketOf
  <2>4. Append(jobs[h], JobFor(Arrived(h))) \in Seq(OwnJob(May, h))
    BY <1>0, <2>2, <2>3, AppendProperties DEF OwnJob
  <2> QED
    BY <1>0, <1>3, <2>4, OwnRecv DEF RecvJob, OwnTraffic
<1> QED
  BY <1>1, <1>2, <1>3 DEF ScanStep

\* An upload job of h becomes send jobs of h.
LEMMA OwnUpload ==
  ASSUME NEW May, NEW h \in Hosts,
         NEW start \in PacketOf({"FILE_UPLOAD_START"}, Names),
         NEW data \in Seq(Chunks), Own(May, h, start)
  PROVE  SendJobs(UploadPackets(start, data)) \in Seq(OwnJob(May, h))
<1> DEFINE ps == UploadPackets(start, data)
<1>1. /\ ps \in Seq(Packet)
      /\ \A i \in DOMAIN ps : ps[i].src = h /\ ps[i].dst = start.dst
  BY UploadPacketsType DEF Own
<1> HIDE DEF ps
<1>2. Len(ps) \in Nat /\ DOMAIN ps = 1..Len(ps)
      /\ \A i \in 1..Len(ps) : ps[i] \in Packet
  BY <1>1, LenProperties, ElementOfSeq
<1>3. \A i \in 1..Len(ps) : SendJob(ps[i]) \in OwnJob(May, h)
  BY <1>1, <1>2
  DEF SendJob, NewJob, Job, PacketJob, OwnJob, Own, UpTypes, PacketOf
<1>4. [i \in 1..Len(ps) |-> SendJob(ps[i])] \in Seq(OwnJob(May, h))
  BY <1>2, <1>3, IsASeq
<1> QED
  BY <1>4 DEF SendJobs, ps

\* A job sends packets of its host, or makes jobs that do (host.c:365-631).
LEMMA OwnJobStep ==
  ASSUME NEW May, TypeOK, OwnTraffic(May), NEW h \in Hosts, JobStep(h)
  PROVE  OwnTraffic(May)'
<1> DEFINE j == Head(jobs[h])
<1>0. /\ <<>> \in Seq(OwnJob(May, h))
      /\ \A w \in Wires : w[1] \in Hosts => link[w] \in Seq(OwnPacket(May, w[1]))
  BY DEF OwnTraffic
<1>1. CASE NoJob(h)
  BY <1>1 DEF NoJob, OwnTraffic
<1>2. CASE SendPktAllPorts(h)
  <2>1. /\ j \in OwnJob(May, h) /\ j.type = "SEND_PKT_ALL_PORTS"
        /\ \A g \in Hosts : jobs'[g] \in Seq(OwnJob(May, g))
    BY <1>0, <1>2, OwnRunJob DEF SendPktAllPorts, RunJob
  <2>2. j.pkt \in OwnPacket(May, h)
    BY <2>1 DEF OwnJob, OwnPacket, Job, PacketJob, WaitJob, UploadJob
  <2>3. ASSUME NEW w \in Wires, w[1] \in Hosts
        PROVE  link'[w] \in Seq(OwnPacket(May, w[1]))
    <3>1. w \in AllPorts(h) => w[1] = h
      BY DEF AllPorts
    <3>2. link[w] \in Seq(OwnPacket(May, w[1]))
      BY <1>0, <2>3
    <3> QED
      BY <1>2, <2>2, <3>1, <3>2, AppendProperties
      DEF SendPktAllPorts, PutOn, Write
  <2> QED
    BY <2>1, <2>3 DEF OwnTraffic
<1>3. CASE PingSendReply(h)
  <2> DEFINE r == SendJob(NewPacket(h, j.pkt.src, "PING_REPLY", None))
  <2>1. RunJob(h, "PING_SEND_REPLY", <<r>>)
    BY <1>3 DEF PingSendReply
  <2>2. jobs[h] # <<>> /\ j.type = "PING_SEND_REPLY"
    BY <2>1 DEF RunJob
  <2>3. j \in Job
    BY <2>2, HeadTailProperties DEF TypeOK, HostTypeOK
  <2>4. j.pkt.src \in Ids
    BY <2>2, <2>3, TopologyAssumption
    DEF Job, PacketJob, WaitJob, UploadJob, PacketOf
  <2>5. r \in OwnJob(May, h)
    BY <2>4 DEF SendJob, NewJob, NewPacket, Job, PacketJob, Packet, PacketOf,
                OwnJob, Own, UpTypes
  <2>6. \A g \in Hosts : jobs'[g] \in Seq(OwnJob(May, g))
    <3> HIDE DEF r
    <3>1. <<r>> \in Seq(OwnJob(May, h))
      BY <2>5
    <3> QED
      BY <2>1, <3>1, OwnRunJob
  <2> QED
    BY <1>3, <2>6 DEF PingSendReply, OwnTraffic
<1>4. CASE PingAcked(h) \/ PingTimeOut(h)
  BY <1>0, <1>4, OwnRunJob DEF PingAcked, PingTimeOut, OwnTraffic
<1>5. CASE PingWaitOn(h)
  <2> DEFINE w == WaitFor(j.timer - 1)
  <2>1. RunJob(h, "PING_WAIT_FOR_REPLY", <<w>>) /\ j.timer > 1
    BY <1>5 DEF PingWaitOn
  <2>2. jobs[h] # <<>> /\ j.type = "PING_WAIT_FOR_REPLY"
    BY <2>1 DEF RunJob
  <2>3. j \in Job
    BY <2>2, HeadTailProperties DEF TypeOK, HostTypeOK
  <2>4. j.timer \in 1..PingTimer
    BY <2>2, <2>3 DEF Job, PacketJob, WaitJob, UploadJob
  <2>5. w \in OwnJob(May, h)
    BY <2>1, <2>4, HostAssumption DEF WaitFor, Job, WaitJob, OwnJob
  <2>6. \A g \in Hosts : jobs'[g] \in Seq(OwnJob(May, g))
    <3> HIDE DEF w
    <3>1. <<w>> \in Seq(OwnJob(May, h))
      BY <2>5
    <3> QED
      BY <2>1, <3>1, OwnRunJob
  <2> QED
    BY <1>5, <2>6 DEF PingWaitOn, OwnTraffic
<1>6. CASE FileUploadSend(h)
  <2> DEFINE data == FileOf(h, j.pkt.body)
             more == IF data = None THEN <<>>
                     ELSE SendJobs(UploadPackets(j.pkt, data))
  <2>1. RunJob(h, "FILE_UPLOAD_SEND", more)
    BY <1>6 DEF FileUploadSend
  <2>2. jobs[h] # <<>> /\ j.type = "FILE_UPLOAD_SEND"
    BY <2>1 DEF RunJob
  <2>3. j \in OwnJob(May, h)
    BY <2>2, HeadTailProperties DEF OwnTraffic
  <2>4. ASSUME data # None
        PROVE  /\ j.pkt \in PacketOf({"FILE_UPLOAD_START"}, Names)
               /\ Own(May, h, j.pkt)
               /\ data \in Seq(Chunks)
    BY <2>2, <2>3, <2>4
    DEF FileOf, Contents, OwnJob, Job, PacketJob, WaitJob, UploadJob, PacketOf,
        TypeOK, HostTypeOK
  <2>5. more \in Seq(OwnJob(May, h))
    BY <1>0, <2>4, OwnUpload
  <2>6. \A g \in Hosts : jobs'[g] \in Seq(OwnJob(May, g))
    <3> HIDE DEF more
    <3> QED
      BY <2>1, <2>5, OwnRunJob
  <2> QED
    BY <1>6, <2>6 DEF FileUploadSend, OwnTraffic
<1>7. CASE \/ FileUploadRecvStart(h) \/ FileUploadRecvCont(h)
           \/ FileUploadRecvEnd(h)
  BY <1>0, <1>7, OwnRunJob
  DEF FileUploadRecvStart, FileUploadRecvCont, FileUploadRecvEnd, OwnTraffic
<1> QED
  BY <1>1, <1>2, <1>3, <1>4, <1>5, <1>6, <1>7 DEF JobStep

\* OwnTraffic when a switch takes its turn: no wire out of a host gains.
LEMMA OwnSwitchTurn ==
  ASSUME NEW May, TypeOK, OwnTraffic(May), NEW b \in Switches, SwitchTurn(b)
  PROVE  OwnTraffic(May)'
<1>1. UNCHANGED jobs
  BY DEF SwitchTurn, hostVars
<1>2. ASSUME NEW ws, ws \subseteq AllPorts(b), PassOn(b, ws),
             NEW w \in Wires, w[1] \in Hosts
      PROVE  link'[w] \in Seq(OwnPacket(May, w[1]))
  <2>1. w \notin ws
    BY <1>2, TopologyAssumption DEF AllPorts
  <2>2. SwWire(b) \in Wires
    BY PortWire DEF TypeOK, SwitchTypeOK, SwWire, Nodes
  <2>3. link'[w] = TakeFrom(SwWire(b), link)[w]
    BY <1>2, <2>1 DEF PassOn, PutOn
  <2>4. link'[w] \in {link[w], Unread(link[w])}
    BY <2>2, <2>3 DEF TakeFrom, TypeOK
  <2>5. link[w] \in Seq(OwnPacket(May, w[1]))
    BY <1>2 DEF OwnTraffic
  <2> QED
    BY <2>4, <2>5, UnreadType
<1>3. CASE PortEmpty(b)
  BY <1>1, <1>3 DEF PortEmpty, pipeVars, OwnTraffic
<1>4. CASE Flood(b)
  BY <1>1, <1>2, <1>4 DEF Flood, OwnTraffic
<1>5. CASE Forward(b)
  <2> DEFINE d == SwArrived(b).dst
  <2>1. SwArrived(b) \in Packet
    BY <1>5, PassOnType DEF Forward
  <2>2. d \in Ids /\ fwd[b][d] # 0
    BY <1>5, <2>1, TopologyAssumption DEF Forward, Packet, PacketOf
  <2>3. fwd[b][d] \in 1..Len(Port[b])
    BY <2>2, PortNumber DEF TypeOK, SwitchTypeOK
  <2>4. Port[b] \in Seq(Nodes)
    BY TopologyAssumption DEF Nodes
  <2>5. {<<b, Port[b][fwd[b][d]]>>} \subseteq AllPorts(b)
    BY <2>3, <2>4, LenProperties DEF AllPorts, Neighbours
  <2> QED
    BY <1>1, <1>2, <1>5, <2>5 DEF Forward, OwnTraffic
<1> QED
  BY <1>3, <1>4, <1>5 DEF SwitchTurn, SwitchStep

\* So whatever happens, hosts send packets of their own.
LEMMA OwnNext ==
  ASSUME NEW May, TypeOK, OwnTraffic(May), UploadsOf(May), [Next]_vars
  PROVE  OwnTraffic(May)'
<1>1. ASSUME UNCHANGED <<jobs, link>>
      PROVE  OwnTraffic(May)'
  BY <1>1 DEF OwnTraffic
<1>2. CASE ManStep
  BY <1>1, <1>2
  DEF ManStep, UserStep, DisplayHostState, Ping, SetHostDir, FileUpload,
      FileDownload, ChangeHost, Quit, GetReply, SendCommand, pipeVars, hostVars
<1>3. ASSUME NEW h \in Hosts, HostTurn(h)
      PROVE  OwnTraffic(May)'
  BY <1>3, OwnCommandStep, OwnScanStep, OwnJobStep DEF HostTurn, HostStep
<1>4. ASSUME NEW b \in Switches, SwitchTurn(b)
      PROVE  OwnTraffic(May)'
  BY <1>4, OwnSwitchTurn
<1>5. CASE UNCHANGED vars
  BY <1>1, <1>5 DEF vars, hostVars, pipeVars
<1> QED
  BY <1>2, <1>3, <1>4, <1>5 DEF Next, Terminated

-----------------------------------------------------------------------------
(* Learning                                                                *)

\* A switch that reads a packet of host h on port k of switch b, learns it if
\* it does not know h, and writes the packet to some of its ports.
Learns(b, k, h) ==
  /\ fwd' = [fwd EXCEPT ![b][h] = IF @ # 0 THEN @ ELSE k]
  /\ \A w \in Wires :
       \A i \in Sources(link'[w]) :
         i \in Sources(link[w]) \/ (w[1] = b /\ i = h)

\* The heart of the argument.  If b does not know h, the packet came from the
\* next node on the way to h (EchoesComeLater), so b learns the right port,
\* and that node, if a switch, knows h (SendersHaveLearned).  Any switch b
\* then writes to either is that node, or has b on its way to h.
LEMMA LearningKeeps ==
  ASSUME TypeOK, LearnedPortsLead, WayBackIsKnown,
         NEW b \in Switches, NEW k \in 1..Len(Port[b]), NEW h \in Hosts,
         h \in Sources(link[<<Port[b][k], b>>]), Learns(b, k, h),
         link' \in [Wires -> Seq(Packet)]
  PROVE  LearnedPortsLead' /\ WayBackIsKnown'
<1> DEFINE a == Port[b][k]
<1>1. /\ <<a, b>> \in Wires
      /\ Len(Port[b]) \in Nat /\ k # 0
      /\ Route[b][h] \in 1..Len(Port[b])
  BY PortWire, PortNumber, TreeAssumption DEF Nodes
<1>2. /\ \A s \in Switches : \A i \in Hosts :
           /\ fwd[s][i] # 0 => fwd'[s][i] = fwd[s][i]
           /\ fwd'[s][i] # 0 => fwd[s][i] # 0 \/ (s = b /\ i = h)
      /\ fwd'[b][h] # 0
      /\ fwd[b][h] = 0 => fwd'[b][h] = k
  <2>1. fwd \in [Switches -> [Ids -> Nat]] /\ Hosts \subseteq Ids /\ k \in Nat
    BY <1>1, TopologyAssumption DEF TypeOK, SwitchTypeOK
  <2>2. fwd' = [fwd EXCEPT ![b][h] = IF @ # 0 THEN @ ELSE k]
    BY DEF Learns
  <2> QED
    BY <1>1, <2>1, <2>2
<1>3. ASSUME fwd[b][h] = 0
      PROVE  Toward(b, h) = a /\ (a \in Switches => fwd[a][h] # 0)
  BY <1>1, <1>3 DEF WayBackIsKnown, EchoesComeLater, SendersHaveLearned
<1>4. LearnedPortsLead'
  <2>1. ASSUME fwd[b][h] = 0
        PROVE  k = Route[b][h]
    BY <1>1, <1>3, <2>1, TopologyAssumption DEF Toward, Nodes
  <2>2. ASSUME NEW s \in Switches, NEW i \in Hosts
        PROVE  fwd'[s][i] \in {0, Route[s][i]}
    BY <1>2, <2>1 DEF LearnedPortsLead
  <2> QED
    BY <2>2 DEF LearnedPortsLead
<1>5. LearnedOnTheWay'
  <2>1. ASSUME NEW s \in Switches, NEW i \in Hosts,
               fwd'[s][i] # 0, Toward(s, i) \in Switches
        PROVE  fwd'[Toward(s, i)][i] # 0
    <3>1. CASE fwd[s][i] # 0
      BY <1>2, <2>1, <3>1 DEF WayBackIsKnown, LearnedOnTheWay
    <3>2. CASE fwd[s][i] = 0
      BY <1>2, <1>3, <2>1, <3>2
    <3> QED
      BY <3>1, <3>2
  <2> QED
    BY <2>1 DEF LearnedOnTheWay, Toward
<1>6. \A w \in Wires : Sources(link'[w]) \subseteq Hosts
  BY ElementOfSeq, LenProperties DEF Sources, Packet, PacketOf
<1>7. SendersHaveLearned'
  <2>1. ASSUME NEW w \in Wires, NEW i \in Sources(link'[w]), w[1] \in Switches
        PROVE  fwd'[w[1]][i] # 0
    <3>0. i \in Hosts
      BY <1>6
    <3>1. CASE i \in Sources(link[w])
      <4>1. fwd[w[1]][i] # 0
        BY <2>1, <3>1 DEF WayBackIsKnown, SendersHaveLearned
      <4> QED
        BY <1>2, <2>1, <3>0, <4>1
    <3>2. CASE w[1] = b /\ i = h
      BY <1>2, <3>2
    <3> QED
      BY <3>1, <3>2 DEF Learns
  <2> QED
    BY <2>1 DEF SendersHaveLearned, Sources
<1>8. EchoesComeLater'
  <2>1. ASSUME NEW w \in Wires, NEW i \in Sources(link'[w]),
               w[2] \in Switches, Toward(w[2], i) # w[1]
        PROVE  fwd'[w[2]][i] # 0
    <3>0. i \in Hosts
      BY <1>6
    <3>1. CASE i \in Sources(link[w])
      <4>1. fwd[w[2]][i] # 0
        BY <2>1, <3>1 DEF WayBackIsKnown, EchoesComeLater
      <4> QED
        BY <1>2, <2>1, <3>0, <4>1
    <3>2. CASE w[1] = b /\ i = h
      <4>1. w[2] \in Neighbours(b)
        BY <3>2 DEF Wires
      <4>2. Toward(b, h) = w[2]
        BY <2>1, <3>2, <4>1, TreeAssumption
      <4> QED
        BY <1>2, <1>5, <2>1, <3>2, <4>2 DEF LearnedOnTheWay, Toward
    <3> QED
      BY <3>1, <3>2 DEF Learns
  <2> QED
    BY <2>1 DEF EchoesComeLater, Sources, Toward
<1> QED
  BY <1>4, <1>5, <1>7, <1>8 DEF WayBackIsKnown

\* A step of host h, whose packets have one source and reach a switch from the
\* side it expects them on.
LEMMA HostSendKeeps ==
  ASSUME TypeOK, LearnedPortsLead, WayBackIsKnown, UNCHANGED fwd,
         NEW h \in Hosts,
         \A w \in Wires : \A i \in Sources(link'[w]) :
           i \in Sources(link[w]) \/ (w[1] = h /\ i = h)
  PROVE  LearnedPortsLead' /\ WayBackIsKnown'
<1>1. LearnedPortsLead' /\ LearnedOnTheWay'
  BY DEF LearnedPortsLead, WayBackIsKnown, LearnedOnTheWay, Toward
<1>2. h \notin Switches
  BY TopologyAssumption
<1>3. SendersHaveLearned'
  <2>1. ASSUME NEW w \in Wires, NEW i \in Sources(link'[w]), w[1] \in Switches
        PROVE  fwd'[w[1]][i] # 0
    BY <1>2, <2>1 DEF WayBackIsKnown, SendersHaveLearned
  <2> QED
    BY <2>1 DEF SendersHaveLearned, Sources
<1>4. EchoesComeLater'
  <2>1. ASSUME NEW w \in Wires, NEW i \in Sources(link'[w]),
               w[2] \in Switches, Toward(w[2], i) # w[1]
        PROVE  fwd'[w[2]][i] # 0
    <3>1. CASE w[1] = h /\ i = h
      <4>1. PICK k \in DOMAIN Port[h] : w[2] = Port[h][k]
        BY <3>1 DEF Wires, Neighbours
      <4>2. Port[h] \in Seq(Nodes) /\ h \in Nodes
        BY TopologyAssumption DEF Nodes
      <4>3. k \in 1..Len(Port[h])
        BY <4>1, <4>2, LenProperties
      <4>4. h \in Neighbours(w[2])
        BY <4>1, <4>2, <4>3, TopologyAssumption
      <4> QED
        BY <2>1, <3>1, <4>4, TreeAssumption
    <3> QED
      BY <2>1, <3>1 DEF WayBackIsKnown, EchoesComeLater
  <2> QED
    BY <2>1 DEF EchoesComeLater, Sources, Toward
<1> QED
  BY <1>1, <1>3, <1>4 DEF WayBackIsKnown

-----------------------------------------------------------------------------
(* The theorem                                                             *)

\* Here any host may send uploads to any other.
Any == Hosts \X Ids

TreeInv == TypeOK /\ OwnTraffic(Any) /\ LearnedPortsLead /\ WayBackIsKnown

\* All tables are empty and nothing is under way at the start.
LEMMA TreeInit == Init => TreeInv
<1> SUFFICES ASSUME Init PROVE TreeInv
  OBVIOUS
<1>1. /\ \A w \in Wires : link[w] = <<>>
      /\ \A s \in Switches : \A h \in Hosts : fwd[s][h] = 0
  BY TopologyAssumption DEF Init, PipeInit, SwitchInit
<1>2. \A w \in Wires : Sources(link[w]) = {}
  BY <1>1 DEF Sources
<1>3. LearnedPortsLead /\ SendersHaveLearned /\ EchoesComeLater
  BY <1>1, <1>2 DEF LearnedPortsLead, SendersHaveLearned, EchoesComeLater
<1>4. LearnedOnTheWay
  BY <1>1 DEF LearnedOnTheWay
<1> QED
  BY <1>3, <1>4, InitTyped, OwnInit DEF TreeInv, WayBackIsKnown

\* A step of switch b that passes a packet on, to any of its ports.
LEMMA PassOnKeeps ==
  ASSUME TreeInv, NEW b \in Switches, NEW ws, ws \subseteq AllPorts(b),
         link[SwWire(b)] # <<>>, PassOn(b, ws)
  PROVE  LearnedPortsLead' /\ WayBackIsKnown'
<1> DEFINE h == SwArrived(b).src
           k == swAt[b]
<1>1. TypeOK /\ LearnedPortsLead /\ WayBackIsKnown
  BY DEF TreeInv
<1>2. k \in 1..Len(Port[b]) /\ SwWire(b) \in Wires
      /\ SwWire(b) = <<Port[b][k], b>>
  BY <1>1, PortWire DEF TypeOK, SwitchTypeOK, SwWire, Nodes
<1>3. /\ SwArrived(b) \in Packet
      /\ link \in [Wires -> Seq(Packet)]
      /\ link' \in [Wires -> Seq(Packet)]
  BY <1>1, PassOnType DEF TypeOK
<1>4. h \in Hosts
  BY <1>3 DEF Packet, PacketOf
<1>5. h \in Sources(link[SwWire(b)])
  BY <1>2, <1>3, SourcesHead DEF SwArrived
<1>6. ASSUME NEW w \in Wires, NEW i \in Sources(link'[w])
      PROVE  i \in Sources(link[w]) \/ (w[1] = b /\ i = h)
  <2> DEFINE pipes == TakeFrom(SwWire(b), link)
  <2>1. pipes \in [Wires -> Seq(Packet)]
    BY <1>2, <1>3, TakeFromType
  <2>2. Sources(pipes[w]) \subseteq Sources(link[w])
    BY <1>2, <1>3, SourcesTakeFrom
  <2>3. link' = PutOn(ws, pipes, SwArrived(b))
    BY DEF PassOn
  <2> HIDE DEF pipes
  <2>4. /\ w \notin ws => link'[w] = pipes[w]
        /\ Sources(link'[w]) \subseteq Sources(pipes[w]) \cup {h}
    <3> DEFINE p == SwArrived(b)
    <3>1. p \in Packet /\ link' = PutOn(ws, pipes, p)
      BY <1>3, <2>3
    <3> HIDE DEF p
    <3>2. /\ w \notin ws => link'[w] = pipes[w]
          /\ Sources(link'[w]) \subseteq Sources(pipes[w]) \cup {p.src}
      BY <2>1, <3>1, SourcesPutOn
    <3> QED
      BY <3>2 DEF p
  <2>5. w \in ws => w[1] = b
    BY DEF AllPorts
  <2> QED
    BY <1>6, <2>2, <2>4, <2>5
<1>7. Learns(b, k, h)
  BY <1>6 DEF Learns, PassOn, AddSrc
<1> QED
  BY <1>1, <1>2, <1>3, <1>4, <1>5, <1>7, LearningKeeps

\* Whatever a switch does with a packet, it has learned right.
LEMMA TreeSwitchTurn ==
  ASSUME TreeInv, NEW b \in Switches, SwitchTurn(b)
  PROVE  LearnedPortsLead' /\ WayBackIsKnown'
<1>1. CASE PortEmpty(b)
  <2>1. UNCHANGED <<fwd, link>>
    BY <1>1 DEF PortEmpty, pipeVars
  <2> QED
    BY <2>1 DEF TreeInv, LearnedPortsLead, WayBackIsKnown, LearnedOnTheWay,
                SendersHaveLearned, EchoesComeLater
<1>2. CASE Forward(b)
  <2> DEFINE d == SwArrived(b).dst
  <2>1. SwArrived(b) \in Packet
    BY <1>2, PassOnType DEF Forward, TreeInv
  <2>2. d \in Ids /\ fwd[b][d] # 0
    BY <1>2, <2>1, TopologyAssumption DEF Forward, Packet, PacketOf
  <2>3. fwd[b][d] \in 1..Len(Port[b])
    BY <2>2, PortNumber DEF TreeInv, TypeOK, SwitchTypeOK
  <2>4. Port[b] \in Seq(Nodes)
    BY TopologyAssumption DEF Nodes
  <2>5. {<<b, Port[b][fwd[b][d]]>>} \subseteq AllPorts(b)
    BY <2>3, <2>4, LenProperties DEF AllPorts, Neighbours
  <2> QED
    BY <1>2, <2>5, PassOnKeeps DEF Forward
<1>3. CASE Flood(b)
  BY <1>3, PassOnKeeps DEF Flood
<1> QED
  BY <1>1, <1>2, <1>3 DEF SwitchTurn, SwitchStep

\* A host adds packets of its own to its own wires, and no others.
LEMMA TreeHostTurn ==
  ASSUME TreeInv, NEW h \in Hosts, HostTurn(h)
  PROVE  LearnedPortsLead' /\ WayBackIsKnown'
<1>1. TypeOK /\ OwnTraffic(Any) /\ LearnedPortsLead /\ WayBackIsKnown
      /\ UNCHANGED fwd /\ link \in [Wires -> Seq(Packet)]
  BY DEF TreeInv, HostTurn, switchVars, TypeOK
<1> SUFFICES ASSUME NEW w \in Wires, NEW i \in Sources(link'[w])
             PROVE  i \in Sources(link[w]) \/ (w[1] = h /\ i = h)
  BY <1>1, HostSendKeeps
<1>2. CASE UNCHANGED link
  BY <1>2
<1>3. CASE Recv(h)
  <2>1. InWire(h) \in Wires
    BY <1>1, <1>3, ScanType DEF Recv
  <2> QED
    BY <1>1, <1>3, <2>1, SourcesTakeFrom DEF Recv
<1>4. CASE SendPktAllPorts(h)
  <2> DEFINE j == Head(jobs[h])
  <2>1. j \in OwnJob(Any, h) /\ j.type = "SEND_PKT_ALL_PORTS"
    <3>1. <<>> \in Seq(OwnJob(Any, h))
      OBVIOUS
    <3> QED
      BY <1>1, <1>4, <3>1, OwnRunJob DEF SendPktAllPorts, RunJob
  <2> DEFINE p  == j.pkt
             ws == AllPorts(h)
  <2>2. p \in Packet /\ p.src = h
    BY <2>1 DEF OwnJob, Own, Job, PacketJob, WaitJob, UploadJob
  <2>3. w \in ws => w[1] = h
    BY DEF AllPorts
  <2>4. link' = PutOn(ws, link, p)
    BY <1>4 DEF SendPktAllPorts
  <2> HIDE DEF p, ws
  <2>5. /\ w \notin ws => link'[w] = link[w]
        /\ Sources(link'[w]) \subseteq Sources(link[w]) \cup {p.src}
    <3>1. link \in [Wires -> Seq(Packet)] /\ p \in Packet
      BY <1>1, <2>2
    <3>2. /\ w \notin ws => PutOn(ws, link, p)[w] = link[w]
          /\ Sources(PutOn(ws, link, p)[w]) \subseteq Sources(link[w]) \cup {p.src}
      BY <3>1, SourcesPutOn
    <3> QED
      BY <2>4, <3>2
  <2> QED
    BY <2>2, <2>3, <2>5
<1> QED
  BY <1>2, <1>3, <1>4
  DEF HostTurn, HostStep, CommandStep, NoCommand, ReplyDisplayHostState, SetDir,
      StartPing, StartUpload, GetCommand, ScanStep, RecvNothing, RecvOthers,
      RecvPingReply, RecvJob, JobStep, NoJob, PingSendReply, PingAcked,
      PingWaitOn, PingTimeOut, FileUploadSend, FileUploadRecvStart,
      FileUploadRecvCont, FileUploadRecvEnd, pipeVars

\* The invariant is inductive.
LEMMA TreeNext == TreeInv /\ [Next]_vars => TreeInv'
<1> SUFFICES ASSUME TreeInv, [Next]_vars
             PROVE  TreeInv'
  OBVIOUS
<1>1. UploadsOf(Any)
  BY HeadTailProperties DEF TreeInv, TypeOK, UploadsOf, Any, Command
<1>2. TypeOK' /\ OwnTraffic(Any)'
  BY <1>1, NextTyped, OwnNext DEF TreeInv
<1>3. LearnedPortsLead' /\ WayBackIsKnown'
  <2>1. ASSUME UNCHANGED <<link, fwd>>
        PROVE  LearnedPortsLead' /\ WayBackIsKnown'
    BY <2>1 DEF TreeInv, LearnedPortsLead, WayBackIsKnown, LearnedOnTheWay,
                SendersHaveLearned, EchoesComeLater
  <2>2. CASE ManStep
    BY <2>1, <2>2
    DEF ManStep, UserStep, DisplayHostState, Ping, SetHostDir, FileUpload,
        FileDownload, ChangeHost, Quit, GetReply, SendCommand, pipeVars,
        switchVars
  <2>3. CASE UNCHANGED vars
    BY <2>1, <2>3 DEF vars, switchVars, pipeVars
  <2> QED
    BY <2>2, <2>3, TreeHostTurn, TreeSwitchTurn DEF Next, Terminated
<1> QED
  BY <1>2, <1>3 DEF TreeInv

\* In every tree of switches a table entry is the port that leads to its host,
\* in spite of the echoes: no switch ever has to unlearn anything.
THEOREM SwitchesLearnRight == Spec => []LearnedPortsLead
<1>1. Init => TreeInv
  BY TreeInit
<1>2. TreeInv /\ [Next]_vars => TreeInv'
  BY TreeNext
<1>3. TreeInv => LearnedPortsLead
  BY DEF TreeInv
<1> QED
  BY <1>1, <1>2, <1>3, PTL DEF Spec

\* Where a packet of a host has been, every switch between there and the host
\* knows the way back (switch.c:128-138): in trees of any size the echo of a
\* flood never comes before the packet it is an echo of.
THEOREM WaysBackKnown == Spec => []WayBackIsKnown
<1>1. Init => TreeInv
  BY TreeInit
<1>2. TreeInv /\ [Next]_vars => TreeInv'
  BY TreeNext
<1>3. TreeInv => WayBackIsKnown
  BY DEF TreeInv
<1> QED
  BY <1>1, <1>2, <1>3, PTL DEF Spec

-----------------------------------------------------------------------------
(* Sequences some of whose elements are a piece of a stream                *)

\* Of the elements of S, sequence q holds those at the places behind lo, up to
\* hi, of the stream str, in their order: g[i] is the place of the last one
\* among the first i elements of q.
Carries(q, S, str, lo, hi) ==
  \E g \in [0..Len(q) -> Nat] :
    /\ g[0] = lo /\ g[Len(q)] = hi
    /\ \A i \in 1..Len(q) :
         IF q[i] \in S
         THEN g[i] = g[i - 1] + 1 /\ g[i] \in DOMAIN str /\ str[g[i]] = q[i]
         ELSE g[i] = g[i - 1]

\* What was carried by q is carried by r, wholly, without its first element e, or
\* with e as one more.
Keeps(q, r, S) ==
  \A str, lo, hi : Carries(q, S, str, lo, hi) => Carries(r, S, str, lo, hi)

Takes(q, r, S, e) ==
  \A str, lo, hi : Carries(q, S, str, lo, hi) =>
    /\ lo + 1 \in DOMAIN str /\ str[lo + 1] = e
    /\ Carries(r, S, str, lo + 1, hi)

Adds(q, r, S, e) ==
  \A str, lo, hi :
    Carries(q, S, str, lo, hi) /\ hi + 1 \in DOMAIN str /\ str[hi + 1] = e
      => Carries(r, S, str, lo, hi + 1)

\* Places are numbers.
LEMMA CarriesNumbers ==
  ASSUME NEW T, NEW q \in Seq(T), NEW S, NEW str, NEW lo, NEW hi,
         Carries(q, S, str, lo, hi)
  PROVE  lo \in Nat /\ hi \in Nat
<1>1. Len(q) \in Nat /\ 0 \in 0..Len(q) /\ Len(q) \in 0..Len(q)
  BY LenProperties
<1> QED BY <1>1 DEF Carries

\* One sequence behind another carries what the two do.
LEMMA CarriesConcat ==
  ASSUME NEW T, NEW q \in Seq(T), NEW r \in Seq(T), NEW S, NEW str,
         NEW lo, NEW mid, NEW hi,
         Carries(q, S, str, lo, mid), Carries(r, S, str, mid, hi)
  PROVE  Carries(q \o r, S, str, lo, hi)
<1>1. PICK g \in [0..Len(q) -> Nat] :
        /\ g[0] = lo /\ g[Len(q)] = mid
        /\ \A i \in 1..Len(q) :
             IF q[i] \in S
             THEN g[i] = g[i - 1] + 1 /\ g[i] \in DOMAIN str /\ str[g[i]] = q[i]
             ELSE g[i] = g[i - 1]
  BY DEF Carries
<1>2. PICK f \in [0..Len(r) -> Nat] :
        /\ f[0] = mid /\ f[Len(r)] = hi
        /\ \A i \in 1..Len(r) :
             IF r[i] \in S
             THEN f[i] = f[i - 1] + 1 /\ f[i] \in DOMAIN str /\ str[f[i]] = r[i]
             ELSE f[i] = f[i - 1]
  BY DEF Carries
<1>3. PICK m \in Nat : m = Len(q)
  BY LenProperties
<1>4. PICK n \in Nat : n = Len(r)
  BY LenProperties
<1>5. PICK s : s = q \o r
  OBVIOUS
<1>6. /\ Len(s) = m + n
      /\ \A i \in 1..m : s[i] = q[i]
      /\ \A i \in 1..(m + n) : i > m => s[i] = r[i - m]
  BY <1>3, <1>4, <1>5, ConcatProperties
<1>7. PICK k : k = [i \in 0..(m + n) |-> IF i <= m THEN g[i] ELSE f[i - m]]
  OBVIOUS
<1>8. k \in [0..(m + n) -> Nat]
  BY <1>3, <1>4, <1>7
<1>9. k[0] = lo /\ k[m + n] = hi
  BY <1>1, <1>2, <1>3, <1>4, <1>7
<1>10. ASSUME NEW i \in 1..(m + n)
       PROVE  IF s[i] \in S
              THEN k[i] = k[i - 1] + 1 /\ k[i] \in DOMAIN str /\ str[k[i]] = s[i]
              ELSE k[i] = k[i - 1]
  <2>1. CASE i <= m
    <3>1. i \in 1..m /\ i - 1 <= m /\ i \in 0..(m + n) /\ i - 1 \in 0..(m + n)
      BY <2>1
    <3>2. k[i] = g[i] /\ k[i - 1] = g[i - 1] /\ s[i] = q[i]
      BY <1>6, <1>7, <3>1
    <3> QED BY <1>1, <1>3, <3>1, <3>2
  <2>2. CASE i > m
    <3>1. i - m \in 1..n /\ i \in 0..(m + n) /\ i - 1 \in 0..(m + n) /\ ~(i <= m)
      BY <2>2
    <3>2. k[i] = f[i - m] /\ s[i] = r[i - m]
      BY <1>6, <1>7, <2>2, <3>1
    <3>3. k[i - 1] = f[(i - m) - 1]
      <4>1. CASE i - 1 = m
        BY <1>1, <1>2, <1>3, <1>7, <3>1, <4>1
      <4>2. CASE i - 1 # m
        BY <1>7, <2>2, <3>1, <4>2
      <4> QED BY <4>1, <4>2
    <3> QED BY <1>2, <1>4, <3>1, <3>2, <3>3
  <2> QED BY <2>1, <2>2
<1> QED BY <1>5, <1>6, <1>8, <1>9, <1>10 DEF Carries

\* A sequence with nothing of S in it, and one with the next of the stream.
LEMMA CarriesNothing ==
  ASSUME NEW T, NEW r \in Seq(T), NEW S, \A i \in 1..Len(r) : r[i] \notin S,
         NEW str, NEW n \in Nat
  PROVE  Carries(r, S, str, n, n)
<1>1. PICK g : g = [i \in 0..Len(r) |-> n]
  OBVIOUS
<1>2. /\ g \in [0..Len(r) -> Nat]
      /\ \A i \in 0..Len(r) : g[i] = n
      /\ 0 \in 0..Len(r) /\ Len(r) \in 0..Len(r)
      /\ \A i \in 1..Len(r) : i \in 0..Len(r) /\ i - 1 \in 0..Len(r)
  BY <1>1, LenProperties
<1> QED BY <1>2 DEF Carries

\* A sequence that is the next piece of the stream.
LEMMA CarriesAll ==
  ASSUME NEW T, NEW r \in Seq(T), NEW S, NEW str, NEW n \in Nat,
         \A i \in 1..Len(r) :
           r[i] \in S /\ n + i \in DOMAIN str /\ str[n + i] = r[i]
  PROVE  Carries(r, S, str, n, n + Len(r))
<1>1. PICK g : g = [i \in 0..Len(r) |-> n + i]
  OBVIOUS
<1>2. /\ g \in [0..Len(r) -> Nat]
      /\ \A i \in 0..Len(r) : g[i] = n + i
      /\ 0 \in 0..Len(r) /\ Len(r) \in 0..Len(r)
      /\ \A i \in 1..Len(r) : i \in 0..Len(r) /\ i - 1 \in 0..Len(r) /\ i \in Nat
  BY <1>1, LenProperties
<1>3. \A i \in 1..Len(r) : g[i] = g[i - 1] + 1
  BY <1>2
<1>4. g[0] = n /\ g[Len(r)] = n + Len(r)
  BY <1>2
<1> QED BY <1>2, <1>3, <1>4 DEF Carries

\* A stream may grow.
LEMMA CarriesLonger ==
  ASSUME NEW q, NEW S, NEW str, NEW lo, NEW hi, Carries(q, S, str, lo, hi),
         NEW long, \A i \in DOMAIN str : i \in DOMAIN long /\ long[i] = str[i]
  PROVE  Carries(q, S, long, lo, hi)
BY DEF Carries

\* Without its first element, which is of S or not.
LEMMA CarriesTail ==
  ASSUME NEW T, NEW q \in Seq(T), q # <<>>, NEW S
  PROVE  /\ Head(q) \notin S => Keeps(q, Tail(q), S)
         /\ Head(q) \in S => Takes(q, Tail(q), S, Head(q))
<1>1. PICK t : t = Tail(q)
  OBVIOUS
<1>2. PICK n \in Nat : n = Len(t)
  BY <1>1, HeadTailProperties, LenProperties
<1>3. /\ Len(q) = n + 1 /\ Head(q) = q[1]
      /\ \A i \in 1..n : t[i] = q[i + 1]
  BY <1>1, <1>2, HeadTailProperties, LenProperties, EmptySeq
<1>4. ASSUME NEW str, NEW lo, NEW hi, Carries(q, S, str, lo, hi)
      PROVE  IF q[1] \in S
             THEN /\ lo + 1 \in DOMAIN str /\ str[lo + 1] = q[1]
                  /\ Carries(t, S, str, lo + 1, hi)
             ELSE Carries(t, S, str, lo, hi)
  <2>1. PICK g \in [0..(n + 1) -> Nat] :
          /\ g[0] = lo /\ g[n + 1] = hi
          /\ \A i \in 1..(n + 1) :
               IF q[i] \in S
               THEN g[i] = g[i - 1] + 1 /\ g[i] \in DOMAIN str /\ str[g[i]] = q[i]
               ELSE g[i] = g[i - 1]
    BY <1>3, <1>4 DEF Carries
  <2>2. PICK f : f = [i \in 0..n |-> g[i + 1]]
    OBVIOUS
  <2>3. f \in [0..n -> Nat] /\ f[0] = g[1] /\ f[n] = hi
    BY <2>1, <2>2
  <2>4. ASSUME NEW i \in 1..n
        PROVE  IF t[i] \in S
               THEN f[i] = f[i - 1] + 1 /\ f[i] \in DOMAIN str /\ str[f[i]] = t[i]
               ELSE f[i] = f[i - 1]
    <3>1. /\ i + 1 \in 1..(n + 1) /\ i \in 0..n /\ i - 1 \in 0..n
          /\ (i + 1) - 1 = i /\ (i - 1) + 1 = i
      OBVIOUS
    <3>2. f[i] = g[i + 1] /\ f[i - 1] = g[i] /\ t[i] = q[i + 1]
      BY <1>3, <2>2, <3>1
    <3> QED BY <2>1, <3>1, <3>2
  <2>5. Carries(t, S, str, g[1], hi)
    BY <1>2, <2>3, <2>4 DEF Carries
  <2>6. 1 \in 1..(n + 1) /\ 1 - 1 = 0
    OBVIOUS
  <2> QED BY <2>1, <2>5, <2>6
<1> QED BY <1>1, <1>3, <1>4 DEF Keeps, Takes

\* With one element more, which is of S or not.
LEMMA CarriesAppend ==
  ASSUME NEW T, NEW q \in Seq(T), NEW e \in T, NEW S
  PROVE  /\ e \notin S => Keeps(q, Append(q, e), S)
         /\ e \in S => Adds(q, Append(q, e), S, e)
<1>0. <<e>> \in Seq(T) /\ Append(q, e) = q \o <<e>>
  BY AppendIsConcat
<1>1. PICK r \in Seq(T) : r = <<e>>
  BY <1>0
<1>2. Len(r) = 1 /\ r[1] = e /\ Append(q, e) = q \o r
  BY <1>0, <1>1
<1>3. ASSUME e \notin S PROVE Keeps(q, Append(q, e), S)
  <2> SUFFICES ASSUME NEW str, NEW lo, NEW hi, Carries(q, S, str, lo, hi)
               PROVE  Carries(q \o r, S, str, lo, hi)
    BY <1>2 DEF Keeps
  <2>1. hi \in Nat
    BY CarriesNumbers
  <2>2. Carries(r, S, str, hi, hi)
    BY <1>2, <1>3, <2>1, CarriesNothing
  <2> QED BY <2>2, CarriesConcat
<1>4. ASSUME e \in S PROVE Adds(q, Append(q, e), S, e)
  <2> SUFFICES ASSUME NEW str, NEW lo, NEW hi, Carries(q, S, str, lo, hi),
                      hi + 1 \in DOMAIN str, str[hi + 1] = e
               PROVE  Carries(q \o r, S, str, lo, hi + 1)
    BY <1>2 DEF Adds
  <2>1. hi \in Nat
    BY CarriesNumbers
  <2>2. \A i \in 1..Len(r) : r[i] \in S /\ hi + i \in DOMAIN str /\ str[hi + i] = r[i]
    BY <1>2, <1>4, <2>1
  <2>3. Carries(r, S, str, hi, hi + Len(r))
    BY <2>1, <2>2, CarriesAll
  <2> QED BY <1>2, <2>3, CarriesConcat
<1> QED BY <1>3, <1>4

\* One change after another.
LEMMA KeepsThrough ==
  ASSUME NEW q, NEW r, NEW s, NEW S
  PROVE  /\ Keeps(q, q, S)
         /\ Keeps(q, r, S) /\ Keeps(r, s, S) => Keeps(q, s, S)
         /\ \A e : Takes(q, r, S, e) /\ Keeps(r, s, S) => Takes(q, s, S, e)
BY DEF Keeps, Takes

\* Elements that are not in S may follow.
LEMMA KeepsConcat ==
  ASSUME NEW T, NEW q \in Seq(T), NEW r \in Seq(T), NEW S,
         \A i \in 1..Len(r) : r[i] \notin S
  PROVE  Keeps(q, q \o r, S)
<1> SUFFICES ASSUME NEW str, NEW lo, NEW hi, Carries(q, S, str, lo, hi)
             PROVE  Carries(q \o r, S, str, lo, hi)
  BY DEF Keeps
<1>1. hi \in Nat
  BY CarriesNumbers
<1>2. Carries(r, S, str, hi, hi)
  BY <1>1, CarriesNothing
<1> QED BY <1>2, CarriesConcat

-----------------------------------------------------------------------------
(* The packets of uploads and their places in them                         *)

\* What an upload of file f may have in it.
Kept(f) == {FirstChunks(c) : c \in Originals(f)}

\* Place <<f, c, k>> of the upload of file f with the content c: its start is
\* place 0, and behind the chunks of c is its end.
Places ==
  {p \in Names \X Seq(Chunks) \X Nat : p[2] \in Kept(p[1]) /\ p[3] <= Len(p[2]) + 1}

\* The packet at place p of an upload of host g to host r.
UpPacket(g, r, p) ==
  IF p[3] = 0 THEN NewPacket(g, r, "FILE_UPLOAD_START", p[1])
  ELSE IF p[3] <= Len(p[2]) THEN NewPacket(g, r, "FILE_UPLOAD_CONT", p[2][p[3]])
  ELSE NewPacket(g, r, "FILE_UPLOAD_END", None)

IsEnd(p) == p[3] = Len(p[2]) + 1

Follows(p, t) == IF IsEnd(p) THEN t[3] = 0 ELSE t = <<p[1], p[2], p[3] + 1>>

\* Whole uploads, one after the other.
Stream(pl) ==
  /\ Len(pl) > 0 => pl[1][3] = 0 /\ IsEnd(pl[Len(pl)])
  /\ \A i \in 1..Len(pl) : i > 1 => Follows(pl[i - 1], pl[i])

\* Buffer b has what came with the packets up to place n, in an upload.
InStep(pl, n, b) ==
  /\ n \in 0..Len(pl)
  /\ n > 0 => \/ IsEnd(pl[n])
              \/ b = [name |-> pl[n][1], data |-> SubSeq(pl[n][2], 1, pl[n][3])]

\* Packets of uploads to host r, the jobs to send them, and jobs they become.
UpTo(r)    == {p \in Packet : p.dst = r /\ p.type \in UpTypes}
SendsTo(r) == {SendJob(p) : p \in UpTo(r)}
RecvJobs   ==
  {j \in Job : j.type \in {"FILE_UPLOAD_RECV_START", "FILE_UPLOAD_RECV_CONT",
                           "FILE_UPLOAD_RECV_END"}}

Ups(g, r, pl)   == [i \in DOMAIN pl |-> UpPacket(g, r, pl[i])]
Sends(g, r, pl) == [i \in DOMAIN pl |-> SendJob(UpPacket(g, r, pl[i]))]
Recvs(g, r, pl) == [i \in DOMAIN pl |-> JobFor(UpPacket(g, r, pl[i]))]

\* The uploads of host g to host r are in order: those in the buffer b of r, then
\* in its jobs jr, in the pipe lr that leads to it, in the pipe lg from g, and
\* in the jobs jg of g.
Way(g, r, b, jr, lr, lg, jg) ==
  \E pl \in Seq(Places) : \E n0, n1, n2, n3 \in Nat :
    /\ Stream(pl)
    /\ InStep(pl, n0, b)
    /\ Carries(jr, RecvJobs, Recvs(g, r, pl), n0, n1)
    /\ Carries(lr, UpTo(r), Ups(g, r, pl), n1, n2)
    /\ Carries(lg, UpTo(r), Ups(g, r, pl), n2, n3)
    /\ Carries(jg, SendsTo(r), Sends(g, r, pl), n3, Len(pl))

\* What a buffer can hold of a file is chunks, and never needs cutting again.
LEMMA KeptType ==
  ASSUME NEW f \in Names
  PROVE  /\ Originals(f) \subseteq Seq(Chunks)
         /\ \A c \in Seq(Chunks) :
              /\ FirstChunks(c) \in Seq(Chunks) /\ Len(FirstChunks(c)) \in Nat
              /\ Len(FirstChunks(c)) <= MaxChunks
              /\ FirstChunks(FirstChunks(c)) = FirstChunks(c)
         /\ \A c \in Kept(f) : /\ c \in Seq(Chunks) /\ Len(c) \in Nat
                               /\ Len(c) <= MaxChunks /\ FirstChunks(c) = c
<1>1. Originals(f) \subseteq Seq(Chunks)
  BY HostAssumption DEF Originals, Contents
<1>2. ASSUME NEW c \in Seq(Chunks)
      PROVE  /\ FirstChunks(c) \in Seq(Chunks) /\ Len(FirstChunks(c)) \in Nat
             /\ Len(FirstChunks(c)) <= MaxChunks
             /\ FirstChunks(FirstChunks(c)) = FirstChunks(c)
  <2>1. CASE Len(c) <= MaxChunks
    BY <2>1, LenProperties DEF FirstChunks
  <2>2. CASE ~(Len(c) <= MaxChunks)
    <3>1. PICK d : d = SubSeq(c, 1, MaxChunks)
      OBVIOUS
    <3>2. MaxChunks \in Nat \ {0} /\ Len(c) \in Nat /\ MaxChunks < Len(c)
      BY <2>2, HostAssumption, LenProperties
    <3>3. d \in Seq(Chunks) /\ Len(d) = MaxChunks
      BY <3>1, <3>2, SubSeqProperties
    <3>4. FirstChunks(c) = d /\ FirstChunks(d) = d
      BY <2>2, <3>1, <3>2, <3>3 DEF FirstChunks
    <3> QED BY <3>2, <3>3, <3>4
  <2> QED BY <2>1, <2>2
<1>3. ASSUME NEW c \in Kept(f)
      PROVE  /\ c \in Seq(Chunks) /\ Len(c) \in Nat
             /\ Len(c) <= MaxChunks /\ FirstChunks(c) = c
  <2>1. PICK d \in Seq(Chunks) : c = FirstChunks(d)
    BY <1>1 DEF Kept
  <2> QED BY <1>2, <2>1
<1> QED BY <1>1, <1>2, <1>3

\* The parts of a place.
LEMMA PlacesType ==
  ASSUME NEW p \in Places
  PROVE  /\ p[1] \in Names /\ p[2] \in Seq(Chunks) /\ p[3] \in 0..(Len(p[2]) + 1)
         /\ p[2] \in Kept(p[1]) /\ p = <<p[1], p[2], p[3]>>
         /\ Len(p[2]) \in Nat /\ Len(p[2]) <= MaxChunks
BY KeptType DEF Places

\* The jobs that packets of uploads become (host.c:302-315).
LEMMA UpJobType ==
  ASSUME NEW r, NEW p \in UpTo(r)
  PROVE  /\ JobFor(p) \in RecvJobs /\ JobFor(p).pkt = p
         /\ p.type = "FILE_UPLOAD_START" =>
              JobFor(p).type = "FILE_UPLOAD_RECV_START" /\ p.body \in Names
         /\ p.type = "FILE_UPLOAD_CONT" =>
              JobFor(p).type = "FILE_UPLOAD_RECV_CONT" /\ p.body \in Chunks
         /\ p.type = "FILE_UPLOAD_END" => JobFor(p).type = "FILE_UPLOAD_RECV_END"
<1>1. CASE p.type = "FILE_UPLOAD_START"
  <2>1. p \in PacketOf({"FILE_UPLOAD_START"}, Names)
    BY <1>1 DEF UpTo, Packet, PacketOf
  <2> QED BY <1>1, <2>1 DEF JobFor, NewJob, RecvJobs, Job, PacketJob, PacketOf
<1>2. CASE p.type = "FILE_UPLOAD_CONT"
  <2>1. p \in PacketOf({"FILE_UPLOAD_CONT"}, Chunks)
    BY <1>2 DEF UpTo, Packet, PacketOf
  <2> QED BY <1>2, <2>1 DEF JobFor, NewJob, RecvJobs, Job, PacketJob, PacketOf
<1>3. CASE p.type = "FILE_UPLOAD_END"
  <2>1. p \in PacketOf({"FILE_UPLOAD_END"}, {None})
    BY <1>3 DEF UpTo, Packet, PacketOf
  <2> QED BY <1>3, <2>1 DEF JobFor, NewJob, RecvJobs, Job, PacketJob, PacketOf
<1> QED BY <1>1, <1>2, <1>3 DEF UpTo, UpTypes

\* The packet at a place is one of an upload to r.
LEMMA UpPacketType ==
  ASSUME NEW p \in Places, NEW g \in Hosts, NEW r \in Hosts
  PROVE  UpPacket(g, r, p) \in UpTo(r)
<1>1. r \in Ids
  BY TopologyAssumption
<1>2. CASE p[3] = 0
  BY <1>1, <1>2, PlacesType DEF UpPacket, UpTo, UpTypes, NewPacket, Packet, PacketOf
<1>3. CASE p[3] # 0 /\ p[3] <= Len(p[2])
  <2>1. p[2][p[3]] \in Chunks
    BY <1>3, PlacesType, ElementOfSeq
  <2> QED
    BY <1>1, <1>3, <2>1 DEF UpPacket, UpTo, UpTypes, NewPacket, Packet, PacketOf
<1>4. CASE p[3] # 0 /\ ~(p[3] <= Len(p[2]))
  BY <1>1, <1>4 DEF UpPacket, UpTo, UpTypes, NewPacket, Packet, PacketOf
<1> QED BY <1>2, <1>3, <1>4

-----------------------------------------------------------------------------
(* How the packets of an upload go on                                      *)

\* Whatever else joins or leaves queues and pipes does not matter.
LEMMA WayKeeps ==
  ASSUME NEW g, NEW r, NEW b, NEW jr, NEW lr, NEW lg, NEW jg,
         Way(g, r, b, jr, lr, lg, jg),
         NEW kr, Keeps(jr, kr, RecvJobs), NEW mr, Keeps(lr, mr, UpTo(r)),
         NEW mg, Keeps(lg, mg, UpTo(r)), NEW kg, Keeps(jg, kg, SendsTo(r))
  PROVE  Way(g, r, b, kr, mr, mg, kg)
BY DEF Way, Keeps

\* The sender puts the next packet into its pipe.
LEMMA WaySent ==
  ASSUME NEW g \in Hosts, NEW r \in Hosts, NEW b, NEW jr, NEW lr, NEW lg, NEW jg,
         Way(g, r, b, jr, lr, lg, jg),
         NEW p, NEW kr, Keeps(jr, kr, RecvJobs),
         NEW mg, Adds(lg, mg, UpTo(r), p),
         NEW kg, Takes(jg, kg, SendsTo(r), SendJob(p))
  PROVE  Way(g, r, b, kr, lr, mg, kg)
<1>1. PICK pl \in Seq(Places), n0 \in Nat, n1 \in Nat, n2 \in Nat, n3 \in Nat :
        /\ Stream(pl)
        /\ InStep(pl, n0, b)
        /\ Carries(jr, RecvJobs, Recvs(g, r, pl), n0, n1)
        /\ Carries(lr, UpTo(r), Ups(g, r, pl), n1, n2)
        /\ Carries(lg, UpTo(r), Ups(g, r, pl), n2, n3)
        /\ Carries(jg, SendsTo(r), Sends(g, r, pl), n3, Len(pl))
  BY DEF Way
<1>2. /\ n3 + 1 \in DOMAIN Sends(g, r, pl) /\ Sends(g, r, pl)[n3 + 1] = SendJob(p)
      /\ Carries(kg, SendsTo(r), Sends(g, r, pl), n3 + 1, Len(pl))
  BY <1>1 DEF Takes
<1>3. n3 + 1 \in DOMAIN pl /\ UpPacket(g, r, pl[n3 + 1]) = p
  BY <1>2 DEF Sends, SendJob, NewJob
<1>4. n3 + 1 \in DOMAIN Ups(g, r, pl) /\ Ups(g, r, pl)[n3 + 1] = p
  BY <1>3 DEF Ups
<1>5. Carries(mg, UpTo(r), Ups(g, r, pl), n2, n3 + 1)
  BY <1>1, <1>4 DEF Adds
<1>6. Carries(kr, RecvJobs, Recvs(g, r, pl), n0, n1)
  BY <1>1 DEF Keeps
<1>7. n3 + 1 \in Nat
  OBVIOUS
<1> QED BY <1>1, <1>2, <1>5, <1>6, <1>7 DEF Way

\* The switch passes the next packet on.
LEMMA WayPassed ==
  ASSUME NEW g \in Hosts, NEW r \in Hosts, NEW b, NEW jr, NEW lr, NEW lg, NEW jg,
         Way(g, r, b, jr, lr, lg, jg),
         NEW p, NEW mr, Adds(lr, mr, UpTo(r), p),
         NEW mg, Takes(lg, mg, UpTo(r), p)
  PROVE  Way(g, r, b, jr, mr, mg, jg)
<1>1. PICK pl \in Seq(Places), n0 \in Nat, n1 \in Nat, n2 \in Nat, n3 \in Nat :
        /\ Stream(pl)
        /\ InStep(pl, n0, b)
        /\ Carries(jr, RecvJobs, Recvs(g, r, pl), n0, n1)
        /\ Carries(lr, UpTo(r), Ups(g, r, pl), n1, n2)
        /\ Carries(lg, UpTo(r), Ups(g, r, pl), n2, n3)
        /\ Carries(jg, SendsTo(r), Sends(g, r, pl), n3, Len(pl))
  BY DEF Way
<1>2. /\ n2 + 1 \in DOMAIN Ups(g, r, pl) /\ Ups(g, r, pl)[n2 + 1] = p
      /\ Carries(mg, UpTo(r), Ups(g, r, pl), n2 + 1, n3)
  BY <1>1 DEF Takes
<1>3. Carries(mr, UpTo(r), Ups(g, r, pl), n1, n2 + 1)
  BY <1>1, <1>2 DEF Adds
<1>4. n2 + 1 \in Nat
  OBVIOUS
<1> QED BY <1>1, <1>2, <1>3, <1>4 DEF Way

\* The receiver takes in the next packet, as a job.
LEMMA WayReceived ==
  ASSUME NEW g \in Hosts, NEW r \in Hosts, NEW b, NEW jr, NEW lr, NEW lg, NEW jg,
         Way(g, r, b, jr, lr, lg, jg),
         NEW p, NEW kr, Adds(jr, kr, RecvJobs, JobFor(p)),
         NEW mr, Takes(lr, mr, UpTo(r), p),
         NEW kg, Keeps(jg, kg, SendsTo(r))
  PROVE  Way(g, r, b, kr, mr, lg, kg)
<1>1. PICK pl \in Seq(Places), n0 \in Nat, n1 \in Nat, n2 \in Nat, n3 \in Nat :
        /\ Stream(pl)
        /\ InStep(pl, n0, b)
        /\ Carries(jr, RecvJobs, Recvs(g, r, pl), n0, n1)
        /\ Carries(lr, UpTo(r), Ups(g, r, pl), n1, n2)
        /\ Carries(lg, UpTo(r), Ups(g, r, pl), n2, n3)
        /\ Carries(jg, SendsTo(r), Sends(g, r, pl), n3, Len(pl))
  BY DEF Way
<1>2. /\ n1 + 1 \in DOMAIN Ups(g, r, pl) /\ Ups(g, r, pl)[n1 + 1] = p
      /\ Carries(mr, UpTo(r), Ups(g, r, pl), n1 + 1, n2)
  BY <1>1 DEF Takes
<1>3. n1 + 1 \in DOMAIN Recvs(g, r, pl) /\ Recvs(g, r, pl)[n1 + 1] = JobFor(p)
  BY <1>2 DEF Ups, Recvs
<1>4. Carries(kr, RecvJobs, Recvs(g, r, pl), n0, n1 + 1)
  BY <1>1, <1>3 DEF Adds
<1>5. Carries(kg, SendsTo(r), Sends(g, r, pl), n3, Len(pl))
  BY <1>1 DEF Keeps
<1>6. n1 + 1 \in Nat
  OBVIOUS
<1> QED BY <1>1, <1>2, <1>4, <1>5, <1>6 DEF Way

\* The receiver's next job of an upload.  What it leaves in the buffer is in step
\* again, and when it is the end the buffer has all of the file.
LEMMA WayHandled ==
  ASSUME NEW g \in Hosts, NEW r \in Hosts,
         NEW b \in [name : Names \cup {None}, data : Seq(Chunks)],
         NEW jr, NEW lr, NEW lg, NEW jg, Way(g, r, b, jr, lr, lg, jg),
         NEW j, NEW kr, Takes(jr, kr, RecvJobs, j),
         NEW kg, Keeps(jg, kg, SendsTo(r))
  PROVE  /\ j.type = "FILE_UPLOAD_RECV_START" =>
              Way(g, r, [name |-> j.pkt.body, data |-> <<>>], kr, lr, lg, kg)
         /\ j.type = "FILE_UPLOAD_RECV_CONT" =>
              /\ Len(b.data) < MaxChunks
              /\ Way(g, r, [name |-> b.name, data |-> Append(b.data, j.pkt.body)],
                     kr, lr, lg, kg)
         /\ j.type = "FILE_UPLOAD_RECV_END" =>
              /\ b.data \in Kept(b.name)
              /\ \A c : Way(g, r, c, kr, lr, lg, kg)
<1>1. PICK pl \in Seq(Places), n0 \in Nat, n1 \in Nat, n2 \in Nat, n3 \in Nat :
        /\ Stream(pl)
        /\ InStep(pl, n0, b)
        /\ Carries(jr, RecvJobs, Recvs(g, r, pl), n0, n1)
        /\ Carries(lr, UpTo(r), Ups(g, r, pl), n1, n2)
        /\ Carries(lg, UpTo(r), Ups(g, r, pl), n2, n3)
        /\ Carries(jg, SendsTo(r), Sends(g, r, pl), n3, Len(pl))
  BY DEF Way
<1>2. /\ n0 + 1 \in DOMAIN Recvs(g, r, pl) /\ Recvs(g, r, pl)[n0 + 1] = j
      /\ Carries(kr, RecvJobs, Recvs(g, r, pl), n0 + 1, n1)
  BY <1>1 DEF Takes
<1>3. Carries(kg, SendsTo(r), Sends(g, r, pl), n3, Len(pl))
  BY <1>1 DEF Keeps
<1>4. n0 + 1 \in Nat /\ n0 + 1 \in 1..Len(pl) /\ Len(pl) \in Nat
  BY <1>2, LenProperties DEF Recvs
<1>5. \A c : InStep(pl, n0 + 1, c) => Way(g, r, c, kr, lr, lg, kg)
  BY <1>1, <1>2, <1>3, <1>4 DEF Way
<1>6. PICK p \in Places : p = pl[n0 + 1]
  BY <1>4, ElementOfSeq
<1>7. j = JobFor(UpPacket(g, r, p))
  BY <1>2, <1>6 DEF Recvs
<1>8. /\ p[1] \in Names /\ p[2] \in Seq(Chunks) /\ p[3] \in 0..(Len(p[2]) + 1)
      /\ p[2] \in Kept(p[1])
      /\ Len(p[2]) \in Nat /\ Len(p[2]) <= MaxChunks
  BY PlacesType
<1>9. ASSUME p[3] # 0
      PROVE  b = [name |-> p[1], data |-> SubSeq(p[2], 1, p[3] - 1)]
  <2>1. n0 > 0
    BY <1>1, <1>4, <1>6, <1>9 DEF Stream
  <2>2. n0 \in 1..Len(pl) /\ n0 + 1 > 1 /\ (n0 + 1) - 1 = n0
    BY <1>4, <2>1
  <2>3. PICK t \in Places : t = pl[n0]
    BY <2>2, ElementOfSeq
  <2>4. Follows(t, p)
    BY <1>1, <1>4, <1>6, <2>2, <2>3 DEF Stream
  <2>5. ~IsEnd(t) /\ p = <<t[1], t[2], t[3] + 1>> /\ t[3] \in Nat
    BY <1>9, <2>4, PlacesType DEF Follows
  <2>6. b = [name |-> t[1], data |-> SubSeq(t[2], 1, t[3])]
    BY <1>1, <2>1, <2>3, <2>5 DEF InStep
  <2>7. p[1] = t[1] /\ p[2] = t[2] /\ p[3] - 1 = t[3]
    BY <2>5
  <2> QED BY <2>6, <2>7
<1>10. UpPacket(g, r, p) \in UpTo(r)
  BY UpPacketType
<1>11. CASE p[3] = 0
  <2>1. UpPacket(g, r, p).type = "FILE_UPLOAD_START" /\ UpPacket(g, r, p).body = p[1]
    BY <1>11 DEF UpPacket, NewPacket
  <2>2. j.type = "FILE_UPLOAD_RECV_START" /\ j.pkt.body = p[1]
    BY <1>7, <1>10, <2>1, UpJobType
  <2>3. SubSeq(p[2], 1, p[3]) = <<>>
    <3>1. 1 \in Int /\ p[3] \in Int /\ p[3] < 1
      BY <1>11
    <3> QED BY <3>1, SubSeqEmpty
  <2>4. InStep(pl, n0 + 1, [name |-> j.pkt.body, data |-> <<>>])
    <3>1. PICK e, f : e = <<>> /\ f = j.pkt.body
      OBVIOUS
    <3>2. pl[n0 + 1][1] = f /\ SubSeq(pl[n0 + 1][2], 1, pl[n0 + 1][3]) = e
      BY <1>6, <2>2, <2>3, <3>1
    <3>3. n0 + 1 \in 0..Len(pl)
      BY <1>4
    <3>4. InStep(pl, n0 + 1, [name |-> f, data |-> e])
      BY <3>2, <3>3 DEF InStep
    <3> QED BY <3>1, <3>4
  <2> QED BY <1>5, <2>2, <2>4
<1>12. CASE p[3] # 0 /\ p[3] <= Len(p[2])
  <2>1. /\ UpPacket(g, r, p).type = "FILE_UPLOAD_CONT"
        /\ UpPacket(g, r, p).body = p[2][p[3]]
    BY <1>12 DEF UpPacket, NewPacket
  <2>2. j.type = "FILE_UPLOAD_RECV_CONT" /\ j.pkt.body = p[2][p[3]]
    BY <1>7, <1>10, <2>1, UpJobType
  <2>3. b.name = p[1] /\ b.data = SubSeq(p[2], 1, p[3] - 1)
    BY <1>9, <1>12
  <2>4. PICK k \in 1..Len(p[2]) : k = p[3]
    BY <1>8, <1>12
  <2>5. PICK c \in Seq(Chunks) : c = p[2]
    BY <1>8
  <2>6. /\ Len(SubSeq(c, 1, k - 1)) = k - 1
        /\ Append(SubSeq(c, 1, k - 1), c[k]) = SubSeq(c, 1, k)
    <3>1. /\ k \in 1..Len(c) /\ 1 \in 1..Len(c) /\ k \in Int /\ k - 1 \in Int
          /\ c[k] \in Chunks /\ \A i \in 1..(k - 1) : c[i] \in Chunks
      BY <1>8, <2>4, <2>5, ElementOfSeq
    <3>2. PICK n \in Nat : n = k - 1
      BY <3>1
    <3>3. PICK s : s = SubSeq(c, 1, n)
      OBVIOUS
    <3>6. 1 \in Int /\ n \in Int /\ \A i \in 1..n : c[i] \in Chunks
      BY <3>1, <3>2
    <3>7. s \in Seq(Chunks) /\ Len(s) = n
      BY <3>2, <3>3, <3>6, SubSeqProperties
    <3>4. SubSeq(c, 1, k) = s \o <<c[k]>>
      BY <3>1, <3>2, <3>3, SubSeqRecursiveSecond
    <3>5. Append(s, c[k]) = s \o <<c[k]>>
      BY <3>1, <3>7, AppendIsConcat
    <3> QED BY <3>2, <3>3, <3>4, <3>5, <3>7
  <2>7. Len(b.data) < MaxChunks
    BY <1>8, <2>3, <2>4, <2>5, <2>6, HostAssumption
  <2>8. InStep(pl, n0 + 1, [name |-> b.name, data |-> Append(b.data, j.pkt.body)])
    <3>1. /\ b.name = pl[n0 + 1][1]
          /\ Append(b.data, j.pkt.body) = SubSeq(pl[n0 + 1][2], 1, pl[n0 + 1][3])
      BY <1>6, <2>2, <2>3, <2>4, <2>5, <2>6
    <3> QED BY <1>4, <3>1 DEF InStep
  <2> QED BY <1>5, <2>2, <2>7, <2>8
<1>13. CASE p[3] # 0 /\ ~(p[3] <= Len(p[2]))
  <2>1. UpPacket(g, r, p).type = "FILE_UPLOAD_END" /\ p[3] = Len(p[2]) + 1
    BY <1>8, <1>13 DEF UpPacket, NewPacket
  <2>2. j.type = "FILE_UPLOAD_RECV_END"
    BY <1>7, <1>10, <2>1, UpJobType
  <2>3. p[3] - 1 = Len(p[2])
    BY <1>8, <2>1
  <2>4. b.name = p[1] /\ b.data = SubSeq(p[2], 1, Len(p[2]))
    BY <1>9, <1>13, <2>3
  <2>5. SubSeq(p[2], 1, Len(p[2])) = p[2]
    BY <1>8, SubSeqFull
  <2>6. \A c : InStep(pl, n0 + 1, c)
    BY <1>4, <1>6, <2>1 DEF InStep, IsEnd
  <2> QED BY <1>5, <1>8, <2>2, <2>4, <2>5, <2>6
<1> QED BY <1>11, <1>12, <1>13

\* The packets of a file are at its places (host.c:465-550).
LEMMA UploadPacketsAre ==
  ASSUME NEW g, NEW r, NEW f, NEW data \in Seq(Chunks),
         NEW c \in Seq(Chunks), c = FirstChunks(data),
         NEW ps, ps = UploadPackets(NewPacket(g, r, "FILE_UPLOAD_START", f), data)
  PROVE  /\ Len(ps) = Len(c) + 2
         /\ \A i \in 1..(Len(c) + 2) : ps[i] = UpPacket(g, r, <<f, c, i - 1>>)
<1> DEFINE start == NewPacket(g, r, "FILE_UPLOAD_START", f)
           n     == IF Len(data) < MaxChunks THEN Len(data) ELSE MaxChunks
           Cont(i) == NewPacket(g, r, "FILE_UPLOAD_CONT", c[i])
           conts == [i \in 1..Len(c) |-> Cont(i)]
           last  == NewPacket(g, r, "FILE_UPLOAD_END", None)
           T     == {start, last} \cup {Cont(i) : i \in 1..Len(c)}
<1>1. SubSeq(data, 1, n) = c
  <2>1. CASE Len(data) <= MaxChunks
    <3>1. n = Len(data)
      BY <2>1, HostAssumption, LenProperties
    <3> QED BY <2>1, <3>1, SubSeqFull DEF FirstChunks
  <2>2. CASE ~(Len(data) <= MaxChunks)
    <3>1. n = MaxChunks
      BY <2>2, HostAssumption, LenProperties
    <3> QED BY <2>2, <3>1 DEF FirstChunks
  <2> QED BY <2>1, <2>2
<1>2. start.src = g /\ start.dst = r
  BY DEF NewPacket
<1>3. ps = <<start>> \o conts \o <<last>>
  <2> HIDE DEF n, start
  <2>1. ps = UploadPackets(start, data)
    BY DEF start
  <2> QED BY <1>1, <1>2, <2>1 DEF UploadPackets, n
<1>4. PICK m \in Nat : m = Len(c)
  BY LenProperties
<1>5. conts \in Seq(T) /\ Len(conts) = m /\ \A i \in 1..m : conts[i] = Cont(i)
  <2> HIDE DEF Cont
  <2> QED BY <1>4, IsASeq
<1>6. <<start>> \in Seq(T) /\ <<last>> \in Seq(T)
  OBVIOUS
<1> HIDE DEF start, conts, last, T
<1>7. PICK q : q = <<start>> \o conts
  OBVIOUS
<1>8. /\ q \in Seq(T) /\ Len(q) = m + 1 /\ q[1] = start
      /\ \A i \in 1..(m + 1) : i > 1 => q[i] = conts[i - 1]
  BY <1>4, <1>5, <1>6, <1>7, ConcatProperties
<1>9. /\ Len(ps) = m + 2 /\ ps[m + 2] = last
      /\ \A i \in 1..(m + 1) : ps[i] = q[i]
  BY <1>3, <1>4, <1>6, <1>7, <1>8, ConcatProperties
<1>10. ASSUME NEW i \in 1..(m + 2)
       PROVE  ps[i] = UpPacket(g, r, <<f, c, i - 1>>)
  <2>1. CASE i = 1
    BY <1>8, <1>9, <2>1 DEF UpPacket, start
  <2>2. CASE i > 1 /\ i <= m + 1
    <3>1. i - 1 \in 1..m /\ i \in 1..(m + 1)
      BY <2>2
    <3>2. ps[i] = Cont(i - 1)
      BY <1>5, <1>8, <1>9, <2>2, <3>1
    <3> QED BY <1>4, <3>1, <3>2 DEF UpPacket
  <2>3. CASE i = m + 2
    <3>1. i - 1 # 0 /\ ~(i - 1 <= Len(c))
      BY <1>4, <2>3
    <3> QED BY <1>9, <2>3, <3>1 DEF UpPacket, last
  <2> QED BY <2>1, <2>2, <2>3
<1> QED BY <1>4, <1>9, <1>10

\* A new upload joins behind those before it, all of it at once (host.c:455-558).
LEMMA WayFilled ==
  ASSUME NEW g \in Hosts, NEW r \in Hosts, NEW b, NEW jr, NEW lr, NEW lg, NEW jg,
         Way(g, r, b, jr, lr, lg, jg),
         NEW kr, Keeps(jr, kr, RecvJobs),
         NEW kg \in Seq(Job), Keeps(jg, kg, SendsTo(r)),
         NEW f \in Names, NEW data \in Seq(Chunks), FirstChunks(data) \in Kept(f),
         NEW start, start = NewPacket(g, r, "FILE_UPLOAD_START", f)
  PROVE  Way(g, r, b, kr, lr, lg, kg \o SendJobs(UploadPackets(start, data)))
<1>1. PICK pl \in Seq(Places), n0 \in Nat, n1 \in Nat, n2 \in Nat, n3 \in Nat :
        /\ Stream(pl)
        /\ InStep(pl, n0, b)
        /\ Carries(jr, RecvJobs, Recvs(g, r, pl), n0, n1)
        /\ Carries(lr, UpTo(r), Ups(g, r, pl), n1, n2)
        /\ Carries(lg, UpTo(r), Ups(g, r, pl), n2, n3)
        /\ Carries(jg, SendsTo(r), Sends(g, r, pl), n3, Len(pl))
  BY DEF Way
<1>2. PICK c \in Seq(Chunks) : c = FirstChunks(data) /\ c \in Kept(f)
  BY KeptType
<1>3. PICK n \in Nat : n = Len(c)
  BY LenProperties
<1>4. PICK m \in Nat : m = Len(pl) /\ DOMAIN pl = 1..m
  BY LenProperties
<1>5. PICK new : new = [i \in 1..(n + 2) |-> <<f, c, i - 1>>]
  OBVIOUS
<1>6. /\ new \in Seq(Places) /\ Len(new) = n + 2
      /\ \A i \in 1..(n + 2) : new[i] = <<f, c, i - 1>>
  <2>1. \A i \in 1..(n + 2) : <<f, c, i - 1>> \in Places
    BY <1>2, <1>3 DEF Places
  <2>2. n + 2 \in Nat
    OBVIOUS
  <2> QED BY <1>5, <2>1, <2>2, IsASeq
<1>7. PICK long : long = pl \o new
  OBVIOUS
<1>8. /\ long \in Seq(Places) /\ Len(long) = m + (n + 2)
      /\ DOMAIN long = 1..(m + (n + 2))
      /\ \A i \in 1..m : long[i] = pl[i]
      /\ \A i \in 1..(n + 2) : long[m + i] = <<f, c, i - 1>>
  <2>1. /\ long \in Seq(Places) /\ Len(long) = m + (n + 2)
        /\ \A i \in 1..(m + (n + 2)) :
             long[i] = IF i <= m THEN pl[i] ELSE new[i - m]
    <3>1. /\ pl \o new \in Seq(Places) /\ Len(pl \o new) = Len(pl) + Len(new)
          /\ \A i \in 1..(Len(pl) + Len(new)) :
               (pl \o new)[i] = IF i <= Len(pl) THEN pl[i] ELSE new[i - Len(pl)]
      BY <1>6, ConcatProperties
    <3> HIDE DEF Places
    <3> QED BY <1>4, <1>6, <1>7, <3>1
  <2>2. \A i \in 1..(n + 2) :
          /\ m + i \in 1..(m + (n + 2)) /\ ~(m + i <= m) /\ (m + i) - m = i
    OBVIOUS
  <2>3. \A i \in 1..m : i \in 1..(m + (n + 2)) /\ i <= m
    OBVIOUS
  <2> QED BY <1>6, <2>1, <2>2, <2>3, LenProperties
<1>9. Stream(long)
  <2>1. long[1][3] = 0
    <3>1. CASE m = 0
      <4>1. 1 \in 1..(n + 2) /\ m + 1 = 1
        BY <3>1
      <4> QED BY <1>8, <4>1
    <3>2. CASE m > 0
      BY <1>1, <1>4, <1>8, <3>2 DEF Stream
    <3> QED BY <3>1, <3>2
  <2>2. IsEnd(long[m + (n + 2)])
    <3>1. n + 2 \in 1..(n + 2) /\ (n + 2) - 1 = n + 1
      OBVIOUS
    <3>2. long[m + (n + 2)] = <<f, c, n + 1>>
      BY <1>8, <3>1
    <3> QED BY <1>3, <3>2 DEF IsEnd
  <2>3. ASSUME NEW i \in 1..(m + (n + 2)), i > 1
        PROVE  Follows(long[i - 1], long[i])
    <3>1. CASE i <= m
      <4>1. i \in 1..m /\ i - 1 \in 1..m
        BY <2>3, <3>1
      <4> QED BY <1>1, <1>4, <1>8, <2>3, <4>1 DEF Stream
    <3>2. CASE i = m + 1
      <4>1. m \in 1..m /\ m > 0 /\ i - 1 = m /\ 1 \in 1..(n + 2)
        BY <2>3, <3>2
      <4>2. IsEnd(long[i - 1])
        BY <1>1, <1>4, <1>8, <4>1 DEF Stream
      <4>3. long[i][3] = 0
        BY <1>8, <3>2, <4>1
      <4> QED BY <4>2, <4>3 DEF Follows
    <3>3. CASE i > m + 1
      <4>1. PICK k \in 0..n : i - 1 = m + (k + 1) /\ i = m + ((k + 1) + 1)
        <5>1. i - (m + 2) \in 0..n
          BY <3>3
        <5> QED BY <5>1
      <4>2. /\ k + 1 \in 1..(n + 2) /\ (k + 1) + 1 \in 1..(n + 2)
            /\ (k + 1) - 1 = k /\ ((k + 1) + 1) - 1 = k + 1 /\ k # n + 1
        OBVIOUS
      <4>3. long[i - 1] = <<f, c, k>> /\ long[i] = <<f, c, k + 1>>
        BY <1>8, <4>1, <4>2
      <4>4. ~IsEnd(<<f, c, k>>)
        BY <1>3, <4>2 DEF IsEnd
      <4>5. Follows(<<f, c, k>>, <<f, c, k + 1>>)
        BY <4>4 DEF Follows
      <4> QED BY <4>3, <4>5
    <3>4. i <= m \/ i = m + 1 \/ i > m + 1
      OBVIOUS
    <3> HIDE DEF Follows
    <3> QED BY <3>1, <3>2, <3>3, <3>4
  <2> QED BY <1>8, <2>1, <2>2, <2>3 DEF Stream
<1>10. InStep(long, n0, b)
  <2>1. n0 \in 0..m /\ n0 \in 0..(m + (n + 2))
    BY <1>1, <1>4 DEF InStep
  <2>2. n0 > 0 => long[n0] = pl[n0]
    BY <1>8, <2>1
  <2> QED BY <1>1, <1>8, <2>1, <2>2 DEF InStep
<1>11. \A i \in 1..m : i \in DOMAIN long /\ long[i] = pl[i]
  BY <1>8
<1>12. Carries(kr, RecvJobs, Recvs(g, r, long), n0, n1)
  <2>1. Carries(kr, RecvJobs, Recvs(g, r, pl), n0, n1)
    BY <1>1 DEF Keeps
  <2>2. \A i \in DOMAIN Recvs(g, r, pl) :
          i \in DOMAIN Recvs(g, r, long) /\ Recvs(g, r, long)[i] = Recvs(g, r, pl)[i]
    BY <1>4, <1>11 DEF Recvs
  <2> QED BY <2>1, <2>2, CarriesLonger
<1>13. \A i \in DOMAIN Ups(g, r, pl) :
         i \in DOMAIN Ups(g, r, long) /\ Ups(g, r, long)[i] = Ups(g, r, pl)[i]
  BY <1>4, <1>11 DEF Ups
<1>14. /\ Carries(lr, UpTo(r), Ups(g, r, long), n1, n2)
       /\ Carries(lg, UpTo(r), Ups(g, r, long), n2, n3)
  BY <1>1, <1>13, CarriesLonger
<1>15. Carries(kg, SendsTo(r), Sends(g, r, long), n3, m)
  <2>1. Carries(kg, SendsTo(r), Sends(g, r, pl), n3, m)
    BY <1>1, <1>4 DEF Keeps
  <2>2. \A i \in DOMAIN Sends(g, r, pl) :
          i \in DOMAIN Sends(g, r, long) /\ Sends(g, r, long)[i] = Sends(g, r, pl)[i]
    BY <1>4, <1>11 DEF Sends
  <2> QED BY <2>1, <2>2, CarriesLonger
<1>16. PICK ps : ps = UploadPackets(start, data)
  OBVIOUS
<1>17. /\ Len(ps) = n + 2
       /\ \A i \in 1..(n + 2) : ps[i] = UpPacket(g, r, <<f, c, i - 1>>)
  BY <1>2, <1>3, <1>16, UploadPacketsAre
<1>18. PICK more : more = SendJobs(ps)
  OBVIOUS
<1>19. /\ more \in Seq(Job) /\ Len(more) = n + 2
       /\ \A i \in 1..(n + 2) :
            /\ more[i] = SendJob(UpPacket(g, r, <<f, c, i - 1>>))
            /\ more[i] \in SendsTo(r)
  <2>1. more = [i \in 1..(n + 2) |-> SendJob(ps[i])]
    BY <1>17, <1>18 DEF SendJobs
  <2>2. ASSUME NEW i \in 1..(n + 2)
        PROVE  /\ ps[i] = UpPacket(g, r, <<f, c, i - 1>>)
               /\ ps[i] \in UpTo(r)
    <3>1. <<f, c, i - 1>> \in Places
      BY <1>6, ElementOfSeq
    <3> QED BY <1>17, <3>1, UpPacketType
  <2>3. \A i \in 1..(n + 2) : SendJob(ps[i]) \in SendsTo(r) /\ SendJob(ps[i]) \in Job
    BY <2>2 DEF SendsTo, SendJob, NewJob, Job, PacketJob, UpTo
  <2>4. n + 2 \in Nat
    OBVIOUS
  <2> QED BY <2>1, <2>2, <2>3, <2>4, IsASeq
<1>20. Carries(more, SendsTo(r), Sends(g, r, long), m, m + Len(more))
  <2>1. ASSUME NEW i \in 1..Len(more)
        PROVE  /\ more[i] \in SendsTo(r)
               /\ m + i \in DOMAIN Sends(g, r, long)
               /\ Sends(g, r, long)[m + i] = more[i]
    <3>1. i \in 1..(n + 2) /\ m + i \in DOMAIN long /\ long[m + i] = <<f, c, i - 1>>
      <4>1. i \in 1..(n + 2) /\ m + i \in 1..(m + (n + 2))
        BY <1>19
      <4> QED BY <1>8, <4>1
    <3>2. Sends(g, r, long)[m + i] = SendJob(UpPacket(g, r, <<f, c, i - 1>>))
      BY <3>1 DEF Sends
    <3> QED BY <1>19, <3>1, <3>2 DEF Sends
  <2> QED BY <1>19, <2>1, CarriesAll
<1>21. Carries(kg \o more, SendsTo(r), Sends(g, r, long), n3, Len(long))
  BY <1>8, <1>15, <1>19, <1>20, CarriesConcat
<1>22. Way(g, r, b, kr, lr, lg, kg \o more)
  BY <1>8, <1>9, <1>10, <1>12, <1>14, <1>21 DEF Way
<1> QED BY <1>16, <1>18, <1>22

-----------------------------------------------------------------------------
(* Uploads through one switch                                              *)

\* The switch, if there is one only.
TheSwitch == CHOOSE s \in Switches : TRUE

\* All hosts are linked to one switch and to nothing else.
OneSwitch ==
  /\ Switches = {TheSwitch}
  /\ \A h \in Hosts : Neighbours(h) = {TheSwitch}

\* Every host r gets its uploads from host from[r] only.
FromOne(from) == {w \in Hosts \X Ids : w[2] \in Hosts => w[1] = from[w[2]]}

\* Way, in the state of the program.
WayTo(r, g) ==
  Way(g, r, fbuf[r], jobs[r], link[<<TheSwitch, r>>], link[<<g, TheSwitch>>],
      jobs[g])

\* The wires of a host.
LEMMA OneSwitchWires ==
  ASSUME OneSwitch, NEW h \in Hosts
  PROVE  /\ TheSwitch \in Switches /\ h # TheSwitch
         /\ <<TheSwitch, h>> \in Wires /\ <<h, TheSwitch>> \in Wires
         /\ AllPorts(h) = {<<h, TheSwitch>>}
         /\ <<TheSwitch, h>> \in AllPorts(TheSwitch)
<1>1. TheSwitch \in Switches /\ Neighbours(h) = {TheSwitch}
  BY DEF OneSwitch
<1>2. h # TheSwitch
  BY <1>1, TopologyAssumption
<1>3. Port[h] \in Seq(Nodes)
  BY TopologyAssumption DEF Nodes
<1>4. PICK k \in 1..Len(Port[h]) : Port[h][k] = TheSwitch
  BY <1>1, <1>3, LenProperties DEF Neighbours
<1>5. h \in Neighbours(TheSwitch)
  BY <1>4, TopologyAssumption DEF Nodes
<1> QED BY <1>1, <1>2, <1>5 DEF Wires, AllPorts, Nodes

\* A read takes one packet off.
LEMMA UnreadOne ==
  ASSUME NEW q \in Seq(Packet), q # <<>>, Len(Unread(q)) + 1 >= Len(q)
  PROVE  Unread(q) = Tail(q)
<1>1. PICK k \in Nat \ {0} : k = Taken(q)
  BY UnreadType
<1>2. Len(q) \in Nat \ {0} /\ Tail(q) = SubSeq(q, 2, Len(q))
  BY EmptySeq, LenProperties, TailIsSubSeq
<1>3. CASE k + 1 <= Len(q)
  <2>1. Len(Unread(q)) = Len(q) - k
    BY <1>1, <1>2, <1>3, SubSeqProperties DEF Unread
  <2>2. k = 1
    BY <1>2, <2>1
  <2> QED BY <1>1, <1>2, <2>2 DEF Unread
<1>4. CASE k + 1 > Len(q)
  <2>1. Unread(q) = <<>>
    BY <1>1, <1>2, <1>4, SubSeqEmpty DEF Unread
  <2>2. Len(q) = 1
    <3>1. PICK n : n = Len(Unread(q))
      OBVIOUS
    <3>2. n = 0
      BY <2>1, <3>1
    <3> QED BY <1>2, <3>1, <3>2
  <2>3. Tail(q) = <<>>
    BY <1>2, <2>2, SubSeqEmpty
  <2> QED BY <2>1, <2>3
<1> QED BY <1>1, <1>2, <1>3, <1>4

\* What is not of an upload is not looked for.
LEMMA OtherKinds ==
  ASSUME NEW r
  PROVE  /\ \A j \in SendsTo(r) : j.type = "SEND_PKT_ALL_PORTS" /\ j.pkt \in UpTo(r)
         /\ \A j \in RecvJobs : j.type \in {"FILE_UPLOAD_RECV_START",
                                  "FILE_UPLOAD_RECV_CONT", "FILE_UPLOAD_RECV_END"}
         /\ \A p : p \notin UpTo(r) => SendJob(p) \notin SendsTo(r)
<1>1. ASSUME NEW p, SendJob(p) \in SendsTo(r)
      PROVE  p \in UpTo(r)
  <2>1. PICK q \in UpTo(r) : SendJob(p) = SendJob(q)
    BY <1>1 DEF SendsTo
  <2>2. SendJob(p).pkt = p /\ SendJob(q).pkt = q
    BY DEF SendJob, NewJob
  <2> QED BY <2>1, <2>2
<1> QED BY <1>1 DEF SendsTo, SendJob, NewJob, RecvJobs

\* A queue whose first job is done and makes more.
LEMMA ConcatKeeps ==
  ASSUME NEW q \in Seq(Job), q # <<>>, NEW more \in Seq(Job), NEW S,
         \A i \in 1..Len(more) : more[i] \notin S
  PROVE  /\ Head(q) \notin S => Keeps(q, Tail(q) \o more, S)
         /\ Head(q) \in S => Takes(q, Tail(q) \o more, S, Head(q))
<1>1. PICK t \in Seq(Job) : t = Tail(q)
  BY HeadTailProperties
<1>2. Keeps(t, t \o more, S)
  BY KeepsConcat
<1>3. /\ Head(q) \notin S => Keeps(q, t, S)
      /\ Head(q) \in S => Takes(q, t, S, Head(q))
  BY <1>1, CarriesTail
<1> QED BY <1>1, <1>2, <1>3, KeepsThrough

\* A job that is done, and those it makes.
LEMMA RunJobKeeps ==
  ASSUME TypeOK, NEW h \in Hosts, NEW t, NEW more \in Seq(Job),
         RunJob(h, t, more), NEW S, \A i \in 1..Len(more) : more[i] \notin S,
         NEW x \in Hosts
  PROVE  /\ Head(jobs[h]) \notin S \/ x # h => Keeps(jobs[x], jobs'[x], S)
         /\ Head(jobs[h]) \in S /\ x = h =>
              Takes(jobs[x], jobs'[x], S, Head(jobs[h]))
<1>1. /\ jobs[h] \in Seq(Job) /\ jobs[h] # <<>>
      /\ jobs'[h] = Tail(jobs[h]) \o more
      /\ \A g \in Hosts \ {h} : jobs'[g] = jobs[g]
  BY RunJobType
<1>2. CASE x = h
  BY <1>1, <1>2, ConcatKeeps
<1>3. CASE x # h
  BY <1>1, <1>3, KeepsThrough
<1> QED BY <1>2, <1>3

\* Commands make jobs that are no packets of uploads yet (host.c:159-193).
LEMMA WaysCommand ==
  ASSUME TypeOK, NEW h \in Hosts, CommandStep(h),
         NEW r \in Hosts, NEW g \in Hosts, WayTo(r, g)
  PROVE  WayTo(r, g)'
<1>1. UNCHANGED <<link, fbuf>>
  BY DEF CommandStep, NoCommand, ReplyDisplayHostState, SetDir, StartPing,
         StartUpload, GetCommand, pipeVars
<1>2. jobs \in [Hosts -> Seq(Job)]
  BY DEF TypeOK, HostTypeOK
<1> SUFFICES ASSUME NEW x \in Hosts
             PROVE  /\ Keeps(jobs[x], jobs'[x], RecvJobs)
                    /\ Keeps(jobs[x], jobs'[x], SendsTo(r))
  BY <1>1, KeepsThrough, WayKeeps DEF WayTo
<1>3. CASE UNCHANGED jobs
  BY <1>3, KeepsThrough
<1>4. CASE StartPing(h)
  <2> DEFINE c    == Head(cmdPipe[h])
             req  == NewPacket(h, c.dst, "PING_REQ", None)
             more == <<SendJob(req), WaitFor(PingTimer)>>
  <2>1. c \in Command /\ c.op = "p"
    BY <1>4, GetCommandType DEF StartPing
  <2>2. SendJob(req) \in Job /\ WaitFor(PingTimer) \in Job
    BY <2>1, HostAssumption
    DEF Command, NewPacket, Packet, PacketOf, SendJob, NewJob, WaitFor, Job,
        PacketJob, WaitJob
  <2>3. req \notin UpTo(r) /\ WaitFor(PingTimer).type = "PING_WAIT_FOR_REPLY"
        /\ SendJob(req).type = "SEND_PKT_ALL_PORTS"
    BY DEF NewPacket, UpTo, UpTypes, WaitFor, SendJob, NewJob
  <2>4. \A j \in {SendJob(req), WaitFor(PingTimer)} :
          j \notin RecvJobs /\ j \notin SendsTo(r)
    BY <2>3, OtherKinds
  <2>5. /\ more \in Seq(Job)
        /\ \A i \in 1..Len(more) : more[i] \notin RecvJobs /\ more[i] \notin SendsTo(r)
    <3> HIDE DEF req
    <3> QED BY <2>2, <2>4
  <2>6. jobs' = [jobs EXCEPT ![h] = @ \o more]
    BY <1>4 DEF StartPing
  <2> HIDE DEF more
  <2>7. CASE x = h
    BY <1>2, <2>5, <2>6, <2>7, KeepsConcat
  <2>8. CASE x # h
    BY <1>2, <2>6, <2>8, KeepsThrough
  <2> QED BY <2>7, <2>8
<1>5. CASE StartUpload(h)
  <2> DEFINE c     == Head(cmdPipe[h])
             start == NewPacket(h, c.dst, "FILE_UPLOAD_START", LastArgument(h))
             job   == NewJob("FILE_UPLOAD_SEND", start)
  <2>1. c \in Command /\ c.op = "u"
    BY <1>5, GetCommandType DEF StartUpload
  <2>2. job \in Job
    BY <2>1
    DEF Command, LastArgument, NewPacket, PacketOf, NewJob, Job, UploadJob
  <2>3. job \notin RecvJobs /\ job \notin SendsTo(r)
    BY OtherKinds DEF NewJob
  <2>4. jobs' = [jobs EXCEPT ![h] = Append(@, job)]
    BY <1>5 DEF StartUpload
  <2> HIDE DEF job
  <2>5. CASE x = h
    BY <1>2, <2>2, <2>3, <2>4, <2>5, CarriesAppend
  <2>6. CASE x # h
    BY <1>2, <2>4, <2>6, KeepsThrough
  <2> QED BY <2>5, <2>6
<1> QED
  BY <1>3, <1>4, <1>5 DEF CommandStep, NoCommand, ReplyDisplayHostState, SetDir

\* A host that reads its port takes in the uploads to it, and nothing else
\* that looks like one (host.c:265-315).
LEMMA WaysScan ==
  ASSUME OneSwitch, \A w \in Wires : OneTaken(w), TypeOK, NEW h \in Hosts, ScanStep(h),
         NEW r \in Hosts, NEW g \in Hosts, WayTo(r, g)
  PROVE  WayTo(r, g)'
<1>1. ScanPort(h) /\ UNCHANGED fbuf
  BY DEF ScanStep, RecvNothing, RecvOthers, RecvPingReply, RecvJob, Recv, ScanPort
<1>2. InWire(h) = <<TheSwitch, h>>
  <2>1. Port[h] \in Seq(Nodes) /\ at[h] \in 1..Len(Port[h])
    BY <1>1, TopologyAssumption DEF Nodes, ScanPort
  <2>2. Port[h][at[h]] \in Neighbours(h)
    BY <2>1, LenProperties DEF Neighbours
  <2> QED BY <2>2 DEF OneSwitch, InWire
<1>3. jobs \in [Hosts -> Seq(Job)] /\ link \in [Wires -> Seq(Packet)]
  BY DEF TypeOK, HostTypeOK
<1>4. /\ <<TheSwitch, r>> \in Wires /\ <<g, TheSwitch>> \in Wires
      /\ InWire(h) \in Wires /\ <<g, TheSwitch>> # InWire(h)
      /\ r = h \/ <<TheSwitch, r>> # InWire(h)
  <2>1. g # TheSwitch
    BY OneSwitchWires
  <2>2. <<TheSwitch, r>> \in Wires /\ <<g, TheSwitch>> \in Wires
    BY OneSwitchWires
  <2>3. InWire(h) \in Wires
    BY <1>1, ScanType
  <2>4. <<g, TheSwitch>> # <<TheSwitch, h>>
    BY <2>1
  <2>5. r = h \/ <<TheSwitch, r>> # <<TheSwitch, h>>
    OBVIOUS
  <2> QED BY <1>2, <2>2, <2>3, <2>4, <2>5
<1>5. CASE RecvNothing(h)
  BY <1>1, <1>5 DEF RecvNothing, WayTo
<1>6. ASSUME Recv(h)
      PROVE  /\ Arrived(h) \in Packet
             /\ link'[<<g, TheSwitch>>] = link[<<g, TheSwitch>>]
             /\ r # h => link'[<<TheSwitch, r>>] = link[<<TheSwitch, r>>]
             /\ r = h /\ Arrived(h) \notin UpTo(r) =>
                  Keeps(link[<<TheSwitch, r>>], link'[<<TheSwitch, r>>], UpTo(r))
             /\ r = h /\ Arrived(h) \in UpTo(r) =>
                  Takes(link[<<TheSwitch, r>>], link'[<<TheSwitch, r>>], UpTo(r),
                        Arrived(h))
  <2>1. link' = [link EXCEPT ![InWire(h)] = Tail(@)]
    <3>1. link' = [link EXCEPT ![InWire(h)] = Unread(@)] /\ link[InWire(h)] # <<>>
      BY <1>6 DEF Recv, TakeFrom
    <3>2. Len(Unread(link[InWire(h)])) + 1 >= Len(link[InWire(h)])
      BY <1>3, <1>4, <3>1 DEF OneTaken
    <3> QED BY <1>3, <1>4, <3>1, <3>2, UnreadOne
  <2>2. link[InWire(h)] \in Seq(Packet) /\ link[InWire(h)] # <<>>
    BY <1>3, <1>4, <1>6 DEF Recv
  <2>3. Arrived(h) \in Packet
    BY <1>6, RecvType
  <2>4. /\ Arrived(h) \notin UpTo(r) =>
             Keeps(link[InWire(h)], Tail(link[InWire(h)]), UpTo(r))
        /\ Arrived(h) \in UpTo(r) =>
             Takes(link[InWire(h)], Tail(link[InWire(h)]), UpTo(r), Arrived(h))
    BY <2>2, CarriesTail DEF Arrived
  <2>5. /\ link'[InWire(h)] = Tail(link[InWire(h)])
        /\ link'[<<g, TheSwitch>>] = link[<<g, TheSwitch>>]
        /\ r # h => link'[<<TheSwitch, r>>] = link[<<TheSwitch, r>>]
    BY <1>3, <1>4, <2>1
  <2>6. r = h => <<TheSwitch, r>> = InWire(h)
    BY <1>2
  <2> QED BY <2>3, <2>4, <2>5, <2>6
<1>7. CASE RecvOthers(h) \/ RecvPingReply(h)
  <2>1. Recv(h) /\ UNCHANGED jobs
    BY <1>7 DEF RecvOthers, RecvPingReply
  <2>2. r = h => Arrived(h) \notin UpTo(r)
    BY <1>7 DEF RecvOthers, RecvPingReply, UpTo, UpTypes
  <2>3. Keeps(link[<<TheSwitch, r>>], link'[<<TheSwitch, r>>], UpTo(r))
    BY <1>6, <2>1, <2>2, KeepsThrough
  <2>4. /\ Keeps(link[<<g, TheSwitch>>], link'[<<g, TheSwitch>>], UpTo(r))
        /\ Keeps(jobs[r], jobs'[r], RecvJobs) /\ Keeps(jobs[g], jobs'[g], SendsTo(r))
    BY <1>6, <2>1, KeepsThrough
  <2> QED BY <1>1, <2>3, <2>4, WayKeeps DEF WayTo
<1>8. CASE RecvJob(h)
  <2> DEFINE p == Arrived(h)
             j == JobFor(p)
  <2>1. /\ Recv(h) /\ p \in Packet /\ p.dst = h /\ p.type # "PING_REPLY"
        /\ jobs' = [jobs EXCEPT ![h] = Append(@, j)]
    BY <1>6, <1>8 DEF RecvJob
  <2>2. j \in Job /\ j \notin SendsTo(r)
    <3>1. j \in Job
      BY <2>1, JobForType
    <3>2. j.type # "SEND_PKT_ALL_PORTS"
      BY <2>1 DEF JobFor, NewJob, Packet, PacketOf
    <3> QED BY <3>1, <3>2, OtherKinds
  <2>3. p \in UpTo(h) => j \in RecvJobs
    BY UpJobType
  <2>4. p \notin UpTo(h) => j \notin RecvJobs
    <3> SUFFICES ASSUME p \notin UpTo(h)
                 PROVE  j \notin RecvJobs
      OBVIOUS
    <3>1. p.type = "PING_REQ"
      BY <2>1 DEF UpTo, UpTypes, Packet, PacketOf
    <3>2. j.type = "PING_SEND_REPLY"
      BY <3>1 DEF JobFor, NewJob
    <3> QED BY <3>2, OtherKinds
  <2> HIDE DEF j
  <2>5. jobs[h] \in Seq(Job) /\ jobs'[h] = Append(jobs[h], j)
        /\ \A x \in Hosts : x # h => jobs'[x] = jobs[x]
    BY <1>3, <2>1
  <2>6. Keeps(jobs[g], jobs'[g], SendsTo(r))
    BY <2>2, <2>5, CarriesAppend, KeepsThrough
  <2>7. CASE r = h /\ p \in UpTo(h)
    <3>1. Adds(jobs[r], jobs'[r], RecvJobs, JobFor(p))
      BY <2>2, <2>3, <2>5, <2>7, CarriesAppend DEF j
    <3>2. Takes(link[<<TheSwitch, r>>], link'[<<TheSwitch, r>>], UpTo(r), p)
      BY <1>6, <2>1, <2>7
    <3>3. link'[<<g, TheSwitch>>] = link[<<g, TheSwitch>>]
      BY <1>6, <2>1
    <3> HIDE DEF p
    <3> QED BY <1>1, <2>6, <3>1, <3>2, <3>3, WayReceived DEF WayTo
  <2>8. CASE ~(r = h /\ p \in UpTo(h))
    <3>1. Keeps(jobs[r], jobs'[r], RecvJobs)
      BY <2>2, <2>4, <2>5, <2>8, CarriesAppend, KeepsThrough
    <3>2. /\ Keeps(link[<<TheSwitch, r>>], link'[<<TheSwitch, r>>], UpTo(r))
          /\ Keeps(link[<<g, TheSwitch>>], link'[<<g, TheSwitch>>], UpTo(r))
      BY <1>6, <2>1, <2>8, KeepsThrough
    <3> QED BY <1>1, <2>6, <3>1, <3>2, WayKeeps DEF WayTo
  <2> QED BY <2>7, <2>8
<1> QED BY <1>5, <1>7, <1>8 DEF ScanStep

\* A write to a pipe with room.
LEMMA WriteAppends ==
  ASSUME NEW q, NEW p, Len(q) < Room
  PROVE  Write(q, p) = Append(q, p)
BY DEF Write

\* The switch passes the uploads to r on to r, by table or by a flood.
LEMMA WaysSwitch ==
  ASSUME OneSwitch, \A w \in Wires : OneTaken(w), PipesHaveRoom,
         NEW from \in [Hosts -> Hosts],
         TypeOK, LearnedPortsLead, OwnTraffic(FromOne(from)),
         NEW s \in Switches, SwitchTurn(s), NEW r \in Hosts, WayTo(r, from[r])
  PROVE  WayTo(r, from[r])'
<1>1. s = TheSwitch /\ UNCHANGED <<jobs, fbuf>>
  BY DEF OneSwitch, SwitchTurn, hostVars
<1>2. PICK g \in Hosts : g = from[r]
  OBVIOUS
<1>3. CASE PortEmpty(s)
  BY <1>1, <1>3 DEF PortEmpty, pipeVars, WayTo
<1>4. link \in [Wires -> Seq(Packet)]
  BY DEF TypeOK
<1>5. ASSUME link[SwWire(s)] # <<>>, NEW ws, PassOn(s, ws),
             \A w \in ws : w[1] = s,
             SwArrived(s).dst = r => <<s, r>> \in ws
      PROVE  WayTo(r, g)'
  <2>1. PICK w \in Wires : w = SwWire(s) /\ w[2] = s
    <3>1. swAt[s] \in 1..Len(Port[s]) /\ s \in Nodes
      BY DEF TypeOK, SwitchTypeOK, Nodes
    <3>2. SwWire(s) \in Wires
      BY <3>1, PortWire DEF SwWire
    <3> QED BY <3>2 DEF SwWire
  <2>2. PICK p \in Packet : p = Head(link[w]) /\ p = SwArrived(s)
    BY <1>5, PassOnType, <2>1 DEF SwArrived
  <2>3. w \notin ws /\ w[1] # s
    <3>1. w[1] \in Nodes /\ w[2] \in Neighbours(w[1])
      BY DEF Wires
    <3>2. Port[w[1]] \in Seq(Nodes) /\ \A k \in 1..Len(Port[w[1]]) : Port[w[1]][k] # w[1]
      BY <3>1, TopologyAssumption
    <3>3. w[1] # w[2]
      BY <3>1, <3>2, LenProperties DEF Neighbours
    <3> QED BY <1>5, <2>1, <3>3
  <2>4. PICK pipes \in [Wires -> Seq(Packet)] :
          /\ pipes = TakeFrom(w, link)
          /\ pipes[w] = Tail(link[w])
          /\ \A v \in Wires : v # w => pipes[v] = link[v]
    <3>1. TakeFrom(w, link) \in [Wires -> Seq(Packet)]
      BY <1>4, TakeFromType
    <3>2. Unread(link[w]) = Tail(link[w])
      <4>1. link'[w] = Unread(link[w])
        BY <1>4, <1>5, <2>1, <2>3, <3>1 DEF PassOn, PutOn, TakeFrom
      <4>2. Len(Unread(link[w])) + 1 >= Len(link[w])
        BY <4>1 DEF OneTaken
      <4> QED BY <1>4, <1>5, <2>1, <4>2, UnreadOne
    <3> QED BY <1>4, <3>1, <3>2 DEF TakeFrom
  <2>5. link' = PutOn(ws, pipes, p)
    BY <1>5, <2>1, <2>2, <2>4 DEF PassOn
  <2>6. link'[w] = Tail(link[w])
    BY <2>3, <2>4, <2>5 DEF PutOn
  <2>7. ASSUME NEW v \in Wires, v # w
        PROVE  link'[v] = IF v \in ws THEN Append(link[v], p) ELSE link[v]
    <3>1. Len(link[v]) < Room
      BY DEF PipesHaveRoom
    <3> QED BY <2>4, <2>5, <2>7, <3>1, WriteAppends DEF PutOn
  <2>8. PICK a \in Wires : a = <<g, TheSwitch>> /\ a \notin ws
    <3>1. <<g, TheSwitch>> \in Wires /\ g # TheSwitch
      BY OneSwitchWires
    <3> QED BY <1>1, <1>5, <3>1
  <2>9. PICK b \in Wires : b = <<TheSwitch, r>> /\ b # w
    <3>1. <<TheSwitch, r>> \in Wires
      BY OneSwitchWires
    <3> QED BY <1>1, <2>3, <3>1
  <2>10. link[w] \in Seq(Packet) /\ link[w] # <<>> /\ link[b] \in Seq(Packet)
    BY <1>4, <1>5, <2>1
  <2>11. /\ Keeps(jobs[r], jobs'[r], RecvJobs)
         /\ Keeps(jobs[g], jobs'[g], SendsTo(r))
    BY <1>1, KeepsThrough
  <2>12. CASE p \in UpTo(r)
    <3>1. w[1] \in Hosts
      <4>1. w[1] \in Nodes /\ w[1] # s
        BY <2>3 DEF Wires
      <4> QED BY <1>1, <4>1 DEF Nodes, OneSwitch
    <3>2. link[w] \in Seq(OwnPacket(FromOne(from), w[1]))
      BY <3>1 DEF OwnTraffic
    <3>3. p \in OwnPacket(FromOne(from), w[1])
      BY <2>2, <2>10, <3>2, HeadTailProperties
    <3>4. w[1] = g
      BY <1>2, <2>12, <3>3 DEF OwnPacket, Own, FromOne, UpTo
    <3>5. w = a
      BY <1>1, <2>1, <2>8, <3>4 DEF Wires
    <3>6. b \in ws
      BY <1>1, <1>5, <2>2, <2>9, <2>12 DEF UpTo
    <3>7. Takes(link[a], link'[a], UpTo(r), p)
      BY <2>2, <2>6, <2>10, <2>12, <3>5, CarriesTail
    <3>8. Adds(link[b], link'[b], UpTo(r), p)
      <4>1. link'[b] = Append(link[b], p)
        BY <2>7, <2>9, <3>6
      <4> QED BY <2>10, <2>12, <4>1, CarriesAppend
    <3> QED BY <1>1, <1>2, <2>8, <2>9, <3>7, <3>8, WayPassed DEF WayTo
  <2>13. CASE p \notin UpTo(r)
    <3>1. Keeps(link[a], link'[a], UpTo(r))
      <4>1. CASE a = w
        BY <2>2, <2>6, <2>10, <2>13, <4>1, CarriesTail
      <4>2. CASE a # w
        BY <2>7, <2>8, <4>2, KeepsThrough
      <4> QED BY <4>1, <4>2
    <3>2. Keeps(link[b], link'[b], UpTo(r))
      <4>1. CASE b \in ws
        <5>1. link'[b] = Append(link[b], p)
          BY <2>7, <2>9, <4>1
        <5> QED BY <2>10, <2>13, <5>1, CarriesAppend
      <4>2. CASE b \notin ws
        BY <2>7, <2>9, <4>2, KeepsThrough
      <4> QED BY <4>1, <4>2
    <3> QED BY <1>1, <1>2, <2>8, <2>9, <2>11, <3>1, <3>2, WayKeeps DEF WayTo
  <2> QED BY <2>12, <2>13
<1>6. CASE Flood(s)
  <2>1. \A w \in AllPorts(s) : w[1] = s
    BY DEF AllPorts
  <2>2. <<s, r>> \in AllPorts(s)
    BY <1>1, OneSwitchWires
  <2> QED BY <1>2, <1>5, <1>6, <2>1, <2>2 DEF Flood
<1>7. CASE Forward(s)
  <2> DEFINE d == SwArrived(s).dst
             ws == {<<s, Port[s][fwd[s][d]]>>}
  <2>1. /\ link[SwWire(s)] # <<>> /\ fwd[s][d] # 0 /\ PassOn(s, ws)
    BY <1>7 DEF Forward
  <2>2. ASSUME d = r
        PROVE  Port[s][fwd[s][d]] = r
    <3>1. fwd[s][r] = Route[s][r]
      BY <2>1, <2>2 DEF LearnedPortsLead
    <3>2. r \in Neighbours(s)
      <4>1. <<s, r>> \in Wires
        BY <1>1, OneSwitchWires
      <4> QED BY <4>1 DEF Wires
    <3>3. Port[s][Route[s][r]] = r
      BY <3>2, TreeAssumption DEF Toward
    <3> QED BY <2>2, <3>1, <3>3
  <2>3. d = r => <<s, r>> \in ws
    BY <2>2
  <2>4. \A w \in ws : w[1] = s
    OBVIOUS
  <2> HIDE DEF ws
  <2> QED BY <1>2, <1>5, <2>1, <2>3, <2>4
<1> QED BY <1>3, <1>6, <1>7 DEF SwitchTurn, SwitchStep

\* A job that is of no upload and makes only such jobs.
LEMMA WaysOtherJob ==
  ASSUME TypeOK, NEW h \in Hosts, NEW t, NEW more \in Seq(Job),
         RunJob(h, t, more), UNCHANGED <<link, fbuf>>,
         NEW r \in Hosts, NEW g \in Hosts, WayTo(r, g),
         t \notin {"FILE_UPLOAD_RECV_START", "FILE_UPLOAD_RECV_CONT",
                   "FILE_UPLOAD_RECV_END", "SEND_PKT_ALL_PORTS"},
         \A i \in 1..Len(more) : more[i] \notin RecvJobs /\ more[i] \notin SendsTo(r)
  PROVE  WayTo(r, g)'
<1>1. Head(jobs[h]).type = t
  BY DEF RunJob
<1>2. Head(jobs[h]) \notin RecvJobs /\ Head(jobs[h]) \notin SendsTo(r)
  BY <1>1, OtherKinds
<1>3. /\ Keeps(jobs[r], jobs'[r], RecvJobs)
      /\ Keeps(jobs[g], jobs'[g], SendsTo(r))
  BY <1>2, RunJobKeeps
<1> QED BY <1>3, KeepsThrough, WayKeeps DEF WayTo

\* A host sends its packets in the order of its jobs.
LEMMA WaysSend ==
  ASSUME OneSwitch, PipesHaveRoom, TypeOK, NEW h \in Hosts, SendPktAllPorts(h),
         NEW r \in Hosts, NEW g \in Hosts, WayTo(r, g)
  PROVE  WayTo(r, g)'
<1> DEFINE j == Head(jobs[h])
           e == <<>>
<1>1. /\ RunJob(h, "SEND_PKT_ALL_PORTS", e) /\ e \in Seq(Job)
      /\ \A S : \A i \in 1..Len(e) : e[i] \notin S
  BY DEF SendPktAllPorts
<1> HIDE DEF e
<1>2. j \in Job /\ j.type = "SEND_PKT_ALL_PORTS"
  BY <1>1, RunJobType
<1>3. PICK p \in Packet : p = j.pkt /\ j = SendJob(p)
  BY <1>2 DEF Job, PacketJob, WaitJob, UploadJob, SendJob, NewJob
<1>4. link \in [Wires -> Seq(Packet)] /\ UNCHANGED fbuf
  BY DEF TypeOK, SendPktAllPorts
<1>5. /\ <<h, TheSwitch>> \in Wires /\ AllPorts(h) = {<<h, TheSwitch>>}
      /\ <<g, TheSwitch>> \in Wires /\ <<TheSwitch, r>> \in Wires
      /\ h # TheSwitch
  BY OneSwitchWires
<1>6. ASSUME NEW v \in Wires
      PROVE  link'[v] = IF v = <<h, TheSwitch>> THEN Append(link[v], p) ELSE link[v]
  <2>1. Len(link[v]) < Room
    BY DEF PipesHaveRoom
  <2>2. link' = PutOn(AllPorts(h), link, p)
    BY <1>3 DEF SendPktAllPorts
  <2> QED BY <1>5, <2>1, <2>2, WriteAppends DEF PutOn
<1>7. link'[<<TheSwitch, r>>] = link[<<TheSwitch, r>>]
  <2>1. <<TheSwitch, r>> # <<h, TheSwitch>>
    BY <1>5
  <2> QED BY <1>5, <1>6, <2>1
<1>8. Keeps(jobs[r], jobs'[r], RecvJobs)
  <2>1. j \notin RecvJobs
    BY <1>2, OtherKinds
  <2> QED BY <1>1, <2>1, RunJobKeeps
<1>9. CASE g = h /\ p \in UpTo(r)
  <2>1. j \in SendsTo(r)
    BY <1>3, <1>9 DEF SendsTo
  <2>2. Takes(jobs[g], jobs'[g], SendsTo(r), SendJob(p))
    BY <1>1, <1>3, <1>9, <2>1, RunJobKeeps
  <2>3. Adds(link[<<g, TheSwitch>>], link'[<<g, TheSwitch>>], UpTo(r), p)
    <3>1. link'[<<g, TheSwitch>>] = Append(link[<<g, TheSwitch>>], p)
      BY <1>5, <1>6, <1>9
    <3>2. link[<<g, TheSwitch>>] \in Seq(Packet)
      BY <1>4, <1>5
    <3> QED BY <1>9, <3>1, <3>2, CarriesAppend
  <2> QED BY <1>4, <1>7, <1>8, <2>2, <2>3, WaySent DEF WayTo
<1>10. CASE ~(g = h /\ p \in UpTo(r))
  <2>1. Keeps(jobs[g], jobs'[g], SendsTo(r))
    <3>1. j \notin SendsTo(r) \/ g # h
      BY <1>3, <1>10, OtherKinds
    <3> QED BY <1>1, <3>1, RunJobKeeps
  <2>2. Keeps(link[<<g, TheSwitch>>], link'[<<g, TheSwitch>>], UpTo(r))
    <3>1. CASE g = h
      <4>1. link'[<<g, TheSwitch>>] = Append(link[<<g, TheSwitch>>], p)
        BY <1>5, <1>6, <3>1
      <4>2. link[<<g, TheSwitch>>] \in Seq(Packet)
        BY <1>4, <1>5
      <4> QED BY <1>10, <3>1, <4>1, <4>2, CarriesAppend
    <3>2. CASE g # h
      <4>1. link'[<<g, TheSwitch>>] = link[<<g, TheSwitch>>]
        BY <1>5, <1>6, <3>2
      <4> QED BY <4>1, KeepsThrough
    <3> QED BY <3>1, <3>2
  <2>3. Keeps(link[<<TheSwitch, r>>], link'[<<TheSwitch, r>>], UpTo(r))
    BY <1>7, KeepsThrough
  <2> QED BY <1>4, <1>8, <2>1, <2>2, <2>3, WayKeeps DEF WayTo
<1> QED BY <1>9, <1>10

\* A file that is read is one that may be sent, and is sent from its start to
\* its end (host.c:455-558).
LEMMA WaysFill ==
  ASSUME NEW from \in [Hosts -> Hosts], TypeOK, OwnTraffic(FromOne(from)),
         FilesAreWhole, NEW h \in Hosts, FileUploadSend(h),
         NEW r \in Hosts, WayTo(r, from[r])
  PROVE  WayTo(r, from[r])'
<1> DEFINE j    == Head(jobs[h])
           data == FileOf(h, j.pkt.body)
           more == IF data = None THEN <<>>
                   ELSE SendJobs(UploadPackets(j.pkt, data))
<1>1. RunJob(h, "FILE_UPLOAD_SEND", more) /\ UNCHANGED <<fbuf, link>>
  BY DEF FileUploadSend
<1>2. /\ jobs[h] # <<>> /\ j.type = "FILE_UPLOAD_SEND"
      /\ jobs[h] \in Seq(OwnJob(FromOne(from), h)) /\ jobs[h] \in Seq(Job)
  BY <1>1 DEF RunJob, OwnTraffic, TypeOK, HostTypeOK
<1>3. j \in OwnJob(FromOne(from), h)
  BY <1>2, HeadTailProperties
<1>4. CASE data = None
  <2> HIDE DEF data
  <2>1. PICK e \in Seq(Job) : e = <<>>
    <3>1. <<>> \in Seq(Job)
      BY EmptySeq
    <3> QED BY <3>1
  <2>3. more = e
    BY <1>4, <2>1
  <2> HIDE DEF more
  <2>2. /\ RunJob(h, "FILE_UPLOAD_SEND", e)
        /\ \A i \in 1..Len(e) : e[i] \notin RecvJobs /\ e[i] \notin SendsTo(r)
    BY <1>1, <2>1, <2>3
  <2> QED BY <1>1, <2>2, WaysOtherJob
<1>5. CASE data # None
  <2>1. PICK f \in Names : /\ f = j.pkt.body /\ dir[h] \in Dirs
                           /\ data = disk[dir[h]][f]
    BY <1>5 DEF FileOf
  <2>2. data \in Originals(f) \cup Kept(f)
    BY <1>5, <2>1 DEF FilesAreWhole, Kept
  <2>3. data \in Seq(Chunks) /\ FirstChunks(data) \in Kept(f)
    BY <2>2, KeptType DEF Kept
  <2>4. PICK d \in Ids : /\ j.pkt = NewPacket(h, d, "FILE_UPLOAD_START", f)
                         /\ d \in Hosts => h = from[d]
                         /\ j.pkt \in PacketOf({"FILE_UPLOAD_START"}, Names)
    BY <1>2, <1>3, <2>1
    DEF OwnJob, Own, FromOne, UpTypes, Job, PacketJob, WaitJob, UploadJob,
        PacketOf, NewPacket
  <2>5. PICK ps \in Seq(Packet) : /\ ps = UploadPackets(j.pkt, data)
                                  /\ \A i \in DOMAIN ps : ps[i].dst = d
    BY <2>3, <2>4, UploadPacketsType DEF NewPacket
  <2>6. PICK new \in Seq(Job) : new = SendJobs(ps)
    BY SendJobsType
  <2>7. /\ DOMAIN ps = 1..Len(ps) /\ Len(new) = Len(ps)
        /\ \A i \in 1..Len(ps) : new[i] = SendJob(ps[i])
    BY <2>6, LenProperties DEF SendJobs
  <2>8. RunJob(h, "FILE_UPLOAD_SEND", new)
    BY <1>1, <1>5, <2>5, <2>6
  <2> HIDE DEF more, data
  <2>9. \A i \in 1..Len(new) : new[i] \notin RecvJobs
    <3>1. \A i \in 1..Len(new) : new[i].type = "SEND_PKT_ALL_PORTS"
      <4>1. \A i \in 1..Len(ps) : SendJob(ps[i]).type = "SEND_PKT_ALL_PORTS"
        BY DEF SendJob, NewJob
      <4> QED BY <2>7, <4>1
    <3> QED BY <3>1, OtherKinds
  <2>10. CASE d = r
    <3>1. from[r] = h
      BY <2>4, <2>10
    <3>2. jobs'[h] = Tail(jobs[h]) \o new
      BY <2>8, RunJobType
    <3>3. Keeps(jobs[r], jobs'[r], RecvJobs)
      <4>1. j \notin RecvJobs
        BY <1>2, OtherKinds
      <4> QED BY <2>8, <2>9, <4>1, RunJobKeeps
    <3>4. Tail(jobs[h]) \in Seq(Job) /\ Keeps(jobs[h], Tail(jobs[h]), SendsTo(r))
      <4>1. j \notin SendsTo(r)
        BY <1>2, OtherKinds
      <4> QED BY <1>2, <4>1, HeadTailProperties, CarriesTail
    <3>5. PICK start : start = NewPacket(h, r, "FILE_UPLOAD_START", f)
      OBVIOUS
    <3>6. new = SendJobs(UploadPackets(start, data))
      BY <2>4, <2>5, <2>6, <2>10, <3>5
    <3>7. Way(h, r, fbuf[r], jobs[r], link[<<TheSwitch, r>>],
              link[<<h, TheSwitch>>], jobs[h])
      BY <3>1 DEF WayTo
    <3>8. Way(h, r, fbuf[r], jobs'[r], link[<<TheSwitch, r>>],
              link[<<h, TheSwitch>>],
              Tail(jobs[h]) \o SendJobs(UploadPackets(start, data)))
      BY <2>3, <3>3, <3>4, <3>5, <3>7, WayFilled
    <3> QED BY <1>1, <3>1, <3>2, <3>6, <3>8 DEF WayTo
  <2>11. CASE d # r
    <3>1. \A i \in 1..Len(new) : new[i] \notin SendsTo(r)
      <4>1. \A i \in 1..Len(ps) : ps[i] \notin UpTo(r)
        BY <2>5, <2>7, <2>11 DEF UpTo
      <4> QED BY <2>7, <4>1, OtherKinds
    <3> QED BY <1>1, <2>8, <2>9, <3>1, WaysOtherJob
  <2> QED BY <2>10, <2>11
<1> QED BY <1>4, <1>5

\* A job of an upload that has come: what is stored is a file as it was.
LEMMA WaysHandled ==
  ASSUME TypeOK, NEW h \in Hosts,
         \/ FileUploadRecvStart(h) \/ FileUploadRecvCont(h) \/ FileUploadRecvEnd(h),
         NEW r \in Hosts, NEW g \in Hosts, WayTo(r, g)
  PROVE  /\ WayTo(r, g)'
         /\ r = h /\ FileUploadRecvEnd(h) => fbuf[h].data \in Kept(fbuf[h].name)
<1> DEFINE j == Head(jobs[h])
           Types == {"FILE_UPLOAD_RECV_START", "FILE_UPLOAD_RECV_CONT",
                     "FILE_UPLOAD_RECV_END"}
           e == <<>>
<1>1. PICK t \in Types : RunJob(h, t, e)
  BY DEF FileUploadRecvStart, FileUploadRecvCont, FileUploadRecvEnd
<1>2. e \in Seq(Job) /\ \A S : \A i \in 1..Len(e) : e[i] \notin S
  OBVIOUS
<1> HIDE DEF e
<1>3. j \in Job /\ j.type = t
  BY <1>1, <1>2, RunJobType
<1>4. j \in RecvJobs /\ j \notin SendsTo(r)
  BY <1>3, OtherKinds DEF RecvJobs
<1>5. /\ Keeps(jobs[g], jobs'[g], SendsTo(r))
      /\ r = h => Takes(jobs[r], jobs'[r], RecvJobs, j)
      /\ r # h => Keeps(jobs[r], jobs'[r], RecvJobs)
  BY <1>1, <1>2, <1>4, RunJobKeeps
<1>6. /\ UNCHANGED link
      /\ fbuf \in [Hosts -> [name : Names \cup {None}, data : Seq(Chunks)]]
  BY DEF FileUploadRecvStart, FileUploadRecvCont, FileUploadRecvEnd, TypeOK,
         HostTypeOK
<1>7. CASE r # h
  <2>1. fbuf'[r] = fbuf[r]
    BY <1>6, <1>7 DEF FileUploadRecvStart, FileUploadRecvCont, FileUploadRecvEnd
  <2>2. Way(g, r, fbuf[r], jobs[r], link[<<TheSwitch, r>>],
            link[<<g, TheSwitch>>], jobs[g])
    BY DEF WayTo
  <2>3. Way(g, r, fbuf[r], jobs'[r], link[<<TheSwitch, r>>],
            link[<<g, TheSwitch>>], jobs'[g])
    BY <1>5, <1>7, <2>2, KeepsThrough, WayKeeps
  <2> QED BY <1>6, <1>7, <2>1, <2>3 DEF WayTo
<1>8. CASE r = h
  <2> DEFINE Next1(c) == Way(g, r, c, jobs'[r], link[<<TheSwitch, r>>],
                             link[<<g, TheSwitch>>], jobs'[g])
  <2>1. PICK b \in [name : Names \cup {None}, data : Seq(Chunks)] : b = fbuf[r]
    BY <1>6
  <2>2. /\ j.type = "FILE_UPLOAD_RECV_START" =>
             Next1([name |-> j.pkt.body, data |-> <<>>])
        /\ j.type = "FILE_UPLOAD_RECV_CONT" =>
             /\ Len(b.data) < MaxChunks
             /\ Next1([name |-> b.name, data |-> Append(b.data, j.pkt.body)])
        /\ j.type = "FILE_UPLOAD_RECV_END" =>
             /\ b.data \in Kept(b.name)
             /\ \A c : Next1(c)
    <3>1. PICK jr, lr, lg, jg, kr, kg, i :
            /\ jr = jobs[r] /\ lr = link[<<TheSwitch, r>>]
            /\ lg = link[<<g, TheSwitch>>] /\ jg = jobs[g]
            /\ kr = jobs'[r] /\ kg = jobs'[g] /\ i = j
      OBVIOUS
    <3>2. /\ Way(g, r, b, jr, lr, lg, jg)
          /\ Takes(jr, kr, RecvJobs, i) /\ Keeps(jg, kg, SendsTo(r))
      BY <1>5, <1>8, <2>1, <3>1 DEF WayTo
    <3>3. /\ i.type = "FILE_UPLOAD_RECV_START" =>
               Way(g, r, [name |-> i.pkt.body, data |-> <<>>], kr, lr, lg, kg)
          /\ i.type = "FILE_UPLOAD_RECV_CONT" =>
               /\ Len(b.data) < MaxChunks
               /\ Way(g, r, [name |-> b.name, data |-> Append(b.data, i.pkt.body)],
                      kr, lr, lg, kg)
          /\ i.type = "FILE_UPLOAD_RECV_END" =>
               /\ b.data \in Kept(b.name)
               /\ \A c : Way(g, r, c, kr, lr, lg, kg)
      BY <3>2, WayHandled
    <3> QED BY <3>1, <3>3
  <2>3. Next1(fbuf'[r]) => WayTo(r, g)'
    BY <1>6 DEF WayTo
  <2> HIDE DEF Next1
  <2>4. CASE FileUploadRecvStart(h)
    <3>1. j.type = "FILE_UPLOAD_RECV_START"
      BY <2>4 DEF FileUploadRecvStart, RunJob
    <3>2. fbuf'[r] = [name |-> j.pkt.body, data |-> <<>>]
      BY <1>6, <1>8, <2>4 DEF FileUploadRecvStart
    <3>3. ~FileUploadRecvEnd(h)
      BY <3>1 DEF FileUploadRecvEnd, RunJob
    <3> QED BY <2>2, <2>3, <3>1, <3>2, <3>3
  <2>5. CASE FileUploadRecvCont(h)
    <3>1. j.type = "FILE_UPLOAD_RECV_CONT"
      BY <2>5 DEF FileUploadRecvCont, RunJob
    <3>2. fbuf'[r] = [name |-> b.name, data |-> Append(b.data, j.pkt.body)]
      <4>1. Len(b.data) < MaxChunks
        BY <2>2, <3>1
      <4> QED BY <1>6, <1>8, <2>1, <2>5, <4>1 DEF FileUploadRecvCont
    <3>3. ~FileUploadRecvEnd(h)
      BY <3>1 DEF FileUploadRecvEnd, RunJob
    <3> QED BY <2>2, <2>3, <3>1, <3>2, <3>3
  <2>6. CASE FileUploadRecvEnd(h)
    <3>1. j.type = "FILE_UPLOAD_RECV_END"
      BY <2>6 DEF FileUploadRecvEnd, RunJob
    <3> QED BY <1>8, <2>1, <2>2, <2>3, <3>1
  <2> QED BY <2>4, <2>5, <2>6
<1> QED BY <1>7, <1>8

-----------------------------------------------------------------------------
(* Files that are stored                                                   *)

UploadInv(from) ==
  /\ TreeInv
  /\ OwnTraffic(FromOne(from))
  /\ FilesAreWhole
  /\ \A r \in Hosts : WayTo(r, from[r])

\* Nothing is under way at the start.
LEMMA UploadInit ==
  ASSUME OneSwitch, NEW from \in [Hosts -> Hosts], Init
  PROVE  UploadInv(from)
<1>1. TreeInv /\ OwnTraffic(FromOne(from))
  BY TreeInit, OwnInit
<1>2. FilesAreWhole
  BY DEF Init, HostInit, FilesAreWhole, Originals
<1>3. ASSUME NEW r \in Hosts PROVE WayTo(r, from[r])
  <2>1. PICK g \in Hosts : g = from[r]
    OBVIOUS
  <2>2. <<TheSwitch, r>> \in Wires /\ <<g, TheSwitch>> \in Wires
    BY OneSwitchWires
  <2>3. PICK e : e = <<>>
    OBVIOUS
  <2>4. /\ jobs[r] = e /\ jobs[g] = e
        /\ link[<<TheSwitch, r>>] = e /\ link[<<g, TheSwitch>>] = e
    BY <2>2, <2>3 DEF Init, HostInit, PipeInit
  <2>5. e \in Seq(Places) /\ e \in Seq(Job) /\ Len(e) = 0
    BY <2>3
  <2>6. ASSUME NEW S, NEW str PROVE Carries(e, S, str, 0, 0)
    <3>1. 0 \in Nat /\ \A i \in 1..Len(e) : e[i] \notin S
      BY <2>5
    <3> QED BY <2>5, <3>1, CarriesNothing
  <2>7. Stream(e) /\ InStep(e, 0, fbuf[r])
    BY <2>5 DEF Stream, InStep
  <2>8. Way(g, r, fbuf[r], e, e, e, e)
    <3>1. PICK n \in Nat : n = 0
      OBVIOUS
    <3>2. /\ Stream(e) /\ InStep(e, n, fbuf[r])
          /\ Carries(e, RecvJobs, Recvs(g, r, e), n, n)
          /\ Carries(e, UpTo(r), Ups(g, r, e), n, n)
          /\ Carries(e, SendsTo(r), Sends(g, r, e), n, Len(e))
      BY <2>5, <2>6, <2>7, <3>1
    <3> QED BY <2>5, <3>2 DEF Way
  <2> QED BY <2>1, <2>4, <2>8 DEF WayTo
<1> QED BY <1>1, <1>2, <1>3 DEF UploadInv

\* No job spoils a file (host.c:365-631).
LEMMA UploadJobs ==
  ASSUME OneSwitch, PipesHaveRoom, NEW from \in [Hosts -> Hosts], UploadInv(from),
         NEW h \in Hosts, JobStep(h)
  PROVE  /\ FilesAreWhole'
         /\ \A r \in Hosts : WayTo(r, from[r])'
<1>0. /\ TypeOK /\ OwnTraffic(FromOne(from)) /\ FilesAreWhole
      /\ \A r \in Hosts : WayTo(r, from[r])
  BY DEF UploadInv, TreeInv
<1>1. CASE FileUploadRecvStart(h) \/ FileUploadRecvCont(h) \/ FileUploadRecvEnd(h)
  <2>1. \A r \in Hosts : WayTo(r, from[r])'
    BY <1>0, <1>1, WaysHandled
  <2>2. CASE UNCHANGED disk
    BY <1>0, <2>1, <2>2 DEF FilesAreWhole
  <2>3. CASE FileUploadRecvEnd(h) /\ Stored(h)
    <3>1. fbuf[h].data \in Kept(fbuf[h].name)
      BY <1>0, <2>3, WaysHandled
    <3>2. /\ disk' = [disk EXCEPT ![dir[h]][fbuf[h].name] = fbuf[h].data]
          /\ dir[h] \in Dirs /\ fbuf[h].name \in Names
      BY <2>3 DEF FileUploadRecvEnd, Stored
    <3>3. disk \in [Dirs -> [Names -> Contents]]
      BY <1>0 DEF TypeOK, HostTypeOK
    <3>4. \A d \in Dirs : \A f \in Names :
            disk'[d][f] = disk[d][f]
              \/ (f = fbuf[h].name /\ disk'[d][f] = fbuf[h].data)
      BY <3>2, <3>3
    <3>5. FilesAreWhole'
      BY <1>0, <3>1, <3>4 DEF FilesAreWhole, Kept
    <3> QED BY <2>1, <3>5
  <2> QED
    BY <1>1, <2>2, <2>3
    DEF FileUploadRecvStart, FileUploadRecvCont, FileUploadRecvEnd
<1>2. CASE FileUploadSend(h)
  BY <1>0, <1>2, WaysFill DEF FileUploadSend, FilesAreWhole
<1>3. CASE SendPktAllPorts(h)
  BY <1>0, <1>3, WaysSend DEF SendPktAllPorts, FilesAreWhole
<1>4. CASE NoJob(h)
  BY <1>0, <1>4 DEF NoJob, FilesAreWhole, WayTo
<1>5. ASSUME NEW t \in {"PING_SEND_REPLY", "PING_WAIT_FOR_REPLY"},
             NEW more \in Seq(Job), RunJob(h, t, more), UNCHANGED <<link, fbuf, disk>>,
             \A i \in 1..Len(more) : \A r \in Hosts :
               more[i] \notin RecvJobs /\ more[i] \notin SendsTo(r)
      PROVE  /\ FilesAreWhole'
             /\ \A r \in Hosts : WayTo(r, from[r])'
  BY <1>0, <1>5, WaysOtherJob DEF FilesAreWhole
<1>6. CASE PingSendReply(h)
  <2> DEFINE req == Head(jobs[h]).pkt
             rep == NewPacket(h, req.src, "PING_REPLY", None)
             job == SendJob(rep)
  <2>1. RunJob(h, "PING_SEND_REPLY", <<job>>) /\ UNCHANGED <<link, fbuf, disk>>
    BY <1>6 DEF PingSendReply
  <2>2. /\ Head(jobs[h]) \in Job /\ Head(jobs[h]).type = "PING_SEND_REPLY"
    BY <1>0, <2>1, HeadTailProperties DEF RunJob, TypeOK, HostTypeOK
  <2>3. req.src \in Ids
    BY <2>2, TopologyAssumption DEF Job, PacketJob, WaitJob, UploadJob, PacketOf
  <2>4. job \in Job
    BY <2>3 DEF SendJob, NewJob, NewPacket, Job, PacketJob, Packet, PacketOf
  <2>5. \A r \in Hosts : job \notin RecvJobs /\ job \notin SendsTo(r)
    <3>1. \A r \in Hosts : rep \notin UpTo(r)
      BY DEF UpTo, UpTypes, NewPacket
    <3>2. job.type = "SEND_PKT_ALL_PORTS"
      BY DEF SendJob, NewJob
    <3> HIDE DEF rep
    <3> QED BY <3>1, <3>2, OtherKinds
  <2> HIDE DEF job
  <2>6. <<job>> \in Seq(Job) /\ \A i \in 1..Len(<<job>>) : <<job>>[i] = job
    BY <2>4
  <2> QED BY <1>5, <2>1, <2>5, <2>6
<1>7. CASE PingAcked(h) \/ PingTimeOut(h)
  <2> DEFINE e == <<>>
  <2>1. e \in Seq(Job) /\ \A i \in 1..Len(e) : FALSE
    BY EmptySeq
  <2>2. RunJob(h, "PING_WAIT_FOR_REPLY", e) /\ UNCHANGED <<link, fbuf, disk>>
    BY <1>7 DEF PingAcked, PingTimeOut
  <2> HIDE DEF e
  <2> QED BY <1>5, <2>1, <2>2
<1>8. CASE PingWaitOn(h)
  <2> DEFINE w == WaitFor(Head(jobs[h]).timer - 1)
  <2>1. /\ RunJob(h, "PING_WAIT_FOR_REPLY", <<w>>) /\ Head(jobs[h]).timer > 1
        /\ UNCHANGED <<link, fbuf, disk>>
    BY <1>8 DEF PingWaitOn
  <2>2. Head(jobs[h]) \in Job /\ Head(jobs[h]).type = "PING_WAIT_FOR_REPLY"
    BY <1>0, <2>1, HeadTailProperties DEF RunJob, TypeOK, HostTypeOK
  <2>3. Head(jobs[h]).timer \in 1..PingTimer
    BY <2>2 DEF Job, PacketJob, WaitJob, UploadJob
  <2>4. w \in Job /\ w.type = "PING_WAIT_FOR_REPLY"
    BY <2>1, <2>3, HostAssumption DEF WaitFor, Job, WaitJob
  <2>5. \A r \in Hosts : w \notin RecvJobs /\ w \notin SendsTo(r)
    BY <2>4, OtherKinds
  <2> HIDE DEF w
  <2>6. <<w>> \in Seq(Job) /\ \A i \in 1..Len(<<w>>) : <<w>>[i] = w
    BY <2>4
  <2> QED BY <1>5, <2>1, <2>5, <2>6
<1> QED BY <1>1, <1>2, <1>3, <1>4, <1>6, <1>7, <1>8 DEF JobStep

\* The invariant is inductive.
LEMMA UploadStepKeeps ==
  ASSUME OneSwitch, \A w \in Wires : OneTaken(w), NEW from \in [Hosts -> Hosts],
         PipesHaveRoom, OneSenderEach(from), UploadInv(from), [Next]_vars
  PROVE  UploadInv(from)'
<1>0. /\ TypeOK /\ LearnedPortsLead /\ OwnTraffic(FromOne(from))
      /\ FilesAreWhole /\ \A r \in Hosts : WayTo(r, from[r])
  BY DEF UploadInv, TreeInv
<1>1. TreeInv'
  BY TreeNext DEF UploadInv
<1>2. OwnTraffic(FromOne(from))'
  <2>1. \A h \in Hosts : cmdPipe[h] # <<>> => Head(cmdPipe[h]) \in Command
    BY <1>0, HeadTailProperties DEF TypeOK
  <2>2. UploadsOf(FromOne(from))
    BY <2>1 DEF UploadsOf, FromOne, OneSenderEach, Command
  <2> QED BY <1>0, <2>2, OwnNext
<1>3. FilesAreWhole' /\ \A r \in Hosts : WayTo(r, from[r])'
  <2>1. ASSUME UNCHANGED <<jobs, link, fbuf, disk>>
        PROVE  FilesAreWhole' /\ \A r \in Hosts : WayTo(r, from[r])'
    BY <1>0, <2>1 DEF FilesAreWhole, WayTo
  <2>2. CASE ManStep
    BY <2>1, <2>2
    DEF ManStep, UserStep, DisplayHostState, Ping, SetHostDir, FileUpload,
        FileDownload, ChangeHost, Quit, GetReply, SendCommand, pipeVars, hostVars
  <2>3. ASSUME NEW h \in Hosts, HostTurn(h)
        PROVE  FilesAreWhole' /\ \A r \in Hosts : WayTo(r, from[r])'
    <3>1. CASE CommandStep(h)
      <4>1. UNCHANGED disk
        BY <3>1 DEF CommandStep, NoCommand, ReplyDisplayHostState, SetDir,
                    StartPing, StartUpload, GetCommand
      <4> QED BY <1>0, <3>1, <4>1, WaysCommand DEF FilesAreWhole
    <3>2. CASE ScanStep(h)
      <4>1. UNCHANGED disk
        BY <3>2 DEF ScanStep, RecvNothing, RecvOthers, RecvPingReply, RecvJob,
                    Recv, ScanPort
      <4> QED BY <1>0, <3>2, <4>1, WaysScan DEF FilesAreWhole
    <3>3. CASE JobStep(h)
      BY <3>3, UploadJobs
    <3> QED BY <2>3, <3>1, <3>2, <3>3 DEF HostTurn, HostStep
  <2>4. ASSUME NEW s \in Switches, SwitchTurn(s)
        PROVE  FilesAreWhole' /\ \A r \in Hosts : WayTo(r, from[r])'
    <3>1. UNCHANGED disk
      BY <2>4 DEF SwitchTurn, hostVars
    <3> QED BY <1>0, <2>4, <3>1, WaysSwitch DEF FilesAreWhole
  <2>5. CASE UNCHANGED vars
    BY <2>1, <2>5 DEF vars, hostVars, pipeVars
  <2> QED BY <2>2, <2>3, <2>4, <2>5 DEF Next, Terminated
<1> QED BY <1>1, <1>2, <1>3 DEF UploadInv

\* Uploads of any number of files to any number of hosts, through one switch,
\* leave whole files on disk (host.c:18), as long as no read takes in a second
\* packet and no pipe is full, if no host gets files of two hosts: then the jobs
\* and the pipes on the way of a file are one queue, which nobody else writes to.
THEOREM UploadsStayWhole ==
  ASSUME OneSwitch, NEW from \in [Hosts -> Hosts]
  PROVE  UploadSpec /\ []OneSenderEach(from) => []StoredFilesAreWhole
<1> DEFINE Undropped == ~dropped => UploadInv(from) /\ PipesHaveRoom
<1>1. Init => Undropped
  <2> SUFFICES ASSUME Init PROVE UploadInv(from) /\ PipesHaveRoom
    OBVIOUS
  <2>1. \A w \in Wires : Len(link[w]) = 0
    BY EmptySeq DEF Init, PipeInit
  <2> QED BY <2>1, UploadInit, SizeAssumption DEF PipesHaveRoom
<1>2. OneSenderEach(from) /\ Undropped /\ [UploadNext]_uploadVars => Undropped'
  <2> SUFFICES ASSUME OneSenderEach(from), Undropped, [UploadNext]_uploadVars, ~dropped'
               PROVE  UploadInv(from)' /\ PipesHaveRoom'
    OBVIOUS
  <2>1. CASE Next /\ Watched
    <3>1. PipesHaveRoom' /\ \A w \in Wires : OneTaken(w)
      BY <2>1 DEF Watched
    <3>2. PipesHaveRoom /\ UploadInv(from) /\ [Next]_vars
      BY <2>1 DEF Watched
    <3> QED BY <3>1, <3>2, UploadStepKeeps
  <2>2. CASE UNCHANGED uploadVars
    <3>1. UNCHANGED vars /\ dropped' = dropped
      BY <2>2 DEF uploadVars
    <3>2. PipesHaveRoom /\ UploadInv(from) /\ [Next]_vars
      BY <3>1
    <3>3. PipesHaveRoom' /\ \A w \in Wires : OneTaken(w)
      <4>1. link' = link
        BY <3>1 DEF vars, pipeVars
      <4>2. \A w \in Wires : Len(link[w]) \in Nat
        BY <3>2, LenProperties DEF UploadInv, TreeInv, TypeOK
      <4> QED BY <3>2, <4>1, <4>2 DEF PipesHaveRoom, OneTaken
    <3> QED BY <3>2, <3>3, UploadStepKeeps
  <2>3. CASE Ended
    BY <2>3 DEF Ended, uploadVars
  <2> QED BY <2>1, <2>2, <2>3 DEF UploadNext
<1>3. Undropped => StoredFilesAreWhole
  BY DEF UploadInv, StoredFilesAreWhole
<1> HIDE DEF Undropped
<1> QED BY <1>1, <1>2, <1>3, PTL DEF UploadSpec
=============================================================================
