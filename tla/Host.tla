-------------------------------- MODULE Host --------------------------------
(***************************************************************************)
(* A host process (host.c).  Its main loop never blocks.  Each turn reads  *)
(* the command pipe once, reads each link port once, and executes one job  *)
(* of the job queue; every pipe access is a step of its own here.  The     *)
(* steps of the loop are numbered by at[h]: 0 is the read of the command   *)
(* pipe, k the read of port k, and one more than the last port the job.    *)
(***************************************************************************)
EXTENDS Pipes

CONSTANTS
  PingTimer,  \* turns a host waits for a ping reply
  MaxChunks,  \* chunks in MAX_FILE_BUFFER bytes
  Disk0       \* the files on disk at the start

VARIABLES
  at,      \* at[h]: where host h is in its loop
  dir,     \* dir[h]: its directory; None while dir_valid is 0
  jobs,    \* jobs[h]: its job queue
  pinged,  \* pinged[h]: None while ping_reply_received is 0, then who replied
  fbuf,    \* fbuf[h]: f_buf_upload, the one buffer for incoming files
  disk     \* disk[d][f]: the chunks of file f of directory d, None if no file

hostVars == <<at, dir, jobs, pinged, fbuf, disk>>

Contents == Seq(Chunks) \cup {None}

ASSUME HostAssumption ==
  /\ PingTimer \in Nat \ {0}
  /\ MaxChunks \in Nat \ {0}
  /\ Disk0 \in [Dirs -> [Names -> Contents]]

\* An upload job is given by its first packet, which has the destination and
\* the file name.  All other jobs but a wait are for a packet.
UploadJob == [type : {"FILE_UPLOAD_SEND"},
              pkt : PacketOf({"FILE_UPLOAD_START"}, Names \cup {Garbled})]
WaitJob   == [type : {"PING_WAIT_FOR_REPLY"}, timer : 1..PingTimer]
PacketJob == [type : {"SEND_PKT_ALL_PORTS"}, pkt : Packet]
  \cup [type : {"PING_SEND_REPLY"}, pkt : PacketOf({"PING_REQ"}, {None})]
  \cup [type : {"FILE_UPLOAD_RECV_START"},
        pkt : PacketOf({"FILE_UPLOAD_START"}, Names)]
  \cup [type : {"FILE_UPLOAD_RECV_CONT"},
        pkt : PacketOf({"FILE_UPLOAD_CONT"}, Chunks)]
  \cup [type : {"FILE_UPLOAD_RECV_END"},
        pkt : PacketOf({"FILE_UPLOAD_END"}, {None})]

Job == UploadJob \cup WaitJob \cup PacketJob

NewJob(t, p) == [type |-> t, pkt |-> p]
SendJob(p)   == NewJob("SEND_PKT_ALL_PORTS", p)
WaitFor(k)   == [type |-> "PING_WAIT_FOR_REPLY", timer |-> k]

\* What a packet addressed to this host becomes; a ping reply becomes no job.
JobFor(p) ==
  NewJob(CASE p.type = "PING_REQ"          -> "PING_SEND_REPLY"
           [] p.type = "FILE_UPLOAD_START" -> "FILE_UPLOAD_RECV_START"
           [] p.type = "FILE_UPLOAD_CONT"  -> "FILE_UPLOAD_RECV_CONT"
           [] p.type = "FILE_UPLOAD_END"   -> "FILE_UPLOAD_RECV_END", p)

HostInit ==
  /\ at     = [h \in Hosts |-> 0]
  /\ dir    = [h \in Hosts |-> None]
  /\ jobs   = [h \in Hosts |-> <<>>]
  /\ pinged = [h \in Hosts |-> None]
  /\ fbuf   = [h \in Hosts |-> [name |-> None, data |-> <<>>]]
  /\ disk   = Disk0

-----------------------------------------------------------------------------
\* The command pipe

\* One read() takes every command in the pipe.  Only the first one is
\* executed, and the others are glued to the text of its last argument.
LastArgument(h) ==
  IF Len(cmdPipe[h]) = 1 THEN Head(cmdPipe[h]).name ELSE Garbled

GetCommand(h, o) ==
  /\ at[h] = 0
  /\ cmdPipe[h] # <<>>
  /\ Head(cmdPipe[h]).op = o
  /\ at' = [at EXCEPT ![h] = 1]
  /\ cmdPipe' = [cmdPipe EXCEPT ![h] = <<>>]
  /\ UNCHANGED <<link, fbuf, disk>>

NoCommand(h) ==
  /\ at[h] = 0
  /\ cmdPipe[h] = <<>>
  /\ at' = [at EXCEPT ![h] = 1]
  /\ UNCHANGED <<dir, jobs, pinged, fbuf, disk, pipeVars>>

Answer(h, text, d) ==
  replyPipe' = [replyPipe EXCEPT ![h] = Append(@, [text |-> text, dir |-> d])]

ReplyDisplayHostState(h) ==
  /\ GetCommand(h, "s")
  /\ Answer(h, "state", dir[h])
  /\ UNCHANGED <<dir, jobs, pinged>>

SetDir(h) ==
  /\ GetCommand(h, "m")
  /\ dir' = [dir EXCEPT ![h] = LastArgument(h)]
  /\ UNCHANGED <<jobs, pinged, replyPipe>>

\* (mutant) The command starts two waits.
StartPingTwice(h) ==
  /\ GetCommand(h, "p")
  /\ LET req == NewPacket(h, Head(cmdPipe[h]).dst, "PING_REQ", None)
     IN  jobs' = [jobs EXCEPT ![h] =
                    @ \o <<WaitFor(PingTimer), SendJob(req), WaitFor(PingTimer)>>]
  /\ pinged' = [pinged EXCEPT ![h] = None]
  /\ UNCHANGED <<dir, replyPipe>>

\* The request is sent, and the wait for its reply starts, as two jobs.
StartPing(h) ==
  /\ GetCommand(h, "p")
  /\ LET req == NewPacket(h, Head(cmdPipe[h]).dst, "PING_REQ", None)
     IN  jobs' = [jobs EXCEPT ![h] = @ \o <<SendJob(req), WaitFor(PingTimer)>>]
  /\ pinged' = [pinged EXCEPT ![h] = None]
  /\ UNCHANGED <<dir, replyPipe>>

StartUpload(h) ==
  /\ GetCommand(h, "u")
  /\ LET start == NewPacket(h, Head(cmdPipe[h]).dst, "FILE_UPLOAD_START",
                            LastArgument(h))
     IN  jobs' = [jobs EXCEPT ![h] =
                    Append(@, NewJob("FILE_UPLOAD_SEND", start))]
  /\ UNCHANGED <<dir, pinged, replyPipe>>

CommandStep(h) ==
  \/ NoCommand(h) \/ ReplyDisplayHostState(h) \/ SetDir(h)
  \/ StartPing(h) \/ StartUpload(h)

-----------------------------------------------------------------------------
\* The scan of the link ports

\* The wire that comes in on the port being read.
InWire(h) == <<Port[h][at[h]], h>>

ScanPort(h) ==
  /\ at[h] \in 1..Len(Port[h])
  /\ at' = [at EXCEPT ![h] = @ + 1]
  /\ UNCHANGED <<dir, fbuf, disk, cmdPipe, replyPipe>>

RecvNothing(h) ==
  /\ ScanPort(h)
  /\ link[InWire(h)] = <<>>
  /\ UNCHANGED <<link, jobs, pinged>>

\* A packet is read.  Only one for this host is looked at any further.
Arrived(h) == Head(link[InWire(h)])

Recv(h) ==
  /\ ScanPort(h)
  /\ link[InWire(h)] # <<>>
  /\ link' = TakeFrom(InWire(h), link)

RecvOthers(h) ==
  /\ Recv(h)
  /\ Arrived(h).dst # h
  /\ UNCHANGED <<jobs, pinged>>

\* (mutant) A reply is passed on to the manager when it comes in.
RecvPingReplyAnswers(h) ==
  /\ at[h] \in 1..Len(Port[h])
  /\ at' = [at EXCEPT ![h] = @ + 1]
  /\ link[InWire(h)] # <<>>
  /\ link' = TakeFrom(InWire(h), link)
  /\ Arrived(h).dst = h
  /\ Arrived(h).type = "PING_REPLY"
  /\ pinged' = [pinged EXCEPT ![h] = Arrived(h).src]
  /\ Answer(h, "Ping acked!", None)
  /\ UNCHANGED <<jobs, dir, fbuf, disk, cmdPipe>>

RecvPingReply(h) ==
  /\ Recv(h)
  /\ Arrived(h).dst = h
  /\ Arrived(h).type = "PING_REPLY"
  /\ pinged' = [pinged EXCEPT ![h] = Arrived(h).src]
  /\ UNCHANGED jobs

RecvJob(h) ==
  /\ Recv(h)
  /\ Arrived(h).dst = h
  /\ Arrived(h).type # "PING_REPLY"
  /\ jobs' = [jobs EXCEPT ![h] = Append(@, JobFor(Arrived(h)))]
  /\ UNCHANGED pinged

ScanStep(h) ==
  \/ RecvNothing(h) \/ RecvOthers(h) \/ RecvPingReply(h) \/ RecvJob(h)

-----------------------------------------------------------------------------
\* The job queue: one job a turn

JobTurn(h) ==
  /\ at[h] = Len(Port[h]) + 1
  /\ at' = [at EXCEPT ![h] = 0]
  /\ UNCHANGED <<pinged, dir, cmdPipe>>

NoJob(h) ==
  /\ JobTurn(h)
  /\ jobs[h] = <<>>
  /\ UNCHANGED <<jobs, fbuf, disk, link, replyPipe>>

\* The first job leaves the queue, and the jobs of more join it at its end.
RunJob(h, t, more) ==
  /\ JobTurn(h)
  /\ jobs[h] # <<>>
  /\ Head(jobs[h]).type = t
  /\ jobs' = [jobs EXCEPT ![h] = Tail(@) \o more]

SendPktAllPorts(h) ==
  /\ RunJob(h, "SEND_PKT_ALL_PORTS", <<>>)
  /\ link' = PutOn(AllPorts(h), link, Head(jobs[h]).pkt)
  /\ UNCHANGED <<fbuf, disk, replyPipe>>

PingSendReply(h) ==
  /\ LET req == Head(jobs[h]).pkt
     IN  RunJob(h, "PING_SEND_REPLY",
                <<SendJob(NewPacket(h, req.src, "PING_REPLY", None))>>)
  /\ UNCHANGED <<fbuf, disk, link, replyPipe>>

\* (mutant) The wait that is answered goes back into the queue.
PingAckedAgain(h) ==
  /\ RunJob(h, "PING_WAIT_FOR_REPLY", <<Head(jobs[h])>>)
  /\ pinged[h] # None
  /\ Answer(h, "Ping acked!", None)
  /\ UNCHANGED <<fbuf, disk, link>>

\* A reply seen since the last 'p' command settles the wait.
PingAcked(h) ==
  /\ RunJob(h, "PING_WAIT_FOR_REPLY", <<>>)
  /\ pinged[h] # None
  /\ Answer(h, "Ping acked!", None)
  /\ UNCHANGED <<fbuf, disk, link>>

\* (mutant) The timer does not run.
PingWaitForEver(h) ==
  /\ RunJob(h, "PING_WAIT_FOR_REPLY", <<Head(jobs[h])>>)
  /\ pinged[h] = None
  /\ Head(jobs[h]).timer > 1
  /\ UNCHANGED <<fbuf, disk, link, replyPipe>>

PingWaitOn(h) ==
  /\ RunJob(h, "PING_WAIT_FOR_REPLY", <<WaitFor(Head(jobs[h]).timer - 1)>>)
  /\ pinged[h] = None
  /\ Head(jobs[h]).timer > 1
  /\ UNCHANGED <<fbuf, disk, link, replyPipe>>

\* (mutant) A wait that times out is dropped without a word.
PingGiveUp(h) ==
  /\ RunJob(h, "PING_WAIT_FOR_REPLY", <<>>)
  /\ pinged[h] = None
  /\ Head(jobs[h]).timer = 1
  /\ UNCHANGED <<fbuf, disk, link, replyPipe>>

PingTimeOut(h) ==
  /\ RunJob(h, "PING_WAIT_FOR_REPLY", <<>>)
  /\ pinged[h] = None
  /\ Head(jobs[h]).timer = 1
  /\ Answer(h, "Ping time out!", None)
  /\ UNCHANGED <<fbuf, disk, link>>

\* The file that dir[h] and a name make up, None when fopen(.., "r") fails.
FileOf(h, name) ==
  IF dir[h] \in Dirs /\ name \in Names THEN disk[dir[h]][name] ELSE None

\* (mutant) No packet says that the file is complete.
UploadPacketsNoEnd(start, data) ==
  LET Part(t, b) == NewPacket(start.src, start.dst, t, b)
      sent       == SubSeq(data, 1, IF Len(data) < MaxChunks
                                    THEN Len(data) ELSE MaxChunks)
  IN  <<start>>
      \o [i \in 1..Len(sent) |-> Part("FILE_UPLOAD_CONT", sent[i])]

\* The packets of an upload: the name, at most MaxChunks chunks, the end.
UploadPackets(start, data) ==
  LET Part(t, b) == NewPacket(start.src, start.dst, t, b)
      sent       == SubSeq(data, 1, IF Len(data) < MaxChunks
                                    THEN Len(data) ELSE MaxChunks)
  IN  <<start>>
      \o [i \in 1..Len(sent) |-> Part("FILE_UPLOAD_CONT", sent[i])]
      \o <<Part("FILE_UPLOAD_END", None)>>

SendJobs(ps) == [i \in 1..Len(ps) |-> SendJob(ps[i])]

\* The file is read here and now; its packets wait in the queue.
FileUploadSend(h) ==
  /\ LET start == Head(jobs[h]).pkt
         data  == FileOf(h, start.body)
     IN  RunJob(h, "FILE_UPLOAD_SEND",
                IF data = None THEN <<>>
                ELSE SendJobs(UploadPackets(start, data)))
  /\ UNCHANGED <<fbuf, disk, link, replyPipe>>

\* (mutant) The buffer is not emptied.
FileUploadRecvStartDirty(h) ==
  /\ RunJob(h, "FILE_UPLOAD_RECV_START", <<>>)
  /\ fbuf' = [fbuf EXCEPT ![h].name = Head(jobs[h]).pkt.body]
  /\ UNCHANGED <<disk, link, replyPipe>>

\* The buffer is emptied, whoever was filling it.
FileUploadRecvStart(h) ==
  /\ RunJob(h, "FILE_UPLOAD_RECV_START", <<>>)
  /\ fbuf' = [fbuf EXCEPT ![h] =
                [name |-> Head(jobs[h]).pkt.body, data |-> <<>>]]
  /\ UNCHANGED <<disk, link, replyPipe>>

\* What does not fit in the buffer is dropped.
FileUploadRecvCont(h) ==
  /\ RunJob(h, "FILE_UPLOAD_RECV_CONT", <<>>)
  /\ fbuf' = [fbuf EXCEPT ![h].data =
                IF Len(@) < MaxChunks
                THEN Append(@, Head(jobs[h]).pkt.body) ELSE @]
  /\ UNCHANGED <<disk, link, replyPipe>>

\* fopen(.., "w") succeeds in any directory that exists.  The buffer keeps
\* its name when its bytes have gone to the file.
Stored(h) == dir[h] \in Dirs /\ fbuf[h].name \in Names

FileUploadRecvEnd(h) ==
  /\ RunJob(h, "FILE_UPLOAD_RECV_END", <<>>)
  /\ IF Stored(h)
     THEN /\ disk' = [disk EXCEPT ![dir[h]][fbuf[h].name] = fbuf[h].data]
          /\ fbuf' = [fbuf EXCEPT ![h].data = <<>>]
     ELSE UNCHANGED <<disk, fbuf>>
  /\ UNCHANGED <<link, replyPipe>>

JobStep(h) ==
  \/ NoJob(h) \/ SendPktAllPorts(h) \/ PingSendReply(h)
  \/ PingAcked(h) \/ PingWaitOn(h) \/ PingTimeOut(h) \/ FileUploadSend(h)
  \/ FileUploadRecvStart(h) \/ FileUploadRecvCont(h) \/ FileUploadRecvEnd(h)

HostStep(h) == CommandStep(h) \/ ScanStep(h) \/ JobStep(h)

HostTypeOK ==
  /\ at \in [Hosts -> Nat]
  /\ \A h \in Hosts : at[h] <= Len(Port[h]) + 1
  /\ dir \in [Hosts -> Dirs \cup {None, Garbled}]
  /\ jobs \in [Hosts -> Seq(Job)]
  /\ pinged \in [Hosts -> Hosts \cup {None}]
  /\ fbuf \in [Hosts -> [name : Names \cup {None}, data : Seq(Chunks)]]
  /\ disk \in [Dirs -> [Names -> Contents]]
=============================================================================
