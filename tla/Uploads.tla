------------------------------ MODULE Uploads ------------------------------
(***************************************************************************)
(* Uploads in the whole program.  The pipes of Net367 carry packets, those *)
(* of the program bytes: a read takes in PAYLOAD_MAX + 4 of them, and when *)
(* a packet shorter than that is not alone in its pipe the next one is     *)
(* lost with it, or cut, and from then on the pipe may hold parts of       *)
(* packets.  UploadLink has what comes of that.  Here a run is followed    *)
(* until it happens.                                                       *)
(***************************************************************************)
EXTENDS Net367

VARIABLE
  dropped  \* (history) a read has taken in more than one packet, or a pipe is
           \* full, so that a write may fail

uploadVars == <<vars, dropped>>

\* A read that takes in one packet leaves all the others in the pipe.
OneTaken(w)   == Len(link'[w]) + 1 >= Len(link[w])
PipesHaveRoom == \A w \in Wires : Len(link[w]) < Room

Watched ==
  /\ ~dropped
  /\ dropped' = ~(PipesHaveRoom' /\ \A w \in Wires : OneTaken(w))

Ended == dropped /\ UNCHANGED uploadVars

UploadNext == (Next /\ Watched) \/ Ended

UploadSpec == Init /\ dropped = FALSE /\ [][UploadNext]_uploadVars

\* The fairness of Net367, for as long as the run is followed.
UploadFairSpec ==
  /\ UploadSpec
  /\ WF_uploadVars(mgr # "quit" /\ GetReply /\ UNCHANGED <<hostVars, switchVars>> /\ Watched)
  /\ \A h \in Hosts : WF_uploadVars(mgr # "quit" /\ HostTurn(h) /\ Watched)
  /\ \A s \in Switches : WF_uploadVars(mgr # "quit" /\ SwitchTurn(s) /\ Watched)

-----------------------------------------------------------------------------
\* The contents an upload of file f can have: a file of that name as it was at
\* the start, all of it or as much as goes into the receiver's buffer.
FirstChunks(data) ==
  IF Len(data) <= MaxChunks THEN data ELSE SubSeq(data, 1, MaxChunks)

Originals(f) == {Disk0[d][f] : d \in Dirs} \ {None}

FilesAreWhole ==
  \A d \in Dirs : \A f \in Names :
    disk[d][f] # None =>
      disk[d][f] \in Originals(f) \cup {FirstChunks(c) : c \in Originals(f)}

\* "On the receiving host, the packets are processed and reassembled, and the
\* file is stored" (host.c:18): as long as no read takes in two packets and no
\* pipe is full, a file on disk is an original or what the buffer holds of one,
\* its pieces put together in order with none lost, repeated or taken from
\* another upload.
StoredFilesAreWhole == dropped \/ FilesAreWhole

\* Of all hosts only from[r] is told to send files to host r.
OneSenderEach(from) ==
  \A h \in Hosts :
    cmdPipe[h] # <<>> /\ Head(cmdPipe[h]).op = "u" /\ Head(cmdPipe[h]).dst \in Hosts
      => h = from[Head(cmdPipe[h]).dst]

\* Host h is about to read file f and send it to host r, whose directory is d.
Uploading(h, r, f, d) ==
  /\ jobs[h] # <<>>
  /\ Head(jobs[h]).type = "FILE_UPLOAD_SEND"
  /\ Head(jobs[h]).pkt.dst = r
  /\ Head(jobs[h]).pkt.body = f
  /\ FileOf(h, f) # None
  /\ dir[r] = d

\* The upload of a file to a host that has a directory ends with the file in
\* that directory, unless the user quits or moves the host elsewhere, a read
\* takes in two of the packets or a pipe is full: its packets wait in queues
\* and pipes, behind others and behind each other, but not for ever.
UploadLands ==
  \A r \in Hosts : \A f \in Names : \A d \in Dirs :
    (\E h \in Hosts : Uploading(h, r, f, d))
      ~> (disk[d][f] # None \/ dir[r] # d \/ mgr = "quit" \/ dropped)
=============================================================================
