----------------------------- MODULE UploadLink -----------------------------
(***************************************************************************)
(* Uploads over one pipe link, byte by byte, until the user quits: hosts 0 *)
(* and 1 of p2p.config.  Where module Host has a queue of packets, a read  *)
(* here may cut packets apart, and where its write of a file is one step,  *)
(* the manager may kill the receiver in the middle of it.                  *)
(***************************************************************************)
EXTENDS Link

CONSTANTS
  Files,      \* the names of files in the sender's directory
  Content,    \* Content[f]: the chunks of file f
  Old,        \* Old[f]: the chunks of that file at the receiver, before
  MaxUploads, \* bound on the commands of the user
  None        \* no file

VARIABLES
  asked,    \* commands so far
  todo,     \* the packets whose jobs are in the sender's queue
  fbuf,     \* f_buf_upload of the receiver
  open,     \* the file the receiver has open for writing
  disk,     \* disk[f]: the file in the receiver's directory
  killed,   \* the manager has returned
  prompt    \* (history) each packet of this upload found the receiver idle

receiverVars == <<fbuf, open, disk>>

vars == <<asked, todo, receiverVars, killed, prompt, linkVars>>

Start(f) == [type |-> "FILE_UPLOAD_START", body |-> f]
Cont(c)  == [type |-> "FILE_UPLOAD_CONT", body |-> c]
End      == [type |-> "FILE_UPLOAD_END", body |-> None]

Chunks == UNION {{Content[f][i] : i \in DOMAIN Content[f]} : f \in Files}

ASSUME UploadAssumption ==
  /\ None \notin Files
  /\ Content \in [Files -> Seq(Chunks)]
  /\ Old = [f \in Files |-> Old[f]]
  /\ {End} \cup {Start(f) : f \in Files} \cup {Cont(c) : c \in Chunks} \subseteq Packets

UploadInit ==
  /\ Init
  /\ asked = 0 /\ todo = <<>>
  /\ fbuf = [name |-> None, data |-> <<>>]
  /\ open = None
  /\ disk = Old
  /\ killed = FALSE /\ prompt = TRUE

-----------------------------------------------------------------------------
\* The sender

\* The whole file is read, and its packets are put in the job queue.
FileUploadSend(f) ==
  /\ asked < MaxUploads
  /\ asked' = asked + 1
  /\ todo' = todo \o <<Start(f)>>
                  \o [i \in DOMAIN Content[f] |-> Cont(Content[f][i])] \o <<End>>
  /\ UNCHANGED <<receiverVars, killed, prompt, linkVars>>

SendPkt ==
  /\ todo # <<>>
  /\ PacketSend(Head(todo))
  /\ todo' = Tail(todo)
  /\ prompt' = /\ rd = wr /\ open = None
               /\ prompt \/ Head(todo).type = "FILE_UPLOAD_START"
  /\ UNCHANGED <<asked, receiverVars, killed>>

-----------------------------------------------------------------------------
\* The receiver: a packet is read, and its job done in the same turn.

Recv ==
  /\ open = None
  /\ PacketRecv
  /\ UNCHANGED <<asked, todo, killed, prompt>>

\* What the job of each type of packet does.
StartFile(f) ==
  /\ fbuf' = [name |-> f, data |-> <<>>]
  /\ UNCHANGED <<open, disk>>

AddChunk(c) ==
  /\ fbuf' = [fbuf EXCEPT !.data = Append(@, c)]
  /\ UNCHANGED <<open, disk>>

\* fopen(name, "w") leaves nothing of the file that was there.
OpenFile ==
  /\ open' = fbuf.name
  /\ disk' = [f \in Files |-> IF f = fbuf.name THEN <<>> ELSE disk[f]]
  /\ UNCHANGED fbuf

\* Bytes from inside a packet may name no host, or look like any packet.
RecvGarbage ==
  /\ Recv
  /\ AtFront = {}
  /\ \/ UNCHANGED receiverVars
     \/ \E f \in Files : StartFile(f)
     \/ \E c \in Chunks : AddChunk(c)
     \/ OpenFile

\* The packet that is read has this type and body.
Arrives(type, body) ==
  \E k \in AtFront : sent[k].pkt = [type |-> type, body |-> body]

\* (mutant) The buffer is not emptied.
RecvStartDirty(f) ==
  /\ Recv
  /\ Arrives("FILE_UPLOAD_START", f)
  /\ fbuf' = [fbuf EXCEPT !.name = f]
  /\ UNCHANGED <<open, disk>>

RecvStart(f) == Recv /\ Arrives("FILE_UPLOAD_START", f) /\ StartFile(f)

RecvCont(c) == Recv /\ Arrives("FILE_UPLOAD_CONT", c) /\ AddChunk(c)

RecvEnd == Recv /\ Arrives("FILE_UPLOAD_END", None) /\ OpenFile

\* (mutant) Each piece is written to the disk by itself.
WriteFilePieces ==
  /\ open # None
  /\ IF fbuf.data = <<>>
     THEN open' = None /\ UNCHANGED <<fbuf, disk>>
     ELSE /\ disk' = [disk EXCEPT ![open] = Append(@, Head(fbuf.data))]
          /\ fbuf' = [fbuf EXCEPT !.data = Tail(@)]
          /\ UNCHANGED open
  /\ UNCHANGED <<asked, todo, killed, prompt, linkVars>>

\* The buffer is smaller than that of the FILE, so that all its bytes are
\* written by fclose.
WriteFile ==
  /\ open # None
  /\ disk' = [disk EXCEPT ![open] = fbuf.data]
  /\ fbuf' = [fbuf EXCEPT !.data = <<>>]
  /\ open' = None
  /\ UNCHANGED <<asked, todo, killed, prompt, linkVars>>

-----------------------------------------------------------------------------
\* 'q' ends every process, wherever it is.
Kill ==
  /\ killed' = TRUE
  /\ UNCHANGED <<asked, todo, receiverVars, prompt, linkVars>>

UploadNext ==
  /\ ~killed
  /\ \/ \E f \in Files : FileUploadSend(f) \/ RecvStart(f)
     \/ \E c \in Chunks : RecvCont(c)
     \/ SendPkt \/ RecvGarbage \/ RecvEnd \/ WriteFile \/ Kill

UploadSpec == UploadInit /\ [][UploadNext]_vars

-----------------------------------------------------------------------------
\* While the receiver keeps up, a file on its disk is the one that was there or
\* the one that was sent; one that is being replaced, or was when the user
\* quit, may be empty, but never holds a part (host.c:603-624, main.c:59).
FilesAreWholeOrEmpty ==
  late \/ \A f \in Files : disk[f] \in {Old[f], <<>>, Content[f]}

\* However the packets of earlier uploads were lost or cut, an upload whose
\* packets all find the pipe empty and the receiver idle is stored whole: its
\* start drops what is left of them (host.c:563, packet.c:77).
PromptUploadsAreWhole ==
  [][WriteFile /\ prompt => disk'[open] = Content[open]]_vars
=============================================================================
