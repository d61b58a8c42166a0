------------------------------ MODULE Manager ------------------------------
(***************************************************************************)
(* The manager process (man.c): it takes one command of the user at a time *)
(* and writes it to the command pipe of the current host.  After 's' and   *)
(* 'p' it polls the reply pipe of that host until an answer is there; the  *)
(* other commands do not wait for anything.                                *)
(***************************************************************************)
EXTENDS Pipes

CONSTANTS
  Scripts,    \* what users type: a set of sequences of UserOp
  FirstHost,  \* head of the list of manager ports
  Patient     \* TRUE: no command is typed before the host read the last one

VARIABLES
  script,  \* what the user is still going to type
  mgr,     \* "prompt", "wait" for an answer, or "quit"
  curr,    \* curr_host
  target   \* host_to_ping: whom the last command pings, if it is a ping

manVars == <<script, mgr, curr, target>>

UserOp == [op : {"s", "q"}, dst : {None}, name : {None}]
          \cup [op : {"m"}, dst : {None}, name : Dirs]
          \cup [op : {"c", "p"}, dst : Ids, name : {None}]
          \cup [op : {"u", "d"}, dst : Ids, name : Names]

ASSUME UserAssumption ==
  /\ Scripts \subseteq Seq(UserOp)
  /\ FirstHost \in Hosts
  /\ Patient \in BOOLEAN

\* A command as the host reads it.
Command == [op : {"s"}, dst : {None}, name : {None}]
           \cup [op : {"m"}, dst : {None}, name : Dirs]
           \cup [op : {"p"}, dst : Ids, name : {None}]
           \cup [op : {"u"}, dst : Ids, name : Names]

\* An answer as the manager reads it: the state of a host, which is its
\* directory, or the outcome of a ping.
Reply == [text : {"state", "Ping acked!", "Ping time out!"},
          dir  : Dirs \cup {None, Garbled}]

ManInit ==
  /\ script \in Scripts
  /\ mgr = "prompt"
  /\ curr = FirstHost
  /\ target = None

\* The user types a command at the prompt.
Typed(o) ==
  /\ mgr = "prompt"
  /\ script # <<>>
  /\ Head(script).op = o
  /\ script' = Tail(script)

\* write() to the current host, whose pipe may still hold earlier commands.
SendCommand(c) ==
  /\ Patient => cmdPipe[curr] = <<>>
  /\ cmdPipe' = [cmdPipe EXCEPT ![curr] = Append(@, c)]
  /\ UNCHANGED <<link, replyPipe, curr>>

DisplayHostState ==
  /\ Typed("s")
  /\ SendCommand(Head(script))
  /\ mgr' = "wait"
  /\ target' = None

\* (mutant) Like the uploads, a ping returns to the prompt at once.
PingNoWait ==
  /\ Typed("p")
  /\ SendCommand(Head(script))
  /\ target' = Head(script).dst
  /\ UNCHANGED mgr

Ping ==
  /\ Typed("p")
  /\ SendCommand(Head(script))
  /\ mgr' = "wait"
  /\ target' = Head(script).dst

SetHostDir ==
  /\ Typed("m")
  /\ SendCommand(Head(script))
  /\ UNCHANGED <<mgr, target>>

FileUpload ==
  /\ Typed("u")
  /\ SendCommand(Head(script))
  /\ UNCHANGED <<mgr, target>>

\* The message this command sends is an upload command too.
FileDownload ==
  /\ Typed("d")
  /\ SendCommand([Head(script) EXCEPT !.op = "u"])
  /\ UNCHANGED <<mgr, target>>

\* The current host changes only to a host the manager has a port to.
ChangeHost ==
  /\ Typed("c")
  /\ curr' = IF Head(script).dst \in Hosts THEN Head(script).dst ELSE curr
  /\ UNCHANGED <<mgr, target, pipeVars>>

\* man_main returns and main kills every process of the group.
Quit ==
  /\ Typed("q")
  /\ mgr' = "quit"
  /\ UNCHANGED <<curr, target, pipeVars>>

\* The polling loops of display_host_state and ping: one read() takes all
\* the bytes in the pipe, and what they say is shown as the answer.
GetReply ==
  /\ mgr = "wait"
  /\ replyPipe[curr] # <<>>
  /\ replyPipe' = [replyPipe EXCEPT ![curr] = <<>>]
  /\ mgr' = "prompt"
  /\ UNCHANGED <<script, curr, target, link, cmdPipe>>

UserStep ==
  \/ DisplayHostState \/ Ping \/ SetHostDir \/ FileUpload \/ FileDownload
  \/ ChangeHost \/ Quit

ManTypeOK ==
  /\ script \in Seq(UserOp)
  /\ mgr \in {"prompt", "wait", "quit"}
  /\ curr \in Hosts
  /\ target \in Ids \cup {None}
============================================================================
