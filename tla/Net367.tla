------------------------------- MODULE Net367 -------------------------------
(***************************************************************************)
(* The whole program: the manager, the hosts and the switches, which main  *)
(* forks, run side by side and meet only in the pipes.                     *)
(***************************************************************************)
EXTENDS Manager, Host, Switch

vars == <<manVars, hostVars, switchVars, pipeVars>>

Init == ManInit /\ HostInit /\ SwitchInit /\ PipeInit

ManStep == (UserStep \/ GetReply) /\ UNCHANGED <<hostVars, switchVars>>

HostTurn(h) == HostStep(h) /\ UNCHANGED <<manVars, switchVars>>

SwitchTurn(s) == SwitchStep(s) /\ UNCHANGED <<manVars, hostVars>>

\* After 'q' main kills every process.
Terminated == mgr = "quit" /\ UNCHANGED vars

Next ==
  \/ /\ mgr # "quit"
     /\ \/ ManStep
        \/ \E h \in Hosts : HostTurn(h)
        \/ \E s \in Switches : SwitchTurn(s)
  \/ Terminated

Spec == Init /\ [][Next]_vars

\* No process ever blocks, so each goes on with its loop while it lives.  The
\* user need not type anything, but the manager goes on polling for an answer.
Fairness ==
  /\ WF_vars(mgr # "quit" /\ GetReply /\ UNCHANGED <<hostVars, switchVars>>)
  /\ \A h \in Hosts : WF_vars(mgr # "quit" /\ HostTurn(h))
  /\ \A s \in Switches : WF_vars(mgr # "quit" /\ SwitchTurn(s))

FairSpec == Spec /\ Fairness

-----------------------------------------------------------------------------
\* Every variable has a value of its type.  An upload whose start was lost
\* leaves no name, and text of two commands glued together no directory.
TypeOK ==
  /\ ManTypeOK
  /\ HostTypeOK
  /\ SwitchTypeOK
  /\ link \in [Wires -> Seq(Packet)]
  /\ cmdPipe \in [Hosts -> Seq(Command)]
  /\ replyPipe \in [Hosts -> Seq(Reply)]

-----------------------------------------------------------------------------
(* Requests and answers                                                    *)

\* Where a request the user waits for can be: on its way to host h as a
\* command, in its job queue as a wait, or on its way back as an answer.
IsWait(j)  == j.type = "PING_WAIT_FOR_REPLY"
HasWait(q) == \E i \in DOMAIN q : IsWait(q[i])
OneWait(q) == \A i, j \in DOMAIN q : IsWait(q[i]) /\ IsWait(q[j]) => i = j

Asked(h)    == cmdPipe[h] # <<>> /\ Head(cmdPipe[h]).op \in {"s", "p"}
Waits(h)    == HasWait(jobs[h])
Answered(h) == replyPipe[h] # <<>>

OneAnswerAt(h) ==
  /\ Len(cmdPipe[h]) <= 1
  /\ Len(replyPipe[h]) <= 1
  /\ OneWait(jobs[h])
  /\ ~(Asked(h) /\ Waits(h))
  /\ ~(Asked(h) /\ Answered(h))
  /\ ~(Waits(h) /\ Answered(h))
  /\ (Asked(h) \/ Waits(h) \/ Answered(h)) <=> (mgr = "wait" /\ curr = h)

\* The manager, which has no timeout of its own, waits for host h exactly when
\* its request is in exactly one of those places (man.c:163, 229).  So it can
\* neither wait for an answer that will not come nor find a stale one.
OneAnswerPerRequest == \A h \in Hosts : OneAnswerAt(h)

AnswerFitsAt(h) ==
  /\ Asked(h) => (Head(cmdPipe[h]).op = "s" <=> target = None)
  /\ Waits(h) => target # None
  /\ Answered(h) => (Head(replyPipe[h]).text = "state" <=> target = None)

\* A request and its answer are of one kind, wherever they are: a state for
\* 's' and the outcome of a ping for 'p'.
AnswerFits == \A h \in Hosts : AnswerFitsAt(h)

\* Seen from the user this is the console of module Console.
KindOf(r) == IF r.text = "state" THEN "state" ELSE "ping"

ShownAsked  == IF mgr = "wait" THEN curr ELSE None
ShownKind   == IF target = None THEN "state" ELSE "ping"
ShownAnswer == [h \in Hosts |-> IF replyPipe[h] = <<>> THEN None
                                ELSE KindOf(Head(replyPipe[h]))]
ShownOver   == mgr = "quit"

console == INSTANCE Console WITH asked  <- ShownAsked,
                                 kind   <- ShownKind,
                                 answer <- ShownAnswer,
                                 over   <- ShownOver

\* The manager and the hosts together keep the promises of Console: a request
\* of the user has one answer, of its kind, from the host asked.
ConsoleSpec == console!Spec

\* And the answer always comes: the polling loops of man.c end.
ConsoleFairSpec == console!FairSpec

\* The prompt always comes back after a command that waits.
ManagerReturns == mgr = "wait" ~> mgr # "wait"

\* Every packet is delivered or dropped in the end and every job done: no wait
\* is put back for ever, and nothing circulates (host.c:339, switch.c:130).
TrafficDrains ==
  <>[](mgr = "quit" \/ /\ \A w \in Wires : link[w] = <<>>
                       /\ \A h \in Hosts : jobs[h] = <<>>)

\* "Ping acked!" means that the host the user pinged has replied (man.c:206).
AckIsGenuine ==
  [][\A h \in Hosts : PingAcked(h) => pinged[h] = target]_vars
=============================================================================
