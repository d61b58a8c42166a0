-------------------------------- MODULE Dns --------------------------------
(***************************************************************************)
(* Names: the commands 'r' and 'p' by name of the manager (man.c:236-290), *)
(* what the hosts and the DNS server, the host with id 100, make of them   *)
(* (host.c), and the way there and back.  The hosts are joined to the      *)
(* server by a pipe link each.  The naming table is that of NameTable.     *)
(* What is undefined in the code is followed as far as this: freed memory  *)
(* keeps what it held or is written over, a host whose heap is damaged     *)
(* goes on or is aborted at any time, and the server ends when a search    *)
(* leaves its table.                                                       *)
(***************************************************************************)
EXTENDS Naturals, Sequences, FiniteSets

CONSTANTS
  Hosts,           \* ids of the hosts but the server
  Server,          \* DNS_SERVER_PHYS_ID
  Consoles,        \* the hosts at which the user works
  FirstHost,       \* the one at which the user starts
  Names,           \* domain names
  TableSize,       \* TABLE_SIZE
  Stray,           \* text that is not a name in use
  NoId,            \* -1
  Readings,        \* Readings[x]: what strcmp may read a name x as
  Memory,          \* what may be in the memory of the naming table
  Port,            \* Port[n][k]: the node at the far end of port k of node n
  PacketsPerRead,  \* packets that one read() takes off a pipe
  MaxCommands      \* bound on the commands the user types

Nodes == Hosts \cup {Server}

\* A link has a port at both its ends, which are two nodes: NetConfig.
ASSUME DnsAssumption ==
  /\ IsFiniteSet(Hosts) /\ Server \notin Hosts
  /\ TableSize \in Nat \ {0}
  /\ Readings \in [Names -> SUBSET (Names \cup {Stray})]
  /\ Memory \subseteq [valid : BOOLEAN, physical_id : Hosts \cup {NoId},
                       domain_name : Names \cup {Stray}]
  /\ Consoles \subseteq Nodes /\ FirstHost \in Consoles
  /\ NoId \notin Nodes /\ Stray \notin Names \cup Nodes
  /\ Port \in [Nodes -> Seq(Nodes)]
  /\ \A n \in Nodes : \A k \in DOMAIN Port[n] :
       Port[n][k] # n /\ \E l \in DOMAIN Port[Port[n][k]] : Port[Port[n][k]][l] = n
  /\ PacketsPerRead \in Nat \ {0}
  /\ MaxCommands \in Nat

VARIABLES
  phase,      \* of ping(): "ready", "resolving" or "pinging"
  curr,       \* the host the user works at
  asked,      \* the name the user asked for last
  typed,      \* how many commands were typed
  cmdPipe, replyPipe, link,
  at,         \* at[n]: 0 the command, 1.. the ports, and last the job
  jobs,       \* jobs[n]: the job queue
  memory, naming_table, registered, answer, overrun,
  health,     \* health[n]: "sound", "damaged" (of its heap) or "ended"
  lost        \* (history) a late read has dropped the user's request

manVars   == <<phase, curr, asked, typed>>
tableVars == <<memory, naming_table, registered, answer, overrun>>
vars      == <<manVars, cmdPipe, replyPipe, link, at, jobs, tableVars, health, lost>>

Table == INSTANCE NameTable

Wires == {w \in Nodes \X Nodes : \E k \in DOMAIN Port[w[1]] : Port[w[1]][k] = w[2]}

Init ==
  /\ phase = "ready" /\ curr = FirstHost /\ asked = Stray /\ typed = 0
  /\ cmdPipe = [n \in Nodes |-> <<>>] /\ replyPipe = [n \in Nodes |-> <<>>]
  /\ link = [w \in Wires |-> <<>>]
  /\ at = [n \in Nodes |-> 0] /\ jobs = [n \in Nodes |-> <<>>]
  /\ health = [n \in Nodes |-> "sound"] /\ lost = FALSE
  /\ Table!Init

-----------------------------------------------------------------------------
(* The manager.  It types no command before the host has read the last.    *)

Typed ==
  /\ phase = "ready" /\ cmdPipe[curr] = <<>>
  /\ typed < MaxCommands
  /\ typed' = typed + 1

SendCommand(cmd, arg) ==
  cmdPipe' = [cmdPipe EXCEPT ![curr] = Append(@, [cmd |-> cmd, arg |-> arg])]

ChangeHost(h) ==
  /\ Typed
  /\ h # curr /\ curr' = h
  /\ UNCHANGED <<phase, asked, cmdPipe, replyPipe, link, at, jobs, tableVars, health, lost>>

RegisterName(x) ==
  /\ Typed
  /\ SendCommand("r", x)
  /\ UNCHANGED <<phase, curr, asked, replyPipe, link, at, jobs, tableVars, health, lost>>

PingByName(x) ==
  /\ Typed
  /\ SendCommand("n", x)
  /\ lost' = FALSE
  /\ phase' = "resolving" /\ asked' = x
  /\ UNCHANGED <<curr, replyPipe, link, at, jobs, tableVars, health>>

\* The first polling loop ends with the text that is in the pipe.  Two answers
\* in it would be one text.
ReadReply ==
  /\ replyPipe[curr] # <<>>
  /\ replyPipe' = [replyPipe EXCEPT ![curr] = <<>>]

PhysId == IF Len(replyPipe[curr]) = 1 THEN Head(replyPipe[curr]) ELSE Stray

\* (mutant) The id -1 is taken for one.
GetPhysIdAny ==
  /\ phase = "resolving"
  /\ ReadReply
  /\ IF PhysId = curr
     THEN phase' = "ready" /\ UNCHANGED cmdPipe
     ELSE phase' = "pinging" /\ SendCommand("p", PhysId)
  /\ UNCHANGED <<curr, asked, typed, link, at, jobs, tableVars, health, lost>>

GetPhysId ==
  /\ phase = "resolving"
  /\ ReadReply
  /\ IF PhysId \in {curr, NoId}
     THEN phase' = "ready" /\ UNCHANGED cmdPipe
     ELSE phase' = "pinging" /\ SendCommand("p", PhysId)
  /\ UNCHANGED <<curr, asked, typed, link, at, jobs, tableVars, health, lost>>

GetPingReply ==
  /\ phase = "pinging"
  /\ ReadReply
  /\ phase' = "ready"
  /\ UNCHANGED <<curr, asked, typed, cmdPipe, link, at, jobs, tableVars, health, lost>>

ManStep ==
  \/ \E h \in Consoles : ChangeHost(h)
  \/ \E x \in Names : RegisterName(x) \/ PingByName(x)
  \/ GetPhysId \/ GetPingReply

-----------------------------------------------------------------------------
(* The hosts and the server, which run the same loop.                      *)

Advance(n) == at' = [at EXCEPT ![n] = (@ + 1) % (Len(Port[n]) + 2)]

AddJob(n, j) == jobs' = [jobs EXCEPT ![n] = Append(@, j)]

PacketTo(d, n, type, body) == [src |-> n, dst |-> d, type |-> type, body |-> body]

SendJob(p) == [kind |-> "SEND", packet |-> p]

\* The jobs of the commands 'r', 'n' and 'p'.  That of 'p' stands for the ping
\* that Host has in full, which ends in one answer.
CommandJob(n, c) ==
  CASE c.cmd = "r" -> SendJob(PacketTo(Server, n, "REGISTER_DOMAIN", c.arg))
    [] c.cmd = "n" -> SendJob(PacketTo(Server, n, "PING_DOMAIN", c.arg))
    [] c.cmd = "p" -> [kind |-> "PING", packet |-> PacketTo(c.arg, n, "PING_REQ", Stray)]

GetCommand(n) ==
  /\ at[n] = 0 /\ cmdPipe[n] # <<>>
  /\ AddJob(n, CommandJob(n, Head(cmdPipe[n])))
  /\ cmdPipe' = [cmdPipe EXCEPT ![n] = Tail(@)]
  /\ Advance(n)
  /\ UNCHANGED <<manVars, replyPipe, link, tableVars, health, lost>>

NoCommand(n) ==
  /\ at[n] = 0 /\ cmdPipe[n] = <<>>
  /\ Advance(n)
  /\ UNCHANGED <<manVars, cmdPipe, replyPipe, link, jobs, tableVars, health, lost>>

JobKind(type) ==
  CASE type = "REGISTER_DOMAIN" -> "REGISTER_DOMAIN_NAME"
    [] type = "PING_DOMAIN"     -> "REQ_PHYS_ID"
    [] type = "REPLY_DOMAIN"    -> "REPLY_PHYS_ID"

\* The packets that are the request of the user at host h, or its answer.
OfRequest(h, p) ==
  \/ p.src = h /\ p.type \in {"PING_DOMAIN", "PING_REQ"}
  \/ p.dst = h /\ p.type = "REPLY_DOMAIN"

\* What the read drops behind the first packet.
Drops(w) ==
  lost' = \/ lost
          \/ \E i \in 2..Len(link[w]) :
               /\ i <= PacketsPerRead
               /\ link[w][i].dst = w[2] /\ OfRequest(curr, link[w][i])

\* (mutant) The packets for other hosts are taken as well.
ReadPortAny(n) ==
  /\ at[n] \in 1..Len(Port[n])
  /\ LET w == <<Port[n][at[n]], n>> IN
     /\ link[w] # <<>>
     /\ AddJob(n, [kind |-> JobKind(Head(link[w]).type), packet |-> Head(link[w])])
     /\ link' = [link EXCEPT ![w] = SubSeq(@, PacketsPerRead + 1, Len(@))]
     /\ Drops(w)
  /\ Advance(n)
  /\ UNCHANGED <<manVars, cmdPipe, replyPipe, tableVars, health>>

\* A read takes PacketsPerRead packets and keeps the first.  One that is for
\* this node becomes a job; that of an answer is freed when it is queued, and
\* with it the packet, because its case falls into the default (host.c:334).
ReadPort(n) ==
  /\ at[n] \in 1..Len(Port[n])
  /\ LET w == <<Port[n][at[n]], n>> IN
     /\ link[w] # <<>>
     /\ IF Head(link[w]).dst = n
        THEN AddJob(n, [kind |-> JobKind(Head(link[w]).type), packet |-> Head(link[w])])
        ELSE UNCHANGED jobs
     /\ health' = IF Head(link[w]).dst = n /\ Head(link[w]).type = "REPLY_DOMAIN"
                  THEN [health EXCEPT ![n] = "damaged"] ELSE health
     /\ link' = [link EXCEPT ![w] = SubSeq(@, PacketsPerRead + 1, Len(@))]
     /\ Drops(w)
  /\ Advance(n)
  /\ UNCHANGED <<manVars, cmdPipe, replyPipe, tableVars>>

ReadNothing(n) ==
  /\ at[n] \in 1..Len(Port[n])
  /\ link[<<Port[n][at[n]], n>>] = <<>>
  /\ Advance(n)
  /\ UNCHANGED <<manVars, cmdPipe, replyPipe, link, jobs, tableVars, health, lost>>

NoJob(n) ==
  /\ at[n] = Len(Port[n]) + 1 /\ jobs[n] = <<>>
  /\ Advance(n)
  /\ UNCHANGED <<manVars, cmdPipe, replyPipe, link, jobs, tableVars, health, lost>>

\* The job at the head of the queue is taken off it and is one of this kind.
JobTurn(n, kind) ==
  /\ at[n] = Len(Port[n]) + 1 /\ jobs[n] # <<>>
  /\ Head(jobs[n]).kind = kind
  /\ Advance(n)

TheJob(n) == Head(jobs[n]).packet

SendPktAllPorts(n) ==
  /\ JobTurn(n, "SEND")
  /\ link' = [w \in Wires |-> IF w[1] = n THEN Append(link[w], TheJob(n)) ELSE link[w]]
  /\ jobs' = [jobs EXCEPT ![n] = Tail(@)]
  /\ UNCHANGED <<manVars, cmdPipe, replyPipe, tableVars, health, lost>>

PingAnswered(n) ==
  /\ JobTurn(n, "PING")
  /\ replyPipe' = [replyPipe EXCEPT ![n] = Append(@, Stray)]
  /\ jobs' = [jobs EXCEPT ![n] = Tail(@)]
  /\ UNCHANGED <<manVars, cmdPipe, link, tableVars, health, lost>>

RegisterDomainName(n) ==
  /\ JobTurn(n, "REGISTER_DOMAIN_NAME")
  /\ Table!RegisterDomainName(TheJob(n).src, TheJob(n).body)
  /\ jobs' = [jobs EXCEPT ![n] = Tail(@)]
  /\ UNCHANGED <<manVars, cmdPipe, replyPipe, link, health, lost>>

\* (mutant) Only a name that is found is answered.
ReqPhysIdFound(n) ==
  /\ JobTurn(n, "REQ_PHYS_ID")
  /\ Table!ReqPhysId(TheJob(n).body)
  /\ jobs' = [jobs EXCEPT ![n] =
       IF answer'.id = NoId THEN Tail(@)
       ELSE Append(Tail(@), SendJob(PacketTo(TheJob(n).src, n, "REPLY_DOMAIN", answer'.id)))]
  /\ UNCHANGED <<manVars, cmdPipe, replyPipe, link, health, lost>>

ReqPhysId(n) ==
  /\ JobTurn(n, "REQ_PHYS_ID")
  /\ Table!ReqPhysId(TheJob(n).body)
  /\ jobs' = [jobs EXCEPT ![n] = Append(Tail(@),
                SendJob(PacketTo(TheJob(n).src, n, "REPLY_DOMAIN", answer'.id)))]
  /\ UNCHANGED <<manVars, cmdPipe, replyPipe, link, health, lost>>

\* A search leaves the table, and the server with it.
SearchBehind(n) ==
  /\ \/ JobTurn(n, "REGISTER_DOMAIN_NAME") /\ Table!RegisterBehind(TheJob(n).src)
     \/ JobTurn(n, "REQ_PHYS_ID") /\ Table!ReqBehind(TheJob(n).body)
  /\ health' = [health EXCEPT ![n] = "ended"]
  /\ jobs' = [jobs EXCEPT ![n] = Tail(@)]
  /\ UNCHANGED <<manVars, cmdPipe, replyPipe, link, lost>>

\* The job of an answer, in memory that has been freed (host.c:339) and still
\* holds it.  It is freed again behind the write (host.c:706).
ReplyPhysId(n) ==
  /\ JobTurn(n, "REPLY_PHYS_ID")
  /\ replyPipe' = [replyPipe EXCEPT ![n] = Append(@, TheJob(n).body)]
  /\ jobs' = [jobs EXCEPT ![n] = Tail(@)]
  /\ UNCHANGED <<manVars, cmdPipe, link, tableVars, health, lost>>

\* The same when the allocator has written over its type, or another job has.
ReplyForgotten(n) ==
  /\ JobTurn(n, "REPLY_PHYS_ID")
  /\ jobs' = [jobs EXCEPT ![n] = Tail(@)]
  /\ UNCHANGED <<manVars, cmdPipe, replyPipe, link, tableVars, health, lost>>

\* The allocator finds that memory was freed twice, or the host follows a
\* pointer that was written over.
Abort(n) ==
  /\ health[n] = "damaged"
  /\ health' = [health EXCEPT ![n] = "ended"]
  /\ UNCHANGED <<manVars, cmdPipe, replyPipe, link, at, jobs, tableVars, lost>>

HostStep(n) ==
  /\ health[n] # "ended"
  /\ \/ GetCommand(n) \/ NoCommand(n)
     \/ ReadPort(n) \/ ReadNothing(n)
     \/ NoJob(n) \/ SendPktAllPorts(n) \/ PingAnswered(n)
     \/ RegisterDomainName(n) \/ ReqPhysId(n) \/ SearchBehind(n)
     \/ ReplyPhysId(n) \/ ReplyForgotten(n)

Next == ManStep \/ \E n \in Nodes : HostStep(n) \/ Abort(n)

Spec == Init /\ [][Next]_vars

\* The polling loops of the manager and the loops of the hosts never block.
FairSpec ==
  /\ Spec
  /\ WF_vars(GetPhysId \/ GetPingReply)
  /\ \A n \in Nodes : WF_vars(HostStep(n))

-----------------------------------------------------------------------------
\* The places where the request for a name, or for a ping, of host h is.
InJobs(h) == UNION {{<<n, i>> : i \in {i \in DOMAIN jobs[n] : OfRequest(h, jobs[n][i].packet)}} :
                      n \in Nodes}
InLinks(h) == UNION {{<<w, i>> : i \in {i \in DOMAIN link[w] : /\ OfRequest(h, link[w][i])
                                                             /\ link[w][i].dst = w[2]}} :
                       w \in Wires}
InCommand(h) == {i \in DOMAIN cmdPipe[h] : cmdPipe[h][i].cmd # "r"}

Outstanding(h) == Cardinality(InJobs(h)) + Cardinality(InLinks(h))
                  + Cardinality(InCommand(h)) + Len(replyPipe[h])

\* A ping by name is two requests one after the other over the same pipe, the
\* second made by ping() itself (man.c:246-270).  No request is ever in two
\* places, and none is left behind when ping() returns, or its answer would be
\* read for that of the next command.
OneRequestAtATime ==
  \A h \in Nodes : Outstanding(h) <= IF h = curr /\ phase # "ready" THEN 1 ELSE 0

\* The host that is pinged is one that has registered what the server read as
\* the name the user asked for, or that was in the memory of its table with it,
\* however registrations, lookups and lost packets fell together on the way
\* through three processes (host.c:230, 656, 702; man.c:254).
PingsTheNamedHost ==
  \A n \in Nodes : \A i \in DOMAIN cmdPipe[n] :
    cmdPipe[n][i].cmd = "p" =>
      \E y \in Readings[asked] :
        <<cmdPipe[n][i].arg, y>> \in registered \cup Table!ChancePairs

\* The answer to a name, found or not ("returns -1 if not available", man.c:259),
\* gets back to the host that asked: it is queued there as a job, unless a late
\* read has dropped the request or the answer, a search has left the table, or
\* the host has ended after an answer before (host.c:656-700).
AnswerQueued(h) == \E i \in DOMAIN jobs[h] : jobs[h][i].kind = "REPLY_PHYS_ID"

NameIsAnswered ==
  (phase = "resolving" /\ cmdPipe[curr] # <<>>)
    ~> AnswerQueued(curr) \/ lost \/ overrun \/ health[curr] = "ended"

\* "Wait for a reply ... send the ping request and wait to receive the acked
\* msg" (man.c:245-263): a ping by name comes to an end, when no late read has
\* dropped a packet of it and no search has left the table.
NamePingReturns == (phase # "ready") ~> (phase = "ready" \/ lost \/ overrun)
=============================================================================
