----------------------------- MODULE DnsProofs -----------------------------
(***************************************************************************)
(* Theorems about names: a ping by name is in one place at a time on its   *)
(* way to the DNS server and back, and pings a host that has the name.     *)
(***************************************************************************)
EXTENDS Dns, SequenceTheorems, FiniteSetTheorems, TLAPS

\* What NameTableProofs proves holds of the table of the server.
Proved == INSTANCE NameTableProofs

-----------------------------------------------------------------------------
(* The inductive invariant                                                 *)

Texts == Hosts \cup {NoId, Stray}

Commands == [cmd : {"r", "n"}, arg : Names] \cup [cmd : {"p"}, arg : Texts]

\* The packets that node n sends.
PacketsOf(n) ==
  [src : {n}, dst : {Server}, type : {"REGISTER_DOMAIN", "PING_DOMAIN"}, body : Names]
  \cup [src : {n} \cap {Server}, dst : Hosts, type : {"REPLY_DOMAIN"},
        body : Hosts \cup {NoId}]

PingsOf(n) == [src : {n}, dst : Texts, type : {"PING_REQ"}, body : {Stray}]

ReceivedBy(n) ==
  {j \in [kind : {"REGISTER_DOMAIN_NAME", "REQ_PHYS_ID", "REPLY_PHYS_ID"},
          packet : UNION {PacketsOf(m) : m \in Nodes \ {n}}] :
     j.packet.dst = n /\ j.kind = JobKind(j.packet.type)}

JobsOf(n) == [kind : {"SEND"}, packet : PacketsOf(n)]
             \cup [kind : {"PING"}, packet : PingsOf(n)]
             \cup ReceivedBy(n)

DnsTyped ==
  /\ phase \in {"ready", "resolving", "pinging"}
  /\ curr \in Nodes
  /\ cmdPipe \in [Nodes -> Seq(Commands)]
  /\ replyPipe \in [Nodes -> Seq(Texts)]
  /\ link = [w \in Wires |-> link[w]]
  /\ \A w \in Wires : link[w] \in Seq(PacketsOf(w[1]))
  /\ jobs = [n \in Nodes |-> jobs[n]]
  /\ \A n \in Nodes : jobs[n] \in Seq(JobsOf(n))

\* One element of s, and at most one, is in S.
Has(s, S) == \E i \in DOMAIN s : s[i] \in S
Few(s, S) == \A i, j \in DOMAIN s : s[i] \in S /\ s[j] \in S => i = j

\* The commands, jobs and packets that are the request of host h.
Asking           == {c \in Commands : c.cmd # "r"}
JobsFor(h, n)    == {j \in JobsOf(n) : OfRequest(h, j.packet)}
PacketsFor(h, w) == {p \in PacketsOf(w[1]) : OfRequest(h, p) /\ p.dst = w[2]}

InCmd(h)     == Has(cmdPipe[h], Asking)
InReply(h)   == replyPipe[h] # <<>>
InJob(h, n)  == Has(jobs[n], JobsFor(h, n))
InLink(h, w) == Has(link[w], PacketsFor(h, w))

FewOf(h) ==
  /\ Few(cmdPipe[h], Asking)
  /\ Len(replyPipe[h]) <= 1
  /\ \A n \in Nodes : Few(jobs[n], JobsFor(h, n))
  /\ \A w \in Wires : Few(link[w], PacketsFor(h, w))

OnePlace(h) ==
  /\ InCmd(h) => ~InReply(h)
  /\ \A n \in Nodes : InJob(h, n) =>
       /\ ~InCmd(h) /\ ~InReply(h)
       /\ \A m \in Nodes : InJob(h, m) => m = n
  /\ \A w \in Wires : InLink(h, w) =>
       /\ ~InCmd(h) /\ ~InReply(h)
       /\ \A n \in Nodes : ~InJob(h, n)
       /\ \A v \in Wires : InLink(h, v) => v = w

Somewhere(h) ==
  \/ InCmd(h) \/ InReply(h)
  \/ \E n \in Nodes : InJob(h, n)
  \/ \E w \in Wires : InLink(h, w)

OnlyWhileAsked(h) == Somewhere(h) => h = curr /\ phase # "ready"

\* What the request of the current host says is what the user asked for.
Pairs == registered \cup Proved!ChancePairs

HasName(id) == \E y \in Readings[asked] : <<id, y>> \in Pairs

Named(id) == id = NoId \/ HasName(id)

RightCommand(c) ==
  \/ c.cmd = "n" /\ phase = "resolving" /\ c.arg = asked
  \/ c.cmd = "p" /\ phase = "pinging" /\ HasName(c.arg)

RightPacket(p) ==
  \/ p.type = "PING_DOMAIN" /\ phase = "resolving" /\ p.body = asked
  \/ p.type = "REPLY_DOMAIN" /\ phase = "resolving" /\ Named(p.body)
  \/ p.type = "PING_REQ" /\ phase = "pinging"

WrongCommands   == {c \in Asking : ~RightCommand(c)}
WrongJobs(n)    == {j \in JobsFor(curr, n) : ~RightPacket(j.packet)}
WrongPackets(w) == {p \in PacketsFor(curr, w) : ~RightPacket(p)}
WrongTexts      == {x \in Texts : ~Named(x)}

AsAsked ==
  /\ ~Has(cmdPipe[curr], WrongCommands)
  /\ \A n \in Nodes : ~Has(jobs[n], WrongJobs(n))
  /\ \A w \in Wires : ~Has(link[w], WrongPackets(w))
  /\ phase = "resolving" => ~Has(replyPipe[curr], WrongTexts)

Placed == \A h \in Nodes : FewOf(h) /\ OnePlace(h) /\ OnlyWhileAsked(h)

DnsInv == DnsTyped /\ Proved!TableInv /\ Placed /\ AsAsked

-----------------------------------------------------------------------------
(* Sequences of which some elements are wanted                             *)

LEMMA HasAppend ==
  ASSUME NEW T, NEW s \in Seq(T), NEW e \in T, NEW S
  PROVE  /\ Append(s, e) \in Seq(T)
         /\ Has(Append(s, e), S) <=> Has(s, S) \/ e \in S
         /\ Few(s, S) /\ (e \in S => ~Has(s, S)) => Few(Append(s, e), S)
<1>1. /\ Len(s) \in Nat /\ DOMAIN s = 1..Len(s)
      /\ Append(s, e) \in Seq(T) /\ DOMAIN Append(s, e) = 1..(Len(s) + 1)
      /\ \A i \in 1..Len(s) : Append(s, e)[i] = s[i]
      /\ Append(s, e)[Len(s) + 1] = e
  BY AppendProperties, LenProperties
<1>2. 1..(Len(s) + 1) = 1..Len(s) \cup {Len(s) + 1} /\ Len(s) + 1 \notin 1..Len(s)
  BY <1>1
<1>3. Has(Append(s, e), S) <=> Has(s, S) \/ e \in S
  BY <1>1, <1>2 DEF Has
<1>4. Few(s, S) /\ (e \in S => ~Has(s, S)) => Few(Append(s, e), S)
  BY <1>1, <1>2 DEF Has, Few
<1> QED BY <1>1, <1>3, <1>4

\* What is left of a sequence when k elements were taken off its front.
LEMMA HasDrop ==
  ASSUME NEW T, NEW s \in Seq(T), s # <<>>, NEW k \in Nat \ {0}, NEW S
  PROVE  /\ Head(s) \in T /\ SubSeq(s, k + 1, Len(s)) \in Seq(T)
         /\ Has(SubSeq(s, k + 1, Len(s)), S) => Has(s, S)
         /\ Head(s) \in S => Has(s, S)
         /\ Few(s, S) => Few(SubSeq(s, k + 1, Len(s)), S)
         /\ Few(s, S) /\ Head(s) \in S => ~Has(SubSeq(s, k + 1, Len(s)), S)
<1> DEFINE t == SubSeq(s, k + 1, Len(s))
<1>1. Len(s) \in Nat \ {0} /\ DOMAIN s = 1..Len(s) /\ Head(s) = s[1] /\ Head(s) \in T
  BY EmptySeq, LenProperties, ElementOfSeq, HeadTailProperties
<1>2. t \in Seq(T)
  BY <1>1, SubSeqProperties, ElementOfSeq
<1>3. /\ DOMAIN t = 1..Len(t)
      /\ \A i \in DOMAIN t : i + k \in DOMAIN s /\ i + k # 1 /\ t[i] = s[i + k] /\ i \in Nat
  <2>1. CASE k + 1 <= Len(s)
    <3>1. Len(t) = Len(s) - k /\ \A i \in 1..(Len(s) - k) : t[i] = s[k + 1 + i - 1]
      BY <1>1, <2>1, SubSeqProperties
    <3> QED BY <1>1, <1>2, <2>1, <3>1, LenProperties
  <2>2. CASE k + 1 > Len(s)
    <3>1. t = <<>>
      BY <1>1, <2>2, SubSeqProperties
    <3>2. DOMAIN t = 1..Len(t) /\ DOMAIN t = {}
      BY <1>2, <3>1, LenProperties, EmptySeq
    <3> QED BY <3>2
  <2> HIDE DEF t
  <2> QED BY <1>1, <2>1, <2>2
<1> HIDE DEF t
<1>4. (Has(t, S) => Has(s, S)) /\ (Head(s) \in S => Has(s, S))
  BY <1>1, <1>3 DEF Has
<1>5. Few(s, S) => Few(t, S)
  BY <1>3 DEF Few
<1>6. Few(s, S) /\ Head(s) \in S => ~Has(t, S)
  BY <1>1, <1>3 DEF Has, Few
<1> QED BY <1>1, <1>2, <1>4, <1>5, <1>6 DEF t

LEMMA HasTail ==
  ASSUME NEW T, NEW s \in Seq(T), s # <<>>, NEW S
  PROVE  /\ Head(s) \in T /\ Tail(s) \in Seq(T)
         /\ Has(Tail(s), S) => Has(s, S)
         /\ Head(s) \in S => Has(s, S)
         /\ Few(s, S) => Few(Tail(s), S)
         /\ Few(s, S) /\ Head(s) \in S => ~Has(Tail(s), S)
<1>1. Tail(s) = SubSeq(s, 1 + 1, Len(s))
  BY TailIsSubSeq
<1>2. 1 \in Nat \ {0}
  OBVIOUS
<1>3. /\ Head(s) \in T /\ SubSeq(s, 1 + 1, Len(s)) \in Seq(T)
      /\ Has(SubSeq(s, 1 + 1, Len(s)), S) => Has(s, S)
      /\ Head(s) \in S => Has(s, S)
      /\ Few(s, S) => Few(SubSeq(s, 1 + 1, Len(s)), S)
      /\ Few(s, S) /\ Head(s) \in S => ~Has(SubSeq(s, 1 + 1, Len(s)), S)
  BY <1>2, HasDrop
<1> QED BY <1>1, <1>3

LEMMA HasNone ==
  ASSUME NEW S
  PROVE  ~Has(<<>>, S) /\ Few(<<>>, S)
BY DEF Has, Few

LEMMA HasMore ==
  ASSUME NEW s, NEW S, NEW R, S \subseteq R
  PROVE  Has(s, S) => Has(s, R)
BY DEF Has

-----------------------------------------------------------------------------
(* The table of the server                                                 *)

\* NamesAssumption holds of it, on which the lemmas of NameTableProofs rest.
LEMMA TableAssumed ==
  /\ TableSize \in Nat \ {0} /\ Proved!IsFiniteSet(Hosts)
  /\ NoId \notin Hosts /\ Stray \notin Names
  /\ Readings \in [Names -> SUBSET (Names \cup {Stray})]
  /\ Memory \subseteq Proved!Entry
<1>1. Proved!IsFiniteSet(Hosts)
  BY DnsAssumption DEF IsFiniteSet, Proved!IsFiniteSet
<1> QED BY <1>1, DnsAssumption DEF Nodes, Proved!Entry

LEMMA FirstTable ==
  ASSUME Table!Init
  PROVE  Proved!TableInv
<1>1. Proved!Init
  BY DEF Table!Init, Table!Places, Proved!Init, Proved!Places
<1> QED BY <1>1, TableAssumed, Proved!TableInit

LEMMA Registered ==
  ASSUME Proved!TableInv, NEW h \in Hosts, NEW x \in Names,
         Table!RegisterDomainName(h, x)
  PROVE  Proved!TableInv' /\ Pairs \subseteq Pairs'
<1>1. Proved!RegisterDomainName(h, x)
  BY DEF Table!RegisterDomainName, Table!EntryFor, Table!IsFirst, Table!StopsForId,
         Table!Places, Proved!RegisterDomainName, Proved!EntryFor, Proved!IsFirst,
         Proved!StopsForId, Proved!Places
<1>2. Proved!TableInv'
  BY <1>1, TableAssumed, Proved!RegisterKeeps
<1>3. registered \subseteq registered' /\ Proved!ChancePairs' = Proved!ChancePairs
  BY DEF Table!RegisterDomainName, Proved!ChancePairs, Proved!ByChance
<1> QED BY <1>2, <1>3 DEF Pairs

\* The server answers with a host that has what it read as the name looked up.
LEMMA LookedUp ==
  ASSUME Proved!TableInv, NEW x \in Names, Table!ReqPhysId(x)
  PROVE  /\ Proved!TableInv'
         /\ Pairs' = Pairs
         /\ answer'.id \in Hosts \cup {NoId}
         /\ answer'.id # NoId => \E y \in Readings[x] : <<answer'.id, y>> \in Pairs
<1>1. Proved!ReqPhysId(x)
  BY DEF Table!ReqPhysId, Table!IsFirst, Table!StopsForName, Table!Places,
         Proved!ReqPhysId, Proved!IsFirst, Proved!StopsForName, Proved!Places
<1>2. Proved!TableInv'
  BY <1>1, TableAssumed, Proved!LookupKeeps
<1>3. registered' = registered /\ memory' = memory /\ answer'.name = x
  BY DEF Table!ReqPhysId
<1>4. Proved!ChancePairs' = Proved!ChancePairs
  BY <1>3 DEF Proved!ChancePairs, Proved!ByChance
<1>5. answer'.id \in Hosts \cup {NoId}
  BY <1>2 DEF Proved!TableInv, Proved!TypeOK
<1>6. answer'.id # NoId => \E y \in Readings[x] : <<answer'.id, y>> \in Pairs'
  BY <1>2, <1>3 DEF Proved!TableInv, Proved!AnswersAreTrue, Pairs
<1>7. Pairs' = Pairs
  BY <1>3, <1>4 DEF Pairs
<1> QED BY <1>2, <1>5, <1>6, <1>7

\* Nothing is written, or a search has left the table.
LEMMA TableUntouched ==
  ASSUME Proved!TableInv, UNCHANGED <<memory, naming_table, registered, answer>>,
         overrun' = overrun \/ overrun' = TRUE
  PROVE  Proved!TableInv' /\ Pairs' = Pairs
BY DEF Proved!TableInv, Proved!TypeOK, Proved!AnswersAreTrue, Proved!TwoEntriesAtMost,
       Proved!ValidPlaces, Proved!Written, Proved!ChancePairs, Proved!ByChance, Pairs

-----------------------------------------------------------------------------
(* Where requests are                                                      *)

\* While the user is not waiting nothing is asked.
LEMMA NothingAsked ==
  ASSUME Placed, phase = "ready" PROVE \A h \in Nodes : ~Somewhere(h)
BY DEF Placed, OnlyWhileAsked

\* What is nowhere says nothing wrong.
LEMMA NoneIsWrong ==
  ASSUME curr \in Nodes, ~Somewhere(curr) PROVE AsAsked
<1>1. ~Has(cmdPipe[curr], WrongCommands)
  BY DEF Somewhere, InCmd, Has, WrongCommands
<1>2. \A n \in Nodes : ~Has(jobs[n], WrongJobs(n))
  BY DEF Somewhere, InJob, Has, WrongJobs
<1>3. \A w \in Wires : ~Has(link[w], WrongPackets(w))
  BY DEF Somewhere, InLink, Has, WrongPackets
<1>4. ~Has(replyPipe[curr], WrongTexts)
  BY HasNone DEF Somewhere, InReply
<1> QED BY <1>1, <1>2, <1>3, <1>4 DEF AsAsked

LEMMA NoneWasWrong == (curr \in Nodes /\ (\A h \in Nodes : ~Somewhere(h)) => AsAsked)'
<1>1. curr \in Nodes /\ (\A h \in Nodes : ~Somewhere(h)) => AsAsked
  BY NoneIsWrong
<1> QED BY <1>1, PTL

\* The command of a host becomes its job.
LEMMA CommandBecomes ==
  ASSUME NEW n \in Nodes, NEW c \in Commands
  PROVE  /\ CommandJob(n, c) \in JobsOf(n)
         /\ \A h \in Nodes : CommandJob(n, c) \in JobsFor(h, n) => h = n /\ c \in Asking
         /\ RightCommand(c) => RightPacket(CommandJob(n, c).packet)
<1>1. CASE c \in [cmd : {"r", "n"}, arg : Names]
  BY <1>1 DEF CommandJob, SendJob, PacketTo, JobsOf, PacketsOf, JobsFor, OfRequest, Asking,
              Commands, RightCommand, RightPacket
<1>2. CASE c \in [cmd : {"p"}, arg : Texts]
  BY <1>2 DEF CommandJob, SendJob, PacketTo, JobsOf, PingsOf, JobsFor, OfRequest, Asking,
              Commands, RightCommand, RightPacket
<1> QED BY <1>1, <1>2 DEF Commands

\* What was right stays right while the user waits for it.
LEMMA StillAsAsked ==
  ASSUME UNCHANGED <<phase, curr, asked>>, Pairs \subseteq Pairs',
         ~Has(cmdPipe'[curr], WrongCommands),
         \A m \in Nodes : ~Has(jobs'[m], WrongJobs(m)),
         \A w \in Wires : ~Has(link'[w], WrongPackets(w)),
         phase = "resolving" => ~Has(replyPipe'[curr], WrongTexts)
  PROVE  AsAsked'
<1>1. /\ WrongCommands' \subseteq WrongCommands
      /\ \A n \in Nodes : WrongJobs(n)' \subseteq WrongJobs(n)
      /\ \A w \in Wires : WrongPackets(w)' \subseteq WrongPackets(w)
      /\ WrongTexts' \subseteq WrongTexts
  BY DEF WrongCommands, RightCommand, WrongJobs, WrongPackets, RightPacket, WrongTexts, Named,
         HasName
<1> QED BY <1>1, HasMore DEF AsAsked

\* A job is taken off its queue.
LEMMA JobTaken ==
  ASSUME DnsInv, NEW n \in Nodes, jobs[n] # <<>>,
         jobs' = [jobs EXCEPT ![n] = Tail(jobs[n])]
  PROVE  /\ Head(jobs[n]) \in JobsOf(n) /\ Head(jobs[n]) \notin WrongJobs(n)
         /\ jobs' = [m \in Nodes |-> jobs'[m]]
         /\ \A m \in Nodes : /\ jobs'[m] \in Seq(JobsOf(m))
                             /\ ~Has(jobs'[m], WrongJobs(m))
         /\ \A h, m \in Nodes : /\ InJob(h, m)' => InJob(h, m)
                                /\ Few(jobs'[m], JobsFor(h, m))
         /\ \A h \in Nodes : Head(jobs[n]) \in JobsFor(h, n) => InJob(h, n) /\ ~InJob(h, n)'
<1>1. /\ jobs'[n] = Tail(jobs[n]) /\ jobs[n] \in Seq(JobsOf(n))
      /\ \A m \in Nodes : m # n => jobs'[m] = jobs[m] /\ jobs[m] \in Seq(JobsOf(m))
      /\ jobs' = [m \in Nodes |-> jobs'[m]]
  BY DEF DnsInv, DnsTyped
<1>2. /\ Head(jobs[n]) \in JobsOf(n) /\ jobs'[n] \in Seq(JobsOf(n))
      /\ \A S : /\ Has(jobs'[n], S) => Has(jobs[n], S)
                /\ Few(jobs[n], S) => Few(jobs'[n], S)
                /\ Head(jobs[n]) \in S =>
                     Has(jobs[n], S) /\ (Few(jobs[n], S) => ~Has(jobs'[n], S))
  BY <1>1, HasTail
<1>3. \A h, m \in Nodes : Few(jobs[m], JobsFor(h, m))
  BY DEF DnsInv, Placed, FewOf
<1>4. \A m \in Nodes : ~Has(jobs[m], WrongJobs(m))
  BY DEF DnsInv, AsAsked
<1>5. \A h, m \in Nodes : (InJob(h, m)' => InJob(h, m)) /\ Few(jobs'[m], JobsFor(h, m))
  BY <1>1, <1>2, <1>3 DEF InJob
<1>6. \A h \in Nodes : Head(jobs[n]) \in JobsFor(h, n) => InJob(h, n) /\ ~InJob(h, n)'
  BY <1>1, <1>2, <1>3 DEF InJob
<1>7. \A m \in Nodes : ~Has(jobs'[m], WrongJobs(m))
  BY <1>1, <1>2, <1>4
<1> QED BY <1>1, <1>2, <1>4, <1>5, <1>6, <1>7, NoneWasWrong DEF DnsInv

LEMMA GetCommandKeeps ==
  ASSUME DnsInv, NEW n \in Nodes, GetCommand(n)
  PROVE  DnsInv'
<1>1. PICK c : c = Head(cmdPipe[n])
  OBVIOUS
<1>2. PICK j : j = CommandJob(n, c)
  OBVIOUS
<1>3. /\ cmdPipe[n] # <<>>
      /\ cmdPipe' = [cmdPipe EXCEPT ![n] = Tail(cmdPipe[n])]
      /\ jobs' = [jobs EXCEPT ![n] = Append(jobs[n], j)]
      /\ UNCHANGED <<manVars, replyPipe, link, tableVars>>
  BY <1>1, <1>2 DEF GetCommand, AddJob
<1>4. /\ cmdPipe'[n] = Tail(cmdPipe[n]) /\ jobs'[n] = Append(jobs[n], j)
      /\ \A d \in Nodes : d # n => cmdPipe'[d] = cmdPipe[d] /\ jobs'[d] = jobs[d]
      /\ cmdPipe[n] \in Seq(Commands) /\ jobs[n] \in Seq(JobsOf(n))
  BY <1>3 DEF DnsInv, DnsTyped
<1>5. /\ c \in Commands /\ cmdPipe'[n] \in Seq(Commands)
      /\ \A S : /\ Has(cmdPipe'[n], S) => Has(cmdPipe[n], S)
                /\ Few(cmdPipe[n], S) => Few(cmdPipe'[n], S)
                /\ c \in S => Has(cmdPipe[n], S) /\ (Few(cmdPipe[n], S) => ~Has(cmdPipe'[n], S))
  BY <1>1, <1>3, <1>4, HasTail
<1>6. /\ j \in JobsOf(n)
      /\ \A h \in Nodes : j \in JobsFor(h, n) => h = n /\ c \in Asking
      /\ RightCommand(c) => RightPacket(j.packet)
  BY <1>2, <1>5, CommandBecomes
<1>7. /\ jobs'[n] \in Seq(JobsOf(n))
      /\ \A S : /\ Has(jobs'[n], S) <=> Has(jobs[n], S) \/ j \in S
                /\ Few(jobs[n], S) /\ (j \in S => ~Has(jobs[n], S)) => Few(jobs'[n], S)
  BY <1>4, <1>6, HasAppend
<1>8. DnsTyped'
  BY <1>3, <1>4, <1>5, <1>7 DEF DnsInv, DnsTyped, manVars
<1>9. Proved!TableInv' /\ Pairs' = Pairs
  BY <1>3, TableUntouched DEF DnsInv, tableVars
<1>10. ASSUME NEW h \in Nodes PROVE (FewOf(h) /\ OnePlace(h) /\ OnlyWhileAsked(h))'
  <2>1. FewOf(h) /\ OnePlace(h) /\ OnlyWhileAsked(h)
    BY DEF DnsInv, Placed
  <2>2. /\ InCmd(h)' => InCmd(h)
        /\ \A m \in Nodes : InJob(h, m)' =>
             InJob(h, m) \/ (h = n /\ m = n /\ InCmd(h) /\ ~InCmd(h)')
        /\ InReply(h)' <=> InReply(h)
        /\ \A w \in Wires : InLink(h, w)' <=> InLink(h, w)
    BY <1>3, <1>4, <1>5, <1>6, <1>7, <2>1 DEF InCmd, InJob, InReply, InLink, FewOf
  <2>3. FewOf(h)'
    BY <1>3, <1>4, <1>5, <1>6, <1>7, <2>1 DEF FewOf, OnePlace, InCmd, InJob
  <2>4. OnePlace(h)'
    BY <2>1, <2>2 DEF OnePlace
  <2>5. OnlyWhileAsked(h)'
    BY <1>3, <2>1, <2>2 DEF OnlyWhileAsked, Somewhere, manVars
  <2> QED BY <2>3, <2>4, <2>5
<1>11. AsAsked'
  <2>1. AsAsked /\ curr \in Nodes /\ UNCHANGED <<phase, curr, asked>>
    BY <1>3 DEF DnsInv, DnsTyped, manVars
  <2>2. j \notin WrongJobs(n)
    <3> SUFFICES ASSUME j \in WrongJobs(n) PROVE FALSE
      OBVIOUS
    <3>1. curr = n /\ c \in Asking /\ ~RightCommand(c)
      BY <1>6, <2>1 DEF WrongJobs
    <3> QED BY <1>5, <2>1, <3>1 DEF AsAsked, WrongCommands
  <2>3. ~Has(cmdPipe'[curr], WrongCommands) /\ \A m \in Nodes : ~Has(jobs'[m], WrongJobs(m))
    BY <1>4, <1>5, <1>7, <2>1, <2>2 DEF AsAsked
  <2>4. /\ \A w \in Wires : ~Has(link'[w], WrongPackets(w))
        /\ phase = "resolving" => ~Has(replyPipe'[curr], WrongTexts)
    BY <1>3, <2>1 DEF AsAsked
  <2> QED BY <1>9, <2>1, <2>3, <2>4, StillAsAsked
<1> QED BY <1>8, <1>9, <1>10, <1>11 DEF DnsInv, Placed

\* A request leaves the queue of jobs for the pipe of answers, or for nowhere.
LEMMA JobEnds ==
  ASSUME DnsInv, NEW n \in Nodes, jobs[n] # <<>>,
         jobs' = [jobs EXCEPT ![n] = Tail(jobs[n])],
         UNCHANGED <<manVars, cmdPipe, link>>,
         Proved!TableInv', Pairs \subseteq Pairs',
         replyPipe' = replyPipe
         \/ \E x \in Texts : /\ replyPipe' = [replyPipe EXCEPT ![n] = Append(replyPipe[n], x)]
                             /\ Head(jobs[n]) \in JobsFor(n, n)
                             /\ n = curr /\ phase = "resolving" => Named(x)
  PROVE  DnsInv'
<1>1. /\ jobs' = [m \in Nodes |-> jobs'[m]]
      /\ \A m \in Nodes : jobs'[m] \in Seq(JobsOf(m)) /\ ~Has(jobs'[m], WrongJobs(m))
      /\ \A h, m \in Nodes : (InJob(h, m)' => InJob(h, m)) /\ Few(jobs'[m], JobsFor(h, m))
      /\ Head(jobs[n]) \in JobsFor(n, n) => InJob(n, n) /\ ~InJob(n, n)'
  BY JobTaken
<1>2. ASSUME NEW h \in Nodes PROVE FewOf(h) /\ OnePlace(h) /\ OnlyWhileAsked(h)
  BY DEF DnsInv, Placed
<1>3. UNCHANGED <<phase, curr, asked>> /\ curr \in Nodes /\ AsAsked
  BY DEF DnsInv, DnsTyped, manVars
<1>4. \A h \in Nodes : (InCmd(h)' <=> InCmd(h)) /\ \A w \in Wires : InLink(h, w)' <=> InLink(h, w)
  BY DEF InCmd, InLink
<1>5. /\ ~Has(cmdPipe'[curr], WrongCommands)
      /\ \A w \in Wires : ~Has(link'[w], WrongPackets(w))
  BY <1>3 DEF AsAsked
<1>6. CASE replyPipe' = replyPipe
  <2>1. DnsTyped'
    BY <1>1, <1>3, <1>6 DEF DnsInv, DnsTyped
  <2>2. AsAsked'
    BY <1>1, <1>3, <1>5, <1>6, StillAsAsked DEF AsAsked
  <2>3. ASSUME NEW h \in Nodes PROVE (FewOf(h) /\ OnePlace(h) /\ OnlyWhileAsked(h))'
    <3>1. FewOf(h)'
      BY <1>1, <1>2, <1>6 DEF FewOf
    <3>2. InReply(h)' <=> InReply(h)
      BY <1>6 DEF InReply
    <3>3. OnePlace(h)'
      BY <1>1, <1>2, <1>4, <3>2 DEF OnePlace
    <3>4. OnlyWhileAsked(h)'
      BY <1>1, <1>2, <1>3, <1>4, <3>2 DEF OnlyWhileAsked, Somewhere
    <3> QED BY <3>1, <3>3, <3>4
  <2> QED BY <2>1, <2>2, <2>3 DEF DnsInv, Placed
<1>7. ASSUME NEW x \in Texts,
             replyPipe' = [replyPipe EXCEPT ![n] = Append(replyPipe[n], x)],
             Head(jobs[n]) \in JobsFor(n, n),
             n = curr /\ phase = "resolving" => Named(x)
      PROVE  DnsInv'
  <2>1. replyPipe[n] = <<>> /\ replyPipe[n] \in Seq(Texts)
    BY <1>1, <1>2, <1>7 DEF OnePlace, InReply, DnsInv, DnsTyped
  <2>2. /\ replyPipe'[n] = Append(replyPipe[n], x) /\ replyPipe'[n] \in Seq(Texts)
        /\ Len(replyPipe'[n]) = 1
        /\ \A h \in Nodes : h # n => replyPipe'[h] = replyPipe[h]
    BY <1>7, <2>1, AppendProperties, EmptySeq DEF DnsInv, DnsTyped
  <2>3. DnsTyped'
    BY <1>1, <1>3, <1>7, <2>2 DEF DnsInv, DnsTyped
  <2>4. phase = "resolving" => ~Has(replyPipe'[curr], WrongTexts)
    <3>1. CASE curr # n
      BY <1>3, <2>2, <3>1 DEF AsAsked
    <3>2. CASE curr = n
      <4>1. phase = "resolving" => x \notin WrongTexts
        BY <1>7, <3>2 DEF WrongTexts
      <4>2. Has(replyPipe'[n], WrongTexts) <=> Has(replyPipe[n], WrongTexts) \/ x \in WrongTexts
        <5>1. replyPipe[n] \in Seq(Texts) /\ replyPipe'[n] = Append(replyPipe[n], x)
          BY <2>1, <2>2
        <5> QED BY <5>1, HasAppend
      <4> QED BY <2>1, <3>2, <4>1, <4>2, HasNone
    <3> QED BY <3>1, <3>2
  <2>5. AsAsked'
    BY <1>1, <1>3, <1>5, <2>4, StillAsAsked
  <2>6. ASSUME NEW h \in Nodes PROVE (FewOf(h) /\ OnePlace(h) /\ OnlyWhileAsked(h))'
    <3>1. FewOf(h)'
      <4>1. Len(replyPipe'[h]) <= 1
        BY <1>2, <2>2 DEF FewOf
      <4> QED BY <1>1, <1>2, <4>1 DEF FewOf
    <3>2. InReply(h)' => InReply(h) \/ (h = n /\ InJob(n, n) /\ ~InJob(n, n)')
      BY <1>1, <1>7, <2>2 DEF InReply
    <3>3. OnePlace(h)'
      BY <1>1, <1>2, <1>4, <3>2 DEF OnePlace
    <3>4. OnlyWhileAsked(h)'
      BY <1>1, <1>2, <1>3, <1>4, <3>2 DEF OnlyWhileAsked, Somewhere
    <3> QED BY <3>1, <3>3, <3>4
  <2> QED BY <2>3, <2>5, <2>6 DEF DnsInv, Placed
<1> QED BY <1>6, <1>7

\* The turns that read nothing and have no job.
LEMMA IdleKeeps ==
  ASSUME DnsInv, UNCHANGED <<manVars, cmdPipe, replyPipe, link, jobs, tableVars>>
  PROVE  DnsInv'
<1>1. DnsTyped'
  BY DEF DnsInv, DnsTyped, manVars
<1>2. Proved!TableInv' /\ Pairs' = Pairs
  BY TableUntouched DEF DnsInv, tableVars
<1>3. Placed'
  BY DEF DnsInv, Placed, FewOf, OnePlace, OnlyWhileAsked, Somewhere, InCmd, InReply, InJob,
         InLink, manVars
<1>4. AsAsked'
  BY <1>2, StillAsAsked DEF DnsInv, AsAsked, manVars
<1> QED BY <1>1, <1>2, <1>3, <1>4 DEF DnsInv

\* The jobs that are not sent on.
LEMMA JobEndsKeeps ==
  ASSUME DnsInv, NEW n \in Nodes,
         PingAnswered(n) \/ RegisterDomainName(n) \/ ReplyPhysId(n) \/ ReplyForgotten(n)
  PROVE  DnsInv'
<1>1. /\ jobs[n] # <<>> /\ jobs' = [jobs EXCEPT ![n] = Tail(jobs[n])]
      /\ UNCHANGED <<manVars, cmdPipe, link>>
  BY DEF PingAnswered, RegisterDomainName, ReplyPhysId, ReplyForgotten, JobTurn
<1>2. Head(jobs[n]) \in JobsOf(n) /\ Head(jobs[n]) \notin WrongJobs(n)
  BY <1>1, JobTaken
<1>3. ASSUME PingAnswered(n) PROVE DnsInv'
  <2>1. Head(jobs[n]).kind = "PING" /\ UNCHANGED tableVars
        /\ replyPipe' = [replyPipe EXCEPT ![n] = Append(replyPipe[n], Stray)]
    BY <1>3 DEF PingAnswered, JobTurn
  <2>2. Head(jobs[n]).packet \in PingsOf(n)
    BY <1>2, <2>1 DEF JobsOf, ReceivedBy
  <2>3. Head(jobs[n]) \in JobsFor(n, n) /\ ~(n = curr /\ phase = "resolving")
    BY <1>2, <2>2 DEF PingsOf, JobsFor, OfRequest, WrongJobs, RightPacket
  <2>4. Proved!TableInv' /\ Pairs' = Pairs
    BY <2>1, TableUntouched DEF DnsInv, tableVars
  <2> QED BY <1>1, <2>1, <2>3, <2>4, JobEnds DEF Texts
<1>4. ASSUME RegisterDomainName(n) PROVE DnsInv'
  <2>1. Head(jobs[n]).kind = "REGISTER_DOMAIN_NAME" /\ replyPipe' = replyPipe
        /\ Table!RegisterDomainName(TheJob(n).src, TheJob(n).body)
    BY <1>4 DEF RegisterDomainName, JobTurn
  <2>2. Head(jobs[n]) \in ReceivedBy(n)
    BY <1>2, <2>1 DEF JobsOf
  <2>3. TheJob(n).src \in Hosts /\ TheJob(n).body \in Names
    BY <2>1, <2>2, DnsAssumption DEF TheJob, ReceivedBy, PacketsOf, JobKind, Nodes
  <2>4. Proved!TableInv' /\ Pairs \subseteq Pairs'
    BY <2>1, <2>3, Registered DEF DnsInv
  <2> QED BY <1>1, <2>1, <2>4, JobEnds
<1>5. ASSUME ReplyPhysId(n) PROVE DnsInv'
  <2>1. Head(jobs[n]).kind = "REPLY_PHYS_ID" /\ UNCHANGED tableVars
        /\ replyPipe' = [replyPipe EXCEPT ![n] = Append(replyPipe[n], TheJob(n).body)]
    BY <1>5 DEF ReplyPhysId, JobTurn
  <2>2. Head(jobs[n]) \in ReceivedBy(n)
    BY <1>2, <2>1 DEF JobsOf
  <2>3. /\ TheJob(n).type = "REPLY_DOMAIN" /\ TheJob(n).dst = n
        /\ TheJob(n).body \in Texts
    BY <2>1, <2>2 DEF TheJob, ReceivedBy, PacketsOf, JobKind, Texts
  <2>4. /\ Head(jobs[n]) \in JobsFor(n, n)
        /\ n = curr /\ phase = "resolving" => Named(TheJob(n).body)
    BY <1>2, <2>3 DEF TheJob, JobsFor, OfRequest, WrongJobs, RightPacket
  <2>5. Proved!TableInv' /\ Pairs' = Pairs
    BY <2>1, TableUntouched DEF DnsInv, tableVars
  <2> QED BY <1>1, <2>1, <2>3, <2>4, <2>5, JobEnds
<1>6. ASSUME ReplyForgotten(n) PROVE DnsInv'
  <2>1. replyPipe' = replyPipe /\ UNCHANGED tableVars
    BY <1>6 DEF ReplyForgotten
  <2>2. Proved!TableInv' /\ Pairs' = Pairs
    BY <2>1, TableUntouched DEF DnsInv, tableVars
  <2> QED BY <1>1, <2>1, <2>2, JobEnds
<1> QED BY <1>3, <1>4, <1>5, <1>6

LEMMA SearchBehindKeeps ==
  ASSUME DnsInv, NEW n \in Nodes, SearchBehind(n)
  PROVE  DnsInv'
<1>1. /\ jobs[n] # <<>> /\ jobs' = [jobs EXCEPT ![n] = Tail(jobs[n])]
      /\ UNCHANGED <<manVars, cmdPipe, link>> /\ replyPipe' = replyPipe
  BY DEF SearchBehind, JobTurn
<1>2. UNCHANGED <<memory, naming_table, registered, answer>> /\ overrun' = TRUE
  BY DEF SearchBehind, Table!RegisterBehind, Table!ReqBehind
<1>3. Proved!TableInv' /\ Pairs' = Pairs
  BY <1>2, TableUntouched DEF DnsInv
<1> QED BY <1>1, <1>3, JobEnds

\* The server answers the host that asked, which is waiting for just that.
LEMMA ReqPhysIdKeeps ==
  ASSUME DnsInv, NEW n \in Nodes, ReqPhysId(n)
  PROVE  DnsInv'
<1>1. PICK p : p = Head(jobs[n]).packet
  OBVIOUS
<1>2. Table!ReqPhysId(p.body)
  BY <1>1 DEF ReqPhysId, TheJob
<1>3. PICK j : j = SendJob(PacketTo(p.src, n, "REPLY_DOMAIN", answer'.id))
  OBVIOUS
<1>4. /\ jobs[n] # <<>> /\ Head(jobs[n]).kind = "REQ_PHYS_ID"
      /\ jobs' = [jobs EXCEPT ![n] = Append(Tail(jobs[n]), j)]
      /\ UNCHANGED <<manVars, cmdPipe, replyPipe, link>>
  BY <1>1, <1>3 DEF ReqPhysId, JobTurn, TheJob
<1>5. /\ jobs'[n] = Append(Tail(jobs[n]), j) /\ jobs[n] \in Seq(JobsOf(n))
      /\ \A d \in Nodes : d # n => jobs'[d] = jobs[d]
      /\ jobs' = [d \in Nodes |-> jobs'[d]]
  BY <1>4 DEF DnsInv, DnsTyped
<1>6. /\ Head(jobs[n]) \in JobsOf(n) /\ Tail(jobs[n]) \in Seq(JobsOf(n))
      /\ \A S : /\ Has(Tail(jobs[n]), S) => Has(jobs[n], S)
                /\ Few(jobs[n], S) => Few(Tail(jobs[n]), S)
                /\ Head(jobs[n]) \in S =>
                     Has(jobs[n], S) /\ (Few(jobs[n], S) => ~Has(Tail(jobs[n]), S))
  BY <1>4, <1>5, HasTail
<1>7. Head(jobs[n]) \in ReceivedBy(n)
  BY <1>4, <1>6 DEF JobsOf
<1>8. /\ n = Server /\ p.src \in Hosts /\ p.body \in Names
      /\ p.type = "PING_DOMAIN" /\ Head(jobs[n]) \in JobsFor(p.src, n)
  BY <1>1, <1>4, <1>6, <1>7, DnsAssumption
  DEF ReceivedBy, PacketsOf, JobKind, Nodes, JobsFor, OfRequest
<1>9. /\ Proved!TableInv' /\ Pairs' = Pairs
      /\ answer'.id \in Hosts \cup {NoId}
      /\ answer'.id = NoId \/ \E y \in Readings[p.body] : <<answer'.id, y>> \in Pairs
  BY <1>2, <1>8, LookedUp DEF DnsInv
<1>10. /\ j \in JobsOf(n) /\ j.packet.type = "REPLY_DOMAIN" /\ j.packet.body = answer'.id
       /\ \A h \in Nodes : j \in JobsFor(h, n) <=> h = p.src
  BY <1>3, <1>8, <1>9 DEF SendJob, PacketTo, JobsOf, PacketsOf, JobsFor, OfRequest, Nodes
<1>11. /\ jobs'[n] \in Seq(JobsOf(n))
       /\ \A S : /\ Has(jobs'[n], S) <=> Has(Tail(jobs[n]), S) \/ j \in S
                 /\ Few(Tail(jobs[n]), S) /\ (j \in S => ~Has(Tail(jobs[n]), S)) => Few(jobs'[n], S)
  <2>1. PICK t : t = Tail(jobs[n])
    OBVIOUS
  <2>2. t \in Seq(JobsOf(n)) /\ jobs'[n] = Append(t, j) /\ j \in JobsOf(n)
    BY <1>5, <1>6, <1>10, <2>1
  <2>3. /\ jobs'[n] \in Seq(JobsOf(n))
        /\ \A S : /\ Has(jobs'[n], S) <=> Has(t, S) \/ j \in S
                  /\ Few(t, S) /\ (j \in S => ~Has(t, S)) => Few(jobs'[n], S)
    BY <2>2, HasAppend
  <2> QED BY <2>1, <2>3
<1>12. DnsTyped'
  BY <1>4, <1>5, <1>11 DEF DnsInv, DnsTyped, manVars
<1>13. ASSUME NEW h \in Nodes PROVE (FewOf(h) /\ OnePlace(h) /\ OnlyWhileAsked(h))'
  <2>1. FewOf(h) /\ OnePlace(h) /\ OnlyWhileAsked(h)
    BY DEF DnsInv, Placed
  <2>2. /\ \A m \in Nodes : InJob(h, m)' => InJob(h, m)
        /\ InCmd(h)' <=> InCmd(h)
        /\ InReply(h)' <=> InReply(h)
        /\ \A w \in Wires : InLink(h, w)' <=> InLink(h, w)
    BY <1>4, <1>5, <1>6, <1>8, <1>10, <1>11 DEF InCmd, InJob, InReply, InLink
  <2>3. j \in JobsFor(h, n) => ~Has(Tail(jobs[n]), JobsFor(h, n))
    BY <1>6, <1>8, <1>10, <2>1 DEF FewOf
  <2>4. \A m \in Nodes : Few(jobs'[m], JobsFor(h, m))
    BY <1>5, <1>6, <1>11, <2>1, <2>3 DEF FewOf
  <2>5. FewOf(h)'
    BY <1>4, <2>1, <2>4 DEF FewOf
  <2>6. OnePlace(h)'
    BY <2>1, <2>2 DEF OnePlace
  <2>7. OnlyWhileAsked(h)'
    BY <1>4, <2>1, <2>2 DEF OnlyWhileAsked, Somewhere, manVars
  <2> QED BY <2>5, <2>6, <2>7
<1>14. AsAsked'
  <2>1. AsAsked /\ curr \in Nodes /\ UNCHANGED <<phase, curr, asked>>
    BY <1>4 DEF DnsInv, DnsTyped, manVars
  <2>2. Head(jobs[n]) \notin WrongJobs(n)
    BY <1>6, <2>1 DEF AsAsked
  <2>3. j \notin WrongJobs(n)
    BY <1>1, <1>8, <1>9, <1>10, <2>1, <2>2 DEF WrongJobs, RightPacket, Named, HasName
  <2>4. \A m \in Nodes : ~Has(jobs'[m], WrongJobs(m))
    BY <1>5, <1>6, <1>11, <2>1, <2>3 DEF AsAsked
  <2> QED BY <1>4, <1>9, <2>1, <2>4, StillAsAsked DEF AsAsked
<1> QED BY <1>9, <1>12, <1>13, <1>14 DEF DnsInv, Placed

\* A port reads the link that another node writes.
LEMMA PortHasLink ==
  ASSUME NEW n \in Nodes, NEW k \in 1..Len(Port[n])
  PROVE  /\ <<Port[n][k], n>> \in Wires
         /\ Port[n][k] \in Nodes /\ Port[n][k] # n
<1>1. Port[n] \in Seq(Nodes) /\ k \in DOMAIN Port[n]
  BY DnsAssumption, LenProperties
<1>2. Port[n][k] \in Nodes
  BY <1>1, ElementOfSeq, LenProperties
<1> QED BY <1>1, <1>2, DnsAssumption DEF Wires

\* What a node takes from a link for itself is its job.
LEMMA PacketBecomes ==
  ASSUME NEW n \in Nodes, NEW m \in Nodes, m # n, NEW p \in PacketsOf(m), p.dst = n,
         NEW j, j = [kind |-> JobKind(p.type), packet |-> p]
  PROVE  /\ j \in JobsOf(n)
         /\ \A h \in Nodes : j \in JobsFor(h, n) => p \in PacketsFor(h, <<m, n>>)
<1>1. JobKind(p.type) \in {"REGISTER_DOMAIN_NAME", "REQ_PHYS_ID", "REPLY_PHYS_ID"}
  BY DEF PacketsOf, JobKind
<1>2. j \in ReceivedBy(n)
  BY <1>1 DEF ReceivedBy
<1> QED BY <1>2 DEF JobsOf, JobsFor, PacketsFor

LEMMA ReadPortKeeps ==
  ASSUME DnsInv, NEW n \in Nodes, ReadPort(n)
  PROVE  DnsInv'
<1>1. PICK m : m = Port[n][at[n]]
  OBVIOUS
<1>2. PICK w : w = <<m, n>>
  OBVIOUS
<1>3. w \in Wires /\ m \in Nodes /\ m # n /\ w[1] = m /\ w[2] = n
  BY <1>1, <1>2, PortHasLink DEF ReadPort
<1>4. PICK p : p = Head(link[w])
  OBVIOUS
<1>5. PICK j : j = [kind |-> JobKind(p.type), packet |-> p]
  OBVIOUS
<1>6. PICK rest : rest = SubSeq(link[w], PacketsPerRead + 1, Len(link[w]))
  OBVIOUS
<1>7. /\ link[w] # <<>> /\ link' = [link EXCEPT ![w] = rest]
      /\ \/ p.dst = n /\ jobs' = [jobs EXCEPT ![n] = Append(jobs[n], j)]
         \/ jobs' = jobs
      /\ UNCHANGED <<manVars, cmdPipe, replyPipe, tableVars>>
  BY <1>1, <1>2, <1>4, <1>5, <1>6 DEF ReadPort, AddJob
<1>8. /\ link'[w] = rest /\ link[w] \in Seq(PacketsOf(m)) /\ jobs[n] \in Seq(JobsOf(n))
      /\ \A v \in Wires : v # w => link'[v] = link[v]
      /\ link' = [v \in Wires |-> link'[v]]
      /\ jobs' = [d \in Nodes |-> jobs'[d]]
      /\ \A d \in Nodes : d # n => jobs'[d] = jobs[d]
  BY <1>3, <1>7 DEF DnsInv, DnsTyped
<1>9. /\ p \in PacketsOf(m) /\ link'[w] \in Seq(PacketsOf(m))
      /\ \A S : /\ Has(link'[w], S) => Has(link[w], S)
                /\ Few(link[w], S) => Few(link'[w], S)
                /\ p \in S => Has(link[w], S) /\ (Few(link[w], S) => ~Has(link'[w], S))
  <2>1. PICK q : q = link[w]
    OBVIOUS
  <2>2. PICK k \in Nat \ {0} : k = PacketsPerRead
    BY DnsAssumption
  <2>3. q \in Seq(PacketsOf(m)) /\ q # <<>> /\ p = Head(q) /\ link'[w] = SubSeq(q, k + 1, Len(q))
    BY <1>4, <1>6, <1>7, <1>8, <2>1, <2>2
  <2>4. /\ p \in PacketsOf(m) /\ link'[w] \in Seq(PacketsOf(m))
        /\ \A S : /\ Has(link'[w], S) => Has(q, S)
                  /\ Few(q, S) => Few(link'[w], S)
                  /\ p \in S => Has(q, S) /\ (Few(q, S) => ~Has(link'[w], S))
    BY <2>3, HasDrop
  <2> QED BY <2>1, <2>4
<1>10. /\ jobs'[n] \in Seq(JobsOf(n))
       /\ \A h \in Nodes : /\ Has(jobs'[n], JobsFor(h, n)) =>
                                Has(jobs[n], JobsFor(h, n)) \/ p \in PacketsFor(h, w)
                           /\ /\ Few(jobs[n], JobsFor(h, n))
                              /\ p \in PacketsFor(h, w) => ~Has(jobs[n], JobsFor(h, n))
                              => Few(jobs'[n], JobsFor(h, n))
       /\ Has(jobs'[n], WrongJobs(n)) => Has(jobs[n], WrongJobs(n)) \/ p \in WrongPackets(w)
  <2>1. CASE jobs' = jobs
    BY <1>8, <2>1
  <2>2. CASE p.dst = n /\ jobs' = [jobs EXCEPT ![n] = Append(jobs[n], j)]
    <3>1. /\ j \in JobsOf(n)
          /\ \A h \in Nodes : j \in JobsFor(h, n) => p \in PacketsFor(h, w)
      BY <1>2, <1>3, <1>5, <1>9, <2>2, PacketBecomes
    <3>2. jobs'[n] = Append(jobs[n], j)
      BY <2>2 DEF DnsInv, DnsTyped
    <3>3. /\ jobs'[n] \in Seq(JobsOf(n))
          /\ \A S : /\ Has(jobs'[n], S) <=> Has(jobs[n], S) \/ j \in S
                    /\ Few(jobs[n], S) /\ (j \in S => ~Has(jobs[n], S)) => Few(jobs'[n], S)
      BY <1>8, <3>1, <3>2, HasAppend
    <3>4. j \in WrongJobs(n) => p \in WrongPackets(w)
      BY <1>5, <3>1 DEF WrongJobs, WrongPackets, DnsInv, DnsTyped
    <3> QED BY <3>1, <3>3, <3>4
  <2> QED BY <1>7, <2>1, <2>2
<1>11. DnsTyped'
  BY <1>3, <1>7, <1>8, <1>9, <1>10 DEF DnsInv, DnsTyped, manVars
<1>12. Proved!TableInv' /\ Pairs' = Pairs
  BY <1>7, TableUntouched DEF DnsInv, tableVars
<1>13. ASSUME NEW h \in Nodes PROVE (FewOf(h) /\ OnePlace(h) /\ OnlyWhileAsked(h))'
  <2>1. FewOf(h) /\ OnePlace(h) /\ OnlyWhileAsked(h)
    BY DEF DnsInv, Placed
  <2>2. p \in PacketsFor(h, w) => InLink(h, w) /\ ~InLink(h, w)'
    BY <1>3, <1>9, <2>1 DEF InLink, FewOf
  <2>3. /\ InCmd(h)' <=> InCmd(h)
        /\ InReply(h)' <=> InReply(h)
        /\ \A d \in Nodes : InJob(h, d)' =>
             InJob(h, d) \/ (d = n /\ InLink(h, w) /\ ~InLink(h, w)')
        /\ \A v \in Wires : InLink(h, v)' => InLink(h, v)
    BY <1>7, <1>8, <1>9, <1>10, <2>2 DEF InCmd, InJob, InReply, InLink
  <2>4. \A v \in Wires : Few(link'[v], PacketsFor(h, v))
    BY <1>8, <1>9, <2>1 DEF FewOf
  <2>5. \A d \in Nodes : Few(jobs'[d], JobsFor(h, d))
    BY <1>3, <1>8, <1>10, <2>1, <2>2 DEF FewOf, OnePlace, InJob
  <2>6. FewOf(h)'
    BY <1>7, <2>1, <2>4, <2>5 DEF FewOf
  <2>7. OnePlace(h)'
    BY <1>3, <2>1, <2>3 DEF OnePlace
  <2>8. OnlyWhileAsked(h)'
    BY <1>3, <1>7, <2>1, <2>3 DEF OnlyWhileAsked, Somewhere, manVars
  <2> QED BY <2>6, <2>7, <2>8
<1>14. AsAsked'
  <2>1. AsAsked /\ curr \in Nodes /\ UNCHANGED <<phase, curr, asked>>
    BY <1>7 DEF DnsInv, DnsTyped, manVars
  <2>2. p \notin WrongPackets(w)
    BY <1>3, <1>9, <2>1 DEF AsAsked
  <2>3. \A d \in Nodes : ~Has(jobs'[d], WrongJobs(d))
    BY <1>8, <1>10, <2>1, <2>2 DEF AsAsked
  <2>4. \A v \in Wires : ~Has(link'[v], WrongPackets(v))
    BY <1>8, <1>9, <2>1 DEF AsAsked
  <2> QED BY <1>7, <1>12, <2>1, <2>3, <2>4, StillAsAsked DEF AsAsked
<1> QED BY <1>11, <1>12, <1>13, <1>14 DEF DnsInv, Placed

\* Of the copies that a node sends to all its ports one is the request.
LEMMA SendKeeps ==
  ASSUME DnsInv, NEW n \in Nodes, SendPktAllPorts(n)
  PROVE  DnsInv'
<1>1. PICK p : p = Head(jobs[n]).packet
  OBVIOUS
<1>2. /\ jobs[n] # <<>> /\ Head(jobs[n]).kind = "SEND"
      /\ jobs' = [jobs EXCEPT ![n] = Tail(jobs[n])]
      /\ link' = [w \in Wires |-> IF w[1] = n THEN Append(link[w], p) ELSE link[w]]
      /\ UNCHANGED <<manVars, cmdPipe, replyPipe, tableVars>>
  BY <1>1 DEF SendPktAllPorts, JobTurn, TheJob
<1>3. /\ Head(jobs[n]) \in JobsOf(n) /\ Head(jobs[n]) \notin WrongJobs(n)
      /\ jobs' = [m \in Nodes |-> jobs'[m]]
      /\ \A m \in Nodes : jobs'[m] \in Seq(JobsOf(m)) /\ ~Has(jobs'[m], WrongJobs(m))
      /\ \A h, m \in Nodes : (InJob(h, m)' => InJob(h, m)) /\ Few(jobs'[m], JobsFor(h, m))
      /\ \A h \in Nodes : Head(jobs[n]) \in JobsFor(h, n) => InJob(h, n) /\ ~InJob(h, n)'
  BY <1>2, JobTaken
<1>4. p \in PacketsOf(n)
  BY <1>1, <1>2, <1>3 DEF JobsOf, ReceivedBy
<1>5. \A w \in Wires : link[w] \in Seq(PacketsOf(w[1])) /\ w = <<w[1], w[2]>>
  <2>1. \A w \in Wires : w = <<w[1], w[2]>>
    BY DEF Wires
  <2> QED BY <2>1 DEF DnsInv, DnsTyped
<1>6. ASSUME NEW w \in Wires
      PROVE  /\ link'[w] \in Seq(PacketsOf(w[1]))
             /\ \A S : /\ Has(link'[w], S) <=> Has(link[w], S) \/ (w[1] = n /\ p \in S)
                       /\ Few(link[w], S) /\ (w[1] = n /\ p \in S => ~Has(link[w], S))
                            => Few(link'[w], S)
  <2>1. CASE w[1] # n
    BY <1>2, <1>5, <2>1
  <2>2. CASE w[1] = n
    <3>1. link'[w] = Append(link[w], p) /\ link[w] \in Seq(PacketsOf(n))
      BY <1>2, <1>5, <2>2
    <3>2. /\ link'[w] \in Seq(PacketsOf(n))
          /\ \A S : /\ Has(link'[w], S) <=> Has(link[w], S) \/ p \in S
                    /\ Few(link[w], S) /\ (p \in S => ~Has(link[w], S)) => Few(link'[w], S)
      BY <1>4, <3>1, HasAppend
    <3> QED BY <2>2, <3>2
  <2> QED BY <2>1, <2>2
<1>7. DnsTyped'
  BY <1>2, <1>3, <1>6 DEF DnsInv, DnsTyped, manVars
<1>8. Proved!TableInv' /\ Pairs' = Pairs
  BY <1>2, TableUntouched DEF DnsInv, tableVars
<1>9. ASSUME NEW h \in Nodes, NEW w \in Wires, w[1] = n, p \in PacketsFor(h, w)
      PROVE  Head(jobs[n]) \in JobsFor(h, n) /\ w = <<n, p.dst>>
  BY <1>1, <1>3, <1>5, <1>9 DEF PacketsFor, JobsFor
<1>10. ASSUME NEW h \in Nodes PROVE (FewOf(h) /\ OnePlace(h) /\ OnlyWhileAsked(h))'
  <2>1. FewOf(h) /\ OnePlace(h) /\ OnlyWhileAsked(h)
    BY DEF DnsInv, Placed
  <2>2. /\ InCmd(h)' <=> InCmd(h)
        /\ InReply(h)' <=> InReply(h)
        /\ \A m \in Nodes : InJob(h, m)' => InJob(h, m)
        /\ \A w \in Wires : InLink(h, w)' =>
             InLink(h, w) \/ (w = <<n, p.dst>> /\ InJob(h, n) /\ ~InJob(h, n)')
    BY <1>2, <1>3, <1>6, <1>9 DEF InCmd, InReply, InLink
  <2>3. \A w \in Wires : Few(link'[w], PacketsFor(h, w))
    BY <1>3, <1>6, <1>9, <2>1 DEF FewOf, OnePlace, InLink
  <2>4. FewOf(h)'
    BY <1>2, <1>3, <2>1, <2>3 DEF FewOf
  <2>5. OnePlace(h)'
    BY <2>1, <2>2 DEF OnePlace
  <2>6. OnlyWhileAsked(h)'
    BY <1>2, <2>1, <2>2 DEF OnlyWhileAsked, Somewhere, manVars
  <2> QED BY <2>4, <2>5, <2>6
<1>11. AsAsked'
  <2>1. AsAsked /\ curr \in Nodes /\ UNCHANGED <<phase, curr, asked>>
    BY <1>2 DEF DnsInv, DnsTyped, manVars
  <2>2. \A w \in Wires : w[1] = n => p \notin WrongPackets(w)
    BY <1>1, <1>3, <1>9, <2>1 DEF WrongPackets, WrongJobs
  <2>3. \A w \in Wires : ~Has(link'[w], WrongPackets(w))
    BY <1>6, <2>1, <2>2 DEF AsAsked
  <2> QED BY <1>2, <1>3, <1>8, <2>1, <2>3, StillAsAsked DEF AsAsked
<1> QED BY <1>7, <1>8, <1>10, <1>11 DEF DnsInv, Placed

-----------------------------------------------------------------------------
(* The manager                                                             *)

\* A command that asks for nothing is typed, or the user goes elsewhere.
LEMMA QuietKeeps ==
  ASSUME DnsInv,
         \/ \E h \in Consoles : ChangeHost(h)
         \/ \E x \in Names : RegisterName(x)
  PROVE  DnsInv'
<1>1. /\ phase = "ready" /\ phase' = "ready" /\ curr' \in Nodes
      /\ UNCHANGED <<replyPipe, link, jobs, tableVars>>
  BY DnsAssumption DEF ChangeHost, RegisterName, Typed, DnsInv, DnsTyped
<1>2. /\ \A h \in Nodes : Few(cmdPipe'[h], Asking) /\ (InCmd(h)' => InCmd(h))
      /\ cmdPipe' \in [Nodes -> Seq(Commands)]
  <2>1. CASE \E h \in Consoles : ChangeHost(h)
    BY <2>1 DEF ChangeHost, InCmd, DnsInv, DnsTyped, Placed, FewOf
  <2>2. ASSUME NEW x \in Names, RegisterName(x)
        PROVE  /\ \A h \in Nodes : Few(cmdPipe'[h], Asking) /\ (InCmd(h)' => InCmd(h))
               /\ cmdPipe' \in [Nodes -> Seq(Commands)]
    <3>1. PICK c : c = [cmd |-> "r", arg |-> x]
      OBVIOUS
    <3>2. c \in Commands /\ c \notin Asking
      BY <3>1 DEF Commands, Asking
    <3>3. /\ cmdPipe' = [cmdPipe EXCEPT ![curr] = Append(cmdPipe[curr], c)]
          /\ curr \in Nodes /\ cmdPipe[curr] \in Seq(Commands)
          /\ cmdPipe \in [Nodes -> Seq(Commands)]
      BY <2>2, <3>1 DEF RegisterName, SendCommand, DnsInv, DnsTyped
    <3>4. /\ cmdPipe'[curr] = Append(cmdPipe[curr], c)
          /\ \A h \in Nodes : h # curr => cmdPipe'[h] = cmdPipe[h]
      BY <3>3
    <3>5. /\ Append(cmdPipe[curr], c) \in Seq(Commands)
          /\ Has(cmdPipe'[curr], Asking) <=> Has(cmdPipe[curr], Asking)
          /\ Few(cmdPipe[curr], Asking) => Few(cmdPipe'[curr], Asking)
      BY <3>2, <3>3, <3>4, HasAppend
    <3>6. \A h \in Nodes : Few(cmdPipe[h], Asking)
      BY DEF DnsInv, Placed, FewOf
    <3> QED BY <3>3, <3>4, <3>5, <3>6 DEF InCmd
  <2> QED BY <2>1, <2>2
<1>3. DnsTyped'
  BY <1>1, <1>2 DEF DnsInv, DnsTyped
<1>4. Proved!TableInv' /\ Pairs' = Pairs
  BY <1>1, TableUntouched DEF DnsInv, tableVars
<1>5. \A h \in Nodes : ~Somewhere(h)'
  BY <1>1, <1>2, NothingAsked DEF DnsInv, Somewhere, InReply, InJob, InLink
<1>6. Placed'
  BY <1>1, <1>2, <1>5 DEF DnsInv, Placed, FewOf, OnePlace, OnlyWhileAsked, Somewhere
<1> QED BY <1>1, <1>3, <1>4, <1>5, <1>6, NoneWasWrong DEF DnsInv

LEMMA PingByNameKeeps ==
  ASSUME DnsInv, NEW x \in Names, PingByName(x)
  PROVE  DnsInv'
<1>1. PICK c : c = [cmd |-> "n", arg |-> x]
  OBVIOUS
<1>2. /\ phase = "ready" /\ phase' = "resolving" /\ curr' = curr /\ asked' = x
      /\ cmdPipe[curr] = <<>>
      /\ cmdPipe' = [cmdPipe EXCEPT ![curr] = Append(cmdPipe[curr], c)]
      /\ UNCHANGED <<replyPipe, link, jobs, tableVars>>
  BY <1>1 DEF PingByName, Typed, SendCommand
<1>3. c \in Commands /\ curr \in Nodes /\ cmdPipe[curr] \in Seq(Commands)
  BY <1>1 DEF Commands, DnsInv, DnsTyped
<1>4. /\ cmdPipe'[curr] = Append(cmdPipe[curr], c)
      /\ \A h \in Nodes : h # curr => cmdPipe'[h] = cmdPipe[h]
  BY <1>2, <1>3 DEF DnsInv, DnsTyped
<1>5. /\ Append(cmdPipe[curr], c) \in Seq(Commands)
      /\ \A S : /\ Has(cmdPipe'[curr], S) <=> Has(cmdPipe[curr], S) \/ c \in S
                /\ ~Has(cmdPipe[curr], S) /\ Few(cmdPipe[curr], S) => Few(cmdPipe'[curr], S)
  BY <1>3, <1>4, HasAppend
<1>6. \A S : ~Has(cmdPipe[curr], S) /\ Few(cmdPipe[curr], S)
  BY <1>2, HasNone
<1>7. DnsTyped'
  BY <1>2, <1>3, <1>5 DEF DnsInv, DnsTyped
<1>8. Proved!TableInv' /\ Pairs' = Pairs
  BY <1>2, TableUntouched DEF DnsInv, tableVars
<1>9. \A h \in Nodes : ~Somewhere(h) /\ FewOf(h)
  BY <1>2, NothingAsked DEF DnsInv, Placed
<1>10. /\ \A h \in Nodes : ~InReply(h)' /\ (InCmd(h)' => h = curr)
       /\ \A h, n \in Nodes : ~InJob(h, n)'
       /\ \A h \in Nodes : \A w \in Wires : ~InLink(h, w)'
  BY <1>2, <1>4, <1>9 DEF Somewhere, InCmd, InReply, InJob, InLink
<1>11. Placed'
  <2>1. \A h \in Nodes : FewOf(h)'
    BY <1>2, <1>4, <1>5, <1>6, <1>9 DEF FewOf
  <2>2. \A h \in Nodes : OnePlace(h)' /\ OnlyWhileAsked(h)'
    BY <1>2, <1>10 DEF OnePlace, OnlyWhileAsked, Somewhere
  <2> QED BY <2>1, <2>2 DEF Placed
<1>12. AsAsked'
  <2>1. c \notin WrongCommands'
    BY <1>1, <1>2 DEF WrongCommands, RightCommand
  <2>2. ~Has(cmdPipe'[curr'], WrongCommands')
    BY <1>2, <1>5, <1>6, <2>1
  <2>3. /\ \A n \in Nodes : WrongJobs(n)' \subseteq JobsFor(curr, n)
        /\ \A w \in Wires : WrongPackets(w)' \subseteq PacketsFor(curr, w)
    BY <1>2 DEF WrongJobs, WrongPackets
  <2>4. /\ \A n \in Nodes : ~Has(jobs[n], JobsFor(curr, n))'
        /\ \A w \in Wires : ~Has(link[w], PacketsFor(curr, w))'
        /\ replyPipe'[curr] = <<>>
    BY <1>2, <1>3, <1>10 DEF InJob, InLink, InReply
  <2>5. /\ \A n \in Nodes : ~Has(jobs'[n], WrongJobs(n)')
        /\ \A w \in Wires : ~Has(link'[w], WrongPackets(w)')
        /\ ~Has(replyPipe'[curr'], WrongTexts')
    BY <1>2, <2>3, <2>4, HasMore, HasNone
  <2> QED BY <2>2, <2>5 DEF AsAsked
<1> QED BY <1>7, <1>8, <1>11, <1>12 DEF DnsInv

\* The answer read is the only one, and the id in it has the name.
LEMMA GetPhysIdKeeps ==
  ASSUME DnsInv, GetPhysId
  PROVE  DnsInv'
<1>1. PICK id : id = PhysId
  OBVIOUS
<1>2. PICK c : c = [cmd |-> "p", arg |-> id]
  OBVIOUS
<1>3. /\ phase = "resolving" /\ replyPipe[curr] # <<>>
      /\ replyPipe' = [replyPipe EXCEPT ![curr] = <<>>]
      /\ UNCHANGED <<curr, asked, link, jobs, tableVars>>
      /\ \/ phase' = "ready" /\ cmdPipe' = cmdPipe
         \/ /\ id \notin {curr, NoId} /\ phase' = "pinging"
            /\ cmdPipe' = [cmdPipe EXCEPT ![curr] = Append(cmdPipe[curr], c)]
  BY <1>1, <1>2 DEF GetPhysId, ReadReply, SendCommand
<1>4. curr \in Nodes /\ replyPipe[curr] \in Seq(Texts) /\ cmdPipe[curr] \in Seq(Commands)
  BY DEF DnsInv, DnsTyped
<1>5. \A h \in Nodes : FewOf(h) /\ OnePlace(h) /\ OnlyWhileAsked(h)
  BY DEF DnsInv, Placed
<1>6. id \in Texts /\ Named(id)
  <2>1. Len(replyPipe[curr]) = 1
    <3>1. Len(replyPipe[curr]) \in Nat /\ Len(replyPipe[curr]) # 0
      BY <1>3, <1>4, EmptySeq, LenProperties
    <3>2. Len(replyPipe[curr]) <= 1
      BY <1>4, <1>5 DEF FewOf
    <3>3. \A k \in Nat : k # 0 /\ k <= 1 => k = 1
      OBVIOUS
    <3> QED BY <3>1, <3>2, <3>3, Zenon
  <2>2. id = Head(replyPipe[curr]) /\ id \in Texts
    BY <1>1, <1>3, <1>4, <2>1, HeadTailProperties DEF PhysId
  <2>3. id \notin WrongTexts
    BY <1>3, <1>4, <2>2, HasTail DEF DnsInv, AsAsked
  <2> QED BY <2>2, <2>3 DEF WrongTexts
<1>7. c \in Commands
  BY <1>2, <1>6 DEF Commands
<1>8. /\ replyPipe'[curr] = <<>> /\ \A h \in Nodes : h # curr => replyPipe'[h] = replyPipe[h]
      /\ replyPipe' \in [Nodes -> Seq(Texts)]
  BY <1>3, <1>4, EmptySeq DEF DnsInv, DnsTyped
<1>9. /\ \A h \in Nodes : /\ Few(cmdPipe'[h], Asking)
                          /\ InCmd(h)' => h = curr /\ phase' = "pinging"
      /\ cmdPipe' \in [Nodes -> Seq(Commands)]
      /\ Has(cmdPipe'[curr], WrongCommands') => c \in WrongCommands' /\ phase' = "pinging"
  <2>1. \A h \in Nodes : ~InCmd(h)
    BY <1>3, <1>4, <1>5 DEF OnePlace, OnlyWhileAsked, Somewhere, InReply
  <2>2. ~Has(cmdPipe[curr], WrongCommands')
    BY <1>4, <2>1 DEF InCmd, WrongCommands, Has
  <2>3. CASE cmdPipe' = cmdPipe
    BY <1>5, <2>1, <2>2, <2>3 DEF InCmd, FewOf, DnsInv, DnsTyped
  <2>4. CASE /\ phase' = "pinging"
             /\ cmdPipe' = [cmdPipe EXCEPT ![curr] = Append(cmdPipe[curr], c)]
    <3>1. /\ cmdPipe'[curr] = Append(cmdPipe[curr], c)
          /\ \A h \in Nodes : h # curr => cmdPipe'[h] = cmdPipe[h]
      BY <1>4, <2>4 DEF DnsInv, DnsTyped
    <3>2. /\ Append(cmdPipe[curr], c) \in Seq(Commands)
          /\ \A S : /\ Has(cmdPipe'[curr], S) <=> Has(cmdPipe[curr], S) \/ c \in S
                    /\ ~Has(cmdPipe[curr], S) /\ Few(cmdPipe[curr], S) => Few(cmdPipe'[curr], S)
      BY <1>4, <1>7, <3>1, HasAppend
    <3>3. cmdPipe' \in [Nodes -> Seq(Commands)]
      BY <1>4, <2>4, <3>2 DEF DnsInv, DnsTyped
    <3> QED BY <1>4, <1>5, <2>1, <2>2, <2>4, <3>1, <3>2, <3>3 DEF InCmd, FewOf
  <2> QED BY <1>3, <2>3, <2>4
<1>10. DnsTyped'
  BY <1>3, <1>8, <1>9 DEF DnsInv, DnsTyped
<1>11. Proved!TableInv' /\ Pairs' = Pairs
  BY <1>3, TableUntouched DEF DnsInv, tableVars
<1>12. /\ \A h \in Nodes : ~InReply(h)'
       /\ \A h, n \in Nodes : ~InJob(h, n)'
       /\ \A h \in Nodes : \A w \in Wires : ~InLink(h, w)'
  <2>1. /\ \A h \in Nodes : h # curr => ~InReply(h)
        /\ \A h, n \in Nodes : ~InJob(h, n)
        /\ \A h \in Nodes : \A w \in Wires : ~InLink(h, w)
    BY <1>3, <1>4, <1>5 DEF OnePlace, OnlyWhileAsked, Somewhere, InReply
  <2> QED BY <1>3, <1>8, <2>1 DEF InReply, InJob, InLink
<1>13. Placed'
  <2>1. \A h \in Nodes : Len(replyPipe'[h]) <= 1
    BY <1>5, <1>8, EmptySeq DEF FewOf
  <2>2. \A h \in Nodes : FewOf(h)'
    BY <1>3, <1>5, <1>9, <2>1 DEF FewOf
  <2>3. \A h \in Nodes : OnePlace(h)' /\ OnlyWhileAsked(h)'
    BY <1>3, <1>9, <1>12 DEF OnePlace, OnlyWhileAsked, Somewhere
  <2> QED BY <2>2, <2>3 DEF Placed
<1>14. AsAsked'
  <2>1. phase' = "pinging" => c \notin WrongCommands'
    BY <1>2, <1>3, <1>6, <1>11 DEF WrongCommands, RightCommand, Named, HasName
  <2>2. /\ \A n \in Nodes : WrongJobs(n)' \subseteq JobsFor(curr, n)
        /\ \A w \in Wires : WrongPackets(w)' \subseteq PacketsFor(curr, w)
    BY <1>3 DEF WrongJobs, WrongPackets
  <2>3. /\ \A n \in Nodes : ~Has(jobs'[n], JobsFor(curr, n))
        /\ \A w \in Wires : ~Has(link'[w], PacketsFor(curr, w))
    BY <1>4, <1>12 DEF InJob, InLink
  <2>4. /\ \A n \in Nodes : ~Has(jobs'[n], WrongJobs(n)')
        /\ \A w \in Wires : ~Has(link'[w], WrongPackets(w)')
    BY <2>2, <2>3, HasMore
  <2> QED BY <1>3, <1>9, <2>1, <2>4 DEF AsAsked
<1> QED BY <1>10, <1>11, <1>13, <1>14 DEF DnsInv

LEMMA GetPingReplyKeeps ==
  ASSUME DnsInv, GetPingReply
  PROVE  DnsInv'
<1>1. /\ phase = "pinging" /\ replyPipe[curr] # <<>> /\ phase' = "ready"
      /\ replyPipe' = [replyPipe EXCEPT ![curr] = <<>>]
      /\ UNCHANGED <<curr, cmdPipe, link, jobs, tableVars>>
  BY DEF GetPingReply, ReadReply
<1>2. curr \in Nodes /\ \A h \in Nodes : FewOf(h) /\ OnePlace(h) /\ OnlyWhileAsked(h)
  BY DEF DnsInv, DnsTyped, Placed
<1>3. /\ replyPipe'[curr] = <<>> /\ \A h \in Nodes : h # curr => replyPipe'[h] = replyPipe[h]
      /\ replyPipe' \in [Nodes -> Seq(Texts)]
  BY <1>1, <1>2, EmptySeq DEF DnsInv, DnsTyped
<1>4. DnsTyped'
  BY <1>1, <1>3 DEF DnsInv, DnsTyped
<1>5. Proved!TableInv' /\ Pairs' = Pairs
  BY <1>1, TableUntouched DEF DnsInv, tableVars
<1>6. \A h \in Nodes : ~Somewhere(h)'
  <2>1. /\ \A h \in Nodes : ~InCmd(h) /\ (h # curr => ~InReply(h))
        /\ \A h, n \in Nodes : ~InJob(h, n)
        /\ \A h \in Nodes : \A w \in Wires : ~InLink(h, w)
    BY <1>1, <1>2 DEF OnePlace, OnlyWhileAsked, Somewhere, InReply
  <2> QED BY <1>1, <1>3, <2>1 DEF Somewhere, InCmd, InReply, InJob, InLink
<1>7. Placed'
  <2>1. \A h \in Nodes : Len(replyPipe'[h]) <= 1
    BY <1>2, <1>3, EmptySeq DEF FewOf
  <2>2. \A h \in Nodes : FewOf(h)'
    BY <1>1, <1>2, <2>1 DEF FewOf
  <2> QED BY <1>6, <2>2 DEF Placed, OnePlace, OnlyWhileAsked, Somewhere
<1> QED BY <1>1, <1>2, <1>4, <1>5, <1>6, <1>7, NoneWasWrong DEF DnsInv

-----------------------------------------------------------------------------
(* The theorems                                                            *)

LEMMA InitKept ==
  ASSUME Init PROVE DnsInv
<1>1. Proved!TableInv
  BY FirstTable DEF Init
<1>2. DnsTyped
  BY DnsAssumption, EmptySeq DEF Init, DnsTyped
<1>3. \A h \in Nodes : ~Somewhere(h)
  BY HasNone DEF Init, Somewhere, InCmd, InReply, InJob, InLink
<1>4. \A h \in Nodes : FewOf(h)
  BY HasNone, EmptySeq DEF Init, FewOf
<1>5. Placed
  BY <1>3, <1>4 DEF Placed, OnePlace, OnlyWhileAsked, Somewhere
<1>6. AsAsked
  BY <1>2, <1>3, NoneIsWrong DEF DnsTyped
<1> QED BY <1>1, <1>2, <1>5, <1>6 DEF DnsInv

LEMMA NextKept ==
  ASSUME DnsInv, [Next]_vars PROVE DnsInv'
<1>1. CASE UNCHANGED vars
  BY <1>1, IdleKeeps DEF vars
<1>2. CASE ManStep
  BY <1>2, QuietKeeps, PingByNameKeeps, GetPhysIdKeeps, GetPingReplyKeeps DEF ManStep
<1>3. ASSUME NEW n \in Nodes, Abort(n) PROVE DnsInv'
  BY <1>3, IdleKeeps DEF Abort
<1>4. ASSUME NEW n \in Nodes, HostStep(n) PROVE DnsInv'
  <2>1. CASE NoCommand(n) \/ ReadNothing(n) \/ NoJob(n)
    BY <2>1, IdleKeeps DEF NoCommand, ReadNothing, NoJob
  <2>2. CASE PingAnswered(n) \/ RegisterDomainName(n) \/ ReplyPhysId(n) \/ ReplyForgotten(n)
    BY <2>2, JobEndsKeeps
  <2> QED BY <1>4, <2>1, <2>2, GetCommandKeeps, ReadPortKeeps, SendKeeps, ReqPhysIdKeeps,
             SearchBehindKeeps DEF HostStep
<1> QED BY <1>1, <1>2, <1>3, <1>4 DEF Next

LEMMA AtMostOne ==
  ASSUME NEW S, \A x, y \in S : x = y
  PROVE  Cardinality(S) = IF S = {} THEN 0 ELSE 1
<1>1. CASE S = {}
  BY <1>1, FS_EmptySet
<1>2. CASE S # {}
  <2>1. PICK x \in S : S = {x}
    BY <1>2
  <2> QED BY <1>2, <2>1, FS_Singleton
<1> QED BY <1>1, <1>2

\* The places of the property are those of the invariant.
LEMMA CountedOnce ==
  ASSUME DnsInv PROVE OneRequestAtATime
<1> SUFFICES ASSUME NEW h \in Nodes
             PROVE  Outstanding(h) <= IF h = curr /\ phase # "ready" THEN 1 ELSE 0
  BY DEF OneRequestAtATime
<1>1. FewOf(h) /\ OnePlace(h) /\ OnlyWhileAsked(h)
  BY DEF DnsInv, Placed
<1>2. /\ \A n \in Nodes : \A i \in DOMAIN jobs[n] : jobs[n][i] \in JobsOf(n)
      /\ \A w \in Wires : \A i \in DOMAIN link[w] : link[w][i] \in PacketsOf(w[1])
      /\ \A i \in DOMAIN cmdPipe[h] : cmdPipe[h][i] \in Commands
      /\ replyPipe[h] \in Seq(Texts)
  BY ElementOfSeq, LenProperties DEF DnsInv, DnsTyped
<1>3. /\ \A x, y \in InJobs(h) : x = y
      /\ InJobs(h) # {} => \E n \in Nodes : InJob(h, n)
  <2>1. ASSUME NEW x \in InJobs(h)
        PROVE  \E n \in Nodes : /\ \E i \in DOMAIN jobs[n] :
                                     x = <<n, i>> /\ jobs[n][i] \in JobsFor(h, n)
                                /\ InJob(h, n)
    BY <1>2 DEF InJobs, JobsFor, InJob, Has
  <2>2. ASSUME NEW x \in InJobs(h), NEW y \in InJobs(h) PROVE x = y
    <3>1. PICK n \in Nodes : /\ \E i \in DOMAIN jobs[n] :
                                  x = <<n, i>> /\ jobs[n][i] \in JobsFor(h, n)
                             /\ InJob(h, n)
      BY <2>1
    <3>2. PICK m \in Nodes : /\ \E i \in DOMAIN jobs[m] :
                                  y = <<m, i>> /\ jobs[m][i] \in JobsFor(h, m)
                             /\ InJob(h, m)
      BY <2>1
    <3>3. m = n
      BY <1>1, <3>1, <3>2 DEF OnePlace
    <3> QED BY <1>1, <3>1, <3>2, <3>3 DEF FewOf, Few
  <2> QED BY <2>1, <2>2
<1>4. /\ \A x, y \in InLinks(h) : x = y
      /\ InLinks(h) # {} => \E w \in Wires : InLink(h, w)
  <2>1. ASSUME NEW x \in InLinks(h)
        PROVE  \E w \in Wires : /\ \E i \in DOMAIN link[w] :
                                     x = <<w, i>> /\ link[w][i] \in PacketsFor(h, w)
                                /\ InLink(h, w)
    BY <1>2 DEF InLinks, PacketsFor, InLink, Has
  <2>2. ASSUME NEW x \in InLinks(h), NEW y \in InLinks(h) PROVE x = y
    <3>1. PICK w \in Wires : /\ \E i \in DOMAIN link[w] :
                                  x = <<w, i>> /\ link[w][i] \in PacketsFor(h, w)
                             /\ InLink(h, w)
      BY <2>1
    <3>2. PICK v \in Wires : /\ \E i \in DOMAIN link[v] :
                                  y = <<v, i>> /\ link[v][i] \in PacketsFor(h, v)
                             /\ InLink(h, v)
      BY <2>1
    <3>3. v = w
      BY <1>1, <3>1, <3>2 DEF OnePlace
    <3> QED BY <1>1, <3>1, <3>2, <3>3 DEF FewOf, Few
  <2> QED BY <2>1, <2>2
<1>5. /\ \A x, y \in InCommand(h) : x = y
      /\ InCommand(h) # {} => InCmd(h)
  BY <1>1, <1>2 DEF InCommand, InCmd, Has, Asking, FewOf, Few
<1>6. Len(replyPipe[h]) = IF InReply(h) THEN 1 ELSE 0
  BY <1>1, <1>2, EmptySeq, LenProperties DEF FewOf, InReply
<1>7. /\ Cardinality(InJobs(h)) = IF InJobs(h) = {} THEN 0 ELSE 1
      /\ Cardinality(InLinks(h)) = IF InLinks(h) = {} THEN 0 ELSE 1
      /\ Cardinality(InCommand(h)) = IF InCommand(h) = {} THEN 0 ELSE 1
  BY <1>3, <1>4, <1>5, AtMostOne
<1>8. Outstanding(h) \in Nat /\ Outstanding(h) <= IF Somewhere(h) THEN 1 ELSE 0
  BY <1>1, <1>3, <1>4, <1>5, <1>6, <1>7 DEF Outstanding, OnePlace, Somewhere
<1> QED BY <1>1, <1>8 DEF OnlyWhileAsked

LEMMA PingedRight ==
  ASSUME DnsInv PROVE PingsTheNamedHost
<1> SUFFICES ASSUME NEW n \in Nodes, NEW i \in DOMAIN cmdPipe[n], cmdPipe[n][i].cmd = "p"
             PROVE  HasName(cmdPipe[n][i].arg)
  BY DEF PingsTheNamedHost, HasName, Pairs, Table!ChancePairs, Table!ByChance, Table!Places,
         Proved!ChancePairs, Proved!ByChance, Proved!Places
<1>1. cmdPipe[n][i] \in Asking
  BY ElementOfSeq, LenProperties DEF DnsInv, DnsTyped, Asking
<1>2. n = curr
  BY <1>1 DEF DnsInv, Placed, OnlyWhileAsked, Somewhere, InCmd, Has
<1>3. cmdPipe[n][i] \notin WrongCommands
  BY <1>2 DEF DnsInv, AsAsked, Has
<1> QED BY <1>1, <1>3 DEF WrongCommands, RightCommand

\* A ping by name, two requests one after the other through three processes
\* (man.c:246-270), is in one place at a time, with any number of hosts, and
\* leaves no answer behind for the next command.
THEOREM OneRequest == Spec => []OneRequestAtATime
<1>1. Init => DnsInv
  BY InitKept
<1>2. DnsInv /\ [Next]_vars => DnsInv'
  BY NextKept
<1>3. DnsInv => OneRequestAtATime
  BY CountedOnce
<1> QED BY <1>1, <1>2, <1>3, PTL DEF Spec

\* The host that man.c:254-264 pings has registered what the server read as the
\* name asked for, or was in the memory of its table with it: with any number of
\* hosts and names, whatever packets the late reads lose, whatever becomes of the
\* freed job, and whether or not a host or the server ends on the way.
THEOREM PingsRight == Spec => []PingsTheNamedHost
<1>1. Init => DnsInv
  BY InitKept
<1>2. DnsInv /\ [Next]_vars => DnsInv'
  BY NextKept
<1>3. DnsInv => PingsTheNamedHost
  BY PingedRight
<1> QED BY <1>1, <1>2, <1>3, PTL DEF Spec
=============================================================================
