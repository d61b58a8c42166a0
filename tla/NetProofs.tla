----------------------------- MODULE NetProofs -----------------------------
(***************************************************************************)
(* Proofs about what net_init makes of a configuration (NetConfig), for    *)
(* every configuration: whose port is which end of which link, and that    *)
(* the nodes are in the topology the other modules take for granted.  Then *)
(* about the links it leads over sockets (Sockets): no packet overtakes    *)
(* another once its connection has been accepted, and none comes twice.    *)
(***************************************************************************)
EXTENDS NetConfig, Sockets, SequenceTheorems, FiniteSetTheorems, TLAPS

-----------------------------------------------------------------------------
(* Lists in their order                                                    *)

Growing(f) == \A i, j \in DOMAIN f : i < j => f[i] < f[j]

Onto(f, S) == \A s \in S : \E i \in DOMAIN f : f[i] = s

\* How many members of S there are up to s.
Rank(S, s) == Cardinality({t \in S : t <= s})

\* A member of a set of numbers is known by its rank.
LEMMA RankGrows ==
  ASSUME NEW S \in SUBSET Nat, IsFiniteSet(S), NEW s \in S
  PROVE  /\ Rank(S, s) \in 1..Cardinality(S)
         /\ \A t \in S : s < t => Rank(S, s) < Rank(S, t)
<1> DEFINE Up(t) == {u \in S : u <= t}
<1>1. \A t \in S : /\ IsFiniteSet(Up(t))
                   /\ Rank(S, t) \in Nat /\ Rank(S, t) <= Cardinality(S)
  BY FS_Subset, FS_CardinalityType DEF Rank
<1>2. Rank(S, s) # 0
  <2>1. s \in Up(s)
    OBVIOUS
  <2> QED BY <2>1, <1>1, FS_EmptySet DEF Rank
<1>3. ASSUME NEW t \in S, s < t PROVE Rank(S, s) < Rank(S, t)
  <2>1. Up(s) \in SUBSET Up(t) /\ t \in Up(t) /\ t \notin Up(s)
    <3>1. s \in Nat /\ t \in Nat /\ \A u \in S : u \in Nat
      OBVIOUS
    <3>2. \A u \in S : u <= s => u <= t
      BY <1>3, <3>1
    <3>3. ~(t <= s) /\ t <= t
      BY <1>3, <3>1
    <3> QED BY <3>2, <3>3
  <2>2. /\ Cardinality(Up(s)) <= Cardinality(Up(t))
        /\ Cardinality(Up(s)) # Cardinality(Up(t))
    BY <1>1, <2>1, FS_Subset
  <2> QED BY <2>2, <1>1 DEF Rank
<1>4. Cardinality(S) \in Nat
  BY FS_CardinalityType
<1>5. Rank(S, s) \in 1..Cardinality(S)
  <2>1. Rank(S, s) \in Nat /\ Rank(S, s) <= Cardinality(S)
    BY <1>1
  <2> HIDE DEF Up
  <2> QED BY <2>1, <1>2, <1>4
<1> QED BY <1>3, <1>5

\* So each rank is that of a member.
LEMMA RankedIs ==
  ASSUME NEW S \in SUBSET Nat, IsFiniteSet(S), NEW k \in 1..Cardinality(S)
  PROVE  \E s \in S : Rank(S, s) = k
<1> DEFINE r == [s \in S |-> Rank(S, s)]
<1>1. Cardinality(S) \in Nat
  BY FS_CardinalityType
<1>2. r \in Injection(S, 1..Cardinality(S))
  <2>1. r \in [S -> 1..Cardinality(S)]
    BY RankGrows
  <2>2. ASSUME NEW s \in S, NEW t \in S, r[s] = r[t] PROVE s = t
    <3>1. s \in Nat /\ t \in Nat /\ r[s] \in 1..Cardinality(S)
      BY <2>1
    <3>2. ~(s < t) /\ ~(t < s)
      BY <2>2, <3>1, <1>1, RankGrows
    <3> QED BY <3>1, <3>2
  <2> QED BY <2>1, <2>2 DEF Injection, IsInjective
<1>3. IsFiniteSet(1..Cardinality(S)) /\ Cardinality(1..Cardinality(S)) = Cardinality(S)
  BY <1>1, FS_Interval
<1>4. r \in Surjection(S, 1..Cardinality(S))
  BY <1>2, <1>3, FS_Injection
<1> QED BY <1>4 DEF Surjection

\* A growing sequence of all members of a set has each at its rank.
LEMMA GrowingIsRanked ==
  ASSUME NEW S \in SUBSET Nat, IsFiniteSet(S), NEW n \in Nat,
         NEW f \in [1..n -> S], Growing(f), Onto(f, S)
  PROVE  /\ n = Cardinality(S)
         /\ \A k \in 1..n : Rank(S, f[k]) = k
<1>1. \A i, j \in 1..n : (f[i] < f[j] <=> i < j) /\ (f[i] = f[j] <=> i = j)
  <2> SUFFICES ASSUME NEW i \in 1..n, NEW j \in 1..n
               PROVE  (f[i] < f[j] <=> i < j) /\ (f[i] = f[j] <=> i = j)
    OBVIOUS
  <2>1. f[i] \in Nat /\ f[j] \in Nat
    OBVIOUS
  <2>2. (i < j => f[i] < f[j]) /\ (j < i => f[j] < f[i])
    BY DEF Growing
  <2> QED BY <2>1, <2>2
<1>2. ASSUME NEW T \in SUBSET S, NEW k \in 0..n,
             \A s \in S : s \in T <=> \E i \in 1..k : f[i] = s
      PROVE  Cardinality(T) = k
  <2> DEFINE g == [i \in 1..k |-> f[i]]
  <2>1. g \in [1..k -> T]
    <3>1. \A i \in 1..k : i \in 1..n /\ f[i] \in S
      OBVIOUS
    <3> QED BY <1>2, <3>1
  <2>2. IsInjective(g)
    BY <1>1 DEF IsInjective
  <2>3. \A t \in T : \E i \in 1..k : g[i] = t
    BY <1>2
  <2>4. ExistsBijection(1..k, T)
    BY <2>1, <2>2, <2>3 DEF ExistsBijection, Bijection, Injection, Surjection
  <2> QED BY <2>4, FS_CountingElements
<1>3. n = Cardinality(S)
  BY <1>2 DEF Onto
<1>4. ASSUME NEW k \in 1..n PROVE Rank(S, f[k]) = k
  <2> DEFINE T == {t \in S : t <= f[k]}
  <2>1. ASSUME NEW s \in S PROVE s \in T <=> \E i \in 1..k : f[i] = s
    <3>1. PICK i \in 1..n : f[i] = s
      BY DEF Onto
    <3>2. f[i] \in Nat /\ f[k] \in Nat
      OBVIOUS
    <3>3. f[i] <= f[k] <=> i <= k
      BY <1>1, <3>2
    <3>4. \A j \in 1..k : j \in 1..n /\ (f[j] = s => j = i)
      BY <1>1, <3>1
    <3> QED BY <3>1, <3>3, <3>4
  <2>2. k \in 0..n
    OBVIOUS
  <2>3. Cardinality(T) = k
    BY <1>2, <2>1, <2>2
  <2> QED BY <2>3 DEF Rank
<1> QED BY <1>3, <1>4

\* Sorted(S) is a growing sequence of all members.
LEMMA SortedIs ==
  ASSUME NEW S \in SUBSET Nat, IsFiniteSet(S)
  PROVE  /\ Cardinality(S) \in Nat
         /\ Sorted(S) \in [1..Cardinality(S) -> S]
         /\ Growing(Sorted(S)) /\ Onto(Sorted(S), S)
<1> DEFINE n == Cardinality(S)
           f == [k \in 1..n |-> CHOOSE s \in S : Rank(S, s) = k]
           Is(g) == \A i, j \in DOMAIN g : i < j => g[i] < g[j]
<1>1. n \in Nat
  BY FS_CardinalityType
<1>2. \A k \in 1..n : f[k] \in S /\ Rank(S, f[k]) = k
  BY RankedIs
<1>3. f \in [1..n -> S]
  BY <1>2
<1>4. Is(f)
  <2> SUFFICES ASSUME NEW i \in 1..n, NEW j \in 1..n, i < j PROVE f[i] < f[j]
    OBVIOUS
  <2>1. /\ f[i] \in S /\ f[j] \in S /\ f[i] \in Nat /\ f[j] \in Nat
        /\ Rank(S, f[i]) = i /\ Rank(S, f[j]) = j
    BY <1>2
  <2> HIDE DEF f
  <2>2. f[i] # f[j]
    BY <2>1
  <2>3. ~(f[j] < f[i])
    BY <2>1, <1>1, RankGrows
  <2> QED BY <2>1, <2>2, <2>3
<1>5. Sorted(S) \in [1..n -> S] /\ Is(Sorted(S))
  <2> HIDE DEF f, Is
  <2>1. \E g \in [1..n -> S] : Is(g)
    BY <1>3, <1>4
  <2>2. Sorted(S) = CHOOSE g \in [1..n -> S] : Is(g)
    BY DEF Sorted, Is
  <2> QED BY <2>1, <2>2
<1>6. Onto(Sorted(S), S)
  <2> DEFINE g == Sorted(S)
  <2> HIDE DEF f
  <2>1. g \in Injection(1..n, S)
    <3> SUFFICES ASSUME NEW i \in 1..n, NEW j \in 1..n, g[i] = g[j] PROVE i = j
      BY <1>5 DEF Injection, IsInjective
    <3>1. /\ g[i] \in Nat /\ g[j] \in Nat
          /\ i < j => g[i] < g[j]
          /\ j < i => g[j] < g[i]
      BY <1>5
    <3> QED BY <3>1
  <2>2. Cardinality(1..n) = n
    BY <1>1, FS_Interval
  <2>3. g \in Surjection(1..n, S)
    BY <2>1, <2>2, FS_Injection
  <2> QED BY <2>3, <1>5 DEF Surjection, Onto
<1> QED BY <1>1, <1>5, <1>6 DEF Growing

\* And it is the only one.
LEMMA SortedUnique ==
  ASSUME NEW S \in SUBSET Nat, IsFiniteSet(S), NEW n \in Nat,
         NEW f \in [1..n -> S], Growing(f), Onto(f, S)
  PROVE  f = Sorted(S)
<1>1. /\ Sorted(S) \in [1..Cardinality(S) -> S] /\ Cardinality(S) \in Nat
      /\ Growing(Sorted(S)) /\ Onto(Sorted(S), S)
  BY SortedIs
<1>2. n = Cardinality(S)
  BY GrowingIsRanked
<1>3. ASSUME NEW k \in 1..n PROVE f[k] = Sorted(S)[k]
  <2> DEFINE s == f[k]
             t == Sorted(S)[k]
  <2>1. s \in S /\ t \in S /\ s \in Nat /\ t \in Nat
    BY <1>1, <1>2
  <2>2. Rank(S, s) = k /\ Rank(S, t) = k
    BY <1>1, <1>2, GrowingIsRanked
  <2>3. ~(s < t) /\ ~(t < s)
    BY <2>1, <2>2, RankGrows
  <2> QED BY <2>1, <2>3
<1> QED BY <1>1, <1>2, <1>3

\* A function on 1..n is a sequence of n items.
LEMMA FunctionIsSeq ==
  ASSUME NEW T, NEW n \in Nat, NEW f \in [1..n -> T]
  PROVE  f \in Seq(T) /\ Len(f) = n /\ DOMAIN f = 1..n
<1>1. f \in Seq(T)
  BY SeqDef
<1>2. Len(f) \in Nat /\ DOMAIN f = 1..Len(f) /\ DOMAIN f = 1..n
  BY <1>1, LenProperties
<1> QED BY <1>1, <1>2

\* What a loop over a list leaves when it pushes the items at some places.
LEMMA PushedAt ==
  ASSUME NEW T, NEW list \in Seq(T), NEW S \in SUBSET (DOMAIN list)
  PROVE  \E c \in Nat : \E pos \in [1..c -> S] :
           /\ c = Cardinality(S)
           /\ Pushed(At(list, S)) = [k \in 1..c |-> list[pos[k]]]
           /\ \A i, j \in 1..c : i < j => pos[j] < pos[i]
           /\ Onto(pos, S)
<1> DEFINE c == Cardinality(S)
           f == Sorted(S)
           pos == [k \in 1..c |-> f[c + 1 - k]]
<1>1. /\ Len(list) \in Nat /\ DOMAIN list = 1..Len(list)
      /\ list \in [1..Len(list) -> T]
  BY LenProperties
<1>2. S \in SUBSET Nat /\ IsFiniteSet(S)
  <2>1. IsFiniteSet(1..Len(list)) /\ S \in SUBSET (1..Len(list))
    BY <1>1, FS_Interval
  <2> QED BY <2>1, <1>1, FS_Subset
<1>3. /\ c \in Nat /\ f \in [1..c -> S]
      /\ \A i, j \in 1..c : i < j => f[i] < f[j]
      /\ \A s \in S : \E i \in 1..c : f[i] = s
  BY <1>2, SortedIs DEF Growing, Onto
<1>4. At(list, S) \in [1..c -> T]
  BY <1>1, <1>3 DEF At
<1>5. Len(At(list, S)) = c
  BY <1>3, <1>4, FunctionIsSeq
<1>6. \A k \in 1..c : c + 1 - k \in 1..c /\ (c - k) + 1 = c + 1 - k
  BY <1>3
<1>7. pos \in [1..c -> S]
  BY <1>3, <1>6
<1>8. Pushed(At(list, S)) = [k \in 1..c |-> list[pos[k]]]
  <2>1. Pushed(At(list, S)) = [k \in 1..c |-> At(list, S)[(c - k) + 1]]
    BY <1>5 DEF Pushed, Reverse
  <2>2. \A k \in 1..c : At(list, S)[(c - k) + 1] = list[pos[k]]
    BY <1>6 DEF At
  <2> QED BY <2>1, <2>2
<1>9. \A i, j \in 1..c : i < j => pos[j] < pos[i]
  <2> SUFFICES ASSUME NEW i \in 1..c, NEW j \in 1..c, i < j PROVE pos[j] < pos[i]
    OBVIOUS
  <2>1. c + 1 - j < c + 1 - i /\ c + 1 - j \in 1..c /\ c + 1 - i \in 1..c
    BY <1>3
  <2> QED BY <2>1, <1>3
<1>10. Onto(pos, S)
  <2> SUFFICES ASSUME NEW s \in S PROVE \E k \in 1..c : pos[k] = s
    BY DEF Onto
  <2>1. PICK i \in 1..c : f[i] = s
    BY <1>3
  <2>2. c + 1 - i \in 1..c /\ c + 1 - (c + 1 - i) = i
    BY <1>3
  <2> QED BY <2>1, <2>2
<1> HIDE DEF c, pos
<1> QED BY <1>3, <1>7, <1>8, <1>9, <1>10 DEF c

-----------------------------------------------------------------------------
(* The lists of a configuration, and the inductive invariant               *)

\* The ports that are made for a link.
FirstEnd(l)  == PipePort(l, Links[l].node0, "01", "10")
SecondEnd(l) == PipePort(l, Links[l].node1, "10", "01")

SocketPort(l, m) ==
  [link |-> l, type |-> "SOCKET", pipe_host_id |-> m,
   sock_host_id |-> SwitchHostId, send |-> Null, recv |-> Null]

PipeLinks   == {l \in DOMAIN Links : ~IsSocket(l)}
SocketLinks == {l \in DOMAIN Links : IsSocket(l)}

LinkPorts ==
  {FirstEnd(l) : l \in PipeLinks} \cup {SecondEnd(l) : l \in PipeLinks}
  \cup {SocketPort(e[1], e[2]) : e \in SocketLinks \X Memory}

\* The links whose ports are made.
Made == IF portList = <<>> THEN 0 ELSE portList[1].link

\* The ports of later links come first, and of a pipe link's the one of node0;
\* none is there twice, and none is missing.
PortListIs ==
  /\ portList \in Seq(LinkPorts)
  /\ Made \in 0..Len(Links)
  /\ \A i \in DOMAIN portList : portList[i].link <= Made
  /\ \A i, j \in DOMAIN portList :
       i < j => \/ portList[j].link < portList[i].link
                \/ \E l \in PipeLinks : /\ portList[i] = FirstEnd(l)
                                        /\ portList[j] = SecondEnd(l)
  /\ \A l \in 1..Made :
       IF IsSocket(l) THEN \E i \in DOMAIN portList : portList[i].link = l
       ELSE \E i, j \in DOMAIN portList : /\ portList[i] = FirstEnd(l)
                                          /\ portList[j] = SecondEnd(l)

\* The ports are all made before the hosts are listed and a process is forked, so
\* a node takes its own from a list that changes no more.
NetInv ==
  /\ config \in Configs
  /\ nodeList = Pushed(config.nodes)
  /\ PortListIs
  /\ manList # <<>> => Made = Len(Links)
  /\ FirstHostIsCurrent
  /\ forked # {} => manList # <<>>
  /\ ports = [n \in NodeIds |-> ports[n]]
  /\ \A n \in NodeIds :
       ports[n] # Null => n \in forked /\ ports[n] = NetGetPortList(n)

LinkType == [type : {"PIPE"}, node0 : Nat, node1 : Nat] \cup [type : {"SOCKET"}]
NodeType == [id : Nat, type : {"HOST", "SWITCH"}]

\* What a configuration is.
LEMMA ConfigIs ==
  ASSUME config \in Configs
  PROVE  /\ config.nodes \in Seq(NodeType) /\ Len(config.nodes) \in Nat
         /\ config.nodes \in [1..Len(config.nodes) -> NodeType]
         /\ DOMAIN config.nodes = 1..Len(config.nodes)
         /\ \E i \in DOMAIN config.nodes : config.nodes[i].type = "HOST"
         /\ NodeIds \subseteq Nat
         /\ Links \in Seq(LinkType) /\ Len(Links) \in Nat \ {0}
         /\ DOMAIN Links = 1..Len(Links)
         /\ \A l \in PipeLinks : /\ Links[l].node0 \in Nat /\ Links[l].node1 \in Nat
                                 /\ Links[l].node0 # Links[l].node1
<1>1. /\ config.nodes \in Seq(NodeType) /\ Links \in Seq(LinkType)
      /\ \E i \in DOMAIN config.nodes : config.nodes[i].type = "HOST"
      /\ Links # <<>>
      /\ \A l \in DOMAIN Links :
           Links[l].type = "PIPE" => Links[l].node0 # Links[l].node1
  BY ConfigsAssumption DEF NodeType, LinkType, Links
<1>2. /\ Len(config.nodes) \in Nat /\ DOMAIN config.nodes = 1..Len(config.nodes)
      /\ config.nodes \in [1..Len(config.nodes) -> NodeType]
  BY <1>1, LenProperties
<1>3. Len(Links) \in Nat /\ DOMAIN Links = 1..Len(Links)
      /\ Links \in [1..Len(Links) -> LinkType]
  BY <1>1, LenProperties
<1>4. Len(Links) # 0
  BY <1>1, EmptySeq
<1>5. NodeIds \subseteq Nat
  BY <1>2 DEF NodeIds, NodeType
<1>6. ASSUME NEW l \in PipeLinks
      PROVE  /\ Links[l].node0 \in Nat /\ Links[l].node1 \in Nat
             /\ Links[l].node0 # Links[l].node1
  <2>1. Links[l] \in LinkType /\ Links[l].type # "SOCKET" /\ l \in DOMAIN Links
    BY <1>3, <1>6 DEF PipeLinks, IsSocket
  <2>2. Links[l].type = "PIPE" /\ Links[l].node0 \in Nat /\ Links[l].node1 \in Nat
    BY <2>1 DEF LinkType
  <2> QED BY <2>1, <2>2, <1>1
<1> QED BY <1>1, <1>2, <1>3, <1>4, <1>5, <1>6

\* What a port in the list is.
LEMMA LinkPortIs ==
  ASSUME NEW p \in LinkPorts
  PROVE  \/ \E l \in PipeLinks : p \in {FirstEnd(l), SecondEnd(l)} /\ p.link = l
                                 /\ p.type = "PIPE" /\ p.sock_host_id = Null
         \/ /\ p.link \in SocketLinks /\ p.type = "SOCKET"
            /\ p.sock_host_id = SwitchHostId
<1>1. CASE \E l \in PipeLinks : p \in {FirstEnd(l), SecondEnd(l)}
  BY <1>1 DEF FirstEnd, SecondEnd, PipePort
<1>2. CASE \E e \in SocketLinks \X Memory : p = SocketPort(e[1], e[2])
  BY <1>2 DEF SocketPort
<1> QED BY <1>1, <1>2 DEF LinkPorts

-----------------------------------------------------------------------------
(* The steps                                                               *)

\* Nothing is there at first.
LEMMA NetInvInit ==
  ASSUME NetInit
  PROVE  NetInv
<1>1. config \in Configs
  BY DEF NetInit
<1>2. PortListIs
  <2>1. portList = <<>> /\ portList \in Seq(LinkPorts)
    BY EmptySeq DEF NetInit
  <2>2. Made = 0 /\ DOMAIN portList = {}
    BY <2>1 DEF Made
  <2> QED BY <2>1, <2>2, <1>1, ConfigIs DEF PortListIs
<1> QED BY <1>1, <1>2 DEF NetInv, NetInit, FirstHostIsCurrent

\* The ports of the next link are put in front.
LEMMA MorePorts ==
  ASSUME config \in Configs, PortListIs, NEW l \in DOMAIN Links, NextLink(l),
         NEW new \in Seq(LinkPorts), portList' = new \o portList, UNCHANGED config,
         \/ IsSocket(l) /\ \E m \in Memory : new = <<SocketPort(l, m)>>
         \/ ~IsSocket(l) /\ new = <<FirstEnd(l), SecondEnd(l)>>
  PROVE  PortListIs'
<1> DEFINE n == Len(new)
           N == Len(portList)
           list == new \o portList
<1>1. UNCHANGED <<Links, SwitchHostId, LinkPorts, PipeLinks>>
      /\ (\A k : IsSocket(k)' = IsSocket(k) /\ FirstEnd(k)' = FirstEnd(k)
                 /\ SecondEnd(k)' = SecondEnd(k))
  BY DEF Links, SwitchHostId, LinkPorts, PipeLinks, SocketLinks, IsSocket, FirstEnd,
         SecondEnd, SocketPort
<1>2. /\ portList \in Seq(LinkPorts) /\ N \in Nat /\ DOMAIN portList = 1..N
      /\ n \in {1, 2} /\ DOMAIN new = 1..n
      /\ \A i \in 1..n : new[i].link = l
      /\ IsSocket(l) => n = 1
      /\ ~IsSocket(l) => n = 2 /\ new[1] = FirstEnd(l) /\ new[2] = SecondEnd(l)
  <2>1. portList \in Seq(LinkPorts)
    BY DEF PortListIs
  <2>2. CASE IsSocket(l)
    <3>1. PICK m \in Memory : new = <<SocketPort(l, m)>>
      BY <2>2
    <3>2. n = 1 /\ new[1] = SocketPort(l, m)
      BY <3>1
    <3> QED BY <2>1, <2>2, <3>2, LenProperties DEF SocketPort
  <2>3. CASE ~IsSocket(l)
    <3>1. n = 2 /\ new[1] = FirstEnd(l) /\ new[2] = SecondEnd(l)
      BY <2>3
    <3>2. DOMAIN new = 1..n
      BY LenProperties
    <3> QED BY <2>1, <2>3, <3>1, <3>2, LenProperties DEF FirstEnd, SecondEnd, PipePort
  <2> QED BY <2>2, <2>3
<1>3. /\ list \in Seq(LinkPorts) /\ DOMAIN list = 1..(n + N)
      /\ \A i \in 1..n : list[i] = new[i]
      /\ \A i \in 1..N : list[n + i] = portList[i]
  BY <1>2, ConcatProperties, LenProperties
<1>4. portList' = list
  OBVIOUS
<1> HIDE DEF n, N, list
<1>5. l = Made + 1 /\ Made \in Nat /\ l \in 1..Len(Links) /\ Len(Links) \in Nat
  BY ConfigIs DEF NextLink, Made, PortListIs
<1>6. list # <<>> /\ list[1].link = l
  BY <1>2, <1>3
<1>7. Made' = l
  BY <1>6, <1>4 DEF Made
<1>8. \A i \in DOMAIN list : list[i].link \in Nat /\ list[i].link <= l
  <2> SUFFICES ASSUME NEW i \in 1..(n + N)
               PROVE  list[i].link \in Nat /\ list[i].link <= l
    BY <1>3
  <2>1. CASE i \in 1..n
    BY <2>1, <1>2, <1>3, <1>5
  <2>2. CASE i \notin 1..n
    <3>1. i - n \in 1..N /\ n + (i - n) = i
      BY <2>2, <1>2
    <3>2. list[i] = portList[i - n] /\ portList[i - n] \in LinkPorts
      BY <3>1, <1>2, <1>3, ElementOfSeq
    <3>3. portList[i - n].link \in DOMAIN Links
      BY <3>2, LinkPortIs DEF PipeLinks, SocketLinks
    <3>4. portList[i - n].link <= Made
      BY <3>1, <1>2 DEF PortListIs
    <3> QED BY <3>2, <3>3, <3>4, <1>5, ConfigIs
  <2> QED BY <2>1, <2>2
<1>9. ASSUME NEW i \in 1..(n + N), NEW j \in 1..(n + N), i < j
      PROVE  \/ list[j].link < list[i].link
             \/ \E k \in PipeLinks : list[i] = FirstEnd(k) /\ list[j] = SecondEnd(k)
  <2>1. CASE j \in 1..n
    <3>1. n = 2 /\ i = 1 /\ j = 2
      BY <2>1, <1>2, <1>9
    <3>2. ~IsSocket(l)
      BY <3>1, <1>2
    <3>3. list[1] = FirstEnd(l) /\ list[2] = SecondEnd(l)
      BY <3>1, <3>2, <1>2, <1>3
    <3> QED BY <3>1, <3>2, <3>3 DEF PipeLinks
  <2>2. CASE i \in 1..n /\ j \notin 1..n
    <3>1. j - n \in 1..N /\ n + (j - n) = j
      BY <2>2, <1>2
    <3>2. list[j] = portList[j - n] /\ portList[j - n].link <= Made
      BY <3>1, <1>2, <1>3 DEF PortListIs
    <3>3. list[i].link = l /\ list[j].link \in Nat
      BY <2>2, <1>2, <1>3, <1>8
    <3> QED BY <3>2, <3>3, <1>5
  <2>3. CASE i \notin 1..n
    <3>1. /\ i - n \in 1..N /\ n + (i - n) = i /\ j - n \in 1..N /\ n + (j - n) = j
          /\ i - n < j - n
      BY <2>3, <1>2, <1>9
    <3>2. PICK a \in DOMAIN portList, b \in DOMAIN portList :
            n + a = i /\ n + b = j /\ a < b
      BY <3>1, <1>2
    <3>3. list[i] = portList[a] /\ list[j] = portList[b]
      BY <3>2, <1>2, <1>3
    <3>4. \/ portList[b].link < portList[a].link
          \/ \E k \in PipeLinks : /\ portList[a] = FirstEnd(k)
                                  /\ portList[b] = SecondEnd(k)
      BY <3>2 DEF PortListIs
    <3> QED BY <3>3, <3>4
  <2> QED BY <2>1, <2>2, <2>3
<1>10. ASSUME NEW k \in 1..l
      PROVE  IF IsSocket(k) THEN \E i \in 1..(n + N) : list[i].link = k
             ELSE \E i, j \in 1..(n + N) : /\ list[i] = FirstEnd(k)
                                           /\ list[j] = SecondEnd(k)
  <2>1. \A i \in 1..N : n + i \in 1..(n + N)
    BY <1>2
  <2>2. CASE k = l
    <3>1. 1 \in 1..(n + N) /\ (n = 2 => 2 \in 1..(n + N))
      BY <1>2
    <3>2. CASE IsSocket(l)
      BY <2>2, <3>1, <3>2, <1>6
    <3>3. CASE ~IsSocket(l)
      <4>1. n = 2 /\ list[1] = FirstEnd(l) /\ list[2] = SecondEnd(l)
        BY <3>3, <1>2, <1>3
      <4> QED BY <2>2, <3>1, <3>3, <4>1
    <3> QED BY <3>2, <3>3
  <2>3. CASE k # l
    <3>1. k \in 1..Made
      BY <2>3, <1>5
    <3>2. CASE IsSocket(k)
      <4>1. PICK i \in 1..N : portList[i].link = k
        BY <3>1, <3>2, <1>2 DEF PortListIs
      <4> QED BY <4>1, <2>1, <3>2, <1>3
    <3>3. CASE ~IsSocket(k)
      <4>1. PICK i \in 1..N, j \in 1..N :
              portList[i] = FirstEnd(k) /\ portList[j] = SecondEnd(k)
        BY <3>1, <3>3, <1>2 DEF PortListIs
      <4> QED BY <4>1, <2>1, <3>3, <1>3
    <3> QED BY <3>2, <3>3
  <2> QED BY <2>2, <2>3
<1> QED
  <2>1. /\ (portList \in Seq(LinkPorts))' /\ (Made \in 0..Len(Links))'
        /\ (\A i \in DOMAIN portList : portList[i].link <= Made)'
    BY <1>1, <1>3, <1>4, <1>5, <1>7, <1>8
  <2>2. (\A i, j \in DOMAIN portList :
           i < j => \/ portList[j].link < portList[i].link
                    \/ \E k \in PipeLinks : /\ portList[i] = FirstEnd(k)
                                            /\ portList[j] = SecondEnd(k))'
    BY <1>1, <1>3, <1>4, <1>9
  <2>3. (\A k \in 1..Made :
           IF IsSocket(k) THEN \E i \in DOMAIN portList : portList[i].link = k
           ELSE \E i, j \in DOMAIN portList : /\ portList[i] = FirstEnd(k)
                                              /\ portList[j] = SecondEnd(k))'
    BY <1>1, <1>3, <1>4, <1>7, <1>10
  <2> QED BY <2>1, <2>2, <2>3 DEF PortListIs

\* Of a sorted list, the first item is the least and the last the greatest.
LEMMA SortedEnds ==
  ASSUME NEW S \in SUBSET Nat, IsFiniteSet(S), NEW s \in S
  PROVE  LET c == Cardinality(S)
         IN  /\ c \in Nat /\ 1 \in 1..c /\ c \in 1..c
             /\ Sorted(S)[1] \in S /\ Sorted(S)[1] <= s
             /\ Sorted(S)[c] \in S /\ s <= Sorted(S)[c]
<1> DEFINE c == Cardinality(S)
           f == Sorted(S)
<1>1. /\ c \in Nat /\ f \in [1..c -> S]
      /\ \A i, j \in 1..c : i < j => f[i] < f[j]
      /\ \E i \in 1..c : f[i] = s
  BY SortedIs DEF Growing, Onto
<1> HIDE DEF c, f
<1>2. PICK i \in 1..c : f[i] = s
  BY <1>1
<1>3. 1 \in 1..c /\ c \in 1..c
  BY <1>1, <1>2
<1>4. f[1] \in S /\ f[c] \in S /\ f[1] \in Nat /\ f[c] \in Nat /\ s \in Nat
  BY <1>1, <1>3
<1>5. f[1] <= s
  <2>1. CASE i = 1
    BY <2>1, <1>2, <1>4
  <2>2. CASE i # 1
    BY <2>2, <1>1, <1>2, <1>3, <1>4
  <2> QED BY <2>1, <2>2
<1>6. s <= f[c]
  <2>1. CASE i = c
    BY <2>1, <1>2, <1>4
  <2>2. CASE i # c
    <3>1. i < c
      BY <2>2, <1>1, <1>2
    <3> QED BY <3>1, <1>1, <1>2, <1>3, <1>4
  <2> QED BY <2>1, <2>2
<1> QED BY <1>1, <1>3, <1>4, <1>5, <1>6 DEF c, f

\* The first host in the manager's list is the first of the configuration: one
\* list is made from its end and the other from the end of that.
LEMMA ManagerStarts ==
  ASSUME config \in Configs, nodeList = Pushed(config.nodes),
         manList' = Pushed([i \in DOMAIN HostNodes(nodeList) |->
                              HostNodes(nodeList)[i].id])
  PROVE  manList'[1] = HostNodes(config.nodes)[1].id
<1> DEFINE nodes == config.nodes
           N == Len(nodes)
           H == {i \in DOMAIN nodes : nodes[i].type = "HOST"}
           R == {i \in DOMAIN nodeList : nodeList[i].type = "HOST"}
           c == Cardinality(R)
           f == HostNodes(nodeList)
           ids == [i \in DOMAIN f |-> f[i].id]
<1>1. /\ N \in Nat /\ nodes \in [1..N -> NodeType] /\ DOMAIN nodes = 1..N
      /\ \E i \in 1..N : nodes[i].type = "HOST"
  BY ConfigIs
<1>2. nodeList = [i \in 1..N |-> nodes[(N - i) + 1]]
  BY DEF Pushed, Reverse
<1> HIDE DEF nodes
<1>3. /\ H \in SUBSET (1..N) /\ R \in SUBSET (1..N) /\ H # {}
      /\ \A i \in 1..N : /\ (N - i) + 1 \in 1..N
                         /\ i \in H <=> (N - i) + 1 \in R
                         /\ i \in R <=> (N - i) + 1 \in H
  <2>1. \A i \in 1..N : (N - i) + 1 \in 1..N /\ (N - ((N - i) + 1)) + 1 = i
    BY <1>1
  <2> QED BY <2>1, <1>1, <1>2
<1>4. IsFiniteSet(H) /\ IsFiniteSet(R) /\ H \in SUBSET Nat /\ R \in SUBSET Nat
  <2>1. IsFiniteSet(1..N) /\ 1..N \subseteq Nat
    BY <1>1, FS_Interval
  <2> QED BY <2>1, <1>3, FS_Subset
<1>5. PICK h \in H, r \in R : TRUE
  BY <1>3
<1> DEFINE a == Sorted(H)[1]
           b == Sorted(R)[c]
<1>6. /\ c \in Nat /\ 1 \in 1..c /\ c \in 1..c /\ 1 \in 1..Cardinality(H)
      /\ a \in H /\ b \in R
      /\ (\A i \in H : a <= i) /\ (\A i \in R : i <= b)
  BY <1>4, <1>5, SortedEnds
<1> HIDE DEF H, R, a, b, c
<1>7. a = (N - b) + 1
  <2>1. a \in 1..N /\ b \in 1..N
    BY <1>3, <1>6
  <2>2. (N - a) + 1 \in R /\ (N - b) + 1 \in H
    BY <2>1, <1>3, <1>6
  <2>3. (N - a) + 1 <= b /\ a <= (N - b) + 1
    BY <2>2, <1>6
  <2> QED BY <2>1, <2>3, <1>1
<1>8. HostNodes(nodes)[1] = nodes[a]
  BY <1>6 DEF HostNodes, At, H, a
<1>9. f[c] = nodes[a]
  <2>1. f[c] = nodeList[b]
    BY <1>6 DEF HostNodes, At, R, b, c
  <2> QED BY <2>1, <1>2, <1>3, <1>6, <1>7
<1>10. ids \in [1..c -> {f[i].id : i \in 1..c}] /\ DOMAIN f = 1..c
  BY DEF HostNodes, At, R, c
<1>11. Len(ids) = c
  BY <1>6, <1>10, FunctionIsSeq
<1>12. (c - 1) + 1 = c
  BY <1>6
<1>13. manList'[1] = ids[c]
  BY <1>6, <1>11, <1>12 DEF Pushed, Reverse
<1> QED BY <1>6, <1>8, <1>9, <1>10, <1>13 DEF nodes

\* What is computed from the configuration and the list of ports alone stays
\* when they do.
LEMMA ListsStay ==
  ASSUME UNCHANGED <<config, portList>>
  PROVE  /\ UNCHANGED <<Links, Made, NodeIds, PortListIs>>
         /\ \A n : UNCHANGED NetGetPortList(n)
BY DEF Links, Made, NodeIds, PortListIs, LinkPorts, PipeLinks, SocketLinks, IsSocket,
       FirstEnd, SecondEnd, SocketPort, SwitchHostId, PortsOf, NetGetPortList

\* Every step keeps the invariant.
LEMMA NetInvNext ==
  ASSUME NetInv, [NetNext]_netVars
  PROVE  NetInv'
<1>1. config \in Configs
  BY DEF NetInv
<1>2. ASSUME NEW l \in DOMAIN Links, CreatePipePorts(l) \/ CreateSocketPort(l)
      PROVE  NetInv'
  <2>1. PortListIs'
    <3>1. CASE CreatePipePorts(l)
      <4>1. l \in PipeLinks
        BY <3>1 DEF CreatePipePorts, PipeLinks
      <4>2. <<FirstEnd(l), SecondEnd(l)>> \in Seq(LinkPorts)
        BY <4>1 DEF LinkPorts
      <4>3. portList' = <<FirstEnd(l), SecondEnd(l)>> \o portList
        BY <3>1 DEF CreatePipePorts, FirstEnd, SecondEnd
      <4> QED BY <1>1, <3>1, <4>2, <4>3, MorePorts DEF CreatePipePorts, NetInv
    <3>2. CASE CreateSocketPort(l)
      <4>1. PICK m \in Memory : portList' = <<SocketPort(l, m)>> \o portList
        BY <3>2 DEF CreateSocketPort, SocketPort
      <4>2. l \in SocketLinks
        BY <3>2 DEF CreateSocketPort, SocketLinks
      <4>3. SocketPort(l, m) \in LinkPorts
        <5>1. <<l, m>> \in SocketLinks \X Memory
          BY <4>2
        <5>2. SocketPort(<<l, m>>[1], <<l, m>>[2]) = SocketPort(l, m)
          OBVIOUS
        <5> QED BY <5>1, <5>2 DEF LinkPorts
      <4>4. <<SocketPort(l, m)>> \in Seq(LinkPorts)
        BY <4>3
      <4> QED BY <1>1, <3>2, <4>1, <4>4, MorePorts DEF CreateSocketPort, NetInv
    <3> QED BY <1>2, <3>1, <3>2
  <2>2. l = Made + 1 /\ l \in 1..Len(Links)
    <3>1. l = Made + 1
      BY <1>2 DEF CreatePipePorts, CreateSocketPort, NextLink, Made
    <3> QED BY <3>1, <1>1, ConfigIs
  <2>3. Made # Len(Links)
    BY <2>2, <1>1, ConfigIs DEF NetInv, PortListIs
  <2>4. manList = <<>> /\ forked = {} /\ \A n \in NodeIds : ports[n] = Null
    BY <2>3 DEF NetInv
  <2>5. UNCHANGED <<config, nodeList, manList, forked, ports, NodeIds>>
    BY <1>2 DEF CreatePipePorts, CreateSocketPort, NodeIds
  <2> QED BY <2>1, <2>4, <2>5 DEF NetInv, FirstHostIsCurrent
<1>3. CASE CreateManPorts
  <2>1. /\ UNCHANGED <<config, nodeList, portList, forked, ports>>
        /\ UNCHANGED <<Links, Made, NodeIds, PortListIs>>
    BY <1>3, ListsStay DEF CreateManPorts
  <2>2. manList'[1] = HostNodes(config.nodes)[1].id
    BY <1>1, <1>3, ManagerStarts DEF CreateManPorts, NetInv
  <2>3. Made = Len(Links)
    <3>1. Len(Links) + 1 = Made + 1
      BY <1>3 DEF CreateManPorts, NextLink, Made
    <3> QED BY <3>1, <1>1, ConfigIs DEF NetInv, PortListIs
  <2>4. forked = {} /\ \A n \in NodeIds : ports[n] = Null
    BY <1>3 DEF CreateManPorts, NetInv
  <2> QED BY <2>1, <2>2, <2>3, <2>4 DEF NetInv, FirstHostIsCurrent
<1>4. CASE Fork
  <2>1. /\ UNCHANGED <<config, nodeList, portList, manList, ports>>
        /\ UNCHANGED <<Links, Made, NodeIds, PortListIs, FirstHostIsCurrent>>
        /\ \A n : UNCHANGED NetGetPortList(n)
    BY <1>4, ListsStay DEF Fork, FirstHostIsCurrent
  <2>2. manList # <<>> /\ forked \subseteq forked'
    BY <1>4 DEF Fork
  <2> QED BY <2>1, <2>2 DEF NetInv
<1>5. ASSUME NEW n \in NodeIds, NodeMain(n) PROVE NetInv'
  <2>1. /\ UNCHANGED <<config, nodeList, portList, manList, forked>>
        /\ UNCHANGED <<Links, Made, NodeIds, PortListIs, FirstHostIsCurrent>>
        /\ \A m : UNCHANGED NetGetPortList(m)
    BY <1>5, ListsStay DEF NodeMain, FirstHostIsCurrent
  <2>2. n \in forked /\ ports' = [ports EXCEPT ![n] = NetGetPortList(n)]
    BY <1>5 DEF NodeMain
  <2>3. ports = [m \in NodeIds |-> ports[m]]
    BY DEF NetInv
  <2>4. /\ ports' = [m \in NodeIds |-> ports'[m]]
        /\ \A m \in NodeIds : ports'[m] = IF m = n THEN NetGetPortList(n) ELSE ports[m]
    BY <2>2, <2>3
  <2> QED BY <2>1, <2>2, <2>4 DEF NetInv
<1>6. CASE UNCHANGED netVars
  <2>1. /\ UNCHANGED <<config, nodeList, portList, manList, forked, ports>>
        /\ UNCHANGED <<Links, Made, NodeIds, PortListIs, FirstHostIsCurrent>>
        /\ \A m : UNCHANGED NetGetPortList(m)
    BY <1>6, ListsStay DEF netVars, FirstHostIsCurrent
  <2> QED BY <2>1 DEF NetInv
<1> QED BY <1>2, <1>3, <1>4, <1>5, <1>6 DEF NetNext

-----------------------------------------------------------------------------
(* The ports of a node                                                     *)

\* A node that has its ports has those of the list that are for it, the last
\* ones first.
LEMMA PortsAre ==
  ASSUME NetInv, NEW n \in NodeIds, ports[n] # Null
  PROVE  /\ Made = Len(Links)
         /\ \E c \in Nat : \E pos \in [1..c -> PortsOf(n)] :
              /\ ports[n] = [k \in 1..c |-> portList[pos[k]]]
              /\ \A i, j \in 1..c : i < j => pos[j] < pos[i]
              /\ Onto(pos, PortsOf(n))
<1>1. Made = Len(Links) /\ ports[n] = NetGetPortList(n)
  BY DEF NetInv
<1>2. portList \in Seq(LinkPorts) /\ PortsOf(n) \in SUBSET (DOMAIN portList)
  BY DEF NetInv, PortListIs, PortsOf
<1> QED BY <1>1, <1>2, PushedAt DEF NetGetPortList

\* Which those are: an end of a pipe link at the node, or the port of a socket
\* link that belongs there or went astray.
LEMMA PortIs ==
  ASSUME NetInv, NEW n \in NodeIds, NEW i \in PortsOf(n)
  PROVE  LET p == portList[i]
         IN  \/ \E l \in PipeLinks :
                  /\ p.type = "PIPE" /\ p.link = l /\ p.pipe_host_id = n
                  /\ \/ p = FirstEnd(l) /\ n = Links[l].node0
                     \/ p = SecondEnd(l) /\ n = Links[l].node1
             \/ /\ p.link \in SocketLinks /\ p.type = "SOCKET"
                /\ p.sock_host_id = SwitchHostId
<1> DEFINE p == portList[i]
<1>1. /\ i \in DOMAIN portList /\ n \in {p.pipe_host_id, p.sock_host_id}
      /\ portList \in Seq(LinkPorts) /\ config \in Configs
  BY DEF NetInv, PortListIs, PortsOf
<1>2. p \in LinkPorts
  BY <1>1, ElementOfSeq, LenProperties
<1>3. n # Null
  BY <1>1, ConfigIs, NullAssumption
<1>4. CASE p.link \in SocketLinks /\ p.type = "SOCKET" /\ p.sock_host_id = SwitchHostId
  BY <1>4
<1>5. ASSUME NEW l \in PipeLinks, p \in {FirstEnd(l), SecondEnd(l)}, p.link = l,
             p.type = "PIPE", p.sock_host_id = Null
      PROVE  /\ p.pipe_host_id = n
             /\ \/ p = FirstEnd(l) /\ n = Links[l].node0
                \/ p = SecondEnd(l) /\ n = Links[l].node1
  <2>1. n = p.pipe_host_id
    BY <1>1, <1>3, <1>5
  <2>2. /\ FirstEnd(l).pipe_host_id = Links[l].node0
        /\ SecondEnd(l).pipe_host_id = Links[l].node1
    BY DEF FirstEnd, SecondEnd, PipePort
  <2> HIDE DEF p
  <2>3. p = FirstEnd(l) => n = Links[l].node0
    BY <2>1, <2>2
  <2>4. p = SecondEnd(l) => n = Links[l].node1
    BY <2>1, <2>2
  <2>5. p = FirstEnd(l) \/ p = SecondEnd(l)
    BY <1>5
  <2> QED BY <2>1, <2>3, <2>4, <2>5
<1> HIDE DEF p
<1>6. \/ \E l \in PipeLinks : p \in {FirstEnd(l), SecondEnd(l)} /\ p.link = l
                              /\ p.type = "PIPE" /\ p.sock_host_id = Null
      \/ p.link \in SocketLinks /\ p.type = "SOCKET" /\ p.sock_host_id = SwitchHostId
  BY <1>2, LinkPortIs
<1> QED BY <1>4, <1>5, <1>6 DEF p

\* Both ends of a link differ in all that matters.
LEMMA EndsDiffer ==
  ASSUME config \in Configs, NEW l \in PipeLinks
  PROVE  /\ FirstEnd(l).pipe_host_id # SecondEnd(l).pipe_host_id
         /\ FirstEnd(l) # SecondEnd(l)
         /\ FirstEnd(l).send = <<l, "01">> /\ SecondEnd(l).recv = <<l, "01">>
         /\ FirstEnd(l).recv = <<l, "10">> /\ SecondEnd(l).send = <<l, "10">>
         /\ FirstEnd(l).link = l /\ SecondEnd(l).link = l
<1>1. Links[l].node0 # Links[l].node1
  BY ConfigIs
<1> QED BY <1>1 DEF FirstEnd, SecondEnd, PipePort

\* A node has the ports of its links in their order.
LEMMA OwnPorts ==
  ASSUME NetInv, NEW n \in NodeIds, ports[n] # Null
  PROVE  LET own == At(ports[n], {k \in DOMAIN ports[n] : ~Astray(ports[n][k], n)})
         IN  [k \in DOMAIN own |-> own[k].link] = LinksOf(n)
<1>1. /\ config \in Configs /\ PortListIs /\ Made = Len(Links)
  BY PortsAre DEF NetInv
<1>2a. PICK c \in Nat : \E pos \in [1..c -> PortsOf(n)] :
        /\ ports[n] = [k \in 1..c |-> portList[pos[k]]]
        /\ \A i, j \in 1..c : i < j => pos[j] < pos[i]
        /\ Onto(pos, PortsOf(n))
  BY PortsAre
<1>2. PICK pos \in [1..c -> PortsOf(n)] :
        /\ ports[n] = [k \in 1..c |-> portList[pos[k]]]
        /\ \A i, j \in 1..c : i < j => pos[j] < pos[i]
        /\ Onto(pos, PortsOf(n))
  BY <1>2a
<1> DEFINE K == {k \in 1..c : ~Astray(portList[pos[k]], n)}
           L == {l \in DOMAIN Links :
                   IF IsSocket(l) THEN n = SwitchHostId ELSE n \in Ends(l)}
           d == Cardinality(K)
           t == Sorted(K)
           g == [m \in 1..d |-> portList[pos[t[m]]].link]
           own == At(ports[n], {k \in DOMAIN ports[n] : ~Astray(ports[n][k], n)})
<1>3. {k \in DOMAIN ports[n] : ~Astray(ports[n][k], n)} = K
  BY <1>2
<1>4. K \in SUBSET Nat /\ IsFiniteSet(K) /\ K \in SUBSET (1..c)
  <2>1. IsFiniteSet(1..c) /\ K \in SUBSET (1..c) /\ 1..c \subseteq Nat
    BY FS_Interval
  <2> QED BY <2>1, FS_Subset
<1>5. /\ L \in SUBSET Nat /\ IsFiniteSet(L) /\ L \in SUBSET (1..Len(Links))
      /\ Len(Links) \in Nat
  <2>1. DOMAIN Links = 1..Len(Links) /\ Len(Links) \in Nat
    BY <1>1, ConfigIs
  <2>2. IsFiniteSet(1..Len(Links)) /\ 1..Len(Links) \subseteq Nat
    BY <2>1, FS_Interval
  <2>3. L \in SUBSET (1..Len(Links))
    BY <2>1
  <2> QED BY <2>1, <2>2, <2>3, FS_Subset
<1>6. /\ d \in Nat /\ t \in [1..d -> K]
      /\ \A i, j \in 1..d : i < j => t[i] < t[j]
      /\ \A k \in K : \E m \in 1..d : t[m] = k
  BY <1>4, SortedIs DEF Growing, Onto
<1>7. [k \in DOMAIN own |-> own[k].link] = g
  <2>1. own = [m \in 1..d |-> ports[n][t[m]]]
    BY <1>3 DEF At
  <2>2. \A m \in 1..d : own[m] = portList[pos[t[m]]]
    <3> SUFFICES ASSUME NEW m \in 1..d PROVE own[m] = portList[pos[t[m]]]
      OBVIOUS
    <3>1. t[m] \in K
      BY <1>6
    <3>2. t[m] \in 1..c
      BY <3>1
    <3>3. own[m] = ports[n][t[m]]
      BY <2>1
    <3> HIDE DEF own, t
    <3> QED BY <1>2, <3>2, <3>3
  <2>3. DOMAIN own = 1..d
    BY <2>1
  <2> QED BY <2>2, <2>3
<1> HIDE DEF K, L, d, t, g, own
\* The link of a port that is not astray is one of the node.
<1>8. ASSUME NEW k \in K
      PROVE  /\ pos[k] \in PortsOf(n) /\ k \in 1..c
             /\ portList[pos[k]].link \in L
  <2> DEFINE p == portList[pos[k]]
  <2>1. k \in 1..c /\ pos[k] \in PortsOf(n) /\ ~Astray(p, n)
    BY <1>2, <1>4 DEF K
  <2>2. CASE \E l \in PipeLinks : /\ p.link = l
                                  /\ n = Links[l].node0 \/ n = Links[l].node1
    BY <2>1, <2>2 DEF L, PipeLinks, Ends
  <2>3. CASE /\ p.link \in SocketLinks /\ p.type = "SOCKET"
             /\ p.sock_host_id = SwitchHostId
    BY <2>1, <2>3 DEF L, SocketLinks, Astray
  <2> QED BY <2>1, <2>2, <2>3, PortIs
<1>9. g \in [1..d -> L]
  BY <1>6, <1>8 DEF g
<1>10. Growing(g)
  <2> SUFFICES ASSUME NEW i \in 1..d, NEW j \in 1..d, i < j
               PROVE  portList[pos[t[i]]].link < portList[pos[t[j]]].link
    BY <1>6 DEF Growing, g
  <2> DEFINE p == portList[pos[t[i]]]
             q == portList[pos[t[j]]]
  <2>1. t[i] \in K /\ t[j] \in K /\ t[i] < t[j]
    BY <1>6
  <2>2. /\ t[i] \in 1..c /\ pos[t[i]] \in PortsOf(n)
        /\ t[j] \in 1..c /\ pos[t[j]] \in PortsOf(n)
    BY <2>1, <1>8
  <2>3. pos[t[j]] < pos[t[i]]
    BY <2>1, <2>2, <1>2
  <2>4. pos[t[i]] \in DOMAIN portList /\ pos[t[j]] \in DOMAIN portList
    BY <2>2 DEF PortsOf
  <2>5. ASSUME NEW l \in PipeLinks, q = FirstEnd(l), p = SecondEnd(l) PROVE FALSE
    <3>1. p.type # "SOCKET" /\ q.type # "SOCKET"
      BY <2>5 DEF FirstEnd, SecondEnd, PipePort
    <3>2. p.pipe_host_id = n /\ q.pipe_host_id = n
      BY <3>1, <2>2, PortIs
    <3> QED BY <3>2, <2>5, <1>1, EndsDiffer
  <2> QED BY <2>3, <2>4, <2>5, <1>1 DEF PortListIs
<1>11. Onto(g, L)
  <2> SUFFICES ASSUME NEW l \in L PROVE \E m \in 1..d : g[m] = l
    BY <1>9 DEF Onto
  <2>1. l \in 1..Made /\ l \in DOMAIN Links
    BY <1>1, <1>5 DEF L
  <2>2. PICK i \in PortsOf(n) : portList[i].link = l /\ ~Astray(portList[i], n)
    <3>1. CASE IsSocket(l)
      <4>1. n = SwitchHostId
        BY <3>1 DEF L
      <4>2. PICK i \in DOMAIN portList : portList[i].link = l
        BY <2>1, <3>1, <1>1 DEF PortListIs
      <4>3. portList[i] \in LinkPorts
        BY <4>2, <1>1, ElementOfSeq, LenProperties DEF PortListIs
      <4>4. portList[i].sock_host_id = SwitchHostId
        <5>1. l \notin PipeLinks
          BY <3>1 DEF PipeLinks
        <5> QED BY <5>1, <4>2, <4>3, LinkPortIs
      <4> QED BY <4>1, <4>2, <4>4 DEF PortsOf, Astray
    <3>2. CASE ~IsSocket(l)
      <4>1. n = Links[l].node0 \/ n = Links[l].node1
        BY <3>2 DEF L, Ends
      <4>2. PICK i \in DOMAIN portList, j \in DOMAIN portList :
              portList[i] = FirstEnd(l) /\ portList[j] = SecondEnd(l)
        BY <2>1, <3>2, <1>1 DEF PortListIs
      <4>3. /\ portList[i].pipe_host_id = Links[l].node0 /\ portList[i].type = "PIPE"
            /\ portList[j].pipe_host_id = Links[l].node1 /\ portList[j].type = "PIPE"
            /\ portList[i].link = l /\ portList[j].link = l
        BY <4>2 DEF FirstEnd, SecondEnd, PipePort
      <4> QED BY <4>1, <4>2, <4>3 DEF PortsOf, Astray
    <3> QED BY <3>1, <3>2
  <2>3. PICK k \in 1..c : pos[k] = i
    BY <1>2, <2>2 DEF Onto
  <2>4. k \in K
    BY <2>2, <2>3 DEF K
  <2>5. PICK m \in 1..d : t[m] = k
    BY <2>4, <1>6
  <2> QED BY <2>2, <2>3, <2>5 DEF g
<1>12. g = Sorted(L)
  BY <1>5, <1>6, <1>9, <1>10, <1>11, SortedUnique
<1> QED BY <1>7, <1>12 DEF LinksOf, L, own

\* A port of a pipe link that a node has is an end of the link at the node.
LEMMA PipePortIs ==
  ASSUME NetInv, NEW n \in NodeIds, NEW k, HasPipe(n, k)
  PROVE  /\ ports[n][k].link \in PipeLinks /\ ports[n][k].pipe_host_id = n
         /\ \/ /\ ports[n][k] = FirstEnd(ports[n][k].link)
               /\ n = Links[ports[n][k].link].node0
            \/ /\ ports[n][k] = SecondEnd(ports[n][k].link)
               /\ n = Links[ports[n][k].link].node1
<1>1. ports[n] # Null /\ k \in DOMAIN ports[n] /\ ports[n][k].type = "PIPE"
  BY DEF HasPipe
<1>2a. PICK c \in Nat : \E pos \in [1..c -> PortsOf(n)] :
        ports[n] = [j \in 1..c |-> portList[pos[j]]]
  BY <1>1, PortsAre
<1>2. PICK pos \in [1..c -> PortsOf(n)] :
        ports[n] = [j \in 1..c |-> portList[pos[j]]]
  BY <1>2a
<1>3. k \in 1..c /\ ports[n][k] = portList[pos[k]] /\ pos[k] \in PortsOf(n)
  BY <1>1, <1>2
<1> QED BY <1>1, <1>3, PortIs

\* A node has one port for a pipe link.
LEMMA OnePort ==
  ASSUME NetInv, NEW n \in NodeIds, NEW k, NEW j, HasPipe(n, k), HasPipe(n, j),
         ports[n][k].link = ports[n][j].link
  PROVE  k = j
<1> SUFFICES ASSUME k # j PROVE FALSE
  OBVIOUS
<1>1. ports[n] # Null /\ k \in DOMAIN ports[n] /\ j \in DOMAIN ports[n]
  BY DEF HasPipe
<1>2a. PICK c \in Nat : \E pos \in [1..c -> PortsOf(n)] :
        /\ ports[n] = [i \in 1..c |-> portList[pos[i]]]
        /\ \A i, m \in 1..c : i < m => pos[m] < pos[i]
  BY <1>1, PortsAre
<1>2. PICK pos \in [1..c -> PortsOf(n)] :
        /\ ports[n] = [i \in 1..c |-> portList[pos[i]]]
        /\ \A i, m \in 1..c : i < m => pos[m] < pos[i]
  BY <1>2a
<1>3. /\ k \in 1..c /\ ports[n][k] = portList[pos[k]] /\ pos[k] \in DOMAIN portList
      /\ j \in 1..c /\ ports[n][j] = portList[pos[j]] /\ pos[j] \in DOMAIN portList
  BY <1>1, <1>2 DEF PortsOf
<1>4. pos[k] < pos[j] \/ pos[j] < pos[k]
  BY <1>2, <1>3
<1>5. PortListIs /\ config \in Configs
  BY DEF NetInv
<1>6. /\ ports[n][k].pipe_host_id = n /\ ports[n][j].pipe_host_id = n
      /\ ports[n][k].link \in Nat
  <2>1. ports[n][k].link \in PipeLinks
    BY PipePortIs
  <2> QED BY <2>1, <1>5, PipePortIs, ConfigIs DEF PipeLinks
<1>7. PICK l \in PipeLinks : \/ ports[n][k] = FirstEnd(l) /\ ports[n][j] = SecondEnd(l)
                             \/ ports[n][j] = FirstEnd(l) /\ ports[n][k] = SecondEnd(l)
  BY <1>3, <1>4, <1>5, <1>6 DEF PortListIs
<1> QED BY <1>5, <1>6, <1>7, EndsDiffer

\* The two ends of a link read what the other writes, and nobody else does.
LEMMA PipesJoin ==
  ASSUME NetInv, NEW n \in NodeIds, NEW m \in NodeIds, NEW k, NEW j,
         HasPipe(n, k), HasPipe(m, j), <<n, k>> # <<m, j>>
  PROVE  /\ ports[n][k].send # ports[m][j].send
         /\ ports[n][k].link = ports[m][j].link <=>
              /\ ports[n][k].send = ports[m][j].recv
              /\ ports[m][j].send = ports[n][k].recv
<1> DEFINE p == ports[n][k]
           q == ports[m][j]
<1>1. /\ p.link \in PipeLinks /\ p.pipe_host_id = n
      /\ p = FirstEnd(p.link) \/ p = SecondEnd(p.link)
  BY PipePortIs
<1>2. /\ q.link \in PipeLinks /\ q.pipe_host_id = m
      /\ q = FirstEnd(q.link) \/ q = SecondEnd(q.link)
  BY PipePortIs
<1>3. p.link = q.link => p # q
  <2>1. CASE n = m
    BY <2>1, OnePort
  <2>2. CASE n # m
    BY <2>2, <1>1, <1>2
  <2> QED BY <2>1, <2>2
<1>4. config \in Configs
  BY DEF NetInv
<1> HIDE DEF p, q
<1>5. PICK l \in PipeLinks : p.link = l /\ (p = FirstEnd(l) \/ p = SecondEnd(l))
  BY <1>1
<1>6. PICK h \in PipeLinks : q.link = h /\ (q = FirstEnd(h) \/ q = SecondEnd(h))
  BY <1>2
<1>7. /\ p.send \in {<<l, "01">>, <<l, "10">>} /\ p.recv \in {<<l, "01">>, <<l, "10">>}
      /\ q.send \in {<<h, "01">>, <<h, "10">>} /\ q.recv \in {<<h, "01">>, <<h, "10">>}
  <2>1. p.send \in {<<l, "01">>, <<l, "10">>} /\ p.recv \in {<<l, "01">>, <<l, "10">>}
    BY <1>4, <1>5, EndsDiffer
  <2>2. q.send \in {<<h, "01">>, <<h, "10">>} /\ q.recv \in {<<h, "01">>, <<h, "10">>}
    BY <1>4, <1>6, EndsDiffer
  <2> QED BY <2>1, <2>2
<1>8. CASE l # h
  BY <1>5, <1>6, <1>7, <1>8 DEF p, q
<1>9. CASE l = h
  <2>1. \/ p = FirstEnd(l) /\ q = SecondEnd(l)
        \/ p = SecondEnd(l) /\ q = FirstEnd(l)
    BY <1>3, <1>5, <1>6, <1>9
  <2>2. p.send = q.recv /\ q.send = p.recv /\ p.send # q.send /\ p.link = q.link
    BY <2>1, <1>4, <1>5, <1>6, <1>9, EndsDiffer
  <2> QED BY <2>2 DEF p, q
<1> QED BY <1>8, <1>9

-----------------------------------------------------------------------------
(* The topology                                                            *)

\* Where the ports lead is the other end of their link, which leads back.
LEMMA FarEndIs ==
  ASSUME NetInv, PlainNetwork, \A h \in NodeIds : ports[h] # Null,
         NEW n \in NodeIds, NEW k \in DOMAIN ports[n]
  PROVE  /\ HasPipe(n, k)
         /\ FarEnd(n, k) \in NodeIds \ {n}
         /\ Ends(ports[n][k].link) = {n, FarEnd(n, k)}
         /\ \E j \in DOMAIN ports[FarEnd(n, k)] :
              ports[FarEnd(n, k)][j].link = ports[n][k].link
<1> DEFINE p == ports[n][k]
           l == p.link
           o == IF n = Links[l].node0 THEN Links[l].node1 ELSE Links[l].node0
           q == IF n = Links[l].node0 THEN SecondEnd(l) ELSE FirstEnd(l)
           Leads(m) == \E j \in DOMAIN ports[m] : /\ ports[m][j].recv = p.send
                                                  /\ ports[m][j].send = p.recv
<1>1. config \in Configs /\ PortListIs
  BY DEF NetInv
<1>2. \A m \in NodeIds : \A j \in DOMAIN ports[m] : HasPipe(m, j)
  <2> SUFFICES ASSUME NEW m \in NodeIds, NEW j \in DOMAIN ports[m] PROVE HasPipe(m, j)
    OBVIOUS
  <2>1a. PICK c \in Nat : \E pos \in [1..c -> PortsOf(m)] :
          ports[m] = [i \in 1..c |-> portList[pos[i]]]
    BY PortsAre
  <2>1. PICK pos \in [1..c -> PortsOf(m)] :
          ports[m] = [i \in 1..c |-> portList[pos[i]]]
    BY <2>1a
  <2>2. pos[j] \in PortsOf(m) /\ ports[m][j] = portList[pos[j]]
    BY <2>1
  <2>3. ports[m][j].type = "PIPE"
    <3>1. SocketLinks = {}
      BY DEF PlainNetwork, SocketLinks
    <3> QED BY <2>2, <3>1, PortIs
  <2> QED BY <2>3 DEF HasPipe
<1>3. /\ l \in PipeLinks
      /\ \/ p = FirstEnd(l) /\ n = Links[l].node0
         \/ p = SecondEnd(l) /\ n = Links[l].node1
  <2>1. HasPipe(n, k)
    BY <1>2
  <2>2. /\ ports[n][k].link \in PipeLinks
        /\ \/ /\ ports[n][k] = FirstEnd(ports[n][k].link)
              /\ n = Links[ports[n][k].link].node0
           \/ /\ ports[n][k] = SecondEnd(ports[n][k].link)
              /\ n = Links[ports[n][k].link].node1
    BY <2>1, PipePortIs
  <2> QED BY <2>2
<1>4. Links[l].node0 # Links[l].node1 /\ Ends(l) \subseteq NodeIds
  BY <1>1, <1>3, ConfigIs DEF PlainNetwork, PipeLinks
<1>5. o \in NodeIds \ {n} /\ Ends(l) = {n, o}
  BY <1>3, <1>4 DEF Ends
<1>6. q.recv = p.send /\ q.send = p.recv /\ q.pipe_host_id = o /\ q.link = l
  BY <1>1, <1>3, <1>4, EndsDiffer DEF FirstEnd, SecondEnd, PipePort
<1>7. Leads(o) /\ \E j \in DOMAIN ports[o] : ports[o][j] = q
  <2>1a. PICK c \in Nat : \E pos \in [1..c -> PortsOf(o)] :
          /\ ports[o] = [i \in 1..c |-> portList[pos[i]]]
          /\ Onto(pos, PortsOf(o))
    BY <1>5, PortsAre
  <2>1. PICK pos \in [1..c -> PortsOf(o)] :
          /\ ports[o] = [i \in 1..c |-> portList[pos[i]]]
          /\ Onto(pos, PortsOf(o))
    BY <2>1a
  <2>2. l \in 1..Made /\ ~IsSocket(l)
    BY <1>1, <1>3, ConfigIs, PortsAre DEF PipeLinks
  <2>3. PICK i \in DOMAIN portList : portList[i] = q
    BY <2>2, <1>1 DEF PortListIs
  <2>4. i \in PortsOf(o)
    BY <2>3, <1>6 DEF PortsOf
  <2>5. PICK j \in 1..c : pos[j] = i
    BY <2>1, <2>4 DEF Onto
  <2>6. j \in DOMAIN ports[o] /\ ports[o][j] = q
    BY <2>1, <2>3, <2>5
  <2> HIDE DEF q, o, p
  <2> QED BY <2>6, <1>6
<1>8. ASSUME NEW m \in NodeIds, Leads(m) PROVE m = o
  <2>1. PICK j \in DOMAIN ports[m] :
          ports[m][j].recv = p.send /\ ports[m][j].send = p.recv
    BY <1>8
  <2> DEFINE r == ports[m][j]
  <2>2. /\ r.link \in PipeLinks
        /\ \/ r = FirstEnd(r.link) /\ m = Links[r.link].node0
           \/ r = SecondEnd(r.link) /\ m = Links[r.link].node1
    <3>1. HasPipe(m, j)
      BY <1>2
    <3>2. /\ ports[m][j].link \in PipeLinks
          /\ \/ /\ ports[m][j] = FirstEnd(ports[m][j].link)
                /\ m = Links[ports[m][j].link].node0
             \/ /\ ports[m][j] = SecondEnd(ports[m][j].link)
                /\ m = Links[ports[m][j].link].node1
      BY <3>1, PipePortIs
    <3> QED BY <3>2
  <2> HIDE DEF r
  <2>3. PICK h \in PipeLinks : /\ r.link = h
                               /\ \/ r = FirstEnd(h) /\ m = Links[h].node0
                                  \/ r = SecondEnd(h) /\ m = Links[h].node1
    BY <2>2
  <2>4. r.recv = p.send /\ r.send = p.recv
    BY <2>1 DEF r
  <2> HIDE DEF p
  <2>5. p.send \in {<<l, "01">>, <<l, "10">>}
    BY <1>1, <1>3, EndsDiffer
  <2>8. r.recv \in {<<h, "01">>, <<h, "10">>}
    BY <1>1, <2>3, EndsDiffer
  <2>6. h = l
    BY <2>4, <2>5, <2>8
  <2>7. n = Links[l].node0 <=> m = Links[l].node1
    BY <1>1, <1>3, <1>4, <2>3, <2>4, <2>6, EndsDiffer
  <2> QED BY <1>3, <1>4, <2>3, <2>6, <2>7
<1>9. FarEnd(n, k) = o
  <2>1. FarEnd(n, k) = CHOOSE m \in NodeIds : Leads(m)
    BY DEF FarEnd
  <2> HIDE DEF Leads, o
  <2>2. o \in NodeIds /\ Leads(o)
    BY <1>5, <1>7
  <2> QED BY <2>1, <2>2, <1>8
<1>10. \E j \in DOMAIN ports[o] : ports[o][j].link = l
  BY <1>6, <1>7
<1> QED BY <1>2, <1>5, <1>9, <1>10

\* The nodes are in the topology the other modules take for granted.
LEMMA TopologyIs ==
  ASSUME NetInv
  PROVE  TopologyHolds
<1> SUFFICES ASSUME PlainNetwork, \A h \in NodeIds : ports[h] # Null,
                    NEW n \in NodeIds, NEW k \in DOMAIN ports[n]
             PROVE  /\ FarEnd(n, k) \in NodeIds \ {n}
                    /\ \E j \in DOMAIN ports[FarEnd(n, k)] : FarEnd(FarEnd(n, k), j) = n
                    /\ \A j \in DOMAIN ports[n] : FarEnd(n, j) = FarEnd(n, k) => j = k
  BY DEF TopologyHolds
<1> DEFINE o == FarEnd(n, k)
           l == ports[n][k].link
<1>1. /\ HasPipe(n, k) /\ o \in NodeIds \ {n} /\ Ends(l) = {n, o}
      /\ \E j \in DOMAIN ports[o] : ports[o][j].link = l
  BY FarEndIs
<1>2. PICK j \in DOMAIN ports[o] : ports[o][j].link = l
  BY <1>1
<1>3. FarEnd(o, j) # o /\ Ends(l) = {o, FarEnd(o, j)}
  BY <1>1, <1>2, FarEndIs
<1>4. FarEnd(o, j) = n
  BY <1>1, <1>3
<1>5. ASSUME NEW i \in DOMAIN ports[n], FarEnd(n, i) = o PROVE i = k
  <2>1. HasPipe(n, i) /\ Ends(ports[n][i].link) = {n, o}
    BY <1>5, FarEndIs
  <2>2. l \in DOMAIN Links /\ ports[n][i].link \in DOMAIN Links
    BY <1>1, <2>1, PipePortIs DEF PipeLinks
  <2>3. ports[n][i].link = l
    BY <1>1, <2>1, <2>2 DEF PlainNetwork
  <2> QED BY <1>1, <2>1, <2>3, OnePort
<1> QED BY <1>1, <1>2, <1>4, <1>5

-----------------------------------------------------------------------------
(* The theorems                                                            *)

\* So it holds of every configuration that is read.
LEMMA NetInvariant == NetSpec => []NetInv
<1>1. NetInit => NetInv
  BY NetInvInit
<1>2. NetInv /\ [NetNext]_netVars => NetInv'
  BY NetInvNext
<1> QED BY <1>1, <1>2, PTL DEF NetSpec

\* Each node has one port for each of its links, in the order of the
\* configuration, and of others' ports at most such of socket links (net.c:117).
THEOREM PortsRight == NetSpec => []PortsAreTheLinks
<1>1. NetInv => PortsAreTheLinks
  BY OwnPorts DEF PortsAreTheLinks
<1> QED BY <1>1, NetInvariant, PTL

\* Each pipe has one writer and one reader, the two ends of its link
\* (net.c:399-424).
THEOREM PipesRight == NetSpec => []PipesJoinTheEnds
<1>1. NetInv => PipesJoinTheEnds
  BY PipesJoin DEF PipesJoinTheEnds
<1> QED BY <1>1, NetInvariant, PTL

\* What the theorems on the network assume of its topology is what net_init makes
\* of any configuration with pipes alone, and one link for two nodes (net.c:270).
THEOREM TopologyRight == NetSpec => []TopologyHolds
<1>1. NetInv => TopologyHolds
  BY TopologyIs
<1> QED BY <1>1, NetInvariant, PTL

\* The manager starts at the first host of the configuration (net.c:346).
THEOREM FirstHostRight == NetSpec => []FirstHostIsCurrent
<1>1. NetInv => FirstHostIsCurrent
  BY DEF NetInv
<1> QED BY <1>1, NetInvariant, PTL

-----------------------------------------------------------------------------
(* The socket links                                                        *)

Packets == Clients \X Nat

In(q)   == {q[i] : i \in DOMAIN q}
Once(q) == \A i, j \in DOMAIN q : q[i] = q[j] => i = j

\* R is a set of pairs of a packet and a later one.
Earlier(R, A, B) == \A a \in A, b \in B : <<a, b>> \in R
Ascending(R, q)  == \A i, j \in DOMAIN q : i < j => <<q[i], q[j]>> \in R

\* That of the packets of a list.
Order(s) == {p \in Packets \X Packets : \E i, j \in DOMAIN s :
                i < j /\ s[i] = p[1] /\ s[j] = p[2]}

Waiting == In(queue[Reader])
Served  == {serving[Reader]} \ {None}
Passed  == In(pipe[Reader])

SocketsTyped ==
  /\ client \in [Clients -> {"idle", "connecting", "connected", "gone"}]
  /\ count \in [Clients -> 0..MaxPackets]
  /\ queue \in [Servers -> Seq(Packets)]
  /\ serving \in [Servers -> Packets \cup {None}]
  /\ pipe \in [Servers -> Seq(Packets)]
  /\ accepted \in Seq(Packets) /\ got \in Seq(Packets)
  /\ coming \subseteq Packets /\ written \subseteq Packets

\* A packet with a connection is one that its client has got to, and not the one
\* whose connection is still being made.
Sent(p) == /\ p[2] \in 1..count[p[1]]
           /\ client[p[1]] = "connecting" => p[2] # count[p[1]]

\* No connection is in two places on its way to be accepted, or twice in one.
Arrivals ==
  /\ \A c \in Clients : client[c] = "connecting" => count[c] # 0
  /\ \A p \in coming \cup Waiting \cup In(accepted) : Sent(p)
  /\ Once(queue[Reader]) /\ Once(accepted)
  /\ coming \cap Waiting = {} /\ coming \cap In(accepted) = {}
  /\ Waiting \cap In(accepted) = {}

\* From the switch back to the connection that is served, all are accepted ones
\* in their order.
InTurn ==
  /\ In(got) \cup Passed \cup Served \subseteq In(accepted)
  /\ Ascending(Order(accepted), got)
  /\ Ascending(Order(accepted), pipe[Reader])
  /\ Earlier(Order(accepted), In(got), Passed)
  /\ Earlier(Order(accepted), In(got), Served)
  /\ Earlier(Order(accepted), Passed, Served)

SocketsInv == SocketsTyped /\ Arrivals /\ InTurn

-----------------------------------------------------------------------------
(* Sequences of packets                                                    *)

LEMMA InAppend ==
  ASSUME NEW q \in Seq(Packets), NEW e \in Packets
  PROVE  /\ Append(q, e) \in Seq(Packets)
         /\ In(Append(q, e)) = In(q) \cup {e}
         /\ Once(q) /\ e \notin In(q) => Once(Append(q, e))
         /\ \A R : Ascending(R, q) /\ Earlier(R, In(q), {e}) => Ascending(R, Append(q, e))
         /\ Order(q) \subseteq Order(Append(q, e))
         /\ Earlier(Order(Append(q, e)), In(q), {e})
<1>1. /\ Len(q) \in Nat /\ DOMAIN q = 1..Len(q)
      /\ Append(q, e) \in Seq(Packets) /\ DOMAIN Append(q, e) = 1..(Len(q) + 1)
      /\ \A i \in 1..Len(q) : Append(q, e)[i] = q[i] /\ q[i] \in Packets
      /\ Append(q, e)[Len(q) + 1] = e
  BY AppendProperties, LenProperties, ElementOfSeq
<1>2. 1..(Len(q) + 1) = 1..Len(q) \cup {Len(q) + 1}
  BY <1>1
<1>3. In(Append(q, e)) = In(q) \cup {e}
  BY <1>1, <1>2 DEF In
<1>4. ASSUME Once(q), e \notin In(q) PROVE Once(Append(q, e))
  BY <1>1, <1>2, <1>4 DEF Once, In
<1>5. ASSUME NEW R, Ascending(R, q), Earlier(R, In(q), {e})
      PROVE  Ascending(R, Append(q, e))
  <2> SUFFICES ASSUME NEW i \in 1..(Len(q) + 1), NEW j \in 1..(Len(q) + 1), i < j
               PROVE  <<Append(q, e)[i], Append(q, e)[j]>> \in R
    BY <1>1 DEF Ascending
  <2>1. i \in 1..Len(q) /\ Append(q, e)[i] = q[i] /\ q[i] \in In(q)
    BY <1>1 DEF In
  <2>2. CASE j = Len(q) + 1
    BY <1>1, <1>5, <2>1, <2>2 DEF Earlier
  <2>3. CASE j # Len(q) + 1
    <3>1. j \in 1..Len(q) /\ Append(q, e)[j] = q[j]
      BY <1>1, <2>3
    <3> QED BY <1>1, <1>5, <2>1, <3>1 DEF Ascending
  <2> QED BY <2>2, <2>3
<1>6. Order(q) \subseteq Order(Append(q, e))
  BY <1>1, <1>2 DEF Order
<1>7. Earlier(Order(Append(q, e)), In(q), {e})
  <2> SUFFICES ASSUME NEW i \in 1..Len(q) PROVE <<q[i], e>> \in Order(Append(q, e))
    BY <1>1 DEF Earlier, In
  <2>1. i < Len(q) + 1 /\ i \in 1..(Len(q) + 1) /\ Len(q) + 1 \in 1..(Len(q) + 1)
    BY <1>1
  <2> QED BY <1>1, <2>1 DEF Order
<1> QED BY <1>1, <1>3, <1>4, <1>5, <1>6, <1>7

LEMMA InDrop ==
  ASSUME NEW q \in Seq(Packets), q # <<>>, NEW k \in Nat \ {0}
  PROVE  /\ Head(q) \in Packets /\ Head(q) \in In(q)
         /\ SubSeq(q, k + 1, Len(q)) \in Seq(Packets)
         /\ In(SubSeq(q, k + 1, Len(q))) \subseteq In(q)
         /\ Once(q) => /\ Once(SubSeq(q, k + 1, Len(q)))
                       /\ Head(q) \notin In(SubSeq(q, k + 1, Len(q)))
         /\ \A R : Ascending(R, q) =>
                     /\ Ascending(R, SubSeq(q, k + 1, Len(q)))
                     /\ Earlier(R, {Head(q)}, In(SubSeq(q, k + 1, Len(q))))
<1> DEFINE t == SubSeq(q, k + 1, Len(q))
<1>1. Len(q) \in Nat \ {0} /\ DOMAIN q = 1..Len(q) /\ Head(q) = q[1] /\ Head(q) \in Packets
  BY EmptySeq, LenProperties, ElementOfSeq, HeadTailProperties
<1>2. t \in Seq(Packets)
  BY <1>1, SubSeqProperties, ElementOfSeq
<1>3. /\ DOMAIN t = 1..Len(t)
      /\ \A i \in DOMAIN t : i + k \in DOMAIN q /\ 1 < i + k /\ t[i] = q[i + k] /\ i \in Nat
  <2>1. CASE k + 1 <= Len(q)
    <3>1. Len(t) = Len(q) - k /\ \A i \in 1..(Len(q) - k) : t[i] = q[k + 1 + i - 1]
      BY <1>1, <2>1, SubSeqProperties
    <3> QED BY <1>1, <1>2, <2>1, <3>1, LenProperties
  <2>2. CASE k + 1 > Len(q)
    <3>1. t = <<>>
      BY <1>1, <2>2, SubSeqProperties
    <3>2. DOMAIN t = 1..Len(t) /\ DOMAIN t = {}
      BY <1>2, <3>1, LenProperties, EmptySeq
    <3> QED BY <3>2
  <2> HIDE DEF t
  <2> QED BY <1>1, <2>1, <2>2
<1> HIDE DEF t
<1>4. In(t) \subseteq In(q) /\ Head(q) \in In(q)
  BY <1>1, <1>3 DEF In
<1>5. ASSUME Once(q) PROVE Once(t) /\ Head(q) \notin In(t)
  <2>1. Once(t)
    <3> SUFFICES ASSUME NEW i \in DOMAIN t, NEW j \in DOMAIN t, t[i] = t[j] PROVE i = j
      BY DEF Once
    <3>1. i + k = j + k /\ i \in Nat /\ j \in Nat
      BY <1>3, <1>5 DEF Once
    <3> QED BY <3>1
  <2>2. Head(q) \notin In(t)
    BY <1>1, <1>3, <1>5 DEF Once, In
  <2> QED BY <2>1, <2>2
<1>6. ASSUME NEW R, Ascending(R, q) PROVE Ascending(R, t) /\ Earlier(R, {Head(q)}, In(t))
  <2>1. Ascending(R, t)
    <3> SUFFICES ASSUME NEW i \in DOMAIN t, NEW j \in DOMAIN t, i < j
                 PROVE  <<t[i], t[j]>> \in R
      BY DEF Ascending
    <3>1. /\ i + k \in DOMAIN q /\ j + k \in DOMAIN q /\ i + k < j + k
          /\ t[i] = q[i + k] /\ t[j] = q[j + k]
      BY <1>3
    <3> QED BY <1>6, <3>1 DEF Ascending
  <2>2. Earlier(R, {Head(q)}, In(t))
    BY <1>1, <1>3, <1>6 DEF In, Ascending, Earlier
  <2> QED BY <2>1, <2>2
<1> QED BY <1>1, <1>2, <1>4, <1>5, <1>6 DEF t

LEMMA InTail ==
  ASSUME NEW q \in Seq(Packets), q # <<>>
  PROVE  /\ Head(q) \in Packets /\ Head(q) \in In(q)
         /\ Tail(q) \in Seq(Packets)
         /\ In(Tail(q)) \subseteq In(q)
         /\ Once(q) => Once(Tail(q)) /\ Head(q) \notin In(Tail(q))
<1>1. Tail(q) = SubSeq(q, 1 + 1, Len(q))
  BY TailIsSubSeq
<1>2. 1 \in Nat \ {0}
  OBVIOUS
<1>3. /\ Head(q) \in Packets /\ Head(q) \in In(q)
      /\ SubSeq(q, 1 + 1, Len(q)) \in Seq(Packets)
      /\ In(SubSeq(q, 1 + 1, Len(q))) \subseteq In(q)
      /\ Once(q) => /\ Once(SubSeq(q, 1 + 1, Len(q)))
                    /\ Head(q) \notin In(SubSeq(q, 1 + 1, Len(q)))
  BY <1>2, InDrop
<1> QED BY <1>1, <1>3

LEMMA InNone ==
  /\ In(<<>>) = {} /\ Once(<<>>) /\ <<>> \in Seq(Packets)
  /\ \A R : Ascending(R, <<>>)
BY EmptySeq DEF In, Once, Ascending

-----------------------------------------------------------------------------
(* The types                                                               *)

LEMMA TypedInit ==
  ASSUME Init PROVE SocketsTyped
BY SocketsAssumption, EmptySeq DEF Init, Quiet, SocketsTyped

LEMMA ClientTyped ==
  ASSUME SocketsTyped, NEW c \in Clients,
         Connect(c) \/ Established(c) \/ SendPacket(c) \/ Exit(c)
  PROVE  SocketsTyped'
<1>1. Current(c) \in Packets /\ \A k \in Nat : <<c, k>> \in Packets
  BY DEF Current, Packets, SocketsTyped
<1>2. CASE Connect(c)
  <2>1. count[c] + 1 \in 0..MaxPackets /\ count[c] + 1 \in Nat
    BY <1>2, SocketsAssumption DEF Connect, SocketsTyped
  <2>2. count' \in [Clients -> 0..MaxPackets] /\ count'[c] = count[c] + 1
    BY <1>2, <2>1 DEF Connect, SocketsTyped
  <2>3. coming' \subseteq Packets
    BY <1>1, <1>2, <2>1, <2>2 DEF Connect, Reaches, SocketsTyped
  <2>4. client' \in [Clients -> {"idle", "connecting", "connected", "gone"}]
    BY <1>2 DEF Connect, Reaches, SocketsTyped
  <2> QED BY <1>2, <2>2, <2>3, <2>4 DEF Connect, serverVars, SocketsTyped
<1>3. CASE Established(c)
  BY <1>1, <1>3 DEF Established, Reaches, Current, serverVars, SocketsTyped
<1>4. CASE SendPacket(c)
  BY <1>1, <1>4 DEF SendPacket, serverVars, SocketsTyped
<1>5. CASE Exit(c)
  BY <1>5 DEF Exit, serverVars, SocketsTyped
<1> QED BY <1>2, <1>3, <1>4, <1>5

LEMMA ServerTyped ==
  ASSUME SocketsTyped, NEW s \in Servers, Accept(s) \/ ReadPacket(s) \/ ReadEnd(s)
  PROVE  SocketsTyped'
<1>1. queue[s] \in Seq(Packets) /\ pipe[s] \in Seq(Packets) /\ accepted \in Seq(Packets)
  BY DEF SocketsTyped
<1>2. CASE Accept(s)
  <2>1. /\ Head(queue[s]) \in Packets /\ Tail(queue[s]) \in Seq(Packets)
        /\ Append(accepted, Head(queue[s])) \in Seq(Packets)
    BY <1>1, <1>2, InTail, InAppend DEF Accept
  <2> QED BY <1>2, <2>1 DEF Accept, clientVars, SocketsTyped
<1>3. CASE ReadPacket(s)
  <2>1. serving[s] \in Packets
    BY <1>3 DEF ReadPacket, SocketsTyped
  <2>2. Append(pipe[s], serving[s]) \in Seq(Packets)
    BY <1>1, <2>1, InAppend
  <2> QED BY <1>3, <2>2 DEF ReadPacket, clientVars, SocketsTyped
<1>4. CASE ReadEnd(s)
  BY <1>4 DEF ReadEnd, clientVars, SocketsTyped
<1> QED BY <1>2, <1>3, <1>4

LEMMA TypedKept ==
  ASSUME SocketsTyped, [Next]_vars PROVE SocketsTyped'
<1>1. CASE UNCHANGED vars
  BY <1>1 DEF vars, clientVars, serverVars, SocketsTyped
<1>2. ASSUME NEW p \in Clients \X (1..MaxPackets), NEW s \in Servers, Queue(p, s)
      PROVE  SocketsTyped'
  <2>1. p \in Packets /\ queue[s] \in Seq(Packets)
    BY <1>2 DEF Queue, SocketsTyped
  <2>2. Append(queue[s], p) \in Seq(Packets)
    BY <2>1, InAppend
  <2> QED BY <1>2, <2>2 DEF Queue, clientVars, SocketsTyped
<1>3. ASSUME NEW p \in Clients \X (1..MaxPackets), Lose(p) PROVE SocketsTyped'
  BY <1>3 DEF Lose, clientVars, serverVars, SocketsTyped
<1>4. CASE StartServers
  BY <1>4 DEF StartServers, clientVars, serverVars, SocketsTyped
<1>5. CASE KillServers
  BY <1>5, InNone DEF KillServers, Quiet, clientVars, SocketsTyped
<1>6. CASE PacketRecv
  <2>1. PICK n \in Nat \ {0} : ReadFrom(Reader, n)
    BY <1>6, SocketsAssumption DEF PacketRecv
  <2>2. pipe[Reader] \in Seq(Packets) /\ pipe[Reader] # <<>> /\ got \in Seq(Packets)
    BY <2>1, SocketsAssumption DEF ReadFrom, SocketsTyped
  <2>3. /\ Append(got, Head(pipe[Reader])) \in Seq(Packets)
        /\ SubSeq(pipe[Reader], n + 1, Len(pipe[Reader])) \in Seq(Packets)
    BY <2>2, InDrop, InAppend
  <2> QED BY <2>1, <2>3 DEF ReadFrom, clientVars, SocketsTyped
<1> QED BY <1>1, <1>2, <1>3, <1>4, <1>5, <1>6, ClientTyped, ServerTyped
    DEF Next, ServerStep

-----------------------------------------------------------------------------
(* The connections on their way                                            *)

\* A connection that is made now is nowhere yet.
LEMMA NewOne ==
  ASSUME SocketsTyped, Arrivals, NEW c \in Clients, NEW k \in Nat,
         k = count[c] + 1 \/ (client[c] = "connecting" /\ k = count[c])
  PROVE  <<c, k>> \in Packets /\ <<c, k>> \notin coming \cup Waiting \cup In(accepted)
<1>1. ~Sent(<<c, k>>) /\ <<c, k>> \in Packets
  BY SocketsAssumption DEF Sent, SocketsTyped, Packets
<1> QED BY <1>1 DEF Arrivals

\* It is with its client, and so it was sent.
LEMMA NewArrives ==
  ASSUME SocketsTyped, Arrivals, NEW c \in Clients, NEW k \in Nat,
         <<c, k>> \notin coming \cup Waiting \cup In(accepted),
         coming' = coming \cup {<<c, k>>},
         UNCHANGED <<queue, accepted>>,
         \A d \in Clients : client'[d] = "connecting" => count'[d] # 0,
         \A p \in coming \cup Waiting \cup In(accepted) : Sent(p)',
         Sent(<<c, k>>)'
  PROVE  Arrivals'
<1>1. Waiting' = Waiting
  BY DEF Waiting
<1> QED BY <1>1 DEF Arrivals

LEMMA ConnectArrivals ==
  ASSUME SocketsTyped, Arrivals, NEW c \in Clients, Connect(c) PROVE Arrivals'
<1>1. PICK k \in Nat : k = count[c] + 1
  BY SocketsAssumption DEF SocketsTyped
<1>2. /\ client[c] = "idle" /\ count'[c] = k /\ k \in 1..k
      /\ \A d \in Clients : d # c => count'[d] = count[d]
      /\ UNCHANGED <<queue, accepted>>
  BY <1>1 DEF Connect, SocketsTyped, serverVars
<1>3. /\ \A d \in Clients : d # c => client'[d] = client[d]
      /\ \/ client'[c] = "connecting" /\ coming' = coming
         \/ client'[c] = "connected" /\ coming' = coming \cup {<<c, k>>}
  BY <1>1, <1>2 DEF Connect, Reaches, SocketsTyped
<1>4. \A d \in Clients : client'[d] = "connecting" => count'[d] # 0
  BY <1>1, <1>2, <1>3 DEF Arrivals
<1>5. ASSUME NEW p \in coming \cup Waiting \cup In(accepted) PROVE Sent(p)'
  <2>1. p[1] \in Clients /\ p[2] \in Nat
    BY SocketsAssumption, ElementOfSeq, LenProperties
    DEF SocketsTyped, Waiting, In, Packets
  <2>2. p[2] \in 1..count[p[1]] /\ (p[1] = c => p[2] \in 1..k /\ p[2] # k)
    BY <1>1, <2>1 DEF Arrivals, Sent, SocketsTyped
  <2> QED BY <1>2, <1>3, <2>1, <2>2 DEF Arrivals, Sent
<1>6. CASE client'[c] = "connecting" /\ coming' = coming
  <2>1. Waiting' = Waiting
    BY <1>2 DEF Waiting
  <2> QED BY <1>2, <1>4, <1>5, <1>6, <2>1 DEF Arrivals
<1>7. CASE client'[c] = "connected" /\ coming' = coming \cup {<<c, k>>}
  <2>1. Sent(<<c, k>>)'
    BY <1>2, <1>7 DEF Sent
  <2> QED BY <1>1, <1>2, <1>4, <1>5, <1>7, <2>1, NewOne, NewArrives
<1> QED BY <1>3, <1>6, <1>7

LEMMA EstablishedArrivals ==
  ASSUME SocketsTyped, Arrivals, NEW c \in Clients, Established(c) PROVE Arrivals'
<1>1. PICK k \in Nat : k = count[c]
  BY SocketsAssumption DEF SocketsTyped
<1>2. /\ client[c] = "connecting" /\ client'[c] = "connected" /\ k \in 1..k
      /\ \A d \in Clients : d # c => client'[d] = client[d]
      /\ coming' = coming \cup {<<c, k>>}
      /\ UNCHANGED <<count, queue, accepted>>
  BY <1>1 DEF Established, Reaches, SocketsTyped, serverVars, Arrivals
<1>3. ASSUME NEW p \in coming \cup Waiting \cup In(accepted) PROVE Sent(p)'
  <2>1. p[1] \in Clients
    BY SocketsAssumption, ElementOfSeq, LenProperties
    DEF SocketsTyped, Waiting, In, Packets
  <2> QED BY <1>2, <2>1 DEF Arrivals, Sent
<1>4. Sent(<<c, k>>)'
  BY <1>1, <1>2 DEF Sent
<1>5. \A d \in Clients : client'[d] = "connecting" => count'[d] # 0
  BY <1>2 DEF Arrivals
<1> QED BY <1>1, <1>2, <1>3, <1>4, <1>5, NewOne, NewArrives

\* The clients stand still or leave connect(), and connections get fewer.
LEMMA FewerArrive ==
  ASSUME Arrivals, UNCHANGED <<count, accepted>>,
         \A c \in Clients : client'[c] = "connecting" => client[c] = "connecting",
         \A p \in coming' \cup Waiting' \cup In(accepted) : p[1] \in Clients,
         coming' \subseteq coming, Waiting' \subseteq Waiting, Once(queue'[Reader])
  PROVE  Arrivals'
<1>1. ASSUME NEW p \in coming' \cup Waiting' \cup In(accepted) PROVE Sent(p)'
  BY DEF Arrivals, Sent
<1>2. In(accepted)' = In(accepted)
  OBVIOUS
<1> QED BY <1>1, <1>2 DEF Arrivals

LEMMA QueueArrivals ==
  ASSUME SocketsTyped, Arrivals, NEW p, NEW s \in Servers, Queue(p, s) PROVE Arrivals'
<1>1. /\ p \in coming /\ p \in Packets /\ coming' = coming \ {p}
      /\ queue[s] \in Seq(Packets) /\ Reader \in Servers
      /\ queue' = [queue EXCEPT ![s] = Append(queue[s], p)]
      /\ UNCHANGED <<client, count, accepted>>
  BY SocketsAssumption DEF Queue, SocketsTyped, clientVars
<1>2. CASE s = Reader
  <2>1. queue'[Reader] = Append(queue[s], p)
    BY <1>1, <1>2 DEF SocketsTyped
  <2>2. /\ Waiting' = Waiting \cup {p}
        /\ Once(queue[Reader]) /\ p \notin Waiting => Once(queue'[Reader])
    BY <1>1, <1>2, <2>1, InAppend DEF Waiting
  <2>3. p \notin Waiting /\ p \notin In(accepted) /\ Sent(p)
    BY <1>1 DEF Arrivals
  <2> QED BY <1>1, <2>2, <2>3 DEF Arrivals, Sent
<1>3. CASE s # Reader
  <2>1. queue'[Reader] = queue[Reader] /\ Waiting' = Waiting
    BY <1>1, <1>3 DEF SocketsTyped, Waiting
  <2> QED BY <1>1, <2>1 DEF Arrivals, Sent
<1> QED BY <1>2, <1>3

LEMMA AcceptArrivals ==
  ASSUME SocketsTyped, Arrivals, NEW s \in Servers, Accept(s) PROVE Arrivals'
<1>1. /\ queue[s] \in Seq(Packets) /\ queue[s] # <<>> /\ Reader \in Servers
      /\ queue' = [queue EXCEPT ![s] = Tail(queue[s])]
      /\ UNCHANGED <<client, count, coming>>
  BY SocketsAssumption DEF Accept, SocketsTyped, clientVars
<1>2. CASE s = Reader
  <2>1. PICK e \in Packets : e = Head(queue[Reader])
    BY <1>1, <1>2, InTail
  <2>2. /\ e \in Waiting /\ Waiting' \subseteq Waiting
        /\ Once(queue'[Reader]) /\ e \notin Waiting'
    <3>1. queue'[Reader] = Tail(queue[Reader])
      BY <1>1, <1>2 DEF SocketsTyped
    <3> QED BY <1>1, <1>2, <2>1, <3>1, InTail DEF Waiting, Arrivals
  <2>3. accepted' = Append(accepted, e) /\ accepted \in Seq(Packets)
    BY <1>2, <2>1 DEF Accept, SocketsTyped
  <2>4. /\ In(accepted') = In(accepted) \cup {e}
        /\ Once(accepted) /\ e \notin In(accepted) => Once(accepted')
    BY <2>3, InAppend
  <2>5. e \notin In(accepted) /\ e \notin coming
    BY <2>2 DEF Arrivals
  <2>6. \A p \in coming' \cup Waiting' \cup In(accepted') : Sent(p)'
    BY <1>1, <2>2, <2>4 DEF Arrivals, Sent
  <2> QED BY <1>1, <2>2, <2>4, <2>5, <2>6 DEF Arrivals
<1>3. CASE s # Reader
  <2>1. queue'[Reader] = queue[Reader] /\ Waiting' = Waiting /\ accepted' = accepted
    BY <1>1, <1>3 DEF Accept, SocketsTyped, Waiting
  <2> QED BY <1>1, <2>1 DEF Arrivals, Sent
<1> QED BY <1>2, <1>3

LEMMA ArrivalsKept ==
  ASSUME SocketsTyped, Arrivals, [Next]_vars PROVE Arrivals'
<1>1. \A p \in coming \cup Waiting \cup In(accepted) : p[1] \in Clients
  BY SocketsAssumption, ElementOfSeq, LenProperties
  DEF SocketsTyped, Waiting, In, Packets
<1>2. ASSUME UNCHANGED <<count, accepted, queue>>, coming' \subseteq coming,
             \A c \in Clients : client'[c] = "connecting" => client[c] = "connecting"
      PROVE  Arrivals'
  <2>1. Waiting' = Waiting /\ Once(queue'[Reader])
    BY <1>2 DEF Waiting, Arrivals
  <2> QED BY <1>1, <1>2, <2>1, FewerArrive
<1>3. CASE UNCHANGED vars \/ StartServers \/ PacketRecv
           \/ \E s \in Servers : ReadPacket(s) \/ ReadEnd(s)
  BY <1>2, <1>3 DEF vars, clientVars, serverVars, StartServers, PacketRecv, ReadFrom,
     ReadPacket, ReadEnd
<1>4. ASSUME NEW c \in Clients, SendPacket(c) \/ Exit(c) PROVE Arrivals'
  BY <1>2, <1>4 DEF SendPacket, Exit, serverVars, SocketsTyped
<1>5. ASSUME NEW p, Lose(p) PROVE Arrivals'
  BY <1>2, <1>5 DEF Lose, clientVars, serverVars
<1>6. CASE KillServers
  <2>1. queue'[Reader] = <<>> /\ coming' = {} /\ UNCHANGED <<client, count, accepted>>
    BY <1>6, SocketsAssumption DEF KillServers, Quiet, clientVars
  <2>2. Waiting' = {} /\ Once(queue'[Reader])
    BY <2>1, InNone DEF Waiting
  <2> QED BY <1>1, <2>1, <2>2, FewerArrive
<1> QED BY <1>3, <1>4, <1>5, <1>6, ConnectArrivals, EstablishedArrivals, QueueArrivals,
        AcceptArrivals DEF Next, ServerStep

-----------------------------------------------------------------------------
(* The packets behind the server                                           *)

\* What is accepted is behind all there is.
LEMMA AcceptTurn ==
  ASSUME SocketsTyped, InTurn, NEW s \in Servers, Accept(s) PROVE InTurn'
<1>1. /\ serving[s] = None /\ Reader \in Servers
      /\ serving' = [serving EXCEPT ![s] = Head(queue[s])]
      /\ UNCHANGED <<pipe, got>>
  BY SocketsAssumption DEF Accept
<1>2. Passed' = Passed
  BY <1>1 DEF Passed
<1>3. CASE s = Reader
  <2>1. PICK e \in Packets : e = Head(queue[s])
    BY <1>3, InTail DEF Accept, SocketsTyped
  <2>2. /\ accepted' = Append(accepted, e) /\ accepted \in Seq(Packets)
        /\ Served' \subseteq {e}
    BY <1>1, <1>3, <2>1 DEF Accept, SocketsTyped, Served
  <2>3. /\ In(accepted') = In(accepted) \cup {e}
        /\ Order(accepted) \subseteq Order(accepted')
        /\ Earlier(Order(accepted'), In(accepted), {e})
    BY <2>2, InAppend
  <2>4. In(got) \cup Passed \subseteq In(accepted)
    BY DEF InTurn
  <2>5. Ascending(Order(accepted'), got) /\ Ascending(Order(accepted'), pipe[Reader])
    BY <2>3 DEF InTurn, Ascending
  <2>6. Earlier(Order(accepted'), In(got), Passed)
    BY <2>3 DEF InTurn, Earlier
  <2>7. /\ Earlier(Order(accepted'), In(got), Served')
        /\ Earlier(Order(accepted'), Passed, Served')
    BY <2>2, <2>3, <2>4 DEF Earlier
  <2> QED BY <1>1, <1>2, <2>2, <2>3, <2>4, <2>5, <2>6, <2>7 DEF InTurn
<1>4. CASE s # Reader
  <2>1. Served' = Served /\ accepted' = accepted
    BY <1>1, <1>4 DEF Accept, Served, SocketsTyped
  <2> QED BY <1>1, <1>2, <2>1 DEF InTurn
<1> QED BY <1>3, <1>4

LEMMA ReadPacketTurn ==
  ASSUME SocketsTyped, InTurn, NEW s \in Servers, ReadPacket(s) PROVE InTurn'
<1>1. PICK e \in Packets : e = serving[s] /\ e # None
  BY SocketsAssumption DEF ReadPacket, SocketsTyped, Packets
<1>2. /\ pipe[s] \in Seq(Packets) /\ Reader \in Servers
      /\ serving' = [serving EXCEPT ![s] = None]
      /\ \/ pipe' = [pipe EXCEPT ![s] = Append(pipe[s], e)]
         \/ pipe' = pipe
      /\ UNCHANGED <<accepted, got>>
  BY <1>1, SocketsAssumption DEF ReadPacket, SocketsTyped
<1>3. CASE s = Reader
  <2>1. Served = {e} /\ Served' = {}
    BY <1>1, <1>2, <1>3 DEF Served, SocketsTyped
  <2>2. /\ Passed' \subseteq Passed \cup {e}
        /\ Ascending(Order(accepted), pipe'[Reader])
    <3>1. CASE pipe' = [pipe EXCEPT ![s] = Append(pipe[s], e)]
      <4>1. pipe'[Reader] = Append(pipe[s], e)
        BY <1>2, <1>3, <3>1 DEF SocketsTyped
      <4>2. Ascending(Order(accepted), pipe[s]) /\ Earlier(Order(accepted), In(pipe[s]), {e})
        BY <1>3, <2>1 DEF InTurn, Passed
      <4>3. PICK R : R = Order(accepted)
        OBVIOUS
      <4>4. /\ In(Append(pipe[s], e)) = In(pipe[s]) \cup {e}
            /\ Ascending(R, pipe[s]) /\ Earlier(R, In(pipe[s]), {e})
                 => Ascending(R, Append(pipe[s], e))
        BY <1>2, InAppend
      <4> QED BY <1>3, <4>1, <4>2, <4>3, <4>4 DEF Passed
    <3>2. CASE pipe' = pipe
      BY <3>2 DEF Passed, InTurn
    <3> QED BY <1>2, <3>1, <3>2
  <2> QED BY <1>2, <2>1, <2>2 DEF InTurn, Earlier
<1>4. CASE s # Reader
  <2>1. Served' = Served /\ Passed' = Passed /\ pipe'[Reader] = pipe[Reader]
    BY <1>2, <1>4 DEF Served, Passed, SocketsTyped
  <2> QED BY <1>2, <2>1 DEF InTurn
<1> QED BY <1>3, <1>4

LEMMA PacketRecvTurn ==
  ASSUME SocketsTyped, InTurn, PacketRecv PROVE InTurn'
<1>1. PICK n \in Nat \ {0} : ReadFrom(Reader, n)
  BY SocketsAssumption DEF PacketRecv
<1>2. PICK q \in Seq(Packets) : q = pipe[Reader]
  BY SocketsAssumption DEF SocketsTyped
<1>3. PICK r : r = SubSeq(q, n + 1, Len(q))
  OBVIOUS
<1>4. PICK e : e = Head(q)
  OBVIOUS
<1>5. /\ q # <<>> /\ got \in Seq(Packets) /\ got' = Append(got, e)
      /\ pipe'[Reader] = r
      /\ UNCHANGED <<accepted, serving>>
  BY <1>1, <1>2, <1>3, <1>4, SocketsAssumption DEF ReadFrom, SocketsTyped
<1>6. /\ e \in Packets /\ e \in In(q) /\ In(r) \subseteq In(q)
      /\ \A R : Ascending(R, q) => Ascending(R, r) /\ Earlier(R, {e}, In(r))
  <2>1. /\ Head(q) \in Packets /\ Head(q) \in In(q)
        /\ In(SubSeq(q, n + 1, Len(q))) \subseteq In(q)
        /\ \A R : Ascending(R, q) =>
                    /\ Ascending(R, SubSeq(q, n + 1, Len(q)))
                    /\ Earlier(R, {Head(q)}, In(SubSeq(q, n + 1, Len(q))))
    BY <1>5, InDrop
  <2> QED BY <1>3, <1>4, <2>1
<1>7. Passed = In(q) /\ Passed' = In(r) /\ Served' = Served
  BY <1>2, <1>5 DEF Passed, Served
<1>8. Ascending(Order(accepted), r) /\ Earlier(Order(accepted), {e}, In(r))
  BY <1>2, <1>6 DEF InTurn
<1>9. In(got') = In(got) \cup {e} /\ Ascending(Order(accepted), got')
  <2>1. Ascending(Order(accepted), got) /\ Earlier(Order(accepted), In(got), {e})
    BY <1>6, <1>7 DEF InTurn, Earlier
  <2> QED BY <1>5, <1>6, <2>1, InAppend
<1>10. /\ Earlier(Order(accepted), In(got'), Passed')
       /\ Earlier(Order(accepted), In(got'), Served)
       /\ Earlier(Order(accepted), Passed', Served)
  BY <1>6, <1>7, <1>8, <1>9 DEF InTurn, Earlier
<1>11. In(got') \cup Passed' \cup Served \subseteq In(accepted)
  BY <1>6, <1>7, <1>9 DEF InTurn
<1> QED BY <1>5, <1>7, <1>8, <1>9, <1>10, <1>11 DEF InTurn

LEMMA InTurnKept ==
  ASSUME SocketsTyped, InTurn, [Next]_vars PROVE InTurn'
<1>1. ASSUME UNCHANGED <<serving, pipe, accepted, got>> PROVE InTurn'
  BY <1>1 DEF InTurn, Passed, Served
<1>2. CASE UNCHANGED vars \/ StartServers
  BY <1>1, <1>2 DEF vars, serverVars, StartServers
<1>3. ASSUME NEW c \in Clients, Connect(c) \/ Established(c) \/ SendPacket(c) \/ Exit(c)
      PROVE  InTurn'
  BY <1>1, <1>3 DEF Connect, Established, SendPacket, Exit, serverVars
<1>4. ASSUME NEW p, NEW s, Lose(p) \/ Queue(p, s) PROVE InTurn'
  BY <1>1, <1>4 DEF Lose, Queue, serverVars
<1>5. CASE KillServers
  <2>1. /\ serving'[Reader] = None /\ pipe'[Reader] = <<>>
        /\ UNCHANGED <<accepted, got>>
    BY <1>5, SocketsAssumption DEF KillServers, Quiet
  <2>2. Passed' = {} /\ Served' = {} /\ Ascending(Order(accepted), pipe'[Reader])
    BY <2>1, InNone DEF Passed, Served
  <2> QED BY <2>1, <2>2 DEF InTurn, Earlier
<1>6. ASSUME NEW s \in Servers, ReadEnd(s) PROVE InTurn'
  <2>1. Served' \subseteq Served /\ Passed' = Passed /\ UNCHANGED <<pipe, accepted, got>>
    BY <1>6, SocketsAssumption DEF ReadEnd, Served, Passed, SocketsTyped
  <2> QED BY <2>1 DEF InTurn, Earlier
<1> QED BY <1>2, <1>3, <1>4, <1>5, <1>6, AcceptTurn, ReadPacketTurn, PacketRecvTurn
    DEF Next, ServerStep

-----------------------------------------------------------------------------
LEMMA SocketsInit ==
  ASSUME Init PROVE SocketsInv
<1>1. SocketsTyped
  BY TypedInit
<1>2. /\ Waiting = {} /\ Passed = {} /\ Served = {} /\ coming = {}
      /\ accepted = <<>> /\ got = <<>> /\ In(<<>>) = {}
      /\ queue[Reader] = <<>> /\ pipe[Reader] = <<>>
  BY SocketsAssumption, InNone DEF Init, Quiet, Waiting, Passed, Served
<1>3. Arrivals
  BY <1>2, InNone DEF Init, Arrivals
<1>4. InTurn
  BY <1>2, InNone DEF InTurn, Earlier
<1> QED BY <1>1, <1>3, <1>4 DEF SocketsInv

\* What the order of the list of those accepted says.
LEMMA TurnsAreKept ==
  ASSUME SocketsInv PROVE PacketsComeInTurn
<1>1. \A i, j \in DOMAIN accepted : accepted[i] = accepted[j] => i = j
  BY DEF SocketsInv, Arrivals, Once
<1>2. \A i \in DOMAIN got : \E j \in DOMAIN accepted : got[i] = accepted[j]
  BY DEF SocketsInv, InTurn, In
<1>3. ASSUME NEW i \in DOMAIN got, NEW j \in DOMAIN got, i < j
      PROVE  Before(got[i], got[j])
  <2>1. <<got[i], got[j]>> \in Order(accepted)
    BY <1>3 DEF SocketsInv, InTurn, Ascending
  <2> QED BY <2>1 DEF Order, Before
<1> QED BY <1>1, <1>2, <1>3 DEF PacketsComeInTurn

\* For every number of clients, servers and packets, whatever the network loses or
\* puts in another order and however often the programs end: the switch receives
\* the packets whose connections its server has accepted, in that order and none
\* twice (sockets.c:137-152).
THEOREM SocketsKeepTurn == Spec => []PacketsComeInTurn
<1>1. Init => SocketsInv
  BY SocketsInit
<1>2. SocketsInv /\ [Next]_vars => SocketsInv'
  BY TypedKept, ArrivalsKept, InTurnKept DEF SocketsInv
<1>3. SocketsInv => PacketsComeInTurn
  BY TurnsAreKept
<1> QED BY <1>1, <1>2, <1>3, PTL DEF Spec
=============================================================================
