----------------------------- MODULE NameTable -----------------------------
(***************************************************************************)
(* The naming table of the DNS server (naming_table of host_main in        *)
(* host.c, struct dns_entry of dns.h): an array that is searched from its  *)
(* first entry up to one that is not valid.  No search looks at            *)
(* TABLE_SIZE.  A host that registers again gets the entry behind its own, *)
(* because the search steps on before it breaks.  The table is on the      *)
(* stack, init_dns_table (dns.c:9) is never called, and so it starts with  *)
(* what was in that memory.                                                *)
(***************************************************************************)
EXTENDS Naturals, FiniteSets

CONSTANTS
  TableSize,  \* TABLE_SIZE
  Hosts,      \* ids of the hosts that register
  Names,      \* domain names they register
  Stray,      \* text that is not a name in use
  NoId,       \* the answer -1
  Readings,   \* Readings[x]: what strcmp may read a name x as
  Memory      \* the entries that may be in memory when host_main starts

Entry == [valid : BOOLEAN, physical_id : Hosts \cup {NoId},
          domain_name : Names \cup {Stray}]

ASSUME NamesAssumption ==
  /\ TableSize \in Nat \ {0}
  /\ IsFiniteSet(Hosts)
  /\ NoId \notin Hosts
  /\ Stray \notin Names
  /\ Readings \in [Names -> SUBSET (Names \cup {Stray})]
  /\ Memory \subseteq Entry

VARIABLES
  memory,      \* (history) the table as host_main found it
  naming_table,
  registered,  \* (history) the ids and names that have been registered
  answer,      \* the name looked up last and the id found for it
  overrun      \* a search or a registration has left the table

vars == <<memory, naming_table, registered, answer, overrun>>

Places == 0..(TableSize - 1)

Init ==
  /\ memory \in [Places -> Memory]
  /\ naming_table = memory
  /\ registered = {}
  /\ answer = [name |-> Stray, id |-> NoId]
  /\ overrun = FALSE

\* Where the search of a registration stops, and that of a lookup.
StopsForId(h)   == {i \in Places : \/ ~naming_table[i].valid
                                   \/ naming_table[i].physical_id = h}
StopsForName(x) == {i \in Places : \/ ~naming_table[i].valid
                                   \/ naming_table[i].domain_name = x}

IsFirst(S, i) == i \in S /\ \A j \in S : i <= j

\* (mutant) The id that is compared is never that of the packet.
EntryForNew(h, w) == w \in Places /\ IsFirst(StopsForId(NoId), w)

\* The place at which host h is registered: i++ comes before the break.
EntryFor(h, w) ==
  \E i \in Places :
    /\ IsFirst(StopsForId(h), i)
    /\ w = IF naming_table[i].valid THEN i + 1 ELSE i

\* (mutant) The entry of the host keeps its old id.
RegisterKeepsId(h, x) ==
  /\ ~overrun
  /\ \E w \in Places :
       /\ EntryFor(h, w)
       /\ naming_table' = [naming_table EXCEPT ![w] =
            [@ EXCEPT !.valid = TRUE, !.domain_name = x,
                      !.physical_id = IF @ = NoId THEN h ELSE @]]
  /\ registered' = registered \cup {<<h, x>>}
  /\ UNCHANGED <<memory, answer, overrun>>

RegisterDomainName(h, x) ==
  /\ ~overrun
  /\ \E w \in Places :
       /\ EntryFor(h, w)
       /\ naming_table' = [naming_table EXCEPT ![w] =
            [valid |-> TRUE, physical_id |-> h, domain_name |-> x]]
  /\ registered' = registered \cup {<<h, x>>}
  /\ UNCHANGED <<memory, answer, overrun>>

\* The search goes on behind the table, or the entry to be written is there.
RegisterBehind(h) ==
  /\ ~overrun
  /\ \A w \in Places : ~EntryFor(h, w)
  /\ overrun' = TRUE
  /\ UNCHANGED <<memory, naming_table, registered, answer>>

\* The name asked for comes without its '\0' (host.c:242) and packet_recv puts
\* its letters over those of an older packet: strcmp may read on behind it.
ReqPhysId(x) ==
  /\ ~overrun
  /\ \E y \in Readings[x] : \E i \in Places :
       /\ IsFirst(StopsForName(y), i)
       /\ answer' = [name |-> x,
                     id |-> IF naming_table[i].valid
                            THEN naming_table[i].physical_id ELSE NoId]
  /\ UNCHANGED <<memory, naming_table, registered, overrun>>

ReqBehind(x) ==
  /\ ~overrun
  /\ \E y \in Readings[x] : StopsForName(y) = {}
  /\ overrun' = TRUE
  /\ UNCHANGED <<memory, naming_table, registered, answer>>

Next ==
  \/ \E h \in Hosts, x \in Names : RegisterDomainName(h, x)
  \/ \E h \in Hosts : RegisterBehind(h)
  \/ \E x \in Names : ReqPhysId(x) \/ ReqBehind(x)

Spec == Init /\ [][Next]_vars

-----------------------------------------------------------------------------
TypeOK ==
  /\ memory \in [Places -> Entry]
  /\ naming_table \in [Places -> Entry]
  /\ registered \subseteq Hosts \X Names
  /\ answer \in [name : Names \cup {Stray}, id : Hosts \cup {NoId}]
  /\ overrun \in BOOLEAN

ValidPlaces == {i \in Places : naming_table[i].valid}

\* The entries that a registration has written, and those that were valid by
\* chance when the server started.
Written    == {i \in ValidPlaces : naming_table[i] # memory[i]}
ByChance   == {i \in Places : memory[i].valid}
ChancePairs == {<<memory[i].physical_id, memory[i].domain_name>> : i \in ByChance}

\* Whatever the table held when the server started: a search that stops at the
\* first entry that is not valid misses none that was registered, and an id it
\* answers with is that of a host that did register what the name was read as,
\* or was in the memory with that name (host.c:60, 637, 663).
AnswersAreTrue ==
  /\ \A i \in Written : \A j \in 0..i : j \in ValidPlaces
  /\ \A i \in Written :
       <<naming_table[i].physical_id, naming_table[i].domain_name>> \in registered
  /\ answer.id # NoId =>
       \E y \in Readings[answer.name] : <<answer.id, y>> \in registered \cup ChancePairs

\* However often a host registers and whatever the table held before, no entry
\* is written for it but right behind one it has: the step past its own entry
\* (host.c:639) is one step, and it has two entries at most of its own.
TwoEntriesAtMost ==
  \A i \in ValidPlaces : \A j \in Written :
    i < j /\ naming_table[i].physical_id = naming_table[j].physical_id
      => j = i + 1

\* Nothing in host.c:637-670 keeps a search or a registration inside the table
\* but the number of the hosts: none leaves it before half as many hosts have
\* registered as it had entries that were free when the server started, however
\* often each of them did.
Registrants == {r[1] : r \in registered}

StaysInside ==
  overrun => Cardinality(ByChance) + 2 * Cardinality(Registrants) >= TableSize

\* "check if the physical id is already in the table ... Else add the domain
\* name" (host.c:636-644): a registration concerns the entry of its own host, or
\* a new one, and no host that has registered is lost from the table.
RegisteredHostsAreListed ==
  \A r \in registered : \E i \in ValidPlaces : naming_table[i].physical_id = r[1]
=============================================================================
