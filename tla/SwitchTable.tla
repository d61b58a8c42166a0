---------------------------- MODULE SwitchTable ----------------------------
(***************************************************************************)
(* The forwarding table of a switch as it lies in memory (struct           *)
(* forward_table of switch.h, switch_util.c): one int, and three arrays    *)
(* of MAX_TABLE_SIZE ints behind it.  The functions index the arrays with  *)
(* the src and dst of a packet, which are chars off the wire, and compare  *)
(* them with nothing.  An index that is too large for one array is in the  *)
(* next one, and valid[-1] is the int in front.                            *)
(***************************************************************************)
EXTENDS Integers

CONSTANTS
  MaxTableSize,  \* MAX_TABLE_SIZE
  Src,           \* ids of the nodes that send packets
  Dst,           \* ids packets are sent to
  Ports,         \* indices of node_port
  Stray,         \* what may be found in memory behind the table
  None           \* no port

\* Ids below -1 and from 2 * MaxTableSize on would be outside of the table
\* already in valid and HostID.
ASSUME TableAssumption ==
  /\ MaxTableSize \in Nat \ {0}
  /\ Src \subseteq 0..(2 * MaxTableSize - 1)
  /\ Dst \subseteq -1..(2 * MaxTableSize - 1)
  /\ Ports \subseteq Nat
  /\ None \notin Ports

VARIABLES
  mem,    \* the ints of struct forward_table
  heard,  \* (history) the nodes whose packets the switch has seen
  out     \* the indices of node_port to which the last packet was sent

vars == <<mem, heard, out>>

Cells == 0..(3 * MaxTableSize)

\* The places of size, valid[i], HostID[i] and port[i].
Size      == 0
Valid(i)  == 1 + i
HostID(i) == 1 + MaxTableSize + i
PortOf(i) == 1 + 2 * MaxTableSize + i

\* What a store does to the table, and what a load may give.
Store(m, c, v) == [x \in Cells |-> IF x = c THEN v ELSE m[x]]
Load(c) == IF c \in Cells THEN {mem[c]} ELSE Stray

\* (mutant) The loop ends one entry early, which keeps what was in memory.
InitShort ==
  /\ mem = [c \in Cells |->
              IF c \in HostID(0)..HostID(MaxTableSize - 1) THEN -1
              ELSE IF c = Valid(MaxTableSize - 1) THEN 1 ELSE 0]
  /\ heard = {}
  /\ out = {}

Init ==
  /\ mem = [c \in Cells |->
              IF c \in HostID(0)..HostID(MaxTableSize - 1) THEN -1 ELSE 0]
  /\ heard = {}
  /\ out = {}

IsHostInTable(d) == mem[Valid(d)] # 0

\* (mutant) The last packet of a node says where it is.
AddSrcAgain(s, k) ==
  mem' = Store(Store(Store(mem, Valid(s), 1), HostID(s), s), PortOf(s), k)

AddSrcToTable(s, k) ==
  mem' = IF mem[Valid(s)] # 0 THEN mem
         ELSE Store(Store(Store(mem, Valid(s), 1), HostID(s), s), PortOf(s), k)

\* A packet from s to d is read from port k.  Forward sends it where port[d]
\* says and then learns its source, Flood learns first and sends it to all.
Forward(s, d, k) ==
  /\ IsHostInTable(d)
  /\ \E port \in Load(PortOf(d)) : out' = {port}
  /\ AddSrcToTable(s, k)
  /\ heard' = heard \cup {s}

Flood(s, d, k) ==
  /\ ~IsHostInTable(d)
  /\ out' = Ports
  /\ AddSrcToTable(s, k)
  /\ heard' = heard \cup {s}

Next == \E s \in Src, d \in Dst, k \in Ports : Forward(s, d, k) \/ Flood(s, d, k)

Spec == Init /\ [][Next]_vars

-----------------------------------------------------------------------------
TypeOK ==
  /\ mem \in [Cells -> Int]
  /\ heard \subseteq Src

\* Every id has an entry of its own, and -1 finds the int in front, which
\* nothing changes.
IdsFit ==
  /\ Src \subseteq 0..(MaxTableSize - 1)
  /\ Dst \subseteq -1..(MaxTableSize - 1)

\* A node is in the table if and only if a packet of it has been seen: the
\* answer of is_host_in_table, switch_util.c:126, is about that very node,
\* and not about a word of memory that some other entry owns.
InTableMeansHeard == \A d \in Dst : IsHostInTable(d) <=> d \in heard

\* The table in memory does what a switch promises: one lookup before or after
\* the source is learned (switch.c:133-142), entries that are never changed,
\* and no entry that is part of another.
Promise == INSTANCE FirstHeard
  WITH heard <- [i \in Src \cup Dst |->
                   IF IsHostInTable(i) THEN mem[PortOf(i)] ELSE None]
FirstHeardSpec == Promise!Spec
=============================================================================
