------------------------- MODULE SwitchTableProofs -------------------------
(***************************************************************************)
(* Theorems about the forwarding table.  With ids below MAX_TABLE_SIZE the *)
(* three arrays are one entry per node, and the table in memory is a       *)
(* learning switch.                                                        *)
(***************************************************************************)
EXTENDS SwitchTable, TLAPS

Ids == 0..(MaxTableSize - 1)

\* An entry is written as a whole, and only when a packet of its node comes.
Entries ==
  /\ mem[Size] = 0
  /\ \A i \in Ids : /\ mem[Valid(i)] # 0 <=> i \in heard
                    /\ i \in heard => mem[PortOf(i)] \in Ports

TableInv == TypeOK /\ Entries

\* The cells of an entry are in the table, and are no others' cells.
LEMMA CellsApart ==
  ASSUME NEW i \in Ids, NEW j \in Ids
  PROVE  /\ Size \in Cells /\ Valid(i) \in Cells
         /\ HostID(i) \in Cells /\ PortOf(i) \in Cells
         /\ Size # Valid(i) /\ Size # HostID(i) /\ Size # PortOf(i)
         /\ Valid(i) # HostID(j) /\ Valid(i) # PortOf(j)
         /\ HostID(i) # PortOf(j)
         /\ i # j => Valid(i) # Valid(j) /\ PortOf(i) # PortOf(j)
BY TableAssumption DEF Ids, Cells, Size, Valid, HostID, PortOf

LEMMA StoreTyped ==
  ASSUME NEW m \in [Cells -> Int], NEW c, NEW v \in Int
  PROVE  Store(m, c, v) \in [Cells -> Int]
BY DEF Store

\* What add_src_to_table does to the cells that the lookups read.
LEMMA Learns ==
  ASSUME TypeOK, IdsFit, NEW s \in Src, NEW k \in Ports, AddSrcToTable(s, k)
  PROVE  /\ mem' \in [Cells -> Int]
         /\ mem'[Size] = mem[Size]
         /\ \A i \in Ids : i # s => /\ mem'[Valid(i)] = mem[Valid(i)]
                                    /\ mem'[PortOf(i)] = mem[PortOf(i)]
         /\ mem[Valid(s)] # 0 => /\ mem'[Valid(s)] = mem[Valid(s)]
                                 /\ mem'[PortOf(s)] = mem[PortOf(s)]
         /\ mem[Valid(s)] = 0 => mem'[Valid(s)] = 1 /\ mem'[PortOf(s)] = k
<1>1. s \in Ids /\ s \in Int /\ k \in Int
  BY TableAssumption DEF IdsFit, Ids
<1>2. CASE mem[Valid(s)] # 0
  BY <1>1, <1>2 DEF AddSrcToTable, TypeOK
<1>3. CASE mem[Valid(s)] = 0
  <2> DEFINE m1 == Store(mem, Valid(s), 1)
             m2 == Store(m1, HostID(s), s)
             m3 == Store(m2, PortOf(s), k)
  <2>1. mem' = m3
    BY <1>3 DEF AddSrcToTable
  <2>2. m1 \in [Cells -> Int] /\ m2 \in [Cells -> Int] /\ m3 \in [Cells -> Int]
    BY <1>1, StoreTyped DEF TypeOK
  <2>3. \A c \in Cells : m3[c] = IF c = PortOf(s) THEN k
                                 ELSE IF c = HostID(s) THEN s
                                 ELSE IF c = Valid(s) THEN 1 ELSE mem[c]
    BY DEF Store
  <2>4. \A i \in Ids : i # s => /\ m3[Valid(i)] = mem[Valid(i)]
                                /\ m3[PortOf(i)] = mem[PortOf(i)]
    BY <1>1, <2>3, CellsApart
  <2>5. m3[Size] = mem[Size] /\ m3[Valid(s)] = 1 /\ m3[PortOf(s)] = k
    BY <1>1, <2>3, CellsApart
  <2> QED BY <1>3, <2>1, <2>2, <2>4, <2>5
<1> QED BY <1>2, <1>3

LEMMA TableInit ==
  ASSUME Init PROVE TableInv
<1>1. TypeOK
  BY DEF Init, TypeOK
<1>2. \A i \in Ids : mem[Valid(i)] = 0
  BY TableAssumption DEF Init, Ids, Valid, HostID, Cells
<1>3. mem[Size] = 0
  BY TableAssumption DEF Init, Size, HostID, Cells
<1>4. heard = {}
  BY DEF Init
<1> QED BY <1>1, <1>2, <1>3, <1>4 DEF TableInv, Entries

LEMMA TableStep ==
  ASSUME TableInv, IdsFit, NEW s \in Src, NEW k \in Ports,
         AddSrcToTable(s, k), heard' = heard \cup {s}
  PROVE  TableInv'
<1>1. TypeOK /\ Entries
  BY DEF TableInv
<1>2. s \in Ids
  BY DEF IdsFit, Ids
<1>3. TypeOK'
  BY <1>1, Learns DEF TypeOK
<1>4. mem'[Size] = 0
  BY <1>1, Learns DEF Entries
<1>5. ASSUME NEW i \in Ids
      PROVE  /\ mem'[Valid(i)] # 0 <=> i \in heard'
             /\ i \in heard' => mem'[PortOf(i)] \in Ports
  <2>1. CASE i # s
    BY <1>1, <2>1, Learns DEF Entries
  <2>2. CASE i = s
    BY <1>1, <1>2, <2>2, Learns DEF Entries
  <2> QED BY <2>1, <2>2
<1> QED BY <1>3, <1>4, <1>5 DEF TableInv, Entries, Size, Valid, PortOf

LEMMA TableKept ==
  ASSUME TableInv, IdsFit, [Next]_vars PROVE TableInv'
<1>1. CASE UNCHANGED vars
  BY <1>1 DEF TableInv, TypeOK, Entries, vars, Valid, PortOf, Size
<1>2. ASSUME NEW s \in Src, NEW d \in Dst, NEW k \in Ports, Forward(s, d, k)
      PROVE  TableInv'
  BY <1>2, TableStep DEF Forward
<1>3. ASSUME NEW s \in Src, NEW d \in Dst, NEW k \in Ports, Flood(s, d, k)
      PROVE  TableInv'
  BY <1>3, TableStep DEF Flood
<1> QED BY <1>1, <1>2, <1>3 DEF Next

\* The answer of is_host_in_table about an id that a packet may have.
LEMMA Lookup ==
  ASSUME TableInv, IdsFit, NEW d \in Src \cup Dst
  PROVE  /\ IsHostInTable(d) <=> d \in heard
         /\ IsHostInTable(d) => d \in Ids /\ mem[PortOf(d)] \in Ports
<1>1. CASE d \in Ids
  BY <1>1 DEF TableInv, Entries, IsHostInTable
<1>2. CASE d \notin Ids
  <2>1. d = -1
    BY <1>2, TableAssumption DEF IdsFit, Ids
  <2>2. mem[Valid(d)] = 0
    BY <2>1 DEF TableInv, Entries, Valid, Size
  <2>3. d \notin heard
    BY <1>2 DEF TableInv, TypeOK, IdsFit, Ids
  <2> QED BY <2>2, <2>3 DEF IsHostInTable
<1> QED BY <1>1, <1>2

-----------------------------------------------------------------------------
\* is_host_in_table and add_src_to_table (switch_util.c:92-130) answer for the
\* node they are asked about, whatever the size of the table.
THEOREM TableAnswersRight ==
  ASSUME IdsFit PROVE Spec => []InTableMeansHeard
<1>1. Init => TableInv
  BY TableInit
<1>2. TableInv /\ [Next]_vars => TableInv'
  BY TableKept
<1>3. TableInv => InTableMeansHeard
  BY Lookup DEF InTableMeansHeard
<1> QED BY <1>1, <1>2, <1>3, PTL DEF Spec

\* The loop of switch_main (switch.c:121-145) over the table in memory is a
\* learning switch that sends each packet where its destination was first heard.
THEOREM TableImplementsLearning ==
  ASSUME IdsFit PROVE Spec => FirstHeardSpec
<1> DEFINE H == [i \in Src \cup Dst |->
                   IF IsHostInTable(i) THEN mem[PortOf(i)] ELSE None]
<1>1. Init => Promise!Init
  <2> SUFFICES ASSUME Init PROVE Promise!Init
    OBVIOUS
  <2>1. TableInv /\ heard = {} /\ out = {}
    BY TableInit DEF Init
  <2>2. \A i \in Src \cup Dst : ~IsHostInTable(i)
    BY <2>1, Lookup
  <2> QED BY <2>1, <2>2 DEF Promise!Init
<1>2. TableInv /\ [Next]_vars => [Promise!Next]_(Promise!vars)
  <2> SUFFICES ASSUME TableInv, [Next]_vars PROVE [Promise!Next]_(Promise!vars)
    OBVIOUS
  <2>0. TypeOK
    BY DEF TableInv
  <2>1. CASE UNCHANGED vars
    BY <2>1 DEF vars, Promise!vars, IsHostInTable, Valid, PortOf
  <2>2. ASSUME NEW s \in Src, NEW k \in Ports, AddSrcToTable(s, k)
        PROVE  H' = [H EXCEPT ![s] = IF @ = None THEN k ELSE @]
    <3>1. s \in Ids
      BY DEF IdsFit, Ids
    <3>2. ASSUME NEW i \in Src \cup Dst, i # s
          PROVE  H'[i] = H[i]
      <4>1. CASE i \in Ids
        BY <2>0, <2>2, <3>2, <4>1, Learns DEF IsHostInTable
      <4>2. CASE i \notin Ids
        <5>1. i = -1
          BY <4>2, TableAssumption DEF IdsFit, Ids
        <5>2. Valid(i) = Size
          BY <5>1 DEF Valid, Size
        <5>3. mem'[Size] = 0 /\ mem[Size] = 0
          BY <2>0, <2>2, Learns DEF TableInv, Entries
        <5>4. ~IsHostInTable(i) /\ ~IsHostInTable(i)'
          BY <5>2, <5>3 DEF IsHostInTable, Valid
        <5> QED BY <5>4
      <4> QED BY <4>1, <4>2
    <3>3. H'[s] = IF H[s] = None THEN k ELSE H[s]
      <4>1. CASE mem[Valid(s)] # 0
        <5>1. H[s] = mem[PortOf(s)] /\ H[s] \in Ports
          BY <4>1, Lookup DEF IsHostInTable
        <5>2. H'[s] = mem[PortOf(s)]
          BY <2>0, <2>2, <4>1, Learns DEF IsHostInTable, Valid, PortOf
        <5> QED BY <5>1, <5>2, TableAssumption
      <4>2. CASE mem[Valid(s)] = 0
        <5>1. H[s] = None
          BY <4>2 DEF IsHostInTable
        <5>2. H'[s] = k
          BY <2>0, <2>2, <4>2, Learns DEF IsHostInTable, Valid, PortOf
        <5> QED BY <5>1, <5>2
      <4> QED BY <2>0, <3>1, <4>1, <4>2
    <3> HIDE DEF H
    <3>4. H = [i \in Src \cup Dst |-> H[i]] /\ H' = [i \in Src \cup Dst |-> H'[i]]
      BY DEF H
    <3> QED BY <3>2, <3>3, <3>4
  <2>3. ASSUME NEW s \in Src, NEW d \in Dst, NEW k \in Ports, Forward(s, d, k)
        PROVE  Promise!Packet(s, d, k)
    <3>1. IsHostInTable(d) /\ d \in Ids /\ mem[PortOf(d)] \in Ports
      BY <2>3, Lookup DEF Forward
    <3>2. H[d] = mem[PortOf(d)] /\ H[d] # None
      BY <3>1, TableAssumption
    <3>3. out' = {mem[PortOf(d)]}
      BY <2>3, <3>1, CellsApart DEF Forward, Load
    <3>4. H' = [H EXCEPT ![s] = IF @ = None THEN k ELSE @]
      BY <2>2, <2>3 DEF Forward
    <3> QED BY <3>2, <3>3, <3>4 DEF Promise!Packet
  <2>4. ASSUME NEW s \in Src, NEW d \in Dst, NEW k \in Ports, Flood(s, d, k)
        PROVE  Promise!Packet(s, d, k)
    <3>1. H[d] = None
      BY <2>4 DEF Flood
    <3>2. H' = [H EXCEPT ![s] = IF @ = None THEN k ELSE @]
      BY <2>2, <2>4 DEF Flood
    <3> QED BY <2>4, <3>1, <3>2 DEF Flood, Promise!Packet
  <2> QED BY <2>1, <2>3, <2>4 DEF Next, Promise!Next
<1>3. Init => TableInv
  BY TableInit
<1>4. TableInv /\ [Next]_vars => TableInv'
  BY TableKept
<1> QED BY <1>1, <1>2, <1>3, <1>4, PTL DEF Spec, FirstHeardSpec, Promise!Spec
=============================================================================
