-------------------------- MODULE NameTableProofs --------------------------
(***************************************************************************)
(* Theorems about the naming table, whatever was in its memory when the    *)
(* server started: what it answers was registered or was in that memory,   *)
(* no entry is written for a host but behind one that it has, and no       *)
(* search leaves the table before half as many hosts have registered as it *)
(* had free entries.                                                       *)
(***************************************************************************)
EXTENDS NameTable, FiniteSetTheorems, WellFoundedInduction, TLAPS

TableInv == TypeOK /\ AnswersAreTrue /\ TwoEntriesAtMost

-----------------------------------------------------------------------------
\* A set of places has a first one: of the initial segments that end in the
\* set, one has no other inside it.
LEMMA LeastExists ==
  ASSUME NEW S \in SUBSET Nat, S # {}
  PROVE  \E i \in S : \A j \in S : i <= j
<1> DEFINE Segments == {0..i : i \in S}
<1>1. IsWellFoundedOn(StrictSubsetOrdering(Nat), FiniteSubsetsOf(Nat))
  BY FS_StrictSubsetOrderingWellFounded
<1>2. Segments \subseteq FiniteSubsetsOf(Nat)
  <2>1. ASSUME NEW i \in S PROVE 0..i \in FiniteSubsetsOf(Nat)
    <3>1. i \in Nat /\ 0..i \subseteq Nat
      OBVIOUS
    <3>2. IsFiniteSet(0..i)
      BY <3>1, FS_Interval
    <3> QED BY <3>1, <3>2 DEF FiniteSubsetsOf
  <2> QED BY <2>1
<1>3. Segments # {}
  OBVIOUS
<1>4. PICK s \in Segments : \A t \in Segments : <<t, s>> \notin StrictSubsetOrdering(Nat)
  <2> HIDE DEF Segments
  <2> QED BY <1>1, <1>2, <1>3, WFMin
<1>5. PICK i \in S : s = 0..i
  BY <1>4
<1>6. ASSUME NEW j \in S, ~(i <= j) PROVE FALSE
  <2>1. 0..j \subseteq 0..i /\ 0..j # 0..i /\ i \in Nat /\ j \in Nat
    BY <1>6
  <2>2. <<0..j, 0..i>> \in StrictSubsetOrdering(Nat)
    BY <2>1 DEF StrictSubsetOrdering
  <2> QED BY <1>4, <1>5, <2>2
<1> QED BY <1>6

\* The place a registration takes is behind one of the host, or is the first
\* that is free, for a host that has none before it.
LEMMA EntryPlace ==
  ASSUME TableInv, NEW h \in Hosts, NEW w \in Places, EntryFor(h, w)
  PROVE  /\ \A j \in Places : j < w => naming_table[j].valid
         /\ \A j \in ValidPlaces : j < w /\ naming_table[j].physical_id = h => j = w - 1
         /\ \A j \in Written : naming_table[j].physical_id = h => j <= w
<1>1. PICK i \in Places : /\ IsFirst(StopsForId(h), i)
                          /\ w = IF naming_table[i].valid THEN i + 1 ELSE i
  BY DEF EntryFor
<1>2. \A j \in Places : j < i => /\ naming_table[j].valid
                                 /\ naming_table[j].physical_id # h
  BY <1>1 DEF IsFirst, StopsForId, Places
<1>3. CASE naming_table[i].valid
  <2>1. naming_table[i].physical_id = h /\ w = i + 1
    BY <1>1, <1>3 DEF IsFirst, StopsForId
  <2>2. ASSUME NEW j \in Written, naming_table[j].physical_id = h
        PROVE  j <= w
    <3>1. j \in Places /\ i \in ValidPlaces
      BY <1>3 DEF Written, ValidPlaces
    <3>2. i < j => j = i + 1
      BY <2>1, <2>2, <3>1 DEF TableInv, TwoEntriesAtMost
    <3> QED BY <2>1, <3>1, <3>2 DEF Places
  <2> QED BY <1>2, <1>3, <2>1, <2>2 DEF Places, ValidPlaces
<1>4. CASE ~naming_table[i].valid
  <2>1. w = i
    BY <1>1, <1>4
  <2>2. ASSUME NEW j \in Written PROVE j <= w
    <3>1. j \in Places /\ ~(i \in 0..j)
      BY <1>4, <2>2 DEF TableInv, AnswersAreTrue, Written, ValidPlaces
    <3> QED BY <2>1, <3>1 DEF Places
  <2> QED BY <1>2, <2>1, <2>2 DEF Places, ValidPlaces
<1> QED BY <1>3, <1>4

LEMMA TableInit ==
  ASSUME Init PROVE TableInv
<1>1. TypeOK
  BY NamesAssumption DEF Init, TypeOK
<1>2. Written = {}
  BY DEF Init, Written
<1>3. answer.id = NoId
  BY DEF Init
<1> QED BY <1>1, <1>2, <1>3 DEF TableInv, AnswersAreTrue, TwoEntriesAtMost

LEMMA RegisterKeeps ==
  ASSUME TableInv, NEW h \in Hosts, NEW x \in Names, RegisterDomainName(h, x)
  PROVE  TableInv'
<1> USE DEF TableInv
<1>1. PICK w \in Places :
        /\ EntryFor(h, w)
        /\ naming_table' = [naming_table EXCEPT ![w] =
             [valid |-> TRUE, physical_id |-> h, domain_name |-> x]]
  BY DEF RegisterDomainName
<1>2. registered' = registered \cup {<<h, x>>} /\ answer' = answer
      /\ overrun' = overrun /\ memory' = memory
  BY DEF RegisterDomainName
<1> DEFINE new == [valid |-> TRUE, physical_id |-> h, domain_name |-> x]
<1>3. naming_table \in [Places -> Entry] /\ new \in Entry
  BY DEF TypeOK, Entry
<1>4. naming_table'[w] = new /\ \A j \in Places : j # w => naming_table'[j] = naming_table[j]
  BY <1>1, <1>3
<1>5. TypeOK'
  BY <1>1, <1>2, <1>3 DEF TypeOK
<1>6. ValidPlaces' = ValidPlaces \cup {w}
  BY <1>4 DEF ValidPlaces
<1>6a. Written' \subseteq Written \cup {w} /\ Written' \subseteq Places
       /\ Written \subseteq ValidPlaces
  BY <1>2, <1>4 DEF Written, ValidPlaces
<1>7. /\ \A j \in Places : j < w => j \in ValidPlaces
      /\ \A j \in ValidPlaces : j < w /\ naming_table[j].physical_id = h => j = w - 1
      /\ \A j \in Written : naming_table[j].physical_id = h => j <= w
  BY <1>1, EntryPlace DEF ValidPlaces
<1>7a. ChancePairs' = ChancePairs
  BY <1>2 DEF ChancePairs, ByChance
<1>8. AnswersAreTrue'
  <2>1. ASSUME NEW i \in Written', NEW j \in 0..i PROVE j \in ValidPlaces'
    <3>1. i \in Places /\ j \in Places /\ w \in Places /\ j <= i
      BY <1>6a, <2>1, NamesAssumption DEF Places
    <3>2. CASE i = w
      <4>1. j = w \/ j < w
        BY <3>1, <3>2 DEF Places
      <4> QED BY <1>6, <1>7, <3>1, <4>1
    <3>3. CASE i \in Written
      <4>1. j \in ValidPlaces
        BY <2>1, <3>3 DEF AnswersAreTrue
      <4> QED BY <1>6, <4>1
    <3> QED BY <1>6a, <2>1, <3>2, <3>3
  <2>2. ASSUME NEW i \in Written'
        PROVE <<naming_table'[i].physical_id, naming_table'[i].domain_name>> \in registered'
    <3>1. CASE i = w
      BY <1>2, <1>4, <3>1
    <3>2. CASE i # w
      <4>1. i \in Written /\ i \in Places
        BY <1>6a, <2>2, <3>2
      <4>2. naming_table'[i] = naming_table[i]
        BY <1>4, <3>2, <4>1
      <4> QED BY <1>2, <4>1, <4>2 DEF AnswersAreTrue
    <3> QED BY <3>1, <3>2
  <2>3. answer'.id # NoId =>
          \E y \in Readings[answer'.name] : <<answer'.id, y>> \in registered' \cup ChancePairs'
    BY <1>2, <1>7a DEF AnswersAreTrue
  <2> QED BY <2>1, <2>2, <2>3 DEF AnswersAreTrue
<1>9. TwoEntriesAtMost'
  <2> SUFFICES ASSUME NEW i \in ValidPlaces', NEW j \in Written', i < j,
                      naming_table'[i].physical_id = naming_table'[j].physical_id
               PROVE  j = i + 1
    BY DEF TwoEntriesAtMost
  <2>0. i \in Places /\ j \in Places /\ w \in Places
    BY <1>6a DEF ValidPlaces
  <2>1. CASE i # w /\ j # w
    <3>1. i \in ValidPlaces /\ j \in Written
      BY <1>6, <1>6a, <2>1
    <3> QED BY <1>4, <2>0, <2>1, <3>1 DEF TwoEntriesAtMost
  <2>2. CASE i = w
    <3>1. j # w
      BY <2>0, <2>2 DEF Places
    <3>2. j \in Written /\ naming_table[j].physical_id = h
      BY <1>4, <1>6a, <2>0, <2>2, <3>1
    <3> QED BY <1>7, <2>0, <2>2, <3>2 DEF Places
  <2>3. CASE j = w
    <3>1. i # w
      BY <2>0, <2>3 DEF Places
    <3>2. i \in ValidPlaces /\ naming_table[i].physical_id = h
      BY <1>4, <1>6, <2>0, <2>3, <3>1
    <3> QED BY <1>7, <2>0, <2>3, <3>2 DEF Places
  <2> QED BY <2>1, <2>2, <2>3
<1> QED BY <1>5, <1>8, <1>9

LEMMA LookupKeeps ==
  ASSUME TableInv, NEW x \in Names, ReqPhysId(x)
  PROVE  TableInv'
<1>1. PICK y \in Readings[x] : \E i \in Places :
        /\ IsFirst(StopsForName(y), i)
        /\ answer' = [name |-> x, id |-> IF naming_table[i].valid
                                         THEN naming_table[i].physical_id ELSE NoId]
  BY DEF ReqPhysId
<1>2. PICK i \in Places :
        /\ IsFirst(StopsForName(y), i)
        /\ answer' = [name |-> x, id |-> IF naming_table[i].valid
                                         THEN naming_table[i].physical_id ELSE NoId]
  BY <1>1
<1>3. /\ naming_table' = naming_table /\ registered' = registered
      /\ overrun' = overrun /\ memory' = memory
  BY DEF ReqPhysId
<1>4. naming_table[i] \in Entry
  BY DEF TableInv, TypeOK
<1>5. TypeOK'
  BY <1>2, <1>3, <1>4 DEF TableInv, TypeOK, Entry
<1>6. ValidPlaces' = ValidPlaces /\ Written' = Written /\ ChancePairs' = ChancePairs
  BY <1>3 DEF ValidPlaces, Written, ChancePairs, ByChance
<1>7. naming_table[i].valid =>
        <<naming_table[i].physical_id, y>> \in registered \cup ChancePairs
  <2> SUFFICES ASSUME naming_table[i].valid
               PROVE  <<naming_table[i].physical_id, y>> \in registered \cup ChancePairs
    OBVIOUS
  <2>1. naming_table[i].domain_name = y
    BY <1>2 DEF IsFirst, StopsForName
  <2>2. CASE naming_table[i] = memory[i]
    BY <2>1, <2>2 DEF ChancePairs, ByChance
  <2>3. CASE naming_table[i] # memory[i]
    BY <2>1, <2>3 DEF TableInv, AnswersAreTrue, Written, ValidPlaces
  <2> QED BY <2>2, <2>3
<1>8. answer'.id # NoId => \E z \in Readings[answer'.name] :
                             <<answer'.id, z>> \in registered \cup ChancePairs
  BY <1>2, <1>7
<1> QED BY <1>3, <1>5, <1>6, <1>8 DEF TableInv, AnswersAreTrue, TwoEntriesAtMost

LEMMA TableKept ==
  ASSUME TableInv, [Next]_vars PROVE TableInv'
<1>1. CASE UNCHANGED vars
  BY <1>1 DEF vars, TableInv, TypeOK, AnswersAreTrue, TwoEntriesAtMost, ValidPlaces,
     Written, ChancePairs, ByChance
<1>2. ASSUME NEW h \in Hosts, NEW x \in Names, RegisterDomainName(h, x)
      PROVE  TableInv'
  BY <1>2, RegisterKeeps
<1>3. ASSUME NEW h \in Hosts, RegisterBehind(h) PROVE TableInv'
  BY <1>3 DEF RegisterBehind, TableInv, TypeOK, AnswersAreTrue, TwoEntriesAtMost,
     ValidPlaces, Written, ChancePairs, ByChance
<1>4. ASSUME NEW x \in Names, ReqPhysId(x) PROVE TableInv'
  BY <1>4, LookupKeeps
<1>5. ASSUME NEW x \in Names, ReqBehind(x) PROVE TableInv'
  BY <1>5 DEF ReqBehind, TableInv, TypeOK, AnswersAreTrue, TwoEntriesAtMost,
     ValidPlaces, Written, ChancePairs, ByChance
<1> QED BY <1>1, <1>2, <1>3, <1>4, <1>5 DEF Next

LEMMA Sizes ==
  ASSUME TableInv
  PROVE  /\ IsFiniteSet(Registrants) /\ Cardinality(Registrants) \in Nat
         /\ IsFiniteSet(Places) /\ Cardinality(Places) = TableSize
         /\ IsFiniteSet(ByChance) /\ Cardinality(ByChance) \in Nat
<1>1. Registrants \subseteq Hosts
  BY DEF TableInv, TypeOK, Registrants
<1>2. IsFiniteSet(Registrants) /\ Cardinality(Registrants) \in Nat
  BY <1>1, FS_Subset, FS_CardinalityType, NamesAssumption
<1>3. IsFiniteSet(Places) /\ Cardinality(Places) = TableSize
  BY FS_Interval, NamesAssumption DEF Places
<1>4. ByChance \subseteq Places
  BY DEF ByChance
<1> QED BY <1>2, <1>3, <1>4, FS_Subset, FS_CardinalityType

\* With more than two free entries for each host that has registered, one is
\* not valid: an entry i is the first of its id or not, and no two entries that
\* were free have both the id and that in common.
LEMMA SomeFree ==
  ASSUME TableInv, TableSize > Cardinality(ByChance) + 2 * Cardinality(Registrants)
  PROVE  \E p \in Places : ~naming_table[p].valid
<1> SUFFICES ASSUME \A p \in Places : naming_table[p].valid PROVE FALSE
  OBVIOUS
<1> DEFINE Free == Places \ ByChance
           Id(i) == naming_table[i].physical_id
           Second(i) == \E j \in Places : j < i /\ Id(j) = Id(i)
           f == [i \in Free |-> <<Id(i), IF Second(i) THEN 1 ELSE 0>>]
           T == Registrants \X (0..1)
<1>1. ValidPlaces = Places /\ Free \subseteq Written
  <2>1. ASSUME NEW i \in Free PROVE naming_table[i] # memory[i]
    BY <2>1 DEF ByChance
  <2> QED BY <2>1 DEF ValidPlaces, Written
<1>2. \A i \in Free : Id(i) \in Registrants
  <2> SUFFICES ASSUME NEW i \in Free PROVE Id(i) \in Registrants
    OBVIOUS
  <2>1. <<Id(i), naming_table[i].domain_name>> \in registered
    BY <1>1 DEF TableInv, AnswersAreTrue
  <2> QED BY <2>1 DEF Registrants
<1>3. f \in [Free -> T]
  BY <1>2
<1>4. IsFiniteSet(T) /\ Cardinality(T) = Cardinality(Registrants) * 2
  <2>1. IsFiniteSet(0..1) /\ Cardinality(0..1) = 2
    <3>1. 0 \in Int /\ 1 \in Int /\ 1 - 0 + 1 = 2
      OBVIOUS
    <3>2. IsFiniteSet(0..1) /\ Cardinality(0..1) = IF 0 > 1 THEN 0 ELSE 1 - 0 + 1
      BY <3>1, FS_Interval
    <3> QED BY <3>1, <3>2
  <2>2. IsFiniteSet(T) /\ Cardinality(T) = Cardinality(Registrants) * Cardinality(0..1)
    BY <2>1, Sizes, FS_Product
  <2> QED BY <2>1, <2>2
<1>5. IsFiniteSet(Free) /\ Cardinality(Free) = TableSize - Cardinality(ByChance)
  <2>1. /\ IsFiniteSet(Places \ ByChance)
        /\ Cardinality(Places \ ByChance) = Cardinality(Places) - Cardinality(Places \cap ByChance)
    BY Sizes, FS_Difference
  <2>2. Places \cap ByChance = ByChance
    BY DEF ByChance
  <2> QED BY <2>1, <2>2, Sizes
<1>6. Cardinality(T) < Cardinality(Free)
  <2> HIDE DEF T, Free
  <2> QED BY <1>4, <1>5, Sizes, NamesAssumption
<1>7. PICK a, b \in Free : a # b /\ f[a] = f[b]
  <2> HIDE DEF T, f, Free
  <2> QED BY <1>3, <1>4, <1>5, <1>6, FS_PigeonHole
<1>8. ASSUME NEW i \in Free, NEW k \in Free, i < k, f[i] = f[k] PROVE FALSE
  <2>1. Id(i) = Id(k) /\ (Second(i) <=> Second(k))
    BY <1>8
  <2>2. Second(k)
    BY <1>8, <2>1
  <2>3. PICK j \in Places : j < i /\ Id(j) = Id(i)
    BY <2>1, <2>2
  <2>4. j < k /\ Id(j) = Id(k)
    BY <1>8, <2>1, <2>3 DEF Places
  <2>5. k = j + 1
    BY <1>1, <1>8, <2>4 DEF TableInv, TwoEntriesAtMost
  <2> QED BY <1>8, <2>3, <2>5 DEF Places
<1> QED BY <1>7, <1>8 DEF Places

LEMMA ManyOrFree ==
  ASSUME TableInv
  PROVE  \/ TableSize > Cardinality(ByChance) + 2 * Cardinality(Registrants)
         \/ Cardinality(ByChance) + 2 * Cardinality(Registrants) >= TableSize
BY Sizes, NamesAssumption

LEMMA NeverBehind ==
  ASSUME TableInv, TableSize > Cardinality(ByChance) + 2 * Cardinality(Registrants)
  PROVE  /\ \A h \in Hosts : \E w \in Places : EntryFor(h, w)
         /\ \A y : StopsForName(y) # {}
<1>1. PICK p \in Places : ~naming_table[p].valid
  BY SomeFree
<1>2. \A y : StopsForName(y) # {}
  BY <1>1 DEF StopsForName
<1>3. ASSUME NEW h \in Hosts PROVE \E w \in Places : EntryFor(h, w)
  <2>1. StopsForId(h) # {} /\ StopsForId(h) \in SUBSET Nat /\ p \in StopsForId(h)
    BY <1>1 DEF StopsForId, Places
  <2>2. PICK i \in StopsForId(h) : \A j \in StopsForId(h) : i <= j
    BY <2>1, LeastExists
  <2>3. i \in Places /\ IsFirst(StopsForId(h), i)
    BY <2>2 DEF IsFirst, StopsForId
  <2>4. CASE ~naming_table[i].valid
    BY <2>3, <2>4 DEF EntryFor
  <2>5. CASE naming_table[i].valid
    <3>1. i < p
      BY <1>1, <2>1, <2>2, <2>3, <2>5 DEF Places
    <3>2. i + 1 \in Places
      BY <1>1, <2>3, <3>1, NamesAssumption DEF Places
    <3> QED BY <2>3, <2>5, <3>2 DEF EntryFor
  <2> QED BY <2>4, <2>5
<1> QED BY <1>2, <1>3

-----------------------------------------------------------------------------
\* A lookup (host.c:656) that answers with an id answers with a host that did
\* register what the name was read as, or with what the memory of the table
\* happened to hold; no registration is hidden behind an entry that is free.
THEOREM AnswersTrue == Spec => []AnswersAreTrue
<1>1. Init => TableInv
  BY TableInit
<1>2. TableInv /\ [Next]_vars => TableInv'
  BY TableKept
<1>3. TableInv => AnswersAreTrue
  BY DEF TableInv
<1> QED BY <1>1, <1>2, <1>3, PTL DEF Spec

\* A host that registers again and again (host.c:637-654) has an entry written
\* right behind one it has or none, in a table of any size and any memory.
THEOREM TwoEntries == Spec => []TwoEntriesAtMost
<1>1. Init => TableInv
  BY TableInit
<1>2. TableInv /\ [Next]_vars => TableInv'
  BY TableKept
<1>3. TableInv => TwoEntriesAtMost
  BY DEF TableInv
<1> QED BY <1>1, <1>2, <1>3, PTL DEF Spec

\* The searches of host.c:637 and 663, which have no limit, stay inside the
\* table until half as many hosts have registered as it had free entries: its
\* 20 entries are enough for nine hosts when the memory was clear, and for n
\* fewer when 2n of them looked valid.
THEOREM SearchesEnd == Spec => []StaysInside
<1>1. Init => TableInv /\ StaysInside
  BY TableInit DEF Init, StaysInside
<1>2. TableInv /\ [Next]_vars => TableInv'
  BY TableKept
<1>3. TableInv /\ StaysInside /\ [Next]_vars => StaysInside'
  <2> SUFFICES ASSUME TableInv, StaysInside, [Next]_vars PROVE StaysInside'
    OBVIOUS
  <2>1. CASE UNCHANGED vars
    BY <2>1 DEF vars, StaysInside, Registrants, ByChance
  <2>2. ASSUME NEW h \in Hosts, RegisterBehind(h) PROVE StaysInside'
    <3>1. Cardinality(ByChance) + 2 * Cardinality(Registrants) >= TableSize
      BY <2>2, NeverBehind, ManyOrFree DEF RegisterBehind
    <3> QED BY <2>2, <3>1 DEF RegisterBehind, StaysInside, Registrants, ByChance
  <2>3. ASSUME NEW x \in Names, ReqBehind(x) PROVE StaysInside'
    <3>1. Cardinality(ByChance) + 2 * Cardinality(Registrants) >= TableSize
      BY <2>3, NeverBehind, ManyOrFree DEF ReqBehind
    <3> QED BY <2>3, <3>1 DEF ReqBehind, StaysInside, Registrants, ByChance
  <2>4. CASE \E h \in Hosts, x \in Names : RegisterDomainName(h, x)
    BY <2>4 DEF RegisterDomainName, StaysInside
  <2>5. CASE \E x \in Names : ReqPhysId(x)
    BY <2>5 DEF ReqPhysId, StaysInside
  <2> QED BY <2>1, <2>2, <2>3, <2>4, <2>5 DEF Next
<1> QED BY <1>1, <1>2, <1>3, PTL DEF Spec
=============================================================================
