--------------------------- MODULE FileBufProofs ---------------------------
(***************************************************************************)
(* The ring of FileBuf is a bounded queue, whatever its size and whatever  *)
(* the callers do.  Indices are added modulo the size of the ring; the     *)
(* first lemmas replace the modulo by a case distinction.                  *)
(***************************************************************************)
EXTENDS FileBuf, Integers, SequenceTheorems, TLAPS

USE FileBufAssumption

-----------------------------------------------------------------------------
(* The slots of the ring                                                   *)

\* A sum of two slots, or of a slot and the size, wraps around at most once.
LEMMA PlusIs ==
  ASSUME NEW s \in Slots, NEW k \in 0..RingSize
  PROVE  /\ Plus(s, k) \in Slots
         /\ Plus(s, k) = IF s + k < RingSize THEN s + k ELSE s + k - RingSize
<1> DEFINE R == RingSize
           x == s + k
<1>1. R \in Nat \ {0} /\ x \in 0..2 * R - 1
  BY DEF RingSize, Slots
<1>2. CASE x < R
  <2>1. x % R = x
    BY <1>1, <1>2
  <2> QED
    BY <1>2, <2>1 DEF Plus, RingSize, Slots
<1>3. CASE ~(x < R)
  <2>1. x % R = x - R
    BY <1>1, <1>3
  <2> QED
    BY <1>3, <2>1 DEF Plus, RingSize, Slots
<1> QED
  BY <1>2, <1>3

\* How far one slot is past another.
LEMMA PastIs ==
  ASSUME NEW s \in Slots, NEW i \in Slots
  PROVE  Past(s, i) = IF i < s THEN i + RingSize - s ELSE i - s
<1> DEFINE R == RingSize
           x == i + R - s
<1>1. R \in Nat \ {0} /\ x \in 0..2 * R - 1
  BY DEF RingSize, Slots
<1>2. CASE i < s
  <2>1. x % R = x
    BY <1>1, <1>2 DEF Slots
  <2> QED
    BY <1>2, <2>1 DEF Past
<1>3. CASE ~(i < s)
  <2>1. x % R = x - R
    BY <1>1, <1>3 DEF Slots
  <2> QED
    BY <1>3, <2>1 DEF Past, RingSize, Slots
<1> QED
  BY <1>2, <1>3

\* The slot that is k past s is k past s.
LEMMA PastPlus ==
  ASSUME NEW s \in Slots, NEW k \in 0..MaxFileBuffer
  PROVE  Past(s, Plus(s, k)) = k
<1>1. k \in 0..RingSize
  BY DEF RingSize
<1>2. /\ Plus(s, k) \in Slots
      /\ Plus(s, k) = IF s + k < RingSize THEN s + k ELSE s + k - RingSize
  BY <1>1, PlusIs
<1> QED
  BY <1>2, PastIs DEF RingSize, Slots

\* The slot of the newest of n bytes from slot s on, for n up to the capacity:
\* the one before s if there are none.
LEMMA LastIs ==
  ASSUME NEW s \in Slots, NEW n \in 0..MaxFileBuffer
  PROVE  Plus(s, n + MaxFileBuffer) =
           IF s + n = 0 THEN MaxFileBuffer
           ELSE IF s + n - 1 < RingSize THEN s + n - 1
           ELSE s + n - 1 - RingSize
<1> DEFINE R == RingSize
           x == s + (n + MaxFileBuffer)
<1>1. R \in Nat \ {0} /\ x \in 0..3 * R - 1
  BY DEF RingSize, Slots
<1>2. CASE x < R
  <2>1. x % R = x
    BY <1>1, <1>2
  <2> QED
    BY <1>2, <2>1 DEF Plus, RingSize, Slots
<1>3. CASE ~(x < R) /\ x < 2 * R
  <2>1. x % R = x - R
    BY <1>1, <1>3
  <2> QED
    BY <1>3, <2>1 DEF Plus, RingSize, Slots
<1>4. CASE ~(x < 2 * R)
  <2>1. x % R = x - 2 * R
    BY <1>1, <1>4
  <2> QED
    BY <1>4, <2>1 DEF Plus, RingSize, Slots
<1> QED
  BY <1>2, <1>3, <1>4

\* As seen from tail, the first occ slots from head on are behind and the ones
\* after them ahead.
LEMMA AheadOfTail ==
  ASSUME TypeOK, TailIsLast, NEW j \in 0..MaxFileBuffer - 1
  PROVE  /\ Plus(head, j) \in Slots
         /\ Past(tail, Plus(head, j)) =
              IF j + 1 < occ THEN j + 1 + RingSize - occ ELSE j + 1 - occ
<1>1. /\ Plus(head, j) \in Slots
      /\ Plus(head, j) = IF head + j < RingSize THEN head + j
                         ELSE head + j - RingSize
  BY PlusIs DEF TypeOK, RingSize
<1>2. tail = IF head + occ = 0 THEN MaxFileBuffer
             ELSE IF head + occ - 1 < RingSize THEN head + occ - 1
             ELSE head + occ - 1 - RingSize
  BY LastIs DEF TypeOK, TailIsLast
<1>3. Past(tail, Plus(head, j)) =
        IF Plus(head, j) < tail THEN Plus(head, j) + RingSize - tail
        ELSE Plus(head, j) - tail
  BY <1>1, PastIs DEF TypeOK
<1>4. head \in 0..MaxFileBuffer /\ occ \in 0..MaxFileBuffer
  BY DEF TypeOK, Slots
<1>5. RingSize = MaxFileBuffer + 1
  BY DEF RingSize
<1> QED
  BY <1>1, <1>2, <1>3, <1>4, <1>5

-----------------------------------------------------------------------------
(* Types and indices                                                       *)

Inv == TypeOK /\ TailIsLast

\* The buffer is empty when a host starts, with tail just before head.
LEMMA InitInv == Init => Inv
<1> SUFFICES ASSUME Init PROVE Inv
  OBVIOUS
<1>1. TypeOK
  BY DEF Init, TypeOK, Slots
<1>2. Plus(0, 0 + MaxFileBuffer) = MaxFileBuffer
  BY LastIs DEF Slots
<1> QED
  BY <1>1, <1>2 DEF Inv, Init, TailIsLast

\* file_buf_init does the same from any state.
LEMMA FileBufInitKeeps == Inv /\ FileBufInit => Inv'
<1> SUFFICES ASSUME Inv, FileBufInit PROVE Inv'
  OBVIOUS
<1>1. TypeOK'
  BY DEF Inv, FileBufInit, TypeOK, Slots
<1>2. Plus(0, 0 + MaxFileBuffer) = MaxFileBuffer
  BY LastIs DEF Slots
<1> QED
  BY <1>1, <1>2 DEF Inv, FileBufInit, TailIsLast

\* What file_buf_add is given, and how much of it there is room for.
LEMMA AddSize ==
  ASSUME TypeOK, NEW n \in 0..PayloadMax, NEW s \in [1..n -> Byte]
  PROVE  /\ s \in Seq(Byte) /\ Len(s) = n
         /\ Least(Len(s), MaxFileBuffer - occ) \in 0..MaxFileBuffer - occ
         /\ Least(Len(s), MaxFileBuffer - occ) <= n
<1>1. s \in Seq(Byte) /\ Len(s) = n
  OBVIOUS
<1> QED
  BY <1>1 DEF TypeOK, Least

\* file_buf_add moves tail by as many slots as it adds to occ.
LEMMA FileBufAddKeeps ==
  ASSUME Inv, NEW n \in 0..PayloadMax, NEW s \in [1..n -> Byte], FileBufAdd(s)
  PROVE  Inv'
<1> DEFINE k == Least(Len(s), MaxFileBuffer - occ)
<1>1. /\ s \in Seq(Byte) /\ Len(s) = n
      /\ k \in 0..MaxFileBuffer - occ /\ k <= n
  BY AddSize DEF Inv
<1>2. /\ tail' \in Slots
      /\ tail' = IF tail + k < RingSize THEN tail + k ELSE tail + k - RingSize
  <2>1. k \in 0..RingSize
    BY <1>1 DEF Inv, TypeOK, RingSize
  <2> QED
    BY <2>1, PlusIs DEF Inv, TypeOK, FileBufAdd
<1>3. TypeOK'
  <2>1. \A i \in Slots : Past(tail, i) \in 1..k => s[Past(tail, i)] \in Byte
    BY <1>1
  <2>2. buffer' \in [Slots -> Byte]
    BY <2>1 DEF FileBufAdd, Inv, TypeOK
  <2> QED
    BY <1>1, <1>2, <2>2 DEF FileBufAdd, Inv, TypeOK
<1>4. TailIsLast'
  <2>1. tail = IF head + occ = 0 THEN MaxFileBuffer
               ELSE IF head + occ - 1 < RingSize THEN head + occ - 1
               ELSE head + occ - 1 - RingSize
    BY LastIs DEF Inv, TypeOK, TailIsLast
  <2>2. occ' = occ + k /\ head' = head /\ occ' \in 0..MaxFileBuffer
    BY <1>3 DEF FileBufAdd, TypeOK
  <2>3. Plus(head, occ + k + MaxFileBuffer) =
          IF head + (occ + k) = 0 THEN MaxFileBuffer
          ELSE IF head + (occ + k) - 1 < RingSize THEN head + (occ + k) - 1
          ELSE head + (occ + k) - 1 - RingSize
    BY <2>2, LastIs DEF Inv, TypeOK
  <2>4. tail' = Plus(head, occ + k + MaxFileBuffer)
    <3>1. /\ head \in 0..MaxFileBuffer /\ occ \in 0..MaxFileBuffer
          /\ RingSize = MaxFileBuffer + 1
      BY DEF Inv, TypeOK, Slots, RingSize
    <3> HIDE DEF k
    <3> QED
      BY <1>1, <1>2, <2>1, <2>3, <3>1
  <2> QED
    BY <2>2, <2>4 DEF TailIsLast
<1> QED
  BY <1>3, <1>4 DEF Inv

\* file_buf_remove moves head by as many slots as it takes from occ.
LEMMA FileBufRemoveKeeps ==
  ASSUME Inv, NEW n \in 0..PayloadMax, FileBufRemove(n)
  PROVE  Inv'
<1> DEFINE k == Least(n, occ)
<1>1. k \in 0..occ
  BY DEF Inv, TypeOK, Least
<1>2. /\ head' \in Slots
      /\ head' = IF head + k < RingSize THEN head + k ELSE head + k - RingSize
  <2>1. k \in 0..RingSize
    BY <1>1 DEF Inv, TypeOK, RingSize
  <2> QED
    BY <2>1, PlusIs DEF Inv, TypeOK, FileBufRemove
<1>3. TypeOK'
  <2>1. \A i \in 1..k : Plus(head, i - 1) \in Slots
    <3> TAKE i \in 1..k
    <3>1. i - 1 \in 0..MaxFileBuffer - 1
      BY <1>1 DEF Inv, TypeOK
    <3> QED
      BY <3>1, AheadOfTail DEF Inv
  <2>2. \A i \in 1..k : buffer[Plus(head, i - 1)] \in Byte
    BY <2>1 DEF Inv, TypeOK
  <2>3. out' \in Seq(Byte)
    <3>1. out' \in [1..k -> Byte]
      BY <2>2 DEF FileBufRemove
    <3> QED
      BY <1>1, <3>1 DEF Inv, TypeOK
  <2> QED
    BY <1>1, <1>2, <2>3 DEF FileBufRemove, Inv, TypeOK
<1>4. TailIsLast'
  <2>1. tail = IF head + occ = 0 THEN MaxFileBuffer
               ELSE IF head + occ - 1 < RingSize THEN head + occ - 1
               ELSE head + occ - 1 - RingSize
    BY LastIs DEF Inv, TypeOK, TailIsLast
  <2>2. occ' = occ - k /\ tail' = tail /\ occ' \in 0..MaxFileBuffer
    BY <1>3 DEF FileBufRemove, TypeOK
  <2>3. Plus(head', occ' + MaxFileBuffer) =
          IF head' + occ' = 0 THEN MaxFileBuffer
          ELSE IF head' + occ' - 1 < RingSize THEN head' + occ' - 1
          ELSE head' + occ' - 1 - RingSize
    BY <1>2, <2>2, LastIs
  <2>4. tail = Plus(head', occ' + MaxFileBuffer)
    <3>1. /\ head \in 0..MaxFileBuffer /\ occ \in 0..MaxFileBuffer
          /\ RingSize = MaxFileBuffer + 1
      BY DEF Inv, TypeOK, Slots, RingSize
    <3> HIDE DEF k
    <3> QED
      BY <1>1, <1>2, <2>1, <2>2, <2>3, <3>1
  <2> QED
    BY <2>2, <2>4 DEF TailIsLast
<1> QED
  BY <1>3, <1>4 DEF Inv

\* Every call keeps the invariant.
LEMMA NextInv == Inv /\ [Next]_vars => Inv'
<1> SUFFICES ASSUME Inv, [Next]_vars PROVE Inv'
  OBVIOUS
<1>1. CASE FileBufInit
  BY <1>1, FileBufInitKeeps
<1>2. ASSUME NEW n \in 0..PayloadMax, NEW s \in [1..n -> Byte], FileBufAdd(s)
      PROVE  Inv'
  BY <1>2, FileBufAddKeeps
<1>3. ASSUME NEW n \in 0..PayloadMax, FileBufRemove(n)
      PROVE  Inv'
  BY <1>3, FileBufRemoveKeeps
<1>4. CASE UNCHANGED vars
  BY <1>4 DEF vars, Inv, TypeOK, TailIsLast, Plus, RingSize, Slots
<1> QED
  BY <1>1, <1>2, <1>3, <1>4 DEF Next

\* head, tail and occ never drift apart, for a buffer of any size.
THEOREM IndicesAgree == Spec => []TailIsLast
<1>1. Init => Inv
  BY InitInv
<1>2. Inv /\ [Next]_vars => Inv'
  BY NextInv
<1>3. Inv => TailIsLast
  BY DEF Inv
<1> QED
  BY <1>1, <1>2, <1>3, PTL DEF Spec

\* Both indices stay inside the array and occ inside its capacity, for adds and
\* removes of any length: host_util.c:262-287 test no index.
THEOREM FileBufTyped == Spec => []TypeOK
<1>1. Init => Inv
  BY InitInv
<1>2. Inv /\ [Next]_vars => Inv'
  BY NextInv
<1>3. Inv => TypeOK
  BY DEF Inv
<1> QED
  BY <1>1, <1>2, <1>3, PTL DEF Spec

-----------------------------------------------------------------------------
(* A bounded queue of bytes                                                *)

\* The bytes between head and tail are a sequence of length occ.
LEMMA StoredIs ==
  ASSUME Inv
  PROVE  /\ Stored \in Seq(Byte)
         /\ Len(Stored) = occ
         /\ \A i \in 1..occ : Stored[i] = buffer[Plus(head, i - 1)]
<1>1. occ \in Nat /\ occ <= MaxFileBuffer
  BY DEF Inv, TypeOK
<1>2. \A i \in 1..occ : buffer[Plus(head, i - 1)] \in Byte
  <2> TAKE i \in 1..occ
  <2>1. i - 1 \in 0..MaxFileBuffer - 1
    BY <1>1
  <2> QED
    BY <2>1, AheadOfTail DEF Inv, TypeOK
<1>3. Stored \in [1..occ -> Byte]
  BY <1>2 DEF Stored
<1> QED
  BY <1>1, <1>3 DEF Stored

\* The same after a step.
LEMMA StoredNext ==
  ASSUME Inv'
  PROVE  /\ Stored' \in Seq(Byte)
         /\ Len(Stored') = occ'
         /\ \A i \in 1..occ' : Stored'[i] = buffer'[Plus(head', i - 1)]
<1>1. occ' \in Nat /\ occ' <= MaxFileBuffer /\ head' \in Slots
  BY DEF Inv, TypeOK
<1>2. \A i \in 1..occ' : buffer'[Plus(head', i - 1)] \in Byte
  <2> TAKE i \in 1..occ'
  <2>1. i - 1 \in 0..RingSize
    BY <1>1 DEF RingSize
  <2> QED
    BY <1>1, <2>1, PlusIs DEF Inv, TypeOK
<1>3. Stored' \in [1..occ' -> Byte]
  BY <1>2 DEF Stored
<1> QED
  BY <1>1, <1>3 DEF Stored

\* UpTo of Fifo for a limit that is a number.
LEMMA UpToIs ==
  ASSUME NEW vs \in Seq(Byte), NEW k \in Nat
  PROVE  /\ fifo!UpTo(k, vs) = SubSeq(vs, 1, Least(Len(vs), k))
         /\ fifo!UpTo(k, vs) \in Seq(Byte)
         /\ Len(fifo!UpTo(k, vs)) = Least(Len(vs), k)
         /\ \A i \in 1..Least(Len(vs), k) : fifo!UpTo(k, vs)[i] = vs[i]
<1> DEFINE m == Least(Len(vs), k)
<1>1. m \in Nat /\ m <= Len(vs)
  BY DEF Least
<1>2. fifo!UpTo(k, vs) = SubSeq(vs, 1, m)
  BY DEF fifo!UpTo, Least
<1> HIDE DEF m
<1>3. \A i \in 1..m : vs[i] \in Byte
  BY <1>1, ElementOfSeq
<1>4. /\ SubSeq(vs, 1, m) \in Seq(Byte)
      /\ Len(SubSeq(vs, 1, m)) = m
      /\ \A i \in 1..m : SubSeq(vs, 1, m)[i] = vs[i]
  BY <1>1, <1>3, SubSeqProperties
<1> QED
  BY <1>2, <1>4 DEF m

\* An empty buffer is an empty queue.
LEMMA InitIsEmpty == Init => fifo!Init
<1> SUFFICES ASSUME Init PROVE fifo!Init
  OBVIOUS
<1>1. Stored \in Seq(Byte) /\ Len(Stored) = 0
  BY InitInv, StoredIs DEF Init
<1>2. Stored = <<>>
  BY <1>1
<1> QED
  BY <1>2 DEF Init, fifo!Init

\* file_buf_init empties the queue.
LEMMA FileBufInitClears == Inv /\ FileBufInit => fifo!Clear
<1> SUFFICES ASSUME Inv, FileBufInit PROVE fifo!Clear
  OBVIOUS
<1>1. Inv'
  BY FileBufInitKeeps
<1>2. Stored' \in Seq(Byte) /\ Len(Stored') = 0
  BY <1>1, StoredNext DEF FileBufInit
<1>3. Stored' = <<>>
  BY <1>2
<1> QED
  BY <1>3 DEF FileBufInit, fifo!Clear

\* file_buf_add puts as many bytes as there is room for behind those stored.
LEMMA FileBufAddPuts ==
  ASSUME Inv, NEW n \in 0..PayloadMax, NEW s \in [1..n -> Byte], FileBufAdd(s)
  PROVE  fifo!Put(s)
<1> DEFINE k == Least(Len(s), MaxFileBuffer - occ)
           t == fifo!UpTo(MaxFileBuffer - Len(Stored), s)
<1>1. /\ s \in Seq(Byte) /\ Len(s) = n
      /\ k \in 0..MaxFileBuffer - occ
  BY AddSize DEF Inv
<1>2. /\ Stored \in Seq(Byte) /\ Len(Stored) = occ
      /\ \A i \in 1..occ : Stored[i] = buffer[Plus(head, i - 1)]
  BY StoredIs
<1>3. occ \in 0..MaxFileBuffer /\ RingSize = MaxFileBuffer + 1
  BY DEF Inv, TypeOK, RingSize
<1>4. /\ t \in Seq(Byte) /\ Len(t) = k
      /\ \A i \in 1..k : t[i] = s[i]
  <2>1. MaxFileBuffer - Len(Stored) = MaxFileBuffer - occ
    BY <1>2
  <2>2. MaxFileBuffer - occ \in Nat
    BY <1>3
  <2> QED
    BY <1>1, <2>1, <2>2, UpToIs
<1>5. /\ occ' = occ + k
      /\ head' = head
      /\ buffer' = [i \in Slots |-> IF Past(tail, i) \in 1..k
                                    THEN s[Past(tail, i)] ELSE buffer[i]]
  BY DEF FileBufAdd
<1> HIDE DEF k, t
<1>6. /\ Stored' \in Seq(Byte) /\ Len(Stored') = occ + k
      /\ \A i \in 1..occ + k : Stored'[i] = buffer'[Plus(head, i - 1)]
  BY <1>5, FileBufAddKeeps, StoredNext
<1>7. /\ Stored \o t \in Seq(Byte) /\ Len(Stored \o t) = occ + k
      /\ \A i \in 1..occ + k :
           (Stored \o t)[i] = IF i <= occ THEN Stored[i] ELSE t[i - occ]
  <2>1. /\ Stored \o t \in Seq(Byte)
        /\ Len(Stored \o t) = Len(Stored) + Len(t)
        /\ \A i \in 1..Len(Stored) + Len(t) :
             (Stored \o t)[i] = IF i <= Len(Stored) THEN Stored[i]
                               ELSE t[i - Len(Stored)]
    BY <1>2, <1>4, ConcatProperties, Zenon
  <2> QED
    BY <1>2, <1>4, <2>1
<1>8. ASSUME NEW i \in 1..occ + k
      PROVE  Stored'[i] = (Stored \o t)[i]
  <2>1. i - 1 \in 0..MaxFileBuffer - 1
    BY <1>1, <1>3
  <2>2. /\ Plus(head, i - 1) \in Slots
        /\ Past(tail, Plus(head, i - 1)) =
             IF i - 1 + 1 < occ THEN i - 1 + 1 + RingSize - occ
             ELSE i - 1 + 1 - occ
    BY <2>1, AheadOfTail DEF Inv
  <2>3. CASE i <= occ
    <3>1. Past(tail, Plus(head, i - 1)) \notin 1..k
      BY <1>1, <1>3, <2>2, <2>3
    <3>2. buffer'[Plus(head, i - 1)] = buffer[Plus(head, i - 1)]
      BY <1>5, <2>2, <3>1
    <3> QED
      BY <1>2, <1>6, <1>7, <2>3, <3>2
  <2>4. CASE ~(i <= occ)
    <3>1. Past(tail, Plus(head, i - 1)) = i - occ /\ i - occ \in 1..k
      BY <1>1, <1>3, <2>2, <2>4
    <3>2. buffer'[Plus(head, i - 1)] = s[i - occ]
      BY <1>5, <2>2, <3>1
    <3> QED
      BY <1>4, <1>6, <1>7, <2>4, <3>1, <3>2
  <2> QED
    BY <2>3, <2>4
<1>9. Stored' = Stored \o t
  BY <1>6, <1>7, <1>8, SeqEqual
<1> QED
  BY <1>9 DEF FileBufAdd, fifo!Put, t

\* file_buf_remove takes the bytes stored first.
LEMMA FileBufRemoveTakes ==
  ASSUME Inv, NEW n \in 0..PayloadMax, FileBufRemove(n)
  PROVE  fifo!Take(n)
<1> DEFINE k == Least(n, occ)
           t == fifo!UpTo(n, Stored)
           u == SubSeq(Stored, k + 1, occ)
<1>1. /\ occ \in 0..MaxFileBuffer /\ head \in 0..MaxFileBuffer
      /\ RingSize = MaxFileBuffer + 1
      /\ k \in 0..occ
      /\ k = Least(occ, n)
  BY DEF Inv, TypeOK, RingSize, Slots, Least
<1>2. /\ Stored \in Seq(Byte) /\ Len(Stored) = occ
      /\ \A i \in 1..occ : Stored[i] = buffer[Plus(head, i - 1)]
  BY StoredIs
<1>3. /\ t \in Seq(Byte) /\ Len(t) = k
      /\ \A i \in 1..k : t[i] = Stored[i]
  BY <1>1, <1>2, UpToIs
<1>4. /\ occ' = occ - k
      /\ head' = Plus(head, k)
      /\ buffer' = buffer
      /\ out' = [i \in 1..k |-> buffer[Plus(head, i - 1)]]
      /\ out' \in Seq(Byte)
  BY FileBufRemoveKeeps DEF FileBufRemove, Inv, TypeOK
<1> HIDE DEF k, t
<1>5. out' = t
  <2>1. Len(out') = k /\ \A i \in 1..k : out'[i] = t[i]
    BY <1>1, <1>2, <1>3, <1>4
  <2> QED
    BY <1>3, <1>4, <2>1, SeqEqual
<1>6. /\ u \in Seq(Byte) /\ Len(u) = occ - k
      /\ \A i \in 1..occ - k : u[i] = Stored[k + i]
  <2>1. \A i \in k + 1..occ : Stored[i] \in Byte
    BY <1>1, <1>2, ElementOfSeq
  <2>2. /\ u \in Seq(Byte)
        /\ Len(u) = IF k + 1 <= occ THEN occ - (k + 1) + 1 ELSE 0
        /\ \A i \in 1..occ - (k + 1) + 1 : u[i] = Stored[k + 1 + i - 1]
    BY <1>1, <2>1, SubSeqProperties
  <2> HIDE DEF u
  <2>3. Len(u) = occ - k
    BY <1>1, <2>2
  <2>4. \A i \in 1..occ - k : i \in 1..occ - (k + 1) + 1 /\ k + 1 + i - 1 = k + i
    BY <1>1
  <2> QED
    BY <2>2, <2>3, <2>4
<1>7. /\ Stored' \in Seq(Byte) /\ Len(Stored') = occ - k
      /\ \A i \in 1..occ - k : Stored'[i] = buffer[Plus(head', i - 1)]
  BY <1>4, FileBufRemoveKeeps, StoredNext
<1>8. ASSUME NEW i \in 1..occ - k
      PROVE  Stored'[i] = u[i]
  <2>1. /\ k \in 0..RingSize /\ i - 1 \in 0..RingSize
        /\ k + i - 1 \in 0..RingSize /\ k + i \in 1..occ
    BY <1>1
  <2>2. /\ head' \in Slots
        /\ head' = IF head + k < RingSize THEN head + k
                   ELSE head + k - RingSize
    BY <1>4, <2>1, PlusIs DEF Inv, TypeOK
  <2>3. Plus(head', i - 1) = IF head' + (i - 1) < RingSize THEN head' + (i - 1)
                             ELSE head' + (i - 1) - RingSize
    BY <2>1, <2>2, PlusIs
  <2>4. Plus(head, k + i - 1) =
          IF head + (k + i - 1) < RingSize THEN head + (k + i - 1)
          ELSE head + (k + i - 1) - RingSize
    BY <2>1, PlusIs DEF Inv, TypeOK
  <2>5. Plus(head', i - 1) = Plus(head, k + i - 1)
    BY <1>1, <2>1, <2>2, <2>3, <2>4
  <2>6. Stored[k + i] = buffer[Plus(head, k + i - 1)]
    BY <1>2, <2>1
  <2>7. u[i] = Stored[k + i] /\ Stored'[i] = buffer[Plus(head', i - 1)]
    BY <1>6, <1>7
  <2> QED
    BY <2>5, <2>6, <2>7
<1>9. Stored' = u
  <2> HIDE DEF u
  <2> QED
    BY <1>6, <1>7, <1>8, SeqEqual
<1> QED
  BY <1>2, <1>3, <1>5, <1>9 DEF FileBufRemove, fifo!Take, t, k

\* Every call is a call of Fifo.
LEMMA NextIsFifo == Inv /\ [Next]_vars => [fifo!Next]_(fifo!vars)
<1> SUFFICES ASSUME Inv, [Next]_vars PROVE [fifo!Next]_(fifo!vars)
  OBVIOUS
<1>1. CASE FileBufInit
  BY <1>1, FileBufInitClears DEF fifo!Next
<1>2. ASSUME NEW n \in 0..PayloadMax, NEW s \in [1..n -> Byte], FileBufAdd(s)
      PROVE  fifo!Next
  BY <1>2, FileBufAddPuts DEF fifo!Next
<1>3. ASSUME NEW n \in 0..PayloadMax, FileBufRemove(n)
      PROVE  fifo!Next
  BY <1>3, FileBufRemoveTakes DEF fifo!Next
<1>4. CASE UNCHANGED vars
  <2>1. Stored' = Stored
    BY <1>4 DEF vars, Stored, Plus, RingSize
  <2> QED
    BY <1>4, <2>1 DEF vars, fifo!vars
<1> QED
  BY <1>1, <1>2, <1>3, <1>4 DEF Next

\* The ring implements the bounded queue of Fifo: bytes come out in the order
\* they went in, and only those beyond MAX_FILE_BUFFER are lost.
THEOREM ImplementsFifo == Spec => FifoSpec
<1>1. Init => Inv
  BY InitInv
<1>2. Inv /\ [Next]_vars => Inv'
  BY NextInv
<1>3. Init => fifo!Init
  BY InitIsEmpty
<1>4. Inv /\ [Next]_vars => [fifo!Next]_(fifo!vars)
  BY NextIsFifo
<1> QED
  BY <1>1, <1>2, <1>3, <1>4, PTL DEF Spec, FifoSpec, fifo!Spec
=============================================================================
