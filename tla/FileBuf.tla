------------------------------ MODULE FileBuf ------------------------------
(***************************************************************************)
(* The ring buffer in which a host puts an incoming file together          *)
(* (struct file_buf of host.h, file_buf_* of host_util.c).  head is the    *)
(* slot of the oldest byte and tail that of the newest, so the ring has    *)
(* one slot more than it may hold bytes.  A host starts with an init, and  *)
(* the packets of uploads, which come in any order when two hosts send to  *)
(* it, make it init, add and remove.                                       *)
(***************************************************************************)
EXTENDS Naturals, Sequences

CONSTANTS
  Byte,
  MaxFileBuffer,  \* MAX_FILE_BUFFER
  PayloadMax      \* PKT_PAYLOAD_MAX, the most a caller adds or removes

ASSUME FileBufAssumption ==
  /\ MaxFileBuffer \in Nat \ {0}
  /\ PayloadMax \in Nat \ {0}

VARIABLES
  head, tail, occ,
  buffer,  \* buffer[i]: the byte in slot i
  in,      \* the string given to the last file_buf_add
  out      \* the bytes the last file_buf_remove returned

vars == <<head, tail, occ, buffer, in, out>>

RingSize == MaxFileBuffer + 1
Slots    == 0..MaxFileBuffer

\* The k-th slot from slot s on.
Plus(s, k) == (s + k) % RingSize

\* How many slots slot i is past slot s.
Past(s, i) == (i + RingSize - s) % RingSize

\* The smaller of the two limits of a loop.
Least(a, b) == IF a <= b THEN a ELSE b

\* The buffer is on the stack of host_main: its bytes are anything.
Init ==
  /\ head = 0
  /\ tail = MaxFileBuffer
  /\ occ = 0
  /\ buffer \in [Slots -> Byte]
  /\ in = <<>>
  /\ out = <<>>

\* (mutant) tail starts at the slot of head.
FileBufInitTail ==
  /\ head' = 0
  /\ tail' = 0
  /\ occ' = 0
  /\ UNCHANGED <<buffer, in, out>>

FileBufInit ==
  /\ head' = 0
  /\ tail' = MaxFileBuffer
  /\ occ' = 0
  /\ UNCHANGED <<buffer, in, out>>

\* (mutant) One byte more than MaxFileBuffer fits.
FileBufAddFull(string) ==
  LET k == Least(Len(string), RingSize - occ)
  IN  /\ tail' = Plus(tail, k)
      /\ buffer' = [i \in Slots |->
                      IF Past(tail, i) \in 1..k
                      THEN string[Past(tail, i)] ELSE buffer[i]]
      /\ occ' = occ + k
      /\ in' = string
      /\ UNCHANGED <<head, out>>

\* The loop stores string, or as much of it as there is room for.
FileBufAdd(string) ==
  LET k == Least(Len(string), MaxFileBuffer - occ)
  IN  /\ tail' = Plus(tail, k)
      /\ buffer' = [i \in Slots |->
                      IF Past(tail, i) \in 1..k
                      THEN string[Past(tail, i)] ELSE buffer[i]]
      /\ occ' = occ + k
      /\ in' = string
      /\ UNCHANGED <<head, out>>

\* (mutant) head wraps around at the capacity instead of the ring's size.
FileBufRemoveShort(length) ==
  LET k == Least(length, occ)
  IN  /\ out' = [i \in 1..k |-> buffer[Plus(head, i - 1)]]
      /\ head' = (head + k) % MaxFileBuffer
      /\ occ' = occ - k
      /\ UNCHANGED <<tail, buffer, in>>

\* The loop takes length bytes, or as many as there are.
FileBufRemove(length) ==
  LET k == Least(length, occ)
  IN  /\ out' = [i \in 1..k |-> buffer[Plus(head, i - 1)]]
      /\ head' = Plus(head, k)
      /\ occ' = occ - k
      /\ UNCHANGED <<tail, buffer, in>>

Next ==
  \/ FileBufInit
  \/ \E n \in 0..PayloadMax : \E s \in [1..n -> Byte] : FileBufAdd(s)
  \/ \E n \in 0..PayloadMax : FileBufRemove(n)

Spec == Init /\ [][Next]_vars

-----------------------------------------------------------------------------
TypeOK ==
  /\ head \in Slots
  /\ tail \in Slots
  /\ occ \in 0..MaxFileBuffer
  /\ buffer \in [Slots -> Byte]
  /\ in \in Seq(Byte)
  /\ out \in Seq(Byte)

\* The bytes between head and tail.
Stored == [i \in 1..occ |-> buffer[Plus(head, i - 1)]]

\* The two indices and the count, which file_buf_add and file_buf_remove keep
\* separately, never drift apart: tail is the slot of the last stored byte.
TailIsLast == tail = Plus(head, occ + MaxFileBuffer)

fifo == INSTANCE Fifo WITH Values <- Byte,
                           Cap    <- MaxFileBuffer,
                           Batch  <- PayloadMax,
                           Clears <- TRUE,
                           queue  <- Stored,
                           put    <- in,
                           got    <- out

\* The ring is a bounded queue of bytes: whatever sequence of calls, and
\* wherever in the ring it starts, bytes come out in the order they went in,
\* and only what is beyond MAX_FILE_BUFFER is lost (host_util.c:118-153).
FifoSpec == fifo!Spec
=============================================================================
