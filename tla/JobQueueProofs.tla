--------------------------- MODULE JobQueueProofs ---------------------------
(***************************************************************************)
(* The job queue of a host is a FIFO with memory that is used again and    *)
(* again, whatever is left in it, until a job that was alone in the queue  *)
(* leaves it with a next field that is not NULL.  The case that carries    *)
(* the proof is the queue of one job: its next field is not known, is set  *)
(* when another job joins it, and is read when none has.                   *)
(***************************************************************************)
EXTENDS JobQueue, SequenceTheorems, TLAPS

TypeOK ==
  /\ chain \in Seq(Cells)
  /\ head \in Cells \cup {Null}
  /\ occ \in Nat
  /\ next \in [Cells -> Cells \cup {Null}]
  /\ job \in [Cells -> 0..MaxJobs]
  /\ running \in Cells \cup {Null}
  /\ made \in 0..MaxJobs

\* No job is in the list twice, and none that is running, was never made, or is
\* in memory that has been freed.
NoneTwice == \A i, j \in 1..Len(chain) : chain[i] = chain[j] => i = j

ListedAreMade == \A i \in 1..Len(chain) : job[chain[i]] # 0

ListedAreUsed == \A i \in 1..Len(chain) : chain[i] \in used

RunningIsOut ==
  running # Null => /\ job[running] # 0 /\ running \in used
                    /\ \A i \in 1..Len(chain) : chain[i] # running

\* No more jobs are in the queue and running than were made.
RoomForAll == Len(chain) + (IF running = Null THEN 0 ELSE 1) <= made

Sound ==
  /\ ListEnds
  /\ NoneTwice /\ ListedAreMade /\ ListedAreUsed /\ RunningIsOut /\ RoomForAll

\* The list is sound until a stale link is followed, and types hold for ever.
IInv == TypeOK /\ (stale \/ Sound)

LEMMA InitInv == Init => IInv /\ Sound
BY JobQueueAssumption DEF Init, IInv, TypeOK, Sound, ListEnds, NoneTwice, ListedAreMade,
   ListedAreUsed, RunningIsOut, RoomForAll

-----------------------------------------------------------------------------
\* The queue with the job at c behind the others.
LEMMA ChainGrows ==
  ASSUME TypeOK, NEW c \in Cells, chain' = Append(chain, c)
  PROVE  /\ chain' \in Seq(Cells)
         /\ Len(chain) \in Nat /\ Len(chain') = Len(chain) + 1
         /\ \A i \in 1..Len(chain) : chain'[i] = chain[i] /\ chain[i] \in Cells
         /\ chain'[Len(chain) + 1] = c
<1>1. chain \in Seq(Cells)
  BY DEF TypeOK
<1>2. \A i \in 1..Len(chain) : chain[i] \in Cells
  BY <1>1, ElementOfSeq
<1> QED BY <1>1, <1>2

\* job_q_add links a job that is not in the list behind the last one, whatever
\* its next field was.
LEMMA EnqueueLinks ==
  ASSUME TypeOK, ListEnds, ~stale, ~stale', NoneTwice,
         NEW c \in Cells, NEW m \in Cells \cup {Null},
         \A i \in 1..Len(chain) : chain[i] # c,
         Enqueue(c, m), chain' = Append(chain, c)
  PROVE  ListEnds' /\ NoneTwice'
<1> DEFINE n == Len(chain)
<1>1. /\ n \in Nat /\ Len(chain') = n + 1 /\ occ = n
      /\ \A i \in 1..n : chain'[i] = chain[i] /\ chain[i] \in Cells
      /\ chain'[n + 1] = c
  BY ChainGrows DEF ListEnds
<1>2. NoneTwice'
  <2> SUFFICES ASSUME NEW i \in 1..(n + 1), NEW j \in 1..(n + 1),
                      chain'[i] = chain'[j]
               PROVE  i = j
    BY <1>1 DEF NoneTwice
  <2>1. CASE i = n + 1 \/ j = n + 1
    BY <1>1, <2>1
  <2>2. CASE i \in 1..n /\ j \in 1..n
    BY <1>1, <2>2 DEF NoneTwice
  <2> QED BY <1>1, <2>1, <2>2
<1>3. CASE chain = <<>>
  <2>1. n = 0 /\ head = Null
    BY <1>3 DEF ListEnds
  <2>2. head' = c /\ tail' = c /\ occ' = 1
    BY <2>1 DEF Enqueue
  <2>3. chain'[1] = c /\ Len(chain') = 1 /\ chain' # <<>>
    BY <1>1, <2>1
  <2>4. ListEnds'
    BY <2>2, <2>3 DEF ListEnds
  <2> QED BY <1>2, <2>4
<1>4. CASE chain # <<>>
  <2>1. n > 0 /\ head = chain[1] /\ tail = chain[n] /\ chain[1] \in Cells
        /\ chain[n] \in Cells
    BY <1>1, <1>4 DEF ListEnds
  <2>2. head # Null
    BY <2>1, JobQueueAssumption
  <2>3. /\ next' = [next EXCEPT ![tail] = c, ![c] = Null]
        /\ tail' = c /\ occ' = n + 1 /\ head' = chain[1]
    BY <1>1, <2>1, <2>2 DEF Enqueue
  <2>4. chain[n] # c
    BY <1>1, <2>1
  <2>5. /\ next'[c] = Null /\ next'[chain[n]] = c
        /\ \A d \in Cells : d # c /\ d # chain[n] => next'[d] = next[d]
    BY <2>1, <2>3, <2>4 DEF TypeOK
  <2>6. ASSUME NEW i \in 1..n PROVE next'[chain'[i]] = chain'[i + 1]
    <3>1. CASE i = n
      BY <1>1, <2>1, <2>5, <3>1
    <3>2. CASE i \in 1..(n - 1)
      <4>1. /\ i \in 1..n /\ i + 1 \in 1..n /\ n \in 1..n /\ i # n
            /\ chain'[i] = chain[i] /\ chain'[i + 1] = chain[i + 1]
        BY <1>1, <2>1, <3>2
      <4>2. chain[i] # chain[n] /\ chain[i] # c /\ chain[i] \in Cells
        BY <1>1, <4>1 DEF NoneTwice
      <4>3. next[chain[i]] = chain[i + 1]
        BY <1>1, <3>2, <4>1 DEF ListEnds
      <4> QED BY <1>1, <2>5, <4>1, <4>2, <4>3
    <3> QED BY <1>1, <3>1, <3>2
  <2>7. ListEnds'
    <3>1. chain' # <<>> /\ chain'[1] = chain[1]
      BY <1>1, <2>1
    <3>2. (n + 1) - 1 = n /\ chain'[n + 1] = c
      BY <1>1
    <3> QED BY <1>1, <2>3, <2>5, <2>6, <3>1, <3>2 DEF ListEnds
  <2> QED BY <1>2, <2>7
<1> QED BY <1>3, <1>4

-----------------------------------------------------------------------------
\* A new job is in memory that is not in use.
LEMMA AddTakes ==
  ASSUME TypeOK, Add
  PROVE  \E c \in Cells \ used, m \in Cells \cup {Null} :
           /\ job' = [job EXCEPT ![c] = made + 1]
           /\ Enqueue(c, m)
           /\ chain' = Append(chain, c)
           /\ used' = used \cup {c}
<1>1. PICK a \in Malloc :
        /\ job' = [job EXCEPT ![a[1]] = made + 1]
        /\ Enqueue(a[1], a[2])
        /\ chain' = Append(chain, a[1])
        /\ used' = used \cup {a[1]}
  BY DEF Add
<1>2. PICK c \in Cells \ used : \E n \in Junk \cup {next[c]} : a = <<c, n>>
  BY DEF Malloc
<1>3. PICK n \in Junk \cup {next[c]} : a = <<c, n>>
  BY <1>2
<1>4. a[1] = c /\ a[2] = n /\ n \in Cells \cup {Null}
  BY <1>3, JobQueueAssumption DEF TypeOK
<1> QED BY <1>1, <1>4

\* Types hold whatever is read through a stale link.
LEMMA StepTyped ==
  ASSUME TypeOK, Next
  PROVE  TypeOK' /\ (stale => stale')
<1> USE DEF TypeOK
<1>1. ASSUME NEW c \in Cells, NEW m \in Cells \cup {Null}, Enqueue(c, m)
      PROVE  /\ head' \in Cells \cup {Null} /\ occ' \in Nat
             /\ next' \in [Cells -> Cells \cup {Null}]
  <2>1. CASE head = Null
    BY <1>1, <2>1 DEF Enqueue
  <2>2. CASE head # Null
    <3> DEFINE linked == [next EXCEPT ![tail] = c]
    <3>1. linked \in [Cells -> Cells \cup {Null}]
      OBVIOUS
    <3>2. next' = [linked EXCEPT ![c] = Null] /\ head' = head /\ occ' = occ + 1
      BY <1>1, <2>2 DEF Enqueue
    <3> HIDE DEF linked
    <3>3. next' \in [Cells -> Cells \cup {Null}]
      BY <3>1, <3>2
    <3> QED BY <3>2, <3>3
  <2> QED BY <2>1, <2>2
<1>2. CASE Add
  <2>1. PICK c \in Cells \ used, m \in Cells \cup {Null} :
          /\ job' = [job EXCEPT ![c] = made + 1]
          /\ Enqueue(c, m)
          /\ chain' = Append(chain, c)
    BY <1>2, AddTakes
  <2>2. made + 1 \in 0..MaxJobs /\ made' = made + 1 /\ running' = running /\ stale' = stale
    BY <1>2, JobQueueAssumption DEF Add
  <2>3. chain' \in Seq(Cells)
    BY <2>1
  <2> QED BY <1>1, <2>1, <2>2, <2>3
<1>3. CASE Remove
  <2>1. head \in Cells /\ next[head] \in Cells \cup {Null} /\ occ - 1 \in Nat
    BY <1>3 DEF Remove
  <2>2. SubSeq(chain, 2, Len(chain)) \in Seq(Cells)
    OBVIOUS
  <2> QED BY <1>3, <2>1, <2>2 DEF Remove
<1>4. CASE Finish
  BY <1>4 DEF Finish
<1>5. CASE Requeue
  <2>1. running \in Cells /\ next[running] \in Cells \cup {Null}
    BY <1>5 DEF Requeue
  <2>2. chain' \in Seq(Cells)
    BY <1>5, <2>1 DEF Requeue
  <2> QED BY <1>1, <1>5, <2>1, <2>2 DEF Requeue
<1> QED BY <1>2, <1>3, <1>4, <1>5 DEF Next

LEMMA AddKeeps ==
  ASSUME TypeOK, Sound, ~stale, Add
  PROVE  Sound'
<1>1. PICK c \in Cells \ used, m \in Cells \cup {Null} :
        /\ job' = [job EXCEPT ![c] = made + 1]
        /\ Enqueue(c, m)
        /\ chain' = Append(chain, c)
        /\ used' = used \cup {c}
  BY AddTakes
<1>2. /\ made \in Nat /\ made' = made + 1 /\ running' = running /\ stale' = stale
  BY JobQueueAssumption DEF Add, TypeOK
<1>3. /\ Len(chain) \in Nat /\ Len(chain') = Len(chain) + 1
      /\ \A i \in 1..Len(chain) : chain'[i] = chain[i] /\ chain[i] \in Cells
      /\ chain'[Len(chain) + 1] = c
  BY <1>1, ChainGrows
<1>4. \A i \in 1..Len(chain) : chain[i] # c
  BY DEF Sound, ListedAreUsed
<1>5. running # Null => running \in Cells /\ running # c /\ job[running] # 0
  BY DEF TypeOK, Sound, RunningIsOut
<1>6. ListEnds' /\ NoneTwice'
  BY <1>1, <1>2, <1>4, EnqueueLinks DEF Sound
<1>7. /\ job'[c] = made + 1
      /\ \A d \in Cells : d # c => job'[d] = job[d]
  BY <1>1 DEF TypeOK
<1>8. ListedAreMade' /\ ListedAreUsed'
  <2> SUFFICES ASSUME NEW i \in 1..(Len(chain) + 1)
               PROVE  job'[chain'[i]] # 0 /\ chain'[i] \in used'
    BY <1>3 DEF ListedAreMade, ListedAreUsed
  <2>1. CASE i = Len(chain) + 1
    BY <1>1, <1>2, <1>3, <1>7, <2>1
  <2>2. CASE i \in 1..Len(chain)
    <3>1. chain'[i] = chain[i] /\ chain[i] \in Cells /\ chain[i] # c
      BY <1>3, <1>4, <2>2
    <3>2. job[chain[i]] # 0 /\ chain[i] \in used
      BY <2>2 DEF Sound, ListedAreMade, ListedAreUsed
    <3> QED BY <1>1, <1>7, <3>1, <3>2
  <2> QED BY <1>3, <2>1, <2>2
<1>9. RunningIsOut'
  <2> SUFFICES ASSUME running # Null
               PROVE  /\ job'[running] # 0 /\ running \in used'
                      /\ \A i \in 1..(Len(chain) + 1) : chain'[i] # running
    BY <1>2, <1>3 DEF RunningIsOut
  <2>1. job'[running] # 0 /\ running \in used'
    BY <1>1, <1>5, <1>7 DEF Sound, RunningIsOut
  <2>2. ASSUME NEW i \in 1..(Len(chain) + 1) PROVE chain'[i] # running
    <3>1. CASE i = Len(chain) + 1
      BY <1>3, <1>5, <3>1
    <3>2. CASE i \in 1..Len(chain)
      BY <1>3, <3>2 DEF Sound, RunningIsOut
    <3> QED BY <1>3, <3>1, <3>2
  <2> QED BY <2>1, <2>2
<1>10. RoomForAll'
  BY <1>2, <1>3 DEF Sound, RoomForAll
<1> QED BY <1>6, <1>8, <1>9, <1>10 DEF Sound

\* What is left of the queue without its first job.
LEMMA ChainShrinks ==
  ASSUME TypeOK, Sound, ~stale, Remove
  PROVE  /\ chain # <<>> /\ Len(chain) \in Nat /\ Len(chain) > 0
         /\ occ = Len(chain) /\ head = chain[1] /\ chain[1] \in Cells
         /\ chain' \in Seq(Cells) /\ Len(chain') = Len(chain) - 1
         /\ \A i \in 1..(Len(chain) - 1) : chain'[i] = chain[i + 1]
<1>1. chain \in Seq(Cells) /\ occ = Len(chain) /\ occ > 0
  BY DEF TypeOK, Sound, ListEnds, Remove
<1>2. chain # <<>> /\ head = chain[1]
  BY <1>1 DEF Sound, ListEnds
<1>3. chain[1] \in Cells
  BY <1>1, <1>2, ElementOfSeq
<1> QED BY <1>1, <1>2, <1>3 DEF Remove

LEMMA RemoveKeeps ==
  ASSUME TypeOK, Sound, ~stale, Remove
  PROVE  Sound'
<1> DEFINE n == Len(chain)
<1>1. /\ n \in Nat /\ n > 0 /\ occ = n /\ head = chain[1] /\ chain[1] \in Cells
      /\ chain' \in Seq(Cells) /\ Len(chain') = n - 1
      /\ \A i \in 1..(n - 1) : chain'[i] = chain[i + 1]
  BY ChainShrinks
<1>2. /\ running = Null /\ running' = chain[1] /\ running' # Null
      /\ head' = next[chain[1]] /\ occ' = n - 1
      /\ UNCHANGED <<tail, next, job, used, made, put>>
  BY <1>1, JobQueueAssumption DEF Remove
<1>3. /\ \A i \in 1..(n - 1) : next[chain[i]] = chain[i + 1]
      /\ n > 1 => next[chain[n]] = Null
      /\ tail = chain[n]
  BY <1>1, ChainShrinks DEF Sound, ListEnds
<1>4. ListEnds'
  <2>1. CASE n = 1
    <3>1. chain' = <<>>
      BY <1>1, <2>1
    <3>2. head' = Null \/ stale'
      BY <1>1, <1>2, <2>1 DEF Remove
    <3> QED BY <1>1, <1>2, <2>1, <3>1, <3>2 DEF ListEnds
  <2>2. CASE n > 1
    <3>1. chain' # <<>> /\ chain'[1] = chain[2] /\ head' = chain[2]
      BY <1>1, <1>2, <1>3, <2>2
    <3>2. chain'[n - 1] = chain[n]
      BY <1>1, <2>2
    <3>3. ASSUME NEW i \in 1..((n - 1) - 1) PROVE next[chain'[i]] = chain'[i + 1]
      <4>1. /\ i + 1 \in 1..(n - 1) /\ i \in 1..(n - 1)
            /\ chain'[i] = chain[i + 1] /\ chain'[i + 1] = chain[i + 2]
        BY <1>1, <2>2
      <4> QED BY <1>1, <1>3, <4>1
    <3> QED BY <1>1, <1>2, <1>3, <2>2, <3>1, <3>2, <3>3 DEF ListEnds
  <2> QED BY <1>1, <2>1, <2>2
<1>5. NoneTwice'
  <2> SUFFICES ASSUME NEW i \in 1..(n - 1), NEW j \in 1..(n - 1),
                      chain'[i] = chain'[j]
               PROVE  i = j
    BY <1>1 DEF NoneTwice
  <2>1. i + 1 \in 1..n /\ j + 1 \in 1..n /\ chain[i + 1] = chain[j + 1]
    BY <1>1
  <2>2. i + 1 = j + 1
    BY <2>1 DEF Sound, NoneTwice
  <2> QED BY <1>1, <2>2
<1>6. ListedAreMade' /\ ListedAreUsed'
  <2> SUFFICES ASSUME NEW i \in 1..(n - 1)
               PROVE  job[chain'[i]] # 0 /\ chain'[i] \in used
    BY <1>1, <1>2 DEF ListedAreMade, ListedAreUsed
  <2>1. i + 1 \in 1..n /\ chain'[i] = chain[i + 1]
    BY <1>1
  <2> QED BY <2>1 DEF Sound, ListedAreMade, ListedAreUsed
<1>7. RunningIsOut'
  <2>1. job[chain[1]] # 0 /\ chain[1] \in used
    BY <1>1 DEF Sound, ListedAreMade, ListedAreUsed
  <2>2. ASSUME NEW i \in 1..(n - 1) PROVE chain'[i] # chain[1]
    <3>1. i + 1 \in 1..n /\ 1 \in 1..n /\ chain'[i] = chain[i + 1] /\ i + 1 # 1
      BY <1>1
    <3> QED BY <3>1 DEF Sound, NoneTwice
  <2> QED BY <1>1, <1>2, <2>1, <2>2 DEF RunningIsOut
<1>8. RoomForAll'
  BY <1>1, <1>2 DEF Sound, RoomForAll, TypeOK
<1> QED BY <1>4, <1>5, <1>6, <1>7, <1>8 DEF Sound

LEMMA FinishKeeps ==
  ASSUME TypeOK, Sound, ~stale, Finish
  PROVE  Sound'
<1>1. /\ running # Null /\ running' = Null /\ used' \in {used, used \ {running}}
      /\ UNCHANGED <<head, tail, occ, next, job, made, put, got, chain, stale>>
  BY DEF Finish
<1>2. ListEnds' /\ NoneTwice' /\ ListedAreMade' /\ RunningIsOut'
  BY <1>1 DEF Sound, ListEnds, NoneTwice, ListedAreMade, RunningIsOut
<1>3. ListedAreUsed'
  BY <1>1 DEF Sound, ListedAreUsed, RunningIsOut
<1>4. Len(chain) \in Nat
  BY DEF TypeOK
<1>5. RoomForAll'
  BY <1>1, <1>4 DEF Sound, RoomForAll, TypeOK
<1> QED BY <1>2, <1>3, <1>5 DEF Sound

LEMMA RequeueKeeps ==
  ASSUME TypeOK, Sound, ~stale, Requeue
  PROVE  Sound'
<1>1. /\ running # Null /\ running \in Cells /\ job[running] # 0 /\ running \in used
      /\ next[running] \in Cells \cup {Null}
      /\ running' = Null /\ Enqueue(running, next[running])
      /\ chain' = Append(chain, running)
      /\ UNCHANGED <<job, used, made, got, stale>>
  BY DEF Sound, TypeOK, RunningIsOut, Requeue
<1>2. \A i \in 1..Len(chain) : chain[i] # running
  BY <1>1 DEF Sound, RunningIsOut
<1>3. ListEnds' /\ NoneTwice'
  BY <1>1, <1>2, EnqueueLinks DEF Sound
<1>4. /\ Len(chain) \in Nat /\ Len(chain') = Len(chain) + 1
      /\ \A i \in 1..Len(chain) : chain'[i] = chain[i] /\ chain[i] \in Cells
      /\ chain'[Len(chain) + 1] = running
  BY <1>1, ChainGrows
<1>5. ListedAreMade' /\ ListedAreUsed'
  <2> SUFFICES ASSUME NEW i \in 1..(Len(chain) + 1)
               PROVE  job'[chain'[i]] # 0 /\ chain'[i] \in used'
    BY <1>4 DEF ListedAreMade, ListedAreUsed
  <2>1. CASE i = Len(chain) + 1
    BY <1>1, <1>4, <2>1
  <2>2. CASE i \in 1..Len(chain)
    BY <1>1, <1>4, <2>2 DEF Sound, ListedAreMade, ListedAreUsed
  <2> QED BY <1>4, <2>1, <2>2
<1>6. RunningIsOut'
  BY <1>1 DEF RunningIsOut
<1>7. RoomForAll'
  BY <1>1, <1>4 DEF Sound, RoomForAll
<1> QED BY <1>3, <1>5, <1>6, <1>7 DEF Sound

\* The step with which a link becomes stale still leaves a sound list.
LEMMA StepKeeps ==
  ASSUME TypeOK, Sound, ~stale, Next
  PROVE  Sound'
BY AddKeeps, RemoveKeeps, FinishKeeps, RequeueKeeps DEF Next

LEMMA NextKeepsInv == IInv /\ [Next]_vars => IInv'
<1> SUFFICES ASSUME IInv, [Next]_vars PROVE IInv'
  OBVIOUS
<1>1. CASE UNCHANGED vars
  BY <1>1 DEF vars, IInv, TypeOK, Sound, ListEnds, NoneTwice, ListedAreMade,
     ListedAreUsed, RunningIsOut, RoomForAll
<1>2. CASE Next
  BY <1>2, StepTyped, StepKeeps DEF IInv
<1> QED BY <1>1, <1>2

\* job_q_remove never meets a NULL head, and job_q_num counts the jobs in the
\* list, after any sequence of calls and reuse of memory (host_util.c:217-271),
\* as long as no lone job leaves the queue with a next field of its own.
THEOREM ListIsWhole == Spec => []ListEnds
<1>1. IInv => ListEnds
  BY DEF IInv, Sound, ListEnds
<1> QED BY <1>1, InitInv, NextKeepsInv, PTL DEF Spec

-----------------------------------------------------------------------------
(* The FIFO                                                                *)

LEMMA QueuedIs ==
  ASSUME TypeOK, ListedAreMade
  PROVE  /\ Queued \in Seq(Jobs) /\ Len(Queued) = Len(chain)
         /\ \A i \in 1..Len(chain) : Queued[i] = job[chain[i]]
<1>1. chain \in Seq(Cells) /\ MaxJobs \in Nat
  BY JobQueueAssumption DEF TypeOK
<1>2. ASSUME NEW i \in 1..Len(chain) PROVE job[chain[i]] \in Jobs
  <2>1. chain[i] \in Cells
    BY <1>1, ElementOfSeq
  <2>2. job[chain[i]] \in 0..MaxJobs /\ job[chain[i]] # 0
    BY <2>1 DEF TypeOK, ListedAreMade
  <2> QED BY <1>1, <2>2 DEF Jobs
<1>3. Len(chain) \in Nat
  BY <1>1
<1>4. Queued \in [1..Len(chain) -> Jobs]
  BY <1>2 DEF Queued
<1> QED BY <1>3, <1>4 DEF Queued

\* The same after a step.
LEMMA QueuedNext ==
  ASSUME TypeOK', ListedAreMade'
  PROVE  /\ Queued' \in Seq(Jobs) /\ Len(Queued') = Len(chain')
         /\ \A i \in 1..Len(chain') : Queued'[i] = job'[chain'[i]]
<1>1. chain' \in Seq(Cells) /\ MaxJobs \in Nat
  BY JobQueueAssumption DEF TypeOK
<1>2. ASSUME NEW i \in 1..Len(chain') PROVE job'[chain'[i]] \in Jobs
  <2>1. chain'[i] \in Cells
    BY <1>1, ElementOfSeq
  <2>2. job'[chain'[i]] \in 0..MaxJobs /\ job'[chain'[i]] # 0
    BY <2>1 DEF TypeOK, ListedAreMade
  <2> QED BY <1>1, <2>2 DEF Jobs
<1>3. Len(chain') \in Nat
  BY <1>1
<1>4. Queued' \in [1..Len(chain') -> Jobs]
  BY <1>2 DEF Queued
<1> QED BY <1>3, <1>4 DEF Queued

\* Putting one job in a queue that has room for it.
LEMMA PutOne ==
  ASSUME NEW x \in Jobs, Queued \in Seq(Jobs), Len(Queued) <= MaxJobs,
         Queued' = Append(Queued, x), put' = <<x>>, got' = got
  PROVE  fifo!Next
<1> DEFINE vs == <<x>>
           room == (MaxJobs + 1) - Len(Queued)
<1>1. Len(Queued) \in Nat /\ MaxJobs \in Nat
  BY JobQueueAssumption
<1>2. Len(vs) = 1 /\ room >= 1
  BY <1>1
<1>3. SubSeq(vs, 1, 1) = vs
  <2>1. vs \in Seq(Jobs) /\ Len(vs) = 1
    OBVIOUS
  <2> HIDE DEF vs
  <2> QED BY <2>1, SubSeqFull
<1>4. fifo!UpTo(room, vs) = vs
  BY <1>2, <1>3 DEF fifo!UpTo
<1>5. Append(Queued, x) = Queued \o vs
  BY AppendIsConcat, Zenon
<1>6. fifo!Put(vs)
  <2>1. put' = vs /\ got' = got
    OBVIOUS
  <2>2. Queued' = Queued \o fifo!UpTo(room, vs)
    BY <1>4, <1>5, Zenon
  <2> HIDE DEF vs
  <2> QED BY <2>1, <2>2, Zenon DEF fifo!Put
<1>7. vs \in [1..1 -> Jobs] /\ 1 \in 0..1
  OBVIOUS
<1> QED BY <1>6, <1>7 DEF fifo!Next

\* The jobs of a queue to which a job is added are those before and that one.
LEMMA QueuedGrows ==
  ASSUME TypeOK, ListedAreMade, TypeOK', ListedAreMade',
         NEW c \in Cells, chain' = Append(chain, c),
         \A i \in 1..Len(chain) : job'[chain[i]] = job[chain[i]]
  PROVE  Queued' = Append(Queued, job'[c]) /\ job'[c] \in Jobs
<1>1. /\ Len(chain) \in Nat /\ Len(chain') = Len(chain) + 1
      /\ \A i \in 1..Len(chain) : chain'[i] = chain[i]
      /\ chain'[Len(chain) + 1] = c
  BY ChainGrows
<1>2. /\ Queued \in Seq(Jobs) /\ Len(Queued) = Len(chain)
      /\ \A i \in 1..Len(chain) : Queued[i] = job[chain[i]]
  BY QueuedIs
<1>3. /\ Queued' \in Seq(Jobs) /\ Len(Queued') = Len(chain) + 1
      /\ \A i \in 1..(Len(chain) + 1) : Queued'[i] = job'[chain'[i]]
  BY <1>1, QueuedNext
<1>4. Queued'[Len(chain) + 1] = job'[c]
  BY <1>1, <1>3
<1>5. job'[c] \in Jobs
  BY <1>1, <1>3, <1>4, ElementOfSeq
<1> DEFINE longer == Append(Queued, job'[c])
<1>6. /\ longer \in Seq(Jobs) /\ Len(longer) = Len(chain) + 1
      /\ \A i \in 1..Len(chain) : longer[i] = Queued[i]
      /\ longer[Len(chain) + 1] = job'[c]
  BY <1>1, <1>2, <1>5
<1>7. ASSUME NEW i \in 1..(Len(chain) + 1) PROVE Queued'[i] = longer[i]
  <2>1. CASE i = Len(chain) + 1
    BY <1>4, <1>6, <2>1
  <2>2. CASE i \in 1..Len(chain)
    <3> HIDE DEF longer
    <3>1. Queued'[i] = job'[chain[i]]
      BY <1>1, <1>3, <2>2
    <3>2. longer[i] = job[chain[i]]
      BY <1>2, <1>6, <2>2
    <3>3. job'[chain[i]] = job[chain[i]]
      BY <2>2
    <3> QED BY <3>1, <3>2, <3>3, Zenon
  <2>3. i = Len(chain) + 1 \/ i \in 1..Len(chain)
    BY <1>1
  <2> QED BY <2>1, <2>2, <2>3, Zenon
<1> HIDE DEF longer
<1>8. Queued' = longer
  BY <1>3, <1>6, <1>7, SeqEqual
<1> QED BY <1>5, <1>8 DEF longer

LEMMA AddPuts ==
  ASSUME TypeOK, Sound, ~stale, Add
  PROVE  fifo!Next
<1>1. PICK c \in Cells \ used, m \in Cells \cup {Null} :
        /\ job' = [job EXCEPT ![c] = made + 1]
        /\ Enqueue(c, m)
        /\ chain' = Append(chain, c)
        /\ used' = used \cup {c}
  BY AddTakes
<1>2. c \in Cells /\ job'[c] = made + 1
      /\ \A d \in Cells : d # c => job'[d] = job[d]
  BY <1>1, JobQueueAssumption DEF TypeOK
<1>3. \A i \in 1..Len(chain) : chain[i] \in Cells /\ chain[i] # c
  BY <1>1, ElementOfSeq DEF Sound, TypeOK, ListedAreUsed
<1>4. TypeOK' /\ ListedAreMade' /\ ListedAreMade
  BY StepTyped, AddKeeps DEF Next, Sound
<1>5. Queued' = Append(Queued, made + 1) /\ made + 1 \in Jobs
  BY <1>1, <1>2, <1>3, <1>4, QueuedGrows
<1>6. put' = <<made + 1>> /\ got' = got /\ made < MaxJobs
  BY DEF Add
<1>7. Queued \in Seq(Jobs) /\ Len(Queued) = Len(chain)
  BY <1>4, QueuedIs
<1>8. Len(chain) \in Nat /\ Len(chain) <= made
  BY DEF Sound, TypeOK, RoomForAll
<1>9. Len(Queued) <= MaxJobs
  BY <1>6, <1>7, <1>8, JobQueueAssumption DEF TypeOK
<1> QED BY <1>5, <1>6, <1>7, <1>9, PutOne

LEMMA RequeuePuts ==
  ASSUME TypeOK, Sound, ~stale, Requeue
  PROVE  fifo!Next
<1>1. /\ running # Null /\ running \in Cells /\ chain' = Append(chain, running)
      /\ job' = job /\ put' = <<job[running]>> /\ got' = got
  BY DEF Requeue, TypeOK
<1>2. TypeOK' /\ ListedAreMade' /\ ListedAreMade
  BY StepTyped, RequeueKeeps DEF Next, Sound
<1>3. Queued' = Append(Queued, job[running]) /\ job[running] \in Jobs
  BY <1>1, <1>2, QueuedGrows
<1>4. Queued \in Seq(Jobs) /\ Len(Queued) <= MaxJobs
  BY <1>1, <1>2, QueuedIs, JobQueueAssumption DEF Sound, TypeOK, RoomForAll
<1> QED BY <1>1, <1>3, <1>4, PutOne

LEMMA RemoveTakes ==
  ASSUME TypeOK, Sound, ~stale, Remove
  PROVE  fifo!Next
<1> DEFINE n == Len(chain)
<1>0. TypeOK' /\ ListedAreMade' /\ ListedAreMade
  BY StepTyped, RemoveKeeps DEF Next, Sound
<1>1. /\ n \in Nat /\ n > 0 /\ head = chain[1]
      /\ chain' \in Seq(Cells) /\ Len(chain') = n - 1
      /\ \A i \in 1..(n - 1) : chain'[i] = chain[i + 1]
  BY ChainShrinks
<1>2. /\ Queued \in Seq(Jobs) /\ Len(Queued) = n
      /\ \A i \in 1..n : Queued[i] = job[chain[i]]
  BY <1>0, QueuedIs
<1>3. /\ Queued' \in Seq(Jobs) /\ Len(Queued') = n - 1
      /\ \A i \in 1..(n - 1) : Queued'[i] = job'[chain'[i]]
  BY <1>0, <1>1, QueuedNext
<1>4. got' = <<job[head]>> /\ UNCHANGED <<job, put>>
  BY DEF Remove
<1>5. got' = <<Queued[1]>>
  BY <1>1, <1>2, <1>4
<1>6. fifo!UpTo(1, Queued) = <<Queued[1]>>
  <2>1. fifo!UpTo(1, Queued) = SubSeq(Queued, 1, 1)
    BY <1>1, <1>2 DEF fifo!UpTo
  <2>2. Len(SubSeq(Queued, 1, 1)) = 1 /\ SubSeq(Queued, 1, 1)[1] = Queued[1]
    BY <1>1, <1>2
  <2>3. SubSeq(Queued, 1, 1) \in Seq(Jobs) /\ <<Queued[1]>> \in Seq(Jobs)
        /\ Len(<<Queued[1]>>) = 1 /\ <<Queued[1]>>[1] = Queued[1]
    BY <1>1, <1>2
  <2> QED BY <2>1, <2>2, <2>3, SeqEqual
<1> DEFINE rest == SubSeq(Queued, 2, n)
<1>7. /\ rest \in Seq(Jobs) /\ Len(rest) = n - 1
      /\ \A i \in 1..(n - 1) : rest[i] = Queued[i + 1]
  BY <1>1, <1>2
<1>8. ASSUME NEW i \in 1..(n - 1) PROVE Queued'[i] = rest[i]
  <2>1. i + 1 \in 1..n /\ chain'[i] = chain[i + 1]
    BY <1>1
  <2> QED BY <1>2, <1>3, <1>4, <1>7, <2>1
<1> HIDE DEF rest
<1>9. Queued' = rest
  BY <1>3, <1>7, <1>8, SeqEqual
<1>10. Len(got') = 1
  BY <1>5
<1>11. fifo!Take(1)
  BY <1>2, <1>4, <1>5, <1>6, <1>9, <1>10 DEF fifo!Take, rest
<1> QED BY <1>11 DEF fifo!Next

LEMMA NextIsFifo == IInv /\ [Next]_vars => [stale \/ fifo!Next]_(fifo!vars)
<1> SUFFICES ASSUME IInv, ~stale, [Next]_vars PROVE [fifo!Next]_(fifo!vars)
  OBVIOUS
<1>1. CASE Finish \/ UNCHANGED vars
  <2>1. UNCHANGED <<chain, job, put, got>>
    BY <1>1 DEF Finish, vars
  <2>2. Queued' = Queued
    BY <2>1 DEF Queued
  <2> QED BY <2>1, <2>2 DEF fifo!vars
<1> QED BY <1>1, AddPuts, RemoveTakes, RequeuePuts DEF IInv, Next

\* Whatever malloc returns, job_q_add and job_q_remove are the put and take of a
\* queue: jobs come out in their order, waits put back included, each once for
\* each time it was put in, until a lone job leaves with a link of its own.
THEOREM JobQueueIsFifo == Spec => JobsComeInOrder
<1>1. Init => fifo!Init
  <2> SUFFICES ASSUME Init PROVE fifo!Init
    OBVIOUS
  <2>1. Queued \in Seq(Jobs) /\ Len(Queued) = 0
    BY InitInv, QueuedIs DEF Init, IInv, Sound
  <2>2. Queued = <<>>
    BY <2>1
  <2> QED BY <2>2 DEF Init, fifo!Init
<1> QED
  BY <1>1, InitInv, NextKeepsInv, NextIsFifo, PTL
     DEF Spec, JobsComeInOrder
=============================================================================
