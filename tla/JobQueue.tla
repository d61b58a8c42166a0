------------------------------ MODULE JobQueue ------------------------------
(***************************************************************************)
(* The job queue of a host as the linked list it is (struct job_queue of   *)
(* host.h, job_q_* of host_util.c), with the heap its jobs are allocated   *)
(* from.  Module Host takes this queue to be a FIFO.  job_q_add sets       *)
(* j->next only when the queue is not empty: a job put in an empty queue   *)
(* keeps whatever malloc left in its memory.                               *)
(***************************************************************************)
EXTENDS Naturals, Sequences

CONSTANTS
  Cells,    \* addresses of struct host_job
  Null,     \* NULL
  Junk,     \* what other data may have left in memory that malloc returns
  MaxJobs,  \* jobs a host makes, at most
  Waits     \* which of them are waits for a ping reply

Jobs == 1..MaxJobs

ASSUME JobQueueAssumption ==
  /\ Null \notin Cells
  /\ Junk \subseteq Cells \cup {Null}
  /\ MaxJobs \in Nat
  /\ Waits \subseteq Jobs

VARIABLES
  head, tail, occ,
  next,     \* next[c]: the next field of the job at c, whatever it may be
  job,      \* job[c]: the job at c, 0 in memory never used
  used,     \* the memory allocated and not freed
  running,  \* the job that host_main executes, or NULL
  made,     \* how many jobs have been made
  put,      \* the job given to the last job_q_add
  got,      \* the job the last job_q_remove returned
  chain,    \* (history) the addresses given to job_q_add, less those taken
  stale     \* (history) a job left the queue empty but for what its next said

vars == <<head, tail, occ, next, job, used, running, made, put, got, chain, stale>>

Init ==
  /\ head = Null
  /\ tail = Null
  /\ occ = 0
  /\ next = [c \in Cells |-> Null]
  /\ job = [c \in Cells |-> 0]
  /\ used = {}
  /\ running = Null
  /\ made = 0
  /\ put = <<>>
  /\ got = <<>>
  /\ chain = <<>>
  /\ stale = FALSE

\* malloc returns memory that is not in use, that of a job that was freed
\* included, with what it held before: the address and the next field.
Malloc == UNION {{<<c, n>> : n \in Junk \cup {next[c]}} : c \in Cells \ used}

\* (mutant) The job added last keeps its next field.
EnqueueNoEnd(c, n) ==
  IF head = Null
  THEN /\ head' = c
       /\ tail' = c
       /\ occ' = 1
       /\ next' = [next EXCEPT ![c] = n]
  ELSE /\ next' = [next EXCEPT ![tail] = c, ![c] = n]
       /\ tail' = c
       /\ occ' = occ + 1
       /\ UNCHANGED head

\* (mutant) tail stays at the first job.
EnqueueNoTail(c, n) ==
  IF head = Null
  THEN /\ head' = c
       /\ tail' = c
       /\ occ' = 1
       /\ next' = [next EXCEPT ![c] = n]
  ELSE /\ next' = [next EXCEPT ![tail] = c, ![c] = Null]
       /\ occ' = occ + 1
       /\ UNCHANGED <<head, tail>>

\* job_q_add of the job at c, whose next field is n.
Enqueue(c, n) ==
  IF head = Null
  THEN /\ head' = c
       /\ tail' = c
       /\ occ' = 1
       /\ next' = [next EXCEPT ![c] = n]
  ELSE /\ next' = [next EXCEPT ![tail] = c, ![c] = Null]
       /\ tail' = c
       /\ occ' = occ + 1
       /\ UNCHANGED head

\* A command, a packet or the running job, if not a wait, makes a job.
Add ==
  /\ made < MaxJobs
  /\ running # Null => job[running] \notin Waits
  /\ \E m \in Malloc :
       /\ job' = [job EXCEPT ![m[1]] = made + 1]
       /\ Enqueue(m[1], m[2])
       /\ chain' = Append(chain, m[1])
       /\ used' = used \cup {m[1]}
  /\ made' = made + 1
  /\ put' = <<made'>>
  /\ UNCHANGED <<running, got, stale>>

\* job_q_remove, when job_q_num is not 0.
Remove ==
  /\ running = Null
  /\ occ > 0
  /\ head # Null
  /\ running' = head
  /\ got' = <<job[head]>>
  /\ head' = next[head]
  /\ occ' = occ - 1
  /\ chain' = SubSeq(chain, 2, Len(chain))
  /\ stale' = (stale \/ (occ = 1 /\ next[head] # Null))
  /\ UNCHANGED <<tail, next, job, used, made, put>>

\* The running job is done, and its memory freed.  Some jobs are not freed.
Finish ==
  /\ running # Null
  /\ used' \in {used, used \ {running}}
  /\ running' = Null
  /\ UNCHANGED <<head, tail, occ, next, job, made, put, got, chain, stale>>

\* The running job, a wait whose reply has not come, goes back into the queue.
Requeue ==
  /\ running # Null
  /\ job[running] \in Waits
  /\ Enqueue(running, next[running])
  /\ chain' = Append(chain, running)
  /\ put' = <<job[running]>>
  /\ running' = Null
  /\ UNCHANGED <<job, used, made, got, stale>>

Next == Add \/ Remove \/ Finish \/ Requeue

Spec == Init /\ [][Next]_vars

-----------------------------------------------------------------------------
\* As long as every job that was alone in the queue has left it with a next
\* field that is NULL, the list has the jobs that were put in and not taken out,
\* in that order: a host neither calls job_q_remove on a NULL head nor leaves
\* jobs behind when job_q_num says there are none, although nothing sets tail
\* (host_util.c:217-257).  That a lone job is put back or is joined by another
\* is enough for its next field to be right, whatever malloc left in it.
ListEnds ==
  \/ stale
  \/ /\ occ = Len(chain)
     /\ head = IF chain = <<>> THEN Null ELSE chain[1]
     /\ chain # <<>> => tail = chain[occ]
     /\ \A i \in 1..(occ - 1) : next[chain[i]] = chain[i + 1]
     /\ occ > 1 => next[chain[occ]] = Null

Queued == [i \in 1..Len(chain) |-> job[chain[i]]]

fifo == INSTANCE Fifo WITH Values <- Jobs,
                           Cap    <- MaxJobs + 1,
                           Batch  <- 1,
                           Clears <- FALSE,
                           queue  <- Queued,
                           put    <- put,
                           got    <- got

\* job_q_remove returns the jobs in the order in which job_q_add put them in,
\* each exactly once for each time it was put in (host_util.c:217, 238), with
\* memory that is used again and again, until a job that was alone in the queue
\* leaves it with a next field that job_q_add did not set.
JobsComeInOrder == fifo!Init /\ [][stale \/ fifo!Next]_(fifo!vars)

\* "Remove job from the job queue, and return pointer to the job"
\* (host_util.c:238): what is taken is the job that was put in first.
TakesTheFirst == [][Remove => chain # <<>> /\ head = chain[1]]_vars
=============================================================================
