-------------------------------- MODULE Fifo --------------------------------
(***************************************************************************)
(* What file_buf and job_queue both promise: a queue of Values with room   *)
(* for Cap of them.  What is put beyond that is dropped from its end, and  *)
(* what is taken comes out in the order in which it went in.               *)
(***************************************************************************)
EXTENDS Naturals, Sequences

CONSTANTS
  Values,
  Cap,    \* values the queue can hold
  Batch,  \* values a caller puts or takes at once, at most
  Clears  \* whether the queue can be emptied

VARIABLES
  queue,  \* what has been put and not yet taken
  put,    \* what was given to the last put
  got     \* what the last take returned

vars == <<queue, put, got>>

\* The first k of the values vs, or all if they are fewer.
UpTo(k, vs) == SubSeq(vs, 1, IF Len(vs) <= k THEN Len(vs) ELSE k)

Init == queue = <<>> /\ put = <<>> /\ got = <<>>

Clear ==
  /\ Clears
  /\ queue' = <<>>
  /\ UNCHANGED <<put, got>>

Put(vs) ==
  /\ put' = vs
  /\ queue' = queue \o UpTo(Cap - Len(queue), vs)
  /\ UNCHANGED got

Take(k) ==
  /\ got' = UpTo(k, queue)
  /\ queue' = SubSeq(queue, Len(got') + 1, Len(queue))
  /\ UNCHANGED put

Next ==
  \/ Clear
  \/ \E n \in 0..Batch : \E vs \in [1..n -> Values] : Put(vs)
  \/ \E k \in 0..Batch : Take(k)

Spec == Init /\ [][Next]_vars
=============================================================================
