------------------------------ MODULE Channel ------------------------------
(***************************************************************************)
(* What a pipe of net367 promises: packets may get lost, but none comes    *)
(* twice and none is overtaken by a later one.  A socket promises less.    *)
(***************************************************************************)
EXTENDS Naturals

VARIABLES
  count,  \* packets sent so far; they are numbered from 1
  got     \* the numbers of those that have come out

vars == <<count, got>>

Init == count = 0 /\ got = {}

Send == count' = count + 1 /\ UNCHANGED got

Deliver(k) ==
  /\ \A j \in got : j < k
  /\ got' = got \cup {k}
  /\ UNCHANGED count

Next == Send \/ \E k \in 1..count : Deliver(k)

Spec == Init /\ [][Next]_vars
=============================================================================
