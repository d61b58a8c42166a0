------------------------------ MODULE Console ------------------------------
(***************************************************************************)
(* What the manager promises its user, with no word on how.  A request for *)
(* the state of a host, or for a ping from it, gets exactly one answer, of *)
(* its own kind and from the host asked, and it is always answered.  There *)
(* is one request at a time and no host answers unasked.                   *)
(***************************************************************************)
CONSTANTS Hosts, None

VARIABLES
  asked,   \* the host a request is waiting for, or None
  kind,    \* the kind of the last request
  answer,  \* answer[h]: the kind of the answer of host h not yet shown
  over     \* whether the user has quit

vars == <<asked, kind, answer, over>>

Kinds == {"state", "ping"}

Init ==
  /\ asked = None
  /\ kind = "state"
  /\ answer = [h \in Hosts |-> None]
  /\ over = FALSE

Ask(h, k) ==
  /\ ~over
  /\ asked = None
  /\ asked' = h
  /\ kind' = k
  /\ UNCHANGED <<answer, over>>

Answer ==
  /\ ~over
  /\ asked # None
  /\ answer[asked] = None
  /\ answer' = [answer EXCEPT ![asked] = kind]
  /\ UNCHANGED <<asked, kind, over>>

Show ==
  /\ ~over
  /\ asked # None
  /\ answer[asked] = kind
  /\ answer' = [answer EXCEPT ![asked] = None]
  /\ asked' = None
  /\ UNCHANGED <<kind, over>>

Quit ==
  /\ asked = None
  /\ over' = TRUE
  /\ UNCHANGED <<asked, kind, answer>>

Next ==
  \/ \E h \in Hosts, k \in Kinds : Ask(h, k)
  \/ Answer
  \/ Show
  \/ Quit

Spec == Init /\ [][Next]_vars

FairSpec == Spec /\ WF_vars(Answer) /\ WF_vars(Show)
=============================================================================
