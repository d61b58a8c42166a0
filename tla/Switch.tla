------------------------------- MODULE Switch -------------------------------
(***************************************************************************)
(* A switch process (switch.c, switch_util.c).  It reads its ports in turn *)
(* without ever sleeping.  A packet goes to the port on which its          *)
(* destination was first heard as a source, or else to all ports, the one  *)
(* it came in on included.                                                 *)
(***************************************************************************)
EXTENDS Pipes

VARIABLES
  swAt,  \* swAt[s]: the port switch s reads next
  fwd    \* fwd[s][h]: the port its table has for host h, 0 while not valid

switchVars == <<swAt, fwd>>

SwitchInit ==
  /\ swAt = [s \in Switches |-> 1]
  /\ fwd  = [s \in Switches |-> [i \in Ids |-> 0]]

\* The wire that comes in on the port being read, and the packet there.
SwWire(s)    == <<Port[s][swAt[s]], s>>
SwArrived(s) == Head(link[SwWire(s)])

\* (mutant) The end of the ports is seen one port too late.
ScanNextTooFar(s) ==
  swAt' = [swAt EXCEPT ![s] = IF @ > Len(Port[s]) THEN 1 ELSE @ + 1]

ScanNext(s) ==
  swAt' = [swAt EXCEPT ![s] = IF @ = Len(Port[s]) THEN 1 ELSE @ + 1]

\* (mutant) The last packet of a host says where it is.
AddSrcAgain(s) ==
  fwd' = [fwd EXCEPT ![s][SwArrived(s).src] = swAt[s]]

\* add_src_to_table never changes an entry that is valid.
AddSrc(s) ==
  fwd' = [fwd EXCEPT ![s][SwArrived(s).src] = IF @ # 0 THEN @ ELSE swAt[s]]

PortEmpty(s) ==
  /\ link[SwWire(s)] = <<>>
  /\ ScanNext(s)
  /\ UNCHANGED <<fwd, pipeVars>>

\* The packet is taken off its pipe and written to those of ws.
PassOn(s, ws) ==
  /\ link' = PutOn(ws, TakeFrom(SwWire(s), link), SwArrived(s))
  /\ AddSrc(s)
  /\ ScanNext(s)
  /\ UNCHANGED <<cmdPipe, replyPipe>>

Forward(s) ==
  /\ link[SwWire(s)] # <<>>
  /\ fwd[s][SwArrived(s).dst] # 0
  /\ PassOn(s, {<<s, Port[s][fwd[s][SwArrived(s).dst]]>>})

\* (mutant) The branch that floods forgets to learn.
FloodOnly(s) ==
  /\ link[SwWire(s)] # <<>>
  /\ fwd[s][SwArrived(s).dst] = 0
  /\ link' = PutOn(AllPorts(s), TakeFrom(SwWire(s), link), SwArrived(s))
  /\ ScanNext(s)
  /\ UNCHANGED <<fwd, cmdPipe, replyPipe>>

Flood(s) ==
  /\ link[SwWire(s)] # <<>>
  /\ fwd[s][SwArrived(s).dst] = 0
  /\ PassOn(s, AllPorts(s))

SwitchStep(s) == PortEmpty(s) \/ Forward(s) \/ Flood(s)

SwitchTypeOK ==
  /\ swAt \in [Switches -> Nat]
  /\ \A s \in Switches : swAt[s] \in 1..Len(Port[s])
  /\ fwd \in [Switches -> [Ids -> Nat]]
  /\ \A s \in Switches : \A i \in Ids : fwd[s][i] <= Len(Port[s])
=============================================================================
