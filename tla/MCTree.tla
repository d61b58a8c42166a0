------------------------------- MODULE MCTree -------------------------------
(***************************************************************************)
(* Two switches with a host each: the least network in which packets echo. *)
(***************************************************************************)
EXTENDS TreeNet

\* 0 - 2 - 3 - 1
TreePort == [n \in Nodes |-> CASE n = 0 -> <<2>>
                               [] n = 1 -> <<3>>
                               [] n = 2 -> <<3, 0>>
                               [] n = 3 -> <<1, 2>>]

TreeRoute == [s \in Switches |->
                IF s = 2 THEN [h \in Hosts |-> IF h = 0 THEN 2 ELSE 1]
                         ELSE [h \in Hosts |-> IF h = 0 THEN 2 ELSE 1]]

Op(o, d, f) == [op |-> o, dst |-> d, name |-> f]

NoDisk == [d \in Dirs |-> [f \in Names |-> None]]

\* A ping of the far host, of oneself, and of a host that does not exist.
OnePing == {<<Op("p", d, None)>> : d \in Ids}

\* A host that exists is pinged, then one that does not.
TwoPings == {<<Op("p", 1, None), Op("p", 9, None)>>}
=============================================================================
