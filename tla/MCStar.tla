------------------------------- MODULE MCStar -------------------------------
(***************************************************************************)
(* Two hosts on one switch, the least network in which a packet crosses a  *)
(* switch; id 9 is a host that does not exist.                             *)
(***************************************************************************)
EXTENDS Net367

\* As in switchTest.config: ports are in the order of the links.
StarPort == [n \in Nodes |-> IF n \in Switches THEN <<0, 1>> ELSE <<2>>]

Op(o, d, f) == [op |-> o, dst |-> d, name |-> f]

\* No files: this network is for pings.
NoDisk == [d \in Dirs |-> [f \in Names |-> None]]

Commands == {Op("s", None, None), Op("m", None, "t0"), Op("c", 1, None),
             Op("c", 9, None), Op("p", 0, None), Op("p", 1, None),
             Op("p", 9, None), Op("q", None, None)}

\* A command that gets an answer, and one after which another host may be the
\* one to ask.
Requests == {c \in Commands : c.op \in {"s", "p"}}
Moves    == {c \in Commands : c.op \in {"c", "m"}}

\* Every session of two commands, and every two requests with a move between.
Sessions == [1..2 -> Commands]
              \cup {<<a, b, c>> : a \in Requests, b \in Moves, c \in Requests}

\* 's' typed at once after 'm', which returns without waiting.
Hasty == {<<Op("m", None, "t0"), Op("s", None, None)>>}
=============================================================================
