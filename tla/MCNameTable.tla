---------------------------- MODULE MCNameTable ----------------------------
(***************************************************************************)
(* Two hosts, two names of which one begins with the other, and a table    *)
(* that they cannot fill if it is free.  Each entry of the memory it       *)
(* starts with is not valid, or looks valid with the id of a host and a    *)
(* name, or looks valid with neither.                                      *)
(***************************************************************************)
EXTENDS NameTable, TLC

CONSTANTS alpha, alphabet

Free == [valid |-> FALSE, physical_id |-> NoId, domain_name |-> Stray]

ClearedMemory == {Free}

StackMemory ==
  {Free,
   [valid |-> TRUE,  physical_id |-> 1,    domain_name |-> alpha],
   [valid |-> TRUE,  physical_id |-> NoId, domain_name |-> Stray]}

LeftOver == alpha :> {alpha, alphabet, Stray} @@ alphabet :> {alphabet, Stray}
=============================================================================
