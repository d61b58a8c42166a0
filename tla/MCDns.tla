------------------------------- MODULE MCDns -------------------------------
(***************************************************************************)
(* Two hosts and the DNS server between them.  Each entry of the memory of *)
(* the table is free or looks valid, with the id of host 1.                *)
(***************************************************************************)
EXTENDS Dns, TLC

CONSTANTS alpha, alphabet

TwoHosts == 0 :> <<100>> @@ 1 :> <<100>> @@ 100 :> <<0, 1>>

LeftOver == alpha :> {alpha, alphabet, Stray} @@ alphabet :> {alphabet, Stray}

Free == [valid |-> FALSE, physical_id |-> NoId, domain_name |-> Stray]

ClearedMemory == {Free}

StackMemory == {Free, [valid |-> TRUE, physical_id |-> 1, domain_name |-> alpha]}
=============================================================================
