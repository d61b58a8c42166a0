--------------------------- MODULE MCSwitchTable ---------------------------
(***************************************************************************)
(* A table of four entries and three ports.  The ids come from the cfg:    *)
(* within the table, and -1, in MCSwitchTable.cfg, and in MCDnsId.cfg also *)
(* the first one that is too large, as that of the DNS server is for 100.  *)
(***************************************************************************)
EXTENDS SwitchTable

WithMinusOne == -1..3
=============================================================================
