------------------------------ MODULE MCUpload ------------------------------
(***************************************************************************)
(* Uploads in the network of MCStar and in two others.  Directory t0 has a *)
(* short file and one of two full chunks and a rest, which is longer than  *)
(* the receiver's buffer; t1 starts empty.  A read takes in the packet     *)
(* behind a short one.                                                     *)
(***************************************************************************)
EXTENDS MCStar, Uploads

TwoFiles == [d \in Dirs |->
  [f \in Names |-> CASE d = "t0" /\ f = "short" -> <<"a">>
                     [] d = "t0" /\ f = "long"  -> <<"b", "c", "a">>
                     [] d = "t1"                -> None]]

SetT0 == Op("m", None, "t0")
SetT1 == Op("m", None, "t1")
To(h) == Op("c", h, None)
Send(h, f) == Op("u", h, f)

\* Host 0 sends both files, with the directory of host 1 set before, between
\* or after; to itself, through the switch, and to a host that does not exist;
\* and by a download, with a q in the middle.
OneSender == {
  <<SetT0, To(1), SetT1, To(0), Send(1, "short"), Send(1, "long")>>,
  <<SetT0, Send(1, "long"), To(1), SetT1, To(0), Send(1, "short")>>,
  <<SetT0, Send(9, "short"), Send(0, "long")>>,
  <<SetT0, To(1), SetT1, To(0), Op("d", 1, "long"), Op("q", None, None)>>}

\* Hosts 0 and 3 of switchTest.config send a file each to host 1.
ThreePort == [n \in Nodes |-> IF n \in Switches THEN <<0, 1, 3>> ELSE <<2>>]

TwoSenders == {
  <<SetT0, To(1), SetT1, To(3), SetT0, Send(1, "long"), To(0),
    Send(1, "short")>>}

\* 0 - 2 - 3 - 1, in which the switches have not heard anything from host 1.
TwoSwitchPort == [n \in Nodes |-> CASE n = 0 -> <<2>>
                                    [] n = 1 -> <<3>>
                                    [] n = 2 -> <<3, 0>>
                                    [] n = 3 -> <<1, 2>>]

ToUnheard == {<<SetT1, To(0), SetT0, Send(1, "long")>>}
=============================================================================
