---------------------------- MODULE PacketQueue ----------------------------
(***************************************************************************)
(* A pipe as the networks of this project see it (module Pipes): a queue   *)
(* of packets with room for some, of which a read gives the first and      *)
(* takes off FramesPerRead.                                                *)
(***************************************************************************)
EXTENDS Naturals, Sequences

CONSTANTS Room, FramesPerRead

VARIABLES
  queue,  \* the packets in the pipe, by number
  count,  \* packets the pipe has taken
  got     \* those that reads have given

vars == <<queue, count, got>>

Init == queue = <<>> /\ count = 0 /\ got = {}

\* A packet that finds no room changes nothing.
Write ==
  /\ Len(queue) < Room
  /\ count' = count + 1
  /\ queue' = Append(queue, count + 1)
  /\ UNCHANGED got

Read ==
  /\ queue # <<>>
  /\ got' = got \cup {Head(queue)}
  /\ queue' = SubSeq(queue, FramesPerRead + 1, Len(queue))
  /\ UNCHANGED count

Next == Write \/ Read

Spec == Init /\ [][Next]_vars
=============================================================================
