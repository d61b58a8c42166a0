---------------------------- MODULE MCUploadLink ----------------------------
(***************************************************************************)
(* Two files, one of a chunk that fills a packet and a rest, and one of a  *)
(* short chunk.  A header is one byte here, and a payload three at most.   *)
(***************************************************************************)
EXTENDS UploadLink

TwoContents == [f \in Files |-> IF f = "long" THEN <<"a", "b">> ELSE <<"c">>]
OldFiles  == [f \in Files |-> <<"z">>]

UploadPackets == {Start(f) : f \in Files} \cup {Cont(c) : c \in {"a", "b", "c"}}
                 \cup {End}

HeaderAndPayload ==
  [p \in UploadPackets |-> CASE p = End                        -> 1
                             [] p.type = "FILE_UPLOAD_START" -> 2
                             [] p.body = "a"                 -> 4
                             [] OTHER                        -> 3]
=============================================================================
