-------------------------- MODULE MCDocumentIngest --------------------------
(* Small instances of DocumentIngest for TLC: a content of two chunks, one   *)
(* of a single chunk, one of blank pages and one that is refused.            *)
EXTENDS DocumentIngest

MCValid   == {"long", "short", "blank"}
MCInvalid == {"binary"}
MCLength  == [c \in MCValid |-> CASE c = "long"  -> 2
                                  [] c = "short" -> 1
                                  [] c = "blank" -> 0]
=============================================================================
