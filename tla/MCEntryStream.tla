--------------------------- MODULE MCEntryStream ----------------------------
(* EntryStream for TLC: its messages are interchangeable. *)
EXTENDS EntryStream
=============================================================================
