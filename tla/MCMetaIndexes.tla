--------------------------- MODULE MCMetaIndexes ---------------------------
(* MetaIndexes for TLC: the index table is empty at first. *)
EXTENDS MetaIndexes

NoRows == {}
=============================================================================
