---------------------------- MODULE MCMetaFiles ----------------------------
(* MetaFiles for TLC. *)
EXTENDS MetaFiles
=============================================================================
