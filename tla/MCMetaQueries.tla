--------------------------- MODULE MCMetaQueries ---------------------------
(* MetaQueries for TLC: one row saved by an earlier run of the process.     *)
EXTENDS MetaQueries

SomeLimits == {-1, 1}
OneRow == {[seq |-> 1, start |-> 1, end |-> 2, file |-> 0, dropped |-> FALSE]}
=============================================================================
