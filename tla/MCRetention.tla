---------------------------- MODULE MCRetention ----------------------------
(* Retention for TLC: what an earlier run of the process left behind.       *)
EXTENDS Retention

R(n, t, f) == [seq |-> n, start |-> t, end |-> t, file |-> f, dropped |-> FALSE]

\* Two files of two blocks and of one block.
TwoFiles  == {R(1, 1, 1), R(2, 1, 1), R(3, 1, 2)}
\* One file with more blocks than fit into the cache.
OneFile   == {R(1, 1, 1), R(2, 1, 1), R(3, 3, 1)}
=============================================================================
