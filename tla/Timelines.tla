----------------------------- MODULE Timelines -----------------------------
(***************************************************************************)
(* The order that the indexes of one channel are in, shared by the         *)
(* abstract IndexLog and by the modules that implement it, and the order   *)
(* of sequence numbers.                                                    *)
(***************************************************************************)
EXTENDS Naturals, FiniteSets

\* Sequence numbers identify the indexes of a set and order them in time.
Timeline(rows) ==
    /\ \A r \in rows : r.start <= r.end
    /\ \A r, s \in rows : r.seq = s.seq => r = s
    /\ \A r, s \in rows : r.seq < s.seq => r.end <= s.start

\* The numbers of a finite set, the smallest first.
Ascending(S) ==
    CHOOSE q \in [1..Cardinality(S) -> S] : \A i, j \in 1..Cardinality(S) : i < j => q[i] < q[j]
=============================================================================
