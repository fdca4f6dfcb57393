------------------------------ MODULE IndexLog ------------------------------
(***************************************************************************)
(* What the metadata manager of a storage channel promises about its       *)
(* indexes, whatever happens to its queues, its workers and its database:  *)
(* the indexes of a channel form one timeline.  An index is appended after *)
(* every other index, both in sequence number and in time; once appended   *)
(* it never changes, except that the last one, when it stands for dropped  *)
(* blocks, may be prolonged; and indexes may disappear (they expire, or    *)
(* they had not reached the database when the process stopped).            *)
(*                                                                         *)
(* MetaIndexes implements this specification.                              *)
(***************************************************************************)
EXTENDS Timelines

CONSTANT Row            \* the records [seq, start, end, file, dropped]

VARIABLE log            \* the set of the channel's indexes

-----------------------------------------------------------------------------
IsLast(r) == \A s \in log : s.seq <= r.seq

Init == log \in SUBSET Row /\ Timeline(log)

Append(r) ==
    /\ r.start <= r.end
    /\ \A s \in log : s.seq < r.seq /\ s.end <= r.start
    /\ log' = log \union {r}

Prolong(r, e) ==
    /\ r.dropped
    /\ IsLast(r)
    /\ e >= r.end
    /\ log' = (log \ {r}) \union {[r EXCEPT !.end = e]}

Forget(rows) == log' = log \ rows

Next ==
    \/ \E r \in Row : Append(r)
    \/ \E r \in log : \E s \in Row : Prolong(r, s.end)
    \/ \E rows \in SUBSET log : Forget(rows)

Spec == Init /\ [][Next]_log
=============================================================================
