---------------------------- MODULE MetaQueries ----------------------------
(***************************************************************************)
(* FindIndexes of DBMetaManager: a reader looks for the indexes that       *)
(* overlap [from, to).  It first looks into needCreatedIndexes under       *)
(* indexLock, then sends a query to the database without any lock, while   *)
(* createIndex moves indexes from the one to the other.                    *)
(*                                                                         *)
(* Only the threads that touch needCreatedIndexes and the index table run  *)
(* here: the writer, createIndex and deleteIndex.                          *)
(***************************************************************************)
EXTENDS MetaIndexes, Integers

CONSTANTS
    Points,         \* the times a reader asks for
    Limits          \* the limits it gives; a negative limit is no limit

ASSUME QueryAssumption == Points \subseteq Nat /\ Limits \subseteq Int

VARIABLES
    find,           \* the call: [pc, from, to, limit, end, extends]
    seen,           \* history: the channel's indexes when the call was made
    found           \* the indexes it returned

findVars == <<find, seen, found>>

NoFind == [pc |-> "idle", from |-> 0, to |-> 0, limit |-> 0, end |-> 0, extends |-> <<>>]

-----------------------------------------------------------------------------
\* Plausible bug: an index that starts where the range ends is counted.
StartingBeforeOrAt(t) == Cardinality({i \in DOMAIN needCreated : needCreated[i].start <= t})

\* sort.Search over the starts and over the ends of needCreatedIndexes: how
\* many of them start before t, and (EndingBy) how many end at or before t.
StartingBefore(t) == Cardinality({i \in DOMAIN needCreated : needCreated[i].start < t})

\* Plausible bug: the search for the first index compares the starts.
EndingByStart(t) == Cardinality({i \in DOMAIN needCreated : needCreated[i].start <= t})

EndingBy(t) == Cardinality({i \in DOMAIN needCreated : needCreated[i].end <= t})

Least(a, b) == IF a <= b THEN a ELSE b

\* limit > 0 cuts a sequence of n indexes; a negative limit does not.
Cut(n, limit) == IF limit > 0 THEN Least(n, limit) ELSE n

Answer(call, rows) == find' = [call EXCEPT !.pc = "done"] /\ found' = rows

\* Once the head of the queue is taken from the cache, the query only has to
\* find what starts before it.
QueryEnd(to) == Head(needCreated).start

FindCache(from, to, limit) ==
    LET call == [NoFind EXCEPT !.from = from, !.to = to, !.limit = limit, !.end = to]
        ei   == StartingBefore(to)
        si   == EndingBy(from)
    IN  /\ phase = "running" /\ find.pc = "idle"
        /\ seen' = db \union Queued
        /\ IF from >= to \/ limit = 0 THEN Answer(call, <<>>)
           ELSE IF needCreated = <<>> \/ to <= Head(needCreated).start
           THEN find' = [call EXCEPT !.pc = "db"] /\ found' = <<>>
           ELSE IF from >= Head(needCreated).start
           THEN Answer(call, SubSeq(needCreated, si + 1, si + Cut(ei - si, limit)))
           ELSE /\ find' = [call EXCEPT !.pc = "db", !.end = QueryEnd(to),
                                        !.extends = SubSeq(needCreated, 1, Cut(ei, limit))]
                /\ found' = <<>>
        /\ UNCHANGED vars

\* SELECT ... WHERE end > from AND start < end [LIMIT limit], in primary key
\* order, which is the order the rows are stored in.
IsQueried(rows) ==
    LET match == {r \in db : r.end > find.from /\ r.start < find.end}
    IN  /\ \A i, j \in DOMAIN rows : i < j => rows[i].seq < rows[j].seq
        /\ Len(rows) = Cut(Cardinality(match), find.limit)
        /\ \A r \in match : \/ \E i \in DOMAIN rows : rows[i] = r
                            \/ \A i \in DOMAIN rows : rows[i].seq < r.seq

\* IndexChecker with the start of the indexes found in the queue as its end.
Accepted(rows, acc, i) ==
    /\ rows[i].start <= rows[i].end
    /\ find.extends # <<>> => /\ rows[i].seq < Head(find.extends).seq
                              /\ rows[i].end <= Head(find.extends).start
    /\ \A k \in DOMAIN acc : acc[k] < i => rows[i].start >= rows[acc[k]].end

FindQuery ==
    /\ find.pc = "db"
    /\ \E rows \in SeqOf({r \in db : r.end > find.from /\ r.start < find.end}, Cardinality(db)) :
          /\ IsQueried(rows)
          /\ \E acc \in SeqOf(DOMAIN rows, Len(rows)) :
                /\ \A k, l \in DOMAIN acc : k < l => acc[k] < acc[l]
                /\ \A i \in DOMAIN rows :
                      (\E k \in DOMAIN acc : acc[k] = i) <=> Accepted(rows, acc, i)
                /\ LET all == [k \in DOMAIN acc |-> rows[acc[k]]] \o find.extends
                   IN  Answer(find, SubSeq(all, 1, Cut(Len(all), find.limit)))
    /\ UNCHANGED <<seen, vars>>

\* The query fails: FindIndexes returns the error.
FindFail == find.pc = "db" /\ find' = NoFind /\ found' = <<>> /\ seen' = {} /\ UNCHANGED vars

\* The caller has taken the answer.
FindReturn == find.pc = "done" /\ find' = NoFind /\ found' = <<>> /\ seen' = {} /\ UNCHANGED vars

-----------------------------------------------------------------------------
QInit == Init /\ find = NoFind /\ seen = {} /\ found = <<>>

Background ==
    /\ \/ Start \/ AddAny \/ AddIndexTry \/ Create
       \/ DeleteIndex \/ Delete
       \/ \E w \in {"create", "delete"} : TakeTask(w)
    /\ UNCHANGED findVars

QNext ==
    \/ Background
    \/ \E f, t \in Points, l \in Limits : FindCache(f, t, l)
    \/ FindQuery \/ FindFail \/ FindReturn

QSpec == QInit /\ [][QNext]_<<vars, findVars>>

-----------------------------------------------------------------------------
(* Properties.                                                             *)

Overlaps(r) == find.from < find.to /\ r.end > find.from /\ r.start < find.to

\* What FindIndexes returns are indexes of the asked range, each once and in
\* order, although createIndex may be moving them while it looks; and it misses
\* none: an index of positive length that overlaps the range, was there when
\* FindIndexes was called and has not been deleted since is returned, or it
\* lies behind the limit.
FindExact ==
    find.pc = "done" =>
        /\ \A i \in DOMAIN found : Overlaps(found[i])
        /\ \A i, j \in DOMAIN found : i < j => found[i].seq < found[j].seq
        /\ find.limit >= 0 => Len(found) <= find.limit
        /\ find.limit # 0 =>
             \A r \in seen : (HasSeq(db \union Queued, r.seq) /\ Overlaps(r) /\ r.start < r.end)
                => \/ \E i \in DOMAIN found : found[i].seq = r.seq
                   \/ /\ Len(found) = find.limit
                      /\ \A i \in DOMAIN found : found[i].seq < r.seq
=============================================================================
