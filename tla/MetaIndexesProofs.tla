------------------------- MODULE MetaIndexesProofs -------------------------
(***************************************************************************)
(* Proofs about the indexes, in four parts.                                *)
(*                                                                         *)
(* The structural invariant Inv of MetaIndexes, for all capacities, times  *)
(* and files and for every behaviour of the database.                      *)
(*                                                                         *)
(* One timeline, and the implementation of IndexLog.  The invariant that   *)
(* carries that proof is about everything the manager knows: the table,    *)
(* the queue, the cache and the rows a refill has read.                    *)
(*                                                                         *)
(* Retention, for every table, capacity and cover period and however the   *)
(* clock, the writer, the workers of the manager and crashes interleave    *)
(* with the tick loop: it marks the index that it has looked at, and only  *)
(* expired indexes are marked.  Inv is kept also when the writer stamps    *)
(* blocks with the clock; to it the proofs add what the tick loop knows    *)
(* between reading an index and marking it.                                *)
(*                                                                         *)
(* Queries, for every table, range and limit: FindIndexes answers exactly, *)
(* although createIndex moves indexes from the queue to the table between  *)
(* the look into the queue and the query.                                  *)
(***************************************************************************)
EXTENDS Retention, MetaQueries, OrderLemmas, TLAPS

USE DEF Executors, Threads

-----------------------------------------------------------------------------
(* Sequences.                                                              *)

\* What Tail leaves of a queue, for the workers that pop one.
LEMMA TailFacts ==
    ASSUME NEW S, NEW q \in Seq(S), q # <<>>
    PROVE  /\ Head(q) \in S /\ Head(q) = q[1]
           /\ Tail(q) \in Seq(S)
           /\ Len(Tail(q)) = Len(q) - 1 /\ Len(q) > 0
           /\ \A i \in 1..(Len(q) - 1) : Tail(q)[i] = q[i + 1]
    OBVIOUS

\* What Append adds to a queue.
LEMMA AppendFacts ==
    ASSUME NEW S, NEW q \in Seq(S), NEW x \in S
    PROVE  /\ Append(q, x) \in Seq(S)
           /\ Len(Append(q, x)) = Len(q) + 1
           /\ \A i \in 1..Len(q) : Append(q, x)[i] = q[i]
           /\ Append(q, x)[Len(q) + 1] = x
           /\ q # <<>> => Head(Append(q, x)) = Head(q)
    OBVIOUS

\* PushAll extends the cache with rows of the query, within its capacity.
LEMMA PushAllFacts ==
    ASSUME NEW q \in Seq(Row), Len(q) <= CacheCap,
           NEW rows \in Seq(Row), NEW acc \in SeqOf(DOMAIN rows, Len(rows))
    PROVE  /\ PushAll(q, rows, acc) \in Seq(Row)
           /\ Len(PushAll(q, rows, acc)) \in Len(q)..CacheCap
           /\ \A i \in 1..Len(q) : PushAll(q, rows, acc)[i] = q[i]
           /\ q # <<>> => Head(PushAll(q, rows, acc)) = Head(q)
<1> DEFINE room == CacheCap - Len(q)
           new  == [k \in DOMAIN acc |-> rows[acc[k]]]
           add  == IF Len(new) <= room THEN new ELSE SubSeq(new, 1, room)
<1>1. PICK m \in 0..Len(rows) : acc \in [1..m -> DOMAIN rows]
    BY DEF SeqOf
<1>2. new \in Seq(Row) /\ Len(new) = m
    <2>1. new \in [1..m -> Row]
        BY <1>1
    <2> QED BY <2>1, <1>1
<1>3. room \in Nat
    BY CapAssumption
<1> HIDE DEF new, room
<1>4. add \in Seq(Row) /\ Len(add) <= room
    BY <1>2, <1>3
<1> HIDE DEF add
<1>5. PushAll(q, rows, acc) = q \o add
    BY DEF PushAll, add, room, new
<1>6. /\ q \o add \in Seq(Row)
      /\ Len(q \o add) = Len(q) + Len(add)
      /\ \A i \in 1..Len(q) : (q \o add)[i] = q[i]
    BY <1>4
<1>7. q # <<>> => Head(q \o add) = Head(q)
    BY <1>4, <1>6
<1> QED
    BY <1>3, <1>4, <1>5, <1>6, <1>7, CapAssumption DEF room

-----------------------------------------------------------------------------
(* The structural invariant: the queues, their heads and their tails.      *)

\* No worker is busy before the manager started and after it closed.
WorkersStopped ==
    phase \in {"flush", "down"} => \A t \in Threads : pc[t] = "idle"

\* The cache holds no more than what has been counted as loaded.
CacheCounted == Len(earliest) <= loadable

Inv ==
    /\ TypeOK
    /\ WorkersStopped
    /\ CacheCounted
    /\ FullTailDropped
    /\ HeadsStable

\* A query returns rows.
LEMMA QueryFacts ==
    ASSUME TypeOK, NEW n \in Nat, NEW rows \in SeqOf(db, n)
    PROVE  rows \in Seq(Row)
<1>1. PICK m \in 0..n : rows \in [1..m -> db]
    BY DEF SeqOf
<1>2. rows \in [1..m -> Row]
    BY <1>1 DEF TypeOK
<1> QED BY <1>2

\* The invariant holds when the process has not started yet.
LEMMA InvInit == Init => Inv
<1> SUFFICES ASSUME Init PROVE Inv
    OBVIOUS
<1>1. TypeOK
    BY CapAssumption, Rows0Assumption DEF Init, TypeOK, NoRow, NoGrow
<1>2. WorkersStopped /\ CacheCounted /\ FullTailDropped /\ HeadsStable
    BY CapAssumption DEF Init, WorkersStopped, CacheCounted, FullTailDropped, HeadsStable
<1> QED BY <1>1, <1>2 DEF Inv

\* The bounds of latestIndex are numbers, those of the nil index being 0.
LEMMA LatestFacts ==
    ASSUME TypeOK
    PROVE  latest.seq \in Nat /\ latest.start \in Nat /\ latest.end \in Nat /\ offset \in Nat
<1>1. CASE latest = NoRow
    BY <1>1 DEF TypeOK, NoRow
<1>2. CASE latest \in Row
    BY <1>2, BoundAssumption DEF TypeOK, Row
<1> QED BY <1>1, <1>2 DEF TypeOK

\* The two ways in which AddIndex changes a row.
LEMMA RowUpdates ==
    ASSUME NEW r \in Row
    PROVE  /\ \A e \in 0..MaxTime : [r EXCEPT !.end = e] =
              [seq |-> r.seq, start |-> r.start, end |-> e, file |-> r.file, dropped |-> r.dropped]
           /\ \A e \in 0..MaxTime : [r EXCEPT !.end = e] \in Row
           /\ AsDropped(r) \in Row /\ AsDropped(r).dropped
<1>1. /\ r = [seq |-> r.seq, start |-> r.start, end |-> r.end, file |-> r.file, dropped |-> r.dropped]
      /\ r.seq \in 1..MaxSeq /\ r.start \in 0..MaxTime /\ r.end \in 0..MaxTime
      /\ r.file \in FileSeqs /\ r.dropped \in BOOLEAN
    BY DEF Row
<1>2. ASSUME NEW e \in 0..MaxTime
      PROVE  /\ [r EXCEPT !.end = e] = [seq |-> r.seq, start |-> r.start, end |-> e,
                                       file |-> r.file, dropped |-> r.dropped]
             /\ [r EXCEPT !.end = e] \in Row
    BY <1>1 DEF Row
<1>3. AsDropped(r) \in Row /\ AsDropped(r).dropped
    BY <1>1, InputAssumption DEF Row, AsDropped
<1> QED BY <1>2, <1>3

\* AddIndex stores a well-formed row.
LEMMA NumberedRow ==
    ASSUME Inv, NEW s \in Nat, NEW e \in Nat, NEW f \in FileSeqs, s <= e,
           Numbered(s, e, f).seq <= MaxSeq, Numbered(s, e, f).end <= MaxTime
    PROVE  /\ Numbered(s, e, f) \in Row
           /\ AsDropped(Numbered(s, e, f)) \in Row /\ AsDropped(Numbered(s, e, f)).dropped
<1>1. latest.seq \in Nat /\ latest.end \in Nat /\ offset \in Nat
    BY LatestFacts DEF Inv
<1>2. Correction(s) \in Nat
    BY <1>1 DEF Correction
<1> DEFINE shift == offset + Correction(s)
           index == [seq |-> latest.seq + 1, start |-> s + shift, end |-> e + shift,
                     file |-> f, dropped |-> FALSE]
<1>3. Numbered(s, e, f) = index
    BY DEF Numbered
<1>4. index.seq <= MaxSeq /\ index.end <= MaxTime
    BY <1>3
<1>5. shift \in Nat
    BY <1>1, <1>2
<1> HIDE DEF shift
<1>6. index \in Row
    BY <1>1, <1>2, <1>4, <1>5, BoundAssumption DEF Row
<1> HIDE DEF index
<1> QED
    BY <1>3, <1>6, RowUpdates

\* AddIndex keeps the invariant: the queue's head stays because the slot it
\* prolongs when the queue is full is not the first one.
LEMMA InvAddIndex ==
    ASSUME Inv, NEW s \in Nat, NEW e \in Nat, NEW f \in FileSeqs, AddIndex(s, e, f)
    PROVE  Inv'
<1> DEFINE index == Numbered(s, e, f)
           n == Len(needCreated)
           stored == IF NearlyFull(n) THEN AsDropped(index) ELSE index
           tail == [needCreated[n] EXCEPT !.end = index.end]
<1>0. s <= e /\ index.end <= MaxTime
    BY DEF AddIndex
<1>1. /\ offset \in Nat /\ offset' = offset + Correction(s)
      /\ Correction(s) \in Nat
      /\ index.end \in Nat
    <2>1. latest.end \in Nat /\ offset \in Nat
        BY LatestFacts DEF Inv
    <2>2. Correction(s) \in Nat
        BY <2>1, <1>0 DEF Correction
    <2> QED BY <2>1, <2>2, <1>0 DEF AddIndex, Numbered
<1>2. pending' \in SUBSET Executors
    BY DEF AddIndex, Submitted, Inv, TypeOK
<1>3. CASE n = QueueCap
    <2>1. n >= 2 /\ needCreated \in Seq(Row) /\ n \in Nat
        BY <1>3, CapAssumption DEF Inv, TypeOK
    <2>2. needCreated[n] \in Row
        BY <2>1
    <2>3. tail \in Row /\ tail.dropped
        <3>1. needCreated[n].dropped
            BY <1>3 DEF Inv, FullTailDropped
        <3>2. index.end \in 0..MaxTime
            BY <1>0, <1>1, BoundAssumption
        <3> HIDE DEF index
        <3>3. /\ tail \in Row
              /\ tail = [seq |-> needCreated[n].seq, start |-> needCreated[n].start, end |-> index.end,
                         file |-> needCreated[n].file, dropped |-> needCreated[n].dropped]
            BY <2>2, <3>2, RowUpdates
        <3> QED BY <3>1, <3>3
    <2>4. /\ needCreated' = [needCreated EXCEPT ![n] = tail]
          /\ latest' = tail
          /\ UNCHANGED <<phase, tables, earliest, loadable, needDeleted, pc, workers>>
        BY <1>3 DEF AddIndex
    <2> HIDE DEF tail
    <2>5. needCreated' \in Seq(Row) /\ Len(needCreated') = n /\ needCreated'[n] = tail
        BY <2>1, <2>3, <2>4
    <2>6. Head(needCreated') = Head(needCreated) /\ needCreated' # <<>>
        BY <2>1, <2>4, <2>5
    <2>7. TypeOK'
        BY <1>1, <1>2, <2>3, <2>4, <2>5 DEF Inv, TypeOK, tables, workers
    <2>8. WorkersStopped' /\ CacheCounted'
        BY <2>4 DEF Inv, WorkersStopped, CacheCounted
    <2>9. FullTailDropped'
        BY <2>3, <2>5 DEF FullTailDropped
    <2>10. HeadsStable'
        BY <2>4, <2>6 DEF Inv, HeadsStable, workers
    <2> QED BY <2>7, <2>8, <2>9, <2>10 DEF Inv
<1>4. CASE n # QueueCap
    <2>1. n \in Nat /\ n < QueueCap /\ needCreated \in Seq(Row)
        BY <1>4, CapAssumption DEF Inv, TypeOK
    <2>2. index.seq <= MaxSeq
        BY <2>1 DEF AddIndex
    <2>3. stored \in Row /\ (n + 1 = QueueCap => stored.dropped)
        <3>1. index \in Row /\ AsDropped(index) \in Row /\ AsDropped(index).dropped
            BY <1>0, <2>2, NumberedRow
        <3>2. n + 1 = QueueCap => NearlyFull(n)
            BY <2>1, CapAssumption DEF NearlyFull
        <3> QED BY <3>1, <3>2
    <2>4. /\ needCreated' = Append(needCreated, stored)
          /\ latest' = stored
          /\ pc' = [pc EXCEPT !["add"] = "done"]
          /\ phase = "running"
          /\ UNCHANGED <<phase, tables, earliest, loadable, needDeleted, workers>>
        BY <1>4 DEF AddIndex, Goto
    <2> HIDE DEF stored
    <2>5. /\ needCreated' \in Seq(Row) /\ Len(needCreated') = n + 1
          /\ needCreated'[n + 1] = stored
          /\ needCreated # <<>> => Head(needCreated') = Head(needCreated)
          /\ needCreated' # <<>>
        BY <2>1, <2>3, <2>4, AppendFacts
    <2>6. TypeOK'
        BY <1>1, <1>2, <2>1, <2>3, <2>4, <2>5, CapAssumption DEF Inv, TypeOK, tables, workers
    <2>7. WorkersStopped' /\ CacheCounted'
        BY <2>4 DEF Inv, WorkersStopped, CacheCounted
    <2>8. FullTailDropped'
        BY <2>1, <2>3, <2>5 DEF FullTailDropped
    <2>9. HeadsStable'
        BY <2>4, <2>5 DEF Inv, TypeOK, HeadsStable, workers
    <2> QED BY <2>6, <2>7, <2>8, <2>9 DEF Inv
<1> QED BY <1>3, <1>4

\* What leaves the queue when createIndex completes an index.
LEMMA CreateCompletionFacts ==
    ASSUME Inv, needCreated # <<>>, CreateCompletion
    PROVE  /\ needCreated' = Tail(needCreated)
           /\ needCreated' \in Seq(Row) /\ Len(needCreated') < QueueCap
           /\ earliest' \in Seq(Row) /\ Len(earliest') <= loadable' /\ loadable' \in 0..CacheCap
           /\ Len(earliest') >= Len(earliest)
           /\ earliest # <<>> => Head(earliest') = Head(earliest) /\ earliest' # <<>>
<1>1. /\ needCreated \in Seq(Row) /\ Len(needCreated) <= QueueCap
      /\ earliest \in Seq(Row) /\ Len(earliest) <= loadable /\ loadable \in 0..CacheCap
    BY DEF Inv, TypeOK, CacheCounted
<1>2. /\ needCreated' = Tail(needCreated)
      /\ needCreated' \in Seq(Row) /\ Len(needCreated') < QueueCap
      /\ Head(needCreated) \in Row
    BY <1>1, TailFacts, CapAssumption DEF CreateCompletion
<1>3. CASE loadable < CacheCap
    <2>1. earliest' = Append(earliest, Head(needCreated)) /\ loadable' = loadable + 1
        BY <1>1, <1>3, CapAssumption DEF CreateCompletion, Push
    <2>2. /\ earliest' \in Seq(Row) /\ Len(earliest') = Len(earliest) + 1
          /\ earliest # <<>> => Head(earliest') = Head(earliest)
        BY <1>1, <1>2, <2>1, AppendFacts
    <2> QED BY <1>1, <1>2, <1>3, <2>1, <2>2, CapAssumption
<1>4. CASE ~(loadable < CacheCap)
    BY <1>1, <1>2, <1>4 DEF CreateCompletion
<1> QED BY <1>3, <1>4

\* The steps of createIndex keep the invariant.
LEMMA InvCreate == ASSUME Inv, Create PROVE Inv'
<1> USE DEF Inv
<1>1. CASE CreateFetch
    <2>1. needCreated # <<>> => Head(needCreated) \in Row
        BY TailFacts DEF TypeOK
    <2>2. TypeOK'
        BY <1>1, <2>1 DEF CreateFetch, Goto, TypeOK, tables, queues
    <2> QED
        BY <1>1, <2>2 DEF CreateFetch, Goto, TypeOK, WorkersStopped, CacheCounted,
                          FullTailDropped, HeadsStable, tables, queues
<1>2. CASE CreateInsert
    <2>1. createIdx \in Row
        BY <1>2, TailFacts DEF CreateInsert, HeadsStable, TypeOK
    <2>2. TypeOK'
        BY <1>2, <2>1 DEF CreateInsert, Goto, TypeOK, workers, queues
    <2>3. WorkersStopped'
        BY <1>2 DEF CreateInsert, Goto, TypeOK, WorkersStopped
    <2>4. HeadsStable'
        BY <1>2 DEF CreateInsert, Goto, TypeOK, HeadsStable, workers, queues
    <2> QED
        BY <1>2, <2>2, <2>3, <2>4 DEF CreateInsert, FullTailDropped, CacheCounted, queues
<1>3. CASE CreateDone
    <2>1. needCreated # <<>> /\ CreateCompletion
        BY <1>3 DEF CreateDone, HeadsStable
    <2>2. /\ needCreated' \in Seq(Row) /\ Len(needCreated') < QueueCap
          /\ earliest' \in Seq(Row) /\ Len(earliest') <= loadable' /\ loadable' \in 0..CacheCap
          /\ Len(earliest') >= Len(earliest)
          /\ earliest # <<>> => Head(earliest') = Head(earliest) /\ earliest' # <<>>
        BY <2>1, CreateCompletionFacts
    <2>3. TypeOK'
        BY <1>3, <2>2, CapAssumption DEF CreateDone, Goto, TypeOK, tables, workers
    <2>4. needDeleted > 0 /\ needDeleted <= Len(earliest) => earliest # <<>>
        BY DEF TypeOK
    <2>5. HeadsStable'
        BY <1>3, <2>2, <2>3, <2>4 DEF CreateDone, Goto, TypeOK, HeadsStable, workers
    <2>6. WorkersStopped'
        BY <1>3 DEF CreateDone, Goto, TypeOK, WorkersStopped
    <2>7. CacheCounted' /\ FullTailDropped'
        BY <2>2, CapAssumption DEF CacheCounted, FullTailDropped
    <2> QED BY <2>3, <2>5, <2>6, <2>7
<1> QED BY <1>1, <1>2, <1>3 DEF Create

\* The steps of deleteIndex keep the invariant.
LEMMA InvDelete == ASSUME Inv, Delete PROVE Inv'
<1> USE DEF Inv
<1>0. needDeleted > 0 => earliest # <<>>
    BY DEF TypeOK, HeadsStable
<1>1. CASE DeleteFetch
    <2>1. needDeleted # 0 => needDeleted > 0 /\ Head(earliest) \in Row
        BY <1>0, TailFacts DEF TypeOK
    <2>2. TypeOK'
        BY <1>1, <2>1 DEF DeleteFetch, Goto, TypeOK, tables, queues
    <2> QED
        BY <1>1, <2>1, <2>2 DEF DeleteFetch, Goto, TypeOK, WorkersStopped, CacheCounted,
                          FullTailDropped, HeadsStable, tables, queues
<1>2. CASE DeleteRow
    BY <1>2 DEF DeleteRow, Goto, TypeOK, WorkersStopped, CacheCounted,
                FullTailDropped, HeadsStable, workers, queues
<1>3. CASE DeleteDone
    <2>1. needDeleted > 0 /\ earliest # <<>> /\ DeleteCompletion
        BY <1>0, <1>3 DEF DeleteDone, HeadsStable
    <2>2. /\ earliest' \in Seq(Row) /\ Len(earliest') = Len(earliest) - 1
          /\ needDeleted' = needDeleted - 1 /\ needDeleted' \in Nat
        BY <2>1, TailFacts DEF DeleteCompletion, TypeOK
    <2>3. pending' \in SUBSET Executors
        BY <1>3 DEF DeleteDone, Submitted, TypeOK
    <2>4. TypeOK'
        BY <1>3, <2>2, <2>3, CapAssumption DEF DeleteDone, Goto, TypeOK, tables, workers
    <2> QED
        BY <1>3, <2>2, <2>4 DEF DeleteDone, Goto, TypeOK, WorkersStopped, CacheCounted,
                                FullTailDropped, HeadsStable, workers
<1> QED BY <1>1, <1>2, <1>3 DEF Delete

\* The steps of growEarliestIndexes keep the invariant.
LEMMA InvGrow == ASSUME Inv, Grow PROVE Inv'
<1> USE DEF Inv
<1>1. CASE GrowFetch
    <2> DEFINE tail == IF earliest = <<>> THEN NoRow ELSE earliest[Len(earliest)]
    <2>1. tail.seq \in Nat /\ tail.end \in Nat
        <3>1. CASE earliest = <<>>
            BY <3>1 DEF NoRow
        <3>2. CASE earliest # <<>>
            <4>1. earliest[Len(earliest)] \in Row
                BY <3>2 DEF TypeOK
            <4> QED BY <3>2, <4>1, BoundAssumption DEF Row
        <3> QED BY <3>1, <3>2
    <2> HIDE DEF tail
    <2>2. growFrom' = NoGrow \/ (Len(earliest) # CacheCap /\
            growFrom' = [seq |-> tail.seq, time |-> tail.end, need |-> CacheCap - Len(earliest)])
        BY <1>1 DEF GrowFetch, tail
    <2>3. growFrom' \in [seq : Nat, time : Nat, need : Nat]
        BY <2>1, <2>2, CapAssumption DEF NoGrow, TypeOK
    <2>4. TypeOK'
        BY <1>1, <2>3 DEF GrowFetch, Goto, TypeOK, tables, queues
    <2> QED
        BY <1>1, <2>4 DEF GrowFetch, Goto, TypeOK, WorkersStopped, CacheCounted,
                          FullTailDropped, HeadsStable, tables, queues
<1>2. CASE GrowQuery
    <2>1. PICK rows \in SeqOf(db, growFrom.need) : growRows' = rows
        BY <1>2 DEF GrowQuery
    <2>2. rows \in Seq(Row)
        BY QueryFacts DEF TypeOK
    <2>3. TypeOK'
        BY <1>2, <2>1, <2>2 DEF GrowQuery, Goto, TypeOK, tables, queues
    <2> QED
        BY <1>2, <2>3 DEF GrowQuery, Goto, TypeOK, WorkersStopped, CacheCounted,
                          FullTailDropped, HeadsStable, tables, queues
<1>3. CASE GrowFail
    BY <1>3 DEF GrowFail, Goto, TypeOK, WorkersStopped, CacheCounted,
                FullTailDropped, HeadsStable, tables, queues, NoGrow
<1>4. CASE GrowPush
    <2>1. PICK acc \in SeqOf(DOMAIN growRows, Len(growRows)) :
             earliest' = PushAll(earliest, growRows, acc)
        BY <1>4 DEF GrowPush
    <2>2. /\ earliest' \in Seq(Row)
          /\ Len(earliest') \in Len(earliest)..CacheCap
          /\ earliest # <<>> => Head(earliest') = Head(earliest)
        BY <2>1, PushAllFacts DEF TypeOK
    <2>3. TypeOK'
        BY <1>4, <2>2, CapAssumption DEF GrowPush, Goto, TypeOK, tables, NoGrow
    <2>4. needDeleted > 0 => earliest # <<>>
        BY DEF TypeOK, HeadsStable
    <2>5. HeadsStable'
        BY <1>4, <2>2, <2>3, <2>4 DEF GrowPush, Goto, TypeOK, HeadsStable
    <2> QED
        BY <1>4, <2>2, <2>3, <2>5 DEF GrowPush, Goto, TypeOK, WorkersStopped,
                                     CacheCounted, FullTailDropped
<1> QED BY <1>1, <1>2, <1>3, <1>4 DEF Grow

\* The steps of updateChannel keep the invariant.
LEMMA InvChannel == ASSUME Inv, Channel PROVE Inv'
<1> USE DEF Inv
<1>1. CASE ChannelFetch
    BY <1>1 DEF ChannelFetch, Goto, TypeOK, WorkersStopped, CacheCounted,
                FullTailDropped, HeadsStable, tables, queues
<1>2. CASE ChannelUpdate
    BY <1>2 DEF ChannelUpdate, Goto, TypeOK, WorkersStopped, CacheCounted,
                FullTailDropped, HeadsStable, queues
<1> QED BY <1>1, <1>2 DEF Channel

\* Vanish and Start leave empty queues and no busy worker.
LEMMA InvFresh ==
    ASSUME TypeOK, NEW p \in {"down", "running", "flush"}, phase' = p,
           NoWorkers \/ (UNCHANGED <<pc, workers>> /\ \A t \in Threads : pc[t] = "idle"),
           needCreated' = <<>>, needDeleted' = 0,
           earliest' \in Seq(Row), Len(earliest') <= CacheCap, loadable' = Len(earliest'),
           pending' \in SUBSET Executors, offset' \in Nat, latest' \in Row \union {NoRow},
           UNCHANGED tables
    PROVE  Inv'
<1>1. /\ pc' = [t \in Threads |-> "idle"]
      /\ createIdx' \in Row \union {NoRow} /\ deleteIdx' \in Row \union {NoRow}
      /\ growFrom' \in [seq : Nat, time : Nat, need : Nat] /\ growRows' \in Seq(Row)
      /\ chanVal' \in Nat
    <2>1. CASE NoWorkers
        BY <2>1 DEF NoWorkers, NoGrow
    <2>2. CASE UNCHANGED <<pc, workers>> /\ \A t \in Threads : pc[t] = "idle"
        <3>1. pc = [t \in Threads |-> "idle"]
            BY <2>2 DEF TypeOK
        <3> QED BY <2>2, <3>1 DEF TypeOK, workers
    <2> QED BY <2>1, <2>2
<1>2. TypeOK'
    BY <1>1, CapAssumption DEF TypeOK, tables
<1> QED
    BY <1>1, <1>2, CapAssumption DEF Inv, WorkersStopped, CacheCounted, FullTailDropped, HeadsStable

\* start, the final flush of run and a crash keep the invariant.
LEMMA InvLifecycle == ASSUME Inv, Start \/ Closing \/ Crash PROVE Inv'
<1>1. CASE Start
    <2>1. PICK rows \in SeqOf(db, CacheCap) : \E acc \in SeqOf(DOMAIN rows, Len(rows)) :
             earliest' = PushAll(<<>>, rows, acc)
        BY <1>1 DEF Start
    <2>2. PICK acc \in SeqOf(DOMAIN rows, Len(rows)) : earliest' = PushAll(<<>>, rows, acc)
        BY <2>1
    <2>3. rows \in Seq(Row)
        BY CapAssumption, QueryFacts DEF Inv
    <2>4. earliest' \in Seq(Row) /\ Len(earliest') <= CacheCap
        <3>1. <<>> \in Seq(Row) /\ Len(<<>>) = 0 /\ 0 <= CacheCap
            BY CapAssumption
        <3>2. /\ PushAll(<<>>, rows, acc) \in Seq(Row)
              /\ Len(PushAll(<<>>, rows, acc)) \in Len(<<>>)..CacheCap
            BY <2>3, <3>1, PushAllFacts
        <3> QED BY <2>2, <3>1, <3>2, CapAssumption
    <2>5. \A t \in Threads : pc[t] = "idle"
        BY <1>1 DEF Start, Inv, WorkersStopped
    <2> QED
        BY <1>1, <2>4, <2>5, InvFresh DEF Start, Inv, TypeOK, tables
<1>2. CASE Shutdown
    BY <1>2 DEF Shutdown, Inv, TypeOK, WorkersStopped, CacheCounted,
                FullTailDropped, HeadsStable, tables, queues, workers
<1>3. ASSUME NEW w \in {"create", "delete", "channel"}, Interrupt(w) PROVE Inv'
    BY <1>3 DEF Interrupt, Goto, Inv, TypeOK, WorkersStopped, CacheCounted,
                FullTailDropped, HeadsStable, tables, queues, workers
<1>4. CASE ExecutorsClosed
    <2>1. TypeOK'
        BY <1>4 DEF ExecutorsClosed, NoWorkers, NoGrow, Inv, TypeOK, tables, queues
    <2> QED
        BY <1>4, <2>1 DEF ExecutorsClosed, NoWorkers, Inv, WorkersStopped, CacheCounted,
                          FullTailDropped, HeadsStable, queues
<1>5. CASE FlushCreate
    <2>1. needCreated # <<>> /\ CreateCompletion /\ phase = "flush"
        BY <1>5 DEF FlushCreate
    <2>2. /\ needCreated' \in Seq(Row) /\ Len(needCreated') < QueueCap
          /\ earliest' \in Seq(Row) /\ Len(earliest') <= loadable' /\ loadable' \in 0..CacheCap
          /\ Len(earliest') >= Len(earliest)
        BY <2>1, CreateCompletionFacts
    <2>3. Head(needCreated) \in Row
        BY <2>1, TailFacts DEF Inv, TypeOK
    <2>4. db' \in SUBSET Row
        BY <1>5, <2>3 DEF FlushCreate, Inv, TypeOK
    <2>5. TypeOK'
        BY <1>5, <2>2, <2>4, CapAssumption DEF FlushCreate, Inv, TypeOK, workers
    <2>6. HeadsStable'
        BY <1>5, <2>1, <2>2, <2>5 DEF FlushCreate, Inv, TypeOK, WorkersStopped, HeadsStable
    <2> QED
        BY <1>5, <2>2, <2>5, <2>6, CapAssumption DEF FlushCreate, Inv, TypeOK, WorkersStopped,
                                     CacheCounted, FullTailDropped
<1>6. CASE FlushDelete
    <2>1. needDeleted > 0 /\ earliest # <<>> /\ DeleteCompletion /\ phase = "flush"
        BY <1>6 DEF FlushDelete, Inv, TypeOK, HeadsStable
    <2>2. /\ earliest' \in Seq(Row) /\ Len(earliest') = Len(earliest) - 1
          /\ needDeleted' = needDeleted - 1 /\ needDeleted' \in Nat
        BY <2>1, TailFacts DEF DeleteCompletion, Inv, TypeOK
    <2>3. TypeOK'
        BY <1>6, <2>2, CapAssumption DEF FlushDelete, Inv, TypeOK, workers
    <2> QED
        BY <1>6, <2>1, <2>2, <2>3 DEF FlushDelete, Inv, TypeOK, WorkersStopped, CacheCounted,
                                     FullTailDropped, HeadsStable
<1>7. ASSUME Vanish PROVE Inv'
    BY <1>7, InvFresh, CapAssumption DEF Vanish, Inv
<1> QED
    BY <1>1, <1>2, <1>3, <1>4, <1>5, <1>6, <1>7 DEF Closing, Interrupts, Closed, Crash

\* Every step keeps the invariant.
LEMMA InvNext == ASSUME Inv, [Next]_vars PROVE Inv'
<1>1. CASE AddAny
    BY <1>1, InvAddIndex, InputAssumption DEF AddAny
<1>2. CASE AddIndexTry
    BY <1>2 DEF AddIndexTry, Submitted, Goto, Inv, TypeOK, WorkersStopped, CacheCounted,
                FullTailDropped, HeadsStable, tables, queues, workers
<1>3. CASE Take
    BY <1>3 DEF Take, TakeTask, Alive, Goto, Inv, TypeOK, WorkersStopped, CacheCounted,
                FullTailDropped, HeadsStable, tables, queues, workers
<1>4. CASE DeleteIndex
    BY <1>4 DEF DeleteIndex, Submitted, Inv, TypeOK, WorkersStopped, CacheCounted,
                FullTailDropped, HeadsStable, tables, workers
<1>5. CASE UNCHANGED vars
    BY <1>5 DEF vars, Inv, TypeOK, WorkersStopped, CacheCounted,
                FullTailDropped, HeadsStable, tables, queues, workers
<1> QED
    BY <1>1, <1>2, <1>3, <1>4, <1>5, InvCreate, InvDelete, InvGrow, InvChannel, InvLifecycle
    DEF Next, Manager

\* The types of the manager's state hold whatever the capacities are.
THEOREM TypeCorrect == Spec => []TypeOK
<1>1. Init => Inv
    BY InvInit
<1>2. Inv /\ [Next]_vars => Inv'
    BY InvNext
<1>3. Inv => TypeOK
    BY DEF Inv
<1> QED BY <1>1, <1>2, <1>3, PTL DEF Spec

\* The heads that createIndex and deleteIndex work on stay the heads of their
\* queues until they are popped, with any number of rows and any capacities.
THEOREM HeadsAreStable == Spec => []HeadsStable
<1>1. Init => Inv
    BY InvInit
<1>2. Inv /\ [Next]_vars => Inv'
    BY InvNext
<1>3. Inv => HeadsStable
    BY DEF Inv
<1> QED BY <1>1, <1>2, <1>3, PTL DEF Spec

\* AddIndex never meets a full queue whose last index it may not prolong.
THEOREM FullQueueEndsDropped == Spec => []FullTailDropped
<1>1. Init => Inv
    BY InvInit
<1>2. Inv /\ [Next]_vars => Inv'
    BY InvNext
<1>3. Inv => FullTailDropped
    BY DEF Inv
<1> QED BY <1>1, <1>2, <1>3, PTL DEF Spec

\* The push of a created index into the cache never fails.
THEOREM CachePushSucceeds == Spec => []CacheHasRoom
<1>1. Init => Inv
    BY InvInit
<1>2. Inv /\ [Next]_vars => Inv'
    BY InvNext
<1>3. Inv => CacheHasRoom
    BY CapAssumption DEF Inv, TypeOK, CacheCounted, CacheHasRoom
<1> QED BY <1>1, <1>2, <1>3, PTL DEF Spec

-----------------------------------------------------------------------------
(* The wake-ups.                                                           *)

\* An offset that changed after updateChannel read it has a task of its own.
ChannelFresh ==
    pc["channel"] = "db" /\ chanVal # offset => "channel" \in pending

WakeInv == phase = "running" => NoLostWakeup /\ ChannelFresh

\* No wake-up is lost in a step.
LEMMA WakeNext == ASSUME Inv, WakeInv, [Next]_vars PROVE WakeInv'
<1> SUFFICES ASSUME phase' = "running" PROVE NoLostWakeup' /\ ChannelFresh'
    BY DEF WakeInv
<1> USE DEF Inv, WakeInv, NoLostWakeup, ChannelFresh, TypeOK, Goto, tables, queues, workers
<1>1. CASE AddAny
    <2>1. PICK s \in Times, e \in Times, f \in FileSeqs : AddIndex(s, e, f)
        BY <1>1 DEF AddAny
    <2>2. Correction(s) \in Nat
        BY LatestFacts, InputAssumption DEF Correction
    <2>3. offset' = offset + Correction(s) /\ phase = "running"
        BY <2>1 DEF AddIndex
    <2>4. offset' # offset => "channel" \in pending'
        BY <2>1, <2>2, <2>3 DEF AddIndex, Submitted
    <2>5. pending \subseteq pending'
        BY <2>1 DEF AddIndex, Submitted
    <2>6. pc'["add"] = "done" \/ needCreated # <<>>
        BY <2>1, CapAssumption DEF AddIndex
    <2>7. \A w \in Executors : pc'[w] = pc[w]
        BY <2>1 DEF AddIndex
    <2>8. pc["add"] # "done"
        BY <2>1 DEF AddIndex
    <2>9. UNCHANGED <<phase, dbOffset, needDeleted, chanVal>>
        BY <2>1 DEF AddIndex
    <2> QED BY <2>3, <2>4, <2>5, <2>6, <2>7, <2>8, <2>9
<1>2. CASE AddIndexTry
    BY <1>2 DEF AddIndexTry, Submitted
<1>3. CASE Take
    BY <1>3 DEF Take, TakeTask
<1>4. CASE DeleteIndex
    BY <1>4 DEF DeleteIndex, Submitted
<1>5. CASE Create
    <2>1. CASE CreateFetch
        BY <2>1 DEF CreateFetch
    <2>2. CASE CreateInsert
        BY <2>2 DEF CreateInsert
    <2>3. CASE CreateDone
        BY <2>3 DEF CreateDone, CreateCompletion
    <2> QED BY <1>5, <2>1, <2>2, <2>3 DEF Create
<1>6. CASE Delete
    <2>1. CASE DeleteFetch
        BY <2>1 DEF DeleteFetch
    <2>2. CASE DeleteRow
        BY <2>2 DEF DeleteRow
    <2>3. CASE DeleteDone
        BY <2>3 DEF DeleteDone, DeleteCompletion, Submitted
    <2> QED BY <1>6, <2>1, <2>2, <2>3 DEF Delete
<1>7. CASE Grow
    BY <1>7 DEF Grow, GrowFetch, GrowQuery, GrowFail, GrowPush
<1>8. CASE Channel
    BY <1>8 DEF Channel, ChannelFetch, ChannelUpdate
<1>9. CASE Start
    BY <1>9 DEF Start, WorkersStopped
<1>10. CASE Closing \/ Crash
    BY <1>10 DEF Closing, Crash, Vanish, Shutdown, Interrupts, Interrupt, ExecutorsClosed,
                 FlushCreate, FlushDelete, Closed
<1>11. CASE UNCHANGED vars
    BY <1>11 DEF vars
<1> QED
    BY <1>1, <1>2, <1>3, <1>4, <1>5, <1>6, <1>7, <1>8, <1>9, <1>10, <1>11 DEF Next, Manager

\* Whatever is to be inserted, deleted or saved has a task that will see it.
THEOREM NoWakeupIsLost == Spec => []NoLostWakeup
<1>1. Init => Inv /\ WakeInv
    BY InvInit DEF Init, WakeInv
<1>2. Inv /\ WakeInv /\ [Next]_vars => Inv' /\ WakeInv'
    BY InvNext, WakeNext
<1>3. WakeInv => NoLostWakeup
    BY DEF WakeInv, NoLostWakeup
<1> QED BY <1>1, <1>2, <1>3, PTL DEF Spec

-----------------------------------------------------------------------------
(* The timeline.                                                           *)

Elems(q) == {q[i] : i \in DOMAIN q}

\* What is, or was, in the table.
Saved == db \union Elems(earliest) \union Elems(growRows)
Known == Saved \union Queued

QueueOrdered ==
    \A i, j \in DOMAIN needCreated : i < j => needCreated[i].seq < needCreated[j].seq

\* Only the head of the queue may have been inserted already.
TailNotSaved ==
    \A r \in Saved : \A i \in DOMAIN needCreated : i > 1 => r.seq < needCreated[i].seq

LatestIsLast ==
    phase # "down" => \A r \in Known : r.seq <= latest.seq /\ r.end <= latest.end

LatestIsTail ==
    needCreated # <<>> => latest = needCreated[Len(needCreated)]

DownIsEmpty ==
    phase = "down" => needCreated = <<>> /\ earliest = <<>> /\ growRows = <<>>

TimeInv ==
    /\ Timeline(Known)
    /\ QueueOrdered
    /\ TailNotSaved
    /\ LatestIsLast
    /\ LatestIsTail
    /\ DownIsEmpty

-----------------------------------------------------------------------------
(* Elements of the queues.                                                 *)

\* What the operations on a queue do to its elements.
LEMMA ElemsAppend ==
    ASSUME NEW q \in Seq(Row), NEW x \in Row
    PROVE  Elems(Append(q, x)) = Elems(q) \union {x}
<1>1. DOMAIN Append(q, x) = 1..(Len(q) + 1) /\ DOMAIN q = 1..Len(q)
    BY AppendFacts
<1> QED BY <1>1, AppendFacts DEF Elems

\* A popped queue keeps the other elements, and gains none.
LEMMA ElemsTail ==
    ASSUME NEW q \in Seq(Row), q # <<>>
    PROVE  Elems(Tail(q)) \subseteq Elems(q) /\ Head(q) \in Elems(q)
<1>1. DOMAIN Tail(q) = 1..(Len(q) - 1) /\ DOMAIN q = 1..Len(q) /\ Len(q) \in Nat /\ Len(q) > 0
    BY TailFacts
<1> QED BY <1>1, TailFacts DEF Elems

\* A refill adds rows of its query to the cache and nothing else.
LEMMA ElemsPushAll ==
    ASSUME NEW q \in Seq(Row), Len(q) <= CacheCap,
           NEW rows \in Seq(Row), NEW acc \in SeqOf(DOMAIN rows, Len(rows))
    PROVE  Elems(PushAll(q, rows, acc)) \subseteq Elems(q) \union Elems(rows)
<1> DEFINE room == CacheCap - Len(q)
           new  == [k \in DOMAIN acc |-> rows[acc[k]]]
           add  == IF Len(new) <= room THEN new ELSE SubSeq(new, 1, room)
<1>1. PICK m \in 0..Len(rows) : acc \in [1..m -> DOMAIN rows]
    BY DEF SeqOf
<1>2. new \in Seq(Elems(rows)) /\ Len(new) = m
    <2>1. new \in [1..m -> Elems(rows)]
        BY <1>1 DEF Elems
    <2> QED BY <2>1, <1>1
<1>3. room \in Nat
    BY CapAssumption
<1> HIDE DEF new, room
<1>4. add \in Seq(Elems(rows))
    BY <1>2, <1>3
<1> HIDE DEF add
<1>5. PushAll(q, rows, acc) = q \o add
    BY DEF PushAll, add, room, new
<1>6. q \in Seq(Elems(q))
    BY DEF Elems
<1>7. q \o add \in Seq(Elems(q) \union Elems(rows))
    BY <1>4, <1>6
<1> QED BY <1>5, <1>7 DEF Elems

\* A query returns rows of the table.
LEMMA ElemsQuery ==
    ASSUME NEW n \in Nat, NEW rows \in SeqOf(db, n)
    PROVE  Elems(rows) \subseteq db
    BY DEF SeqOf, Elems

\* A part of a timeline is one.
LEMMA TimelineSubset ==
    ASSUME NEW S, NEW T \in SUBSET S, Timeline(S)
    PROVE  Timeline(T)
    BY DEF Timeline

\* The last row of a timeline may be replaced by one that ends later.
LEMMA TimelineReplace ==
    ASSUME NEW S, NEW old \in S, NEW new, Timeline(S),
           \A k \in S : k.seq \in Nat /\ k.start \in Nat /\ k.end \in Nat,
           \A k \in S \ {old} : k.seq < old.seq,
           new.seq = old.seq, new.start = old.start, new.end \in Nat, new.end >= old.end
    PROVE  Timeline((S \ {old}) \union {new})
<1> DEFINE T == S \ {old}
<1>1. \A k \in T : k \in S /\ k.seq < new.seq /\ k.end <= new.start /\ k.seq # new.seq
                  /\ ~(new.seq < k.seq)
    BY DEF Timeline
<1>2. new.start <= new.end /\ ~(new.seq < new.seq)
    BY DEF Timeline
<1>3. Timeline(T)
    BY TimelineSubset
<1> HIDE DEF T
<1>4. Timeline(T \union {new})
    BY <1>1, <1>2, <1>3 DEF Timeline
<1> QED BY <1>4 DEF T

\* Everything known is a row.
LEMMA KnownRows == ASSUME TypeOK PROVE Known \subseteq Row
    BY DEF TypeOK, Known, Saved, Queued, Elems

-----------------------------------------------------------------------------
(* Three ways in which a step keeps the timeline.                          *)

\* A step that leaves the queue alone and only forgets.
LEMMA TimeForget ==
    ASSUME TimeInv, UNCHANGED <<needCreated, latest>>, Saved' \subseteq Saved,
           phase # "down", phase' # "down"
    PROVE  TimeInv'
<1>1. Queued' = Queued /\ Known' \subseteq Known
    BY DEF Known, Queued
<1>2. Timeline(Known')
    BY <1>1, TimelineSubset DEF TimeInv
<1>3. LatestIsLast'
    BY <1>1 DEF TimeInv, LatestIsLast
<1> QED
    BY <1>2, <1>3 DEF TimeInv, QueueOrdered, TailNotSaved, LatestIsTail, DownIsEmpty

\* The head of the queue is saved, and may leave the queue.
LEMMA TimeSave ==
    ASSUME TypeOK, TimeInv, needCreated # <<>>, needCreated' \in {needCreated, Tail(needCreated)},
           Saved' \subseteq Saved \union {Head(needCreated)},
           UNCHANGED <<phase, latest>>, phase # "down"
    PROVE  TimeInv'
<1> DEFINE n == Len(needCreated)
<1>0. /\ needCreated \in Seq(Row) /\ n \in Nat /\ n > 0 /\ DOMAIN needCreated = 1..n
      /\ Head(needCreated) = needCreated[1]
    BY TailFacts DEF TypeOK
<1>1. PICK k \in {0, 1} : /\ DOMAIN needCreated' = 1..(n - k) /\ Len(needCreated') = n - k
                         /\ needCreated' \in Seq(Row)
                         /\ \A i \in 1..(n - k) : needCreated'[i] = needCreated[i + k]
    <2>1. CASE needCreated' = needCreated
        <3>1. /\ DOMAIN needCreated' = 1..(n - 0) /\ Len(needCreated') = n - 0
              /\ \A i \in 1..(n - 0) : needCreated'[i] = needCreated[i + 0]
            BY <1>0, <2>1
        <3> HIDE DEF n
        <3> WITNESS 0 \in {0, 1}
        <3> QED BY <1>0, <2>1, <3>1
    <2>2. CASE needCreated' = Tail(needCreated)
        <3>1. needCreated' \in Seq(Row) /\ Len(needCreated') = n - 1
            BY <1>0, <2>2, TailFacts
        <3>2. DOMAIN needCreated' = 1..(n - 1)
            BY <3>1
        <3>3. \A i \in 1..(n - 1) : needCreated'[i] = needCreated[i + 1]
            BY <1>0, <2>2, TailFacts
        <3> HIDE DEF n
        <3> WITNESS 1 \in {0, 1}
        <3> QED BY <3>1, <3>2, <3>3
    <2> QED BY <2>1, <2>2
<1>2. Queued' \subseteq Queued /\ Head(needCreated) \in Queued
    BY <1>0, <1>1 DEF Queued
<1>3. Known' \subseteq Known
    BY <1>2 DEF Known
<1>4. Timeline(Known')
    BY <1>3, TimelineSubset DEF TimeInv
<1>5. QueueOrdered'
    <2> SUFFICES ASSUME NEW i \in 1..(n - k), NEW j \in 1..(n - k), i < j
                 PROVE  needCreated[i + k].seq < needCreated[j + k].seq
        BY <1>1 DEF QueueOrdered
    <2>1. i + k \in 1..n /\ j + k \in 1..n /\ i + k < j + k
        BY <1>0
    <2> QED BY <1>0, <2>1 DEF TimeInv, QueueOrdered
<1>6. TailNotSaved'
    <2> SUFFICES ASSUME NEW r \in Saved', NEW i \in 1..(n - k), i > 1
                 PROVE  r.seq < needCreated[i + k].seq
        BY <1>1 DEF TailNotSaved
    <2>1. i + k \in 1..n /\ i + k > 1
        BY <1>0
    <2>2. CASE r \in Saved
        BY <1>0, <2>1, <2>2 DEF TimeInv, TailNotSaved
    <2>3. CASE r = needCreated[1]
        BY <1>0, <2>1, <2>3 DEF TimeInv, QueueOrdered
    <2> QED BY <1>0, <2>2, <2>3
<1>7. LatestIsLast'
    BY <1>3 DEF TimeInv, LatestIsLast
<1>8. LatestIsTail'
    <2>1. needCreated' # <<>> => n - k \in 1..(n - k) /\ n - k + k = n
        BY <1>0, <1>1
    <2> QED BY <1>0, <1>1, <2>1 DEF TimeInv, LatestIsTail
<1>9. DownIsEmpty'
    BY DEF DownIsEmpty
<1> QED BY <1>4, <1>5, <1>6, <1>7, <1>8, <1>9 DEF TimeInv

\* The manager starts, or loses everything that is not in the table.
LEMMA TimeReset ==
    ASSUME TypeOK, TimeInv, needCreated' = <<>>, Saved' \subseteq Saved,
           \/ phase' = "down" /\ earliest' = <<>> /\ growRows' = <<>>
           \/ phase' # "down" /\ \A r \in Saved' : r.seq <= latest'.seq /\ r.end <= latest'.end
    PROVE  TimeInv'
<1>1. Queued' = {} /\ Known' \subseteq Known /\ Known' = Saved'
    BY DEF Known, Queued
<1>2. Timeline(Known')
    BY <1>1, TimelineSubset DEF TimeInv
<1>3. QueueOrdered' /\ TailNotSaved' /\ LatestIsTail' /\ DownIsEmpty'
    BY DEF QueueOrdered, TailNotSaved, LatestIsTail, DownIsEmpty
<1>4. LatestIsLast'
    BY <1>1 DEF LatestIsLast
<1> QED BY <1>2, <1>3, <1>4 DEF TimeInv

-----------------------------------------------------------------------------
(* AddIndex.                                                               *)

\* AddIndex either appends a row that follows everything known in number and in
\* time, or prolongs the last row, which is not in the table.
LEMMA AddIndexEffect ==
    ASSUME Inv, TimeInv, NEW s \in Times, NEW e \in Times, NEW f \in FileSeqs, AddIndex(s, e, f)
    PROVE  \/ \E r \in Row : /\ needCreated' = Append(needCreated, r) /\ latest' = r
                             /\ r.seq > latest.seq /\ r.start >= latest.end /\ r.end >= r.start
           \/ \E t \in 0..MaxTime :
                 LET n == Len(needCreated) IN
                 /\ n >= 2 /\ needCreated[n].dropped /\ t >= latest.end
                 /\ needCreated' = [needCreated EXCEPT ![n] = latest']
                 /\ latest' = [needCreated[n] EXCEPT !.end = t]
<1> DEFINE index == Numbered(s, e, f)
           n == Len(needCreated)
           stored == IF NearlyFull(n) THEN AsDropped(index) ELSE index
<1>1. /\ latest.seq \in Nat /\ latest.end \in Nat /\ offset \in Nat
      /\ s \in Nat /\ e \in Nat /\ s <= e
    BY LatestFacts, InputAssumption DEF Inv, AddIndex
<1>2. Correction(s) \in Nat /\ s + offset + Correction(s) >= latest.end
    BY <1>1 DEF Correction
<1>3. /\ index.seq = latest.seq + 1
      /\ index.start = s + offset + Correction(s)
      /\ index.end = e + offset + Correction(s)
    BY <1>1, <1>2 DEF Numbered
<1>4. /\ index.seq > latest.seq /\ index.start >= latest.end /\ index.end >= index.start
      /\ index.end \in Nat /\ index.end >= latest.end
    BY <1>1, <1>2, <1>3
<1>5. index.end <= MaxTime
    BY DEF AddIndex
<1>6. n \in Nat /\ n <= QueueCap /\ QueueCap >= 2 /\ QueueCap \in Nat
    BY CapAssumption DEF Inv, TypeOK
<1>7. CASE n = QueueCap
    <2>1. /\ latest' = [needCreated[n] EXCEPT !.end = index.end]
          /\ needCreated' = [needCreated EXCEPT ![n] = latest']
        BY <1>7 DEF AddIndex
    <2>2. index.end \in 0..MaxTime
        BY <1>4, <1>5, BoundAssumption
    <2>3. needCreated[n].dropped
        BY <1>7 DEF Inv, FullTailDropped
    <2> HIDE DEF index
    <2> QED BY <1>4, <1>6, <1>7, <2>1, <2>2, <2>3
<1>8. CASE n # QueueCap
    <2>1. index.seq <= MaxSeq
        BY <1>6, <1>8 DEF AddIndex
    <2>2. index \in Row /\ AsDropped(index) \in Row
        BY <1>1, <1>5, <2>1, NumberedRow
    <2>3. needCreated' = Append(needCreated, stored) /\ latest' = stored
        BY <1>8 DEF AddIndex
    <2> HIDE DEF index
    <2>4. AsDropped(index).seq = index.seq /\ AsDropped(index).start = index.start
          /\ AsDropped(index).end = index.end
        BY DEF AsDropped
    <2>5. stored \in Row /\ stored.seq = index.seq /\ stored.start = index.start
          /\ stored.end = index.end
        BY <2>2, <2>4
    <2> HIDE DEF stored
    <2> QED BY <1>4, <2>3, <2>5
<1> QED BY <1>7, <1>8

\* Appending a row that follows the last one keeps the timeline.
LEMMA TimeAppend ==
    ASSUME TypeOK, TimeInv, NEW r \in Row, needCreated' = Append(needCreated, r), latest' = r,
           r.seq > latest.seq, r.start >= latest.end, r.end >= r.start,
           UNCHANGED <<phase, db, earliest, growRows>>, phase # "down"
    PROVE  TimeInv'
<1> DEFINE n == Len(needCreated)
<1>0. n \in Nat /\ DOMAIN needCreated = 1..n /\ needCreated \in Seq(Row)
    BY DEF TypeOK
<1>1. /\ DOMAIN needCreated' = 1..(n + 1) /\ Len(needCreated') = n + 1
      /\ \A i \in 1..n : needCreated'[i] = needCreated[i]
      /\ needCreated'[n + 1] = r
    BY <1>0, AppendFacts
<1>2. Saved' = Saved /\ Queued' = Queued \union {r} /\ Known' = Known \union {r}
    BY <1>0, ElemsAppend DEF Saved, Known, Queued, Elems
<1>3. \A k \in Known : k.seq < r.seq /\ k.end <= r.start /\ k.end <= r.end
    <2> TAKE k \in Known
    <2>1. k.seq <= latest.seq /\ k.end <= latest.end
        BY DEF TimeInv, LatestIsLast
    <2>2. k.seq \in Nat /\ k.end \in Nat /\ r.seq \in Nat /\ r.start \in Nat /\ r.end \in Nat
        BY KnownRows, BoundAssumption DEF Row
    <2> QED BY <2>1, <2>2, LatestFacts
<1>4. r.seq \in Nat /\ r.end \in Nat /\ \A k \in Known : k.seq \in Nat
    BY KnownRows, BoundAssumption DEF Row
<1>5. Timeline(Known')
    BY <1>2, <1>3, <1>4 DEF TimeInv, Timeline
<1>6. \A i \in 1..n : needCreated[i] \in Known
    BY <1>0 DEF Known, Queued
<1>7. QueueOrdered'
    <2> SUFFICES ASSUME NEW i \in 1..(n + 1), NEW j \in 1..(n + 1), i < j
                 PROVE  needCreated'[i].seq < needCreated'[j].seq
        BY <1>1 DEF QueueOrdered
    <2>1. CASE j = n + 1
        BY <1>0, <1>1, <1>3, <1>6, <2>1
    <2>2. CASE j # n + 1
        BY <1>0, <1>1, <2>2 DEF TimeInv, QueueOrdered
    <2> QED BY <2>1, <2>2
<1>8. TailNotSaved'
    <2> SUFFICES ASSUME NEW k \in Saved, NEW i \in 1..(n + 1), i > 1
                 PROVE  k.seq < needCreated'[i].seq
        BY <1>1, <1>2 DEF TailNotSaved
    <2>1. CASE i = n + 1
        BY <1>1, <1>3, <2>1 DEF Known
    <2>2. CASE i # n + 1
        BY <1>0, <1>1, <2>2 DEF TimeInv, TailNotSaved
    <2> QED BY <2>1, <2>2
<1>9. LatestIsLast'
    BY <1>2, <1>3, <1>4 DEF LatestIsLast
<1>10. LatestIsTail' /\ DownIsEmpty'
    BY <1>1 DEF LatestIsTail, DownIsEmpty
<1> QED BY <1>5, <1>7, <1>8, <1>9, <1>10 DEF TimeInv

\* Prolonging the last row replaces one element of the log, and no other row
\* has its number.
LEMMA ProlongEffect ==
    ASSUME TypeOK, TimeInv, NEW t \in 0..MaxTime, NEW n, n = Len(needCreated), n >= 2,
           t >= latest.end, needCreated' = [needCreated EXCEPT ![n] = latest'],
           latest' = [needCreated[n] EXCEPT !.end = t],
           UNCHANGED <<phase, db, earliest, growRows>>, phase # "down"
    PROVE  LET old == needCreated[n] IN
           /\ n \in Nat /\ DOMAIN needCreated = 1..n /\ DOMAIN needCreated' = 1..n
           /\ old \in Row /\ latest' \in Row /\ old = latest
           /\ latest'.seq = old.seq /\ latest'.start = old.start /\ latest'.end = t
           /\ \A i \in 1..n : i # n => needCreated'[i] = needCreated[i] /\ needCreated[i].seq < old.seq
           /\ needCreated'[n] = latest'
           /\ Saved' = Saved /\ \A k \in Saved : k.seq < old.seq
           /\ Queued' = (Queued \ {old}) \union {latest'}
           /\ \A k \in Known \ {old} : k.seq < old.seq
<1> DEFINE old == needCreated[n]
<1>1. /\ needCreated \in Seq(Row) /\ n \in Nat /\ DOMAIN needCreated = 1..n
      /\ DOMAIN needCreated' = 1..n /\ n \in 1..n
    BY DEF TypeOK
<1>2. old \in Row /\ old = latest
    BY <1>1 DEF TimeInv, LatestIsTail
<1>3. /\ latest' \in Row
      /\ latest' = [seq |-> old.seq, start |-> old.start, end |-> t,
                    file |-> old.file, dropped |-> old.dropped]
    BY <1>2, RowUpdates
<1>4. latest'.seq = old.seq /\ latest'.start = old.start /\ latest'.end = t
    BY <1>3
<1>5. \A i \in 1..n : i # n => needCreated'[i] = needCreated[i] /\ needCreated[i].seq < old.seq
    BY <1>1 DEF TimeInv, QueueOrdered
<1>6. needCreated'[n] = latest'
    BY <1>1
<1>7. Saved' = Saved /\ \A k \in Saved : k.seq < old.seq
    BY <1>1 DEF Saved, TimeInv, TailNotSaved
<1>8. old.seq \in Nat
    BY <1>2, BoundAssumption DEF Row
<1>9. Queued' = (Queued \ {old}) \union {latest'}
    <2>1. Queued' = {needCreated'[i] : i \in 1..n} /\ Queued = {needCreated[i] : i \in 1..n}
        BY <1>1 DEF Queued
    <2>2. \A i \in 1..n : i # n => needCreated[i] # old
        BY <1>5, <1>8
    <2> HIDE DEF old
    <2>3. old = needCreated[n]
        BY DEF old
    <2> QED BY <1>1, <1>5, <1>6, <2>1, <2>2, <2>3
<1>10. \A k \in Known \ {old} : k.seq < old.seq
    BY <1>1, <1>5, <1>7 DEF Known, Queued
<1> QED BY <1>1, <1>2, <1>3, <1>4, <1>5, <1>6, <1>7, <1>9, <1>10

\* Prolonging the last row keeps the timeline.
LEMMA TimeProlong ==
    ASSUME TypeOK, TimeInv, NEW t \in 0..MaxTime, NEW n, n = Len(needCreated), n >= 2,
           t >= latest.end, needCreated' = [needCreated EXCEPT ![n] = latest'],
           latest' = [needCreated[n] EXCEPT !.end = t],
           UNCHANGED <<phase, db, earliest, growRows>>, phase # "down"
    PROVE  TimeInv'
<1> DEFINE old == needCreated[n]
<1>1. /\ n \in Nat /\ DOMAIN needCreated = 1..n /\ DOMAIN needCreated' = 1..n
      /\ old \in Row /\ latest' \in Row /\ old = latest
      /\ latest'.seq = old.seq /\ latest'.start = old.start /\ latest'.end = t
      /\ \A i \in 1..n : i # n => needCreated'[i] = needCreated[i] /\ needCreated[i].seq < old.seq
      /\ needCreated'[n] = latest'
      /\ Saved' = Saved /\ \A k \in Saved : k.seq < old.seq
      /\ Queued' = (Queued \ {old}) \union {latest'}
      /\ \A k \in Known \ {old} : k.seq < old.seq
    BY ProlongEffect
<1> HIDE DEF old
<1>2. Known' = (Known \ {old}) \union {latest'} /\ old \in Known
    <2>1. old \notin Saved
        BY <1>1, BoundAssumption DEF Row
    <2>2. old \in Queued
        BY <1>1 DEF Queued, old
    <2> QED BY <1>1, <2>1, <2>2 DEF Known
<1>3. /\ \A k \in Known : k.seq \in Nat /\ k.start \in Nat /\ k.end \in Nat
      /\ t \in Nat /\ old.seq \in Nat /\ old.start \in Nat /\ old.end \in Nat
    BY <1>1, KnownRows, BoundAssumption DEF Row
<1>4. \A k \in Known \ {old} : k.seq < old.seq /\ k.end <= old.start
    BY <1>1, <1>2 DEF TimeInv, Timeline
<1>5. old.start <= old.end /\ old.end <= t
    BY <1>1, <1>2 DEF TimeInv, Timeline
<1>6. Timeline(Known')
    <2>1. Timeline(Known)
        BY DEF TimeInv
    <2>2. /\ old \in Known
          /\ \A k \in Known : k.seq \in Nat /\ k.start \in Nat /\ k.end \in Nat
          /\ \A k \in Known \ {old} : k.seq < old.seq
          /\ latest'.seq = old.seq /\ latest'.start = old.start
          /\ latest'.end \in Nat /\ latest'.end >= old.end
        BY <1>1, <1>2, <1>3, <1>5
    <2> HIDE DEF Known
    <2>3. Timeline((Known \ {old}) \union {latest'})
        BY ONLY <2>1, <2>2, TimelineReplace
    <2> QED BY <1>2, <2>3
<1>7. QueueOrdered'
    <2> SUFFICES ASSUME NEW i \in 1..n, NEW j \in 1..n, i < j
                 PROVE  needCreated'[i].seq < needCreated'[j].seq
        BY <1>1 DEF QueueOrdered
    <2>1. i # n
        BY <1>1
    <2> QED BY <1>1, <2>1 DEF TimeInv, QueueOrdered
<1>8. TailNotSaved'
    <2> SUFFICES ASSUME NEW k \in Saved, NEW i \in 1..n, i > 1
                 PROVE  k.seq < needCreated'[i].seq
        BY <1>1 DEF TailNotSaved
    <2> QED BY <1>1 DEF TimeInv, TailNotSaved
<1>9. LatestIsLast'
    <2> SUFFICES ASSUME NEW k \in Known' PROVE k.seq <= latest'.seq /\ k.end <= latest'.end
        BY DEF LatestIsLast
    <2>1. CASE k = latest'
        BY <1>1, <1>3, <2>1
    <2>2. CASE k \in Known \ {old}
        BY <1>1, <1>3, <1>4, <1>5, <2>2
    <2> QED BY <1>2, <2>1, <2>2
<1>10. LatestIsTail'
    <2>1. Len(needCreated') = n
        BY <1>1 DEF TypeOK
    <2> QED BY <1>1, <2>1 DEF LatestIsTail
<1>11. DownIsEmpty'
    BY DEF DownIsEmpty
<1> QED BY <1>6, <1>7, <1>8, <1>9, <1>10, <1>11 DEF TimeInv

-----------------------------------------------------------------------------
(* Every step.                                                             *)

\* The timeline holds initially.
LEMMA TimeInit == Init => TimeInv
<1> SUFFICES ASSUME Init PROVE TimeInv
    OBVIOUS
<1>1. Known = Rows0
    BY DEF Init, Known, Saved, Queued, Elems
<1>2. Timeline(Known)
    BY <1>1, Rows0Assumption
<1> QED
    BY <1>2 DEF Init, TimeInv, QueueOrdered, TailNotSaved, LatestIsLast, LatestIsTail, DownIsEmpty

\* Start takes the last row of the table as latestIndex.
LEMMA TimeStart == ASSUME Inv, TimeInv, Start PROVE TimeInv'
<1>1. PICK rows \in SeqOf(db, CacheCap) : \E acc \in SeqOf(DOMAIN rows, Len(rows)) :
         earliest' = PushAll(<<>>, rows, acc)
    BY DEF Start
<1>2. PICK acc \in SeqOf(DOMAIN rows, Len(rows)) : earliest' = PushAll(<<>>, rows, acc)
    BY <1>1
<1>3. rows \in Seq(Row) /\ Elems(rows) \subseteq db
    BY CapAssumption, QueryFacts, ElemsQuery DEF Inv
<1>4. <<>> \in Seq(Row) /\ Len(<<>>) <= CacheCap /\ Elems(<<>>) = {}
    BY CapAssumption DEF Elems
<1>5. Elems(earliest') \subseteq db
    BY <1>2, <1>3, <1>4, ElemsPushAll
<1>6. growRows' = <<>> /\ needCreated' = <<>> /\ db' = db
    BY DEF Start, TimeInv, DownIsEmpty, workers, tables
<1>7. Saved' = db
    BY <1>4, <1>5, <1>6 DEF Saved, Elems
<1>8. latest' \in db \union {NoRow} /\ \A r \in db : r.seq <= latest'.seq
    BY DEF Start
<1>9. \A r \in db : r \in Row /\ r \in Known
    BY DEF Inv, TypeOK, Known, Saved
<1>10. \A r \in db : r.end <= latest'.end
    <2> TAKE r \in db
    <2>1. r.seq \in Nat /\ r.seq > 0 /\ r.start \in Nat /\ r.end \in Nat
        BY <1>9, BoundAssumption DEF Row
    <2>2. latest' \in db
        BY <1>8, <2>1 DEF NoRow
    <2>3. latest'.seq \in Nat /\ latest'.start \in Nat /\ latest'.end \in Nat
        BY <1>9, <2>2, BoundAssumption DEF Row
    <2>4. CASE r.seq = latest'.seq
        <3>1. r = latest'
            BY <1>9, <2>2, <2>4 DEF TimeInv, Timeline
        <3> QED BY <2>1, <3>1
    <2>5. CASE r.seq < latest'.seq
        <3>1. r.end <= latest'.start /\ latest'.start <= latest'.end
            BY <1>9, <2>2, <2>5 DEF TimeInv, Timeline
        <3> QED BY <2>1, <2>3, <3>1
    <2> QED BY <1>8, <2>1, <2>3, <2>4, <2>5
<1>11. Saved' \subseteq Saved
    BY <1>7 DEF Saved
<1>12. phase' = "running"
    BY DEF Start
<1> QED BY <1>6, <1>7, <1>8, <1>10, <1>11, <1>12, TimeReset DEF Inv

\* createIndex and its last run in the flush save the head of the queue.
LEMMA TimeCreate == ASSUME Inv, TimeInv, Create \/ FlushCreate PROVE TimeInv'
<1>0. phase = "down" => \A t \in Threads : pc[t] = "idle"
    BY DEF Inv, WorkersStopped
<1>1. CASE CreateFetch
    <2>1. UNCHANGED <<needCreated, latest, phase, db, earliest, growRows>> /\ phase # "down"
        BY <1>0, <1>1 DEF CreateFetch, tables, queues
    <2> QED BY <2>1, TimeForget DEF Saved
<1>2. CASE CreateInsert
    <2>1. /\ UNCHANGED <<needCreated, latest, phase, earliest, growRows>> /\ phase # "down"
          /\ db' = db \union {createIdx}
        BY <1>0, <1>2 DEF CreateInsert, workers, queues
    <2>2. needCreated # <<>> /\ createIdx = Head(needCreated)
        BY <1>2 DEF CreateInsert, Inv, HeadsStable
    <2> QED BY <2>1, <2>2, TimeSave DEF Saved, Inv
<1>3. ASSUME CreateCompletion, needCreated # <<>>, UNCHANGED <<phase, latest, growRows>>,
             phase # "down", db' \subseteq db \union {Head(needCreated)}
      PROVE  TimeInv'
    <2>1. needCreated' = Tail(needCreated)
        BY <1>3 DEF CreateCompletion
    <2>2. Elems(earliest') \subseteq Elems(earliest) \union {Head(needCreated)}
        <3>1. Head(needCreated) \in Row /\ earliest \in Seq(Row)
            BY <1>3, TailFacts DEF Inv, TypeOK
        <3>2. earliest' = earliest \/ earliest' = Append(earliest, Head(needCreated))
            BY <1>3 DEF CreateCompletion, Push
        <3> QED BY <3>1, <3>2, ElemsAppend
    <2>3. Saved' \subseteq Saved \union {Head(needCreated)}
        BY <1>3, <2>2 DEF Saved
    <2> QED BY <1>3, <2>1, <2>3, TimeSave DEF Inv
<1>4. CASE CreateDone
    <2>1. /\ CreateCompletion /\ needCreated # <<>> /\ phase # "down"
          /\ UNCHANGED <<phase, latest, growRows, db>>
        BY <1>0, <1>4 DEF CreateDone, Inv, HeadsStable, workers, tables
    <2> QED BY <1>3, <2>1
<1>5. CASE FlushCreate
    <2>1. /\ CreateCompletion /\ needCreated # <<>> /\ phase # "down"
          /\ UNCHANGED <<phase, latest, growRows>>
          /\ db' \subseteq db \union {Head(needCreated)}
        BY <1>5 DEF FlushCreate, workers
    <2> QED BY <1>3, <2>1
<1> QED BY <1>1, <1>2, <1>4, <1>5 DEF Create

\* The steps that leave the queue alone.
LEMMA TimeQuiet ==
    ASSUME Inv, TimeInv,
           \/ AddIndexTry \/ Take \/ DeleteIndex \/ Delete \/ Grow \/ Channel
           \/ Shutdown \/ Interrupts \/ ExecutorsClosed \/ FlushDelete
    PROVE  /\ TimeInv'
           /\ UNCHANGED needCreated /\ db' \subseteq db
<1>0. phase = "down" => \A t \in Threads : pc[t] = "idle"
    BY DEF Inv, WorkersStopped
<1>1. ASSUME UNCHANGED <<needCreated, latest>>, phase # "down", phase' # "down",
             db' \subseteq db, Elems(earliest') \subseteq Elems(earliest) \union Elems(growRows),
             growRows' = growRows \/ Elems(growRows') \subseteq db
      PROVE  TimeInv' /\ UNCHANGED needCreated /\ db' \subseteq db
    <2>1. Saved' \subseteq Saved
        BY <1>1 DEF Saved
    <2> QED BY <1>1, <2>1, TimeForget
<1>2. CASE AddIndexTry \/ Take \/ DeleteIndex \/ Channel \/ Shutdown \/ Interrupts
    <2>1. /\ UNCHANGED <<needCreated, latest, db, earliest, growRows>>
          /\ phase # "down" /\ phase' # "down"
        BY <1>0, <1>2 DEF AddIndexTry, Take, TakeTask, Alive, DeleteIndex, Channel, ChannelFetch,
                    ChannelUpdate, Shutdown, Interrupts, Interrupt, tables, queues, workers
    <2> QED BY <1>1, <2>1
<1>3. CASE ExecutorsClosed
    <2>1. /\ UNCHANGED <<needCreated, latest, db, earliest>> /\ growRows' = <<>>
          /\ phase # "down" /\ phase' # "down"
        BY <1>3 DEF ExecutorsClosed, NoWorkers, tables, queues
    <2>2. Elems(growRows') = {}
        BY <2>1 DEF Elems
    <2> QED BY <1>1, <2>1, <2>2
<1>4. CASE Delete \/ FlushDelete
    <2>1. /\ UNCHANGED <<needCreated, latest, growRows, phase>> /\ db' \subseteq db
          /\ phase # "down"
          /\ earliest' = earliest \/ (needDeleted # 0 /\ earliest' = Tail(earliest))
        BY <1>0, <1>4 DEF Delete, DeleteFetch, DeleteRow, DeleteDone, DeleteCompletion, FlushDelete,
                    Inv, HeadsStable, TypeOK, tables, queues, workers
    <2>2. needDeleted # 0 => earliest # <<>>
        BY DEF Inv, HeadsStable, TypeOK
    <2>3. Elems(earliest') \subseteq Elems(earliest)
        BY <2>1, <2>2, ElemsTail DEF Inv, TypeOK
    <2> QED BY <1>1, <2>1, <2>3
<1>5. CASE GrowFetch \/ GrowFail
    <2>1. /\ UNCHANGED <<needCreated, latest, db, earliest, growRows, phase>> /\ phase # "down"
        BY <1>0, <1>5 DEF GrowFetch, GrowFail, tables, queues
    <2> QED BY <1>1, <2>1
<1>6. CASE GrowQuery
    <2>1. PICK rows \in SeqOf(db, growFrom.need) : growRows' = rows
        BY <1>6 DEF GrowQuery
    <2>2. growFrom.need \in Nat
        BY DEF Inv, TypeOK
    <2>3. Elems(growRows') \subseteq db
        BY <2>1, <2>2, ElemsQuery
    <2>4. /\ UNCHANGED <<needCreated, latest, db, earliest, phase>> /\ phase # "down"
        BY <1>0, <1>6 DEF GrowQuery, tables, queues
    <2> QED BY <1>1, <2>3, <2>4
<1>7. CASE GrowPush
    <2>1. PICK acc \in SeqOf(DOMAIN growRows, Len(growRows)) :
             earliest' = PushAll(earliest, growRows, acc)
        BY <1>7 DEF GrowPush
    <2>2. Elems(earliest') \subseteq Elems(earliest) \union Elems(growRows)
        BY <2>1, ElemsPushAll DEF Inv, TypeOK
    <2>3. /\ UNCHANGED <<needCreated, latest, db, phase>> /\ phase # "down" /\ growRows' = <<>>
        BY <1>0, <1>7 DEF GrowPush, tables
    <2>4. Elems(growRows') = {}
        BY <2>3 DEF Elems
    <2> QED BY <1>1, <2>2, <2>3, <2>4
<1> QED BY <1>2, <1>3, <1>4, <1>5, <1>6, <1>7 DEF Grow

\* A crash, or the end of the flush, leaves the table.
LEMMA TimeVanish == ASSUME Inv, TimeInv, Vanish PROVE TimeInv'
<1>1. /\ needCreated' = <<>> /\ earliest' = <<>> /\ growRows' = <<>> /\ phase' = "down"
      /\ db' = db
    BY DEF Vanish, NoWorkers, tables
<1>2. Saved' \subseteq Saved
    BY <1>1 DEF Saved, Elems
<1> QED BY <1>1, <1>2, TimeReset DEF Inv

\* Every step keeps the timeline.
LEMMA TimeNext == ASSUME Inv, TimeInv, [Next]_vars PROVE TimeInv'
<1>1. CASE AddAny
    <2>1. PICK s \in Times, e \in Times, f \in FileSeqs : AddIndex(s, e, f)
        BY <1>1 DEF AddAny
    <2>2. UNCHANGED <<phase, db, earliest, growRows>> /\ phase # "down" /\ TypeOK
        BY <2>1 DEF AddIndex, tables, workers, Inv
    <2> QED BY <2>1, <2>2, AddIndexEffect, TimeAppend, TimeProlong
<1>2. CASE UNCHANGED vars
    <2>1. /\ UNCHANGED <<needCreated, latest, phase, db, earliest, growRows>>
        BY <1>2 DEF vars, tables, queues, workers
    <2> QED BY <2>1 DEF TimeInv, Known, Saved, Queued, QueueOrdered, TailNotSaved,
                        LatestIsLast, LatestIsTail, DownIsEmpty
<1> QED
    BY <1>1, <1>2, TimeQuiet, TimeCreate, TimeStart, TimeVanish
    DEF Next, Manager, Closing, Closed, Crash

\* The saved and the waiting indexes form one timeline, for any capacities, any
\* times the writer stamps on its blocks and any crashes.
THEOREM TimelineKept == Spec => []OneTimeline
<1>1. Init => Inv /\ TimeInv
    BY InvInit, TimeInit
<1>2. Inv /\ TimeInv /\ [Next]_vars => Inv' /\ TimeInv'
    BY InvNext, TimeNext
<1>3. TimeInv => OneTimeline
    BY TimelineSubset DEF TimeInv, OneTimeline, Known, Saved
<1> QED BY <1>1, <1>2, <1>3, PTL DEF Spec

-----------------------------------------------------------------------------
(* The refinement.                                                         *)

\* A step of the manager is a step of the abstract log, or leaves it alone.
LEMMA LogNext ==
    ASSUME Inv, TimeInv, [Next]_vars
    PROVE  [Log!Next]_(db \union Queued)
<1> DEFINE log == db \union Queued
<1>1. ASSUME log' \subseteq log PROVE Log!Next
    <2>1. Log!Forget(log \ log')
        BY <1>1 DEF Log!Forget
    <2> QED BY <2>1 DEF Log!Next
<1>2. CASE AddAny
    <2>1. PICK s \in Times, e \in Times, f \in FileSeqs : AddIndex(s, e, f)
        BY <1>2 DEF AddAny
    <2>2. UNCHANGED <<phase, db, earliest, growRows>> /\ phase # "down" /\ TypeOK
        BY <2>1 DEF AddIndex, tables, workers, Inv
    <2>3. CASE \E r \in Row :
                 /\ needCreated' = Append(needCreated, r) /\ latest' = r
                 /\ r.seq > latest.seq /\ r.start >= latest.end /\ r.end >= r.start
        <3>1. PICK r \in Row :
                 /\ needCreated' = Append(needCreated, r) /\ latest' = r
                 /\ r.seq > latest.seq /\ r.start >= latest.end /\ r.end >= r.start
            BY <2>3
        <3>2. log' = log \union {r}
            <4>1. Queued = Elems(needCreated) /\ Queued' = Elems(Append(needCreated, r))
                BY <3>1 DEF Queued, Elems
            <4>2. Elems(Append(needCreated, r)) = Elems(needCreated) \union {r}
                BY <2>2, ElemsAppend DEF TypeOK
            <4> QED BY <2>2, <4>1, <4>2
        <3>3. \A k \in log : k.seq < r.seq /\ k.end <= r.start
            <4> TAKE k \in log
            <4>1. k.seq <= latest.seq /\ k.end <= latest.end /\ k \in Row
                BY <2>2, KnownRows DEF TimeInv, LatestIsLast, Known, Saved
            <4> QED BY <2>2, <3>1, <4>1, LatestFacts, BoundAssumption DEF Row
        <3>4. Log!Append(r)
            BY <3>1, <3>2, <3>3, BoundAssumption DEF Log!Append, Row
        <3> QED BY <3>4 DEF Log!Next
    <2>4. CASE \E t \in 0..MaxTime :
                 LET n == Len(needCreated) IN
                 /\ n >= 2 /\ needCreated[n].dropped /\ t >= latest.end
                 /\ needCreated' = [needCreated EXCEPT ![n] = latest']
                 /\ latest' = [needCreated[n] EXCEPT !.end = t]
        <3> DEFINE n == Len(needCreated)
                   old == needCreated[n]
        <3>1. PICK t \in 0..MaxTime :
                 /\ n >= 2 /\ needCreated[n].dropped /\ t >= latest.end
                 /\ needCreated' = [needCreated EXCEPT ![n] = latest']
                 /\ latest' = [needCreated[n] EXCEPT !.end = t]
            BY <2>4
        <3>2. /\ n \in Nat /\ DOMAIN needCreated = 1..n
              /\ old \in Row /\ latest' \in Row /\ old = latest /\ latest'.end = t
              /\ \A k \in Saved : k.seq < old.seq
              /\ Queued' = (Queued \ {old}) \union {latest'}
              /\ \A k \in Known \ {old} : k.seq < old.seq
            BY <2>2, <3>1, ProlongEffect
        <3>3. old \in Queued
            BY <3>1, <3>2 DEF Queued
        <3>4. old.seq \in Nat /\ \A k \in Known : k.seq \in Nat
            BY <2>2, <3>2, KnownRows, BoundAssumption DEF Row
        <3>5. old \notin db
            BY <3>2, <3>4 DEF Saved
        <3>6. log' = (log \ {old}) \union {[old EXCEPT !.end = t]}
            BY <2>2, <3>1, <3>2, <3>5
        <3>7. \A k \in log : k.seq <= old.seq
            BY <3>2, <3>4 DEF Known, Saved
        <3>8. Log!Prolong(old, latest'.end)
            BY <3>1, <3>2, <3>6, <3>7 DEF Log!Prolong, Log!IsLast
        <3> HIDE DEF old
        <3>9. old \in log
            BY <3>3
        <3> QED BY <3>2, <3>8, <3>9 DEF Log!Next
    <2> QED BY <2>1, <2>3, <2>4, AddIndexEffect
<1>3. CASE UNCHANGED vars
    BY <1>3 DEF vars, tables, queues, Queued
<1>4. CASE \/ AddIndexTry \/ Take \/ DeleteIndex \/ Delete \/ Grow \/ Channel
           \/ Shutdown \/ Interrupts \/ ExecutorsClosed \/ FlushDelete
    <2>1. UNCHANGED needCreated /\ db' \subseteq db
        BY <1>4, TimeQuiet
    <2>2. log' \subseteq log
        BY <2>1 DEF Queued
    <2> QED BY <1>1, <2>2
<1>5. CASE Create \/ FlushCreate
    <2>1. CASE UNCHANGED <<needCreated, db>>
        BY <2>1 DEF Queued
    <2>2. CASE /\ needCreated # <<>> /\ db' \subseteq db \union {Head(needCreated)}
               /\ needCreated' \in {needCreated, Tail(needCreated)}
        <3>1. /\ Elems(needCreated') \subseteq Elems(needCreated)
              /\ Head(needCreated) \in Elems(needCreated)
            BY <2>2, ElemsTail DEF Inv, TypeOK
        <3>2. log' \subseteq log
            BY <2>2, <3>1 DEF Queued, Elems
        <3> QED BY <1>1, <3>2
    <2>3. CASE CreateFetch
        BY <2>1, <2>3 DEF CreateFetch, tables, queues
    <2>4. CASE CreateInsert
        BY <2>2, <2>4 DEF CreateInsert, queues, Inv, HeadsStable
    <2>5. CASE CreateDone
        BY <2>2, <2>5 DEF CreateDone, CreateCompletion, tables, Inv, HeadsStable
    <2>6. CASE FlushCreate
        BY <2>2, <2>6 DEF FlushCreate, CreateCompletion
    <2> QED BY <1>5, <2>3, <2>4, <2>5, <2>6 DEF Create
<1>6. CASE Start \/ Closed \/ Crash
    <2>1. needCreated' = <<>> /\ db' = db
        BY <1>6 DEF Start, Closed, Crash, Vanish, tables
    <2>2. log' \subseteq log
        BY <2>1 DEF Queued
    <2> QED BY <1>1, <2>2
<1> QED
    BY <1>2, <1>3, <1>4, <1>5, <1>6 DEF Next, Manager, Closing

\* The manager implements the abstract log: an index once added never changes
\* or moves, except that the last one may be prolonged.
THEOREM LogImplemented == Spec => ImplementsLog
<1>1. Init => Inv /\ TimeInv
    BY InvInit, TimeInit
<1>2. Inv /\ TimeInv /\ [Next]_vars => Inv' /\ TimeInv'
    BY InvNext, TimeNext
<1>3. Init => Log!Init
    <2> SUFFICES ASSUME Init PROVE Log!Init
        OBVIOUS
    <2>1. db \union Queued = Rows0
        BY DEF Init, Queued
    <2> QED BY <2>1, Rows0Assumption DEF Log!Init, Log!Timeline, Timeline
<1>4. Inv /\ TimeInv /\ [Next]_vars => [Log!Next]_(db \union Queued)
    BY LogNext
<1> QED BY <1>1, <1>2, <1>3, <1>4, PTL DEF Spec, ImplementsLog, Log!Spec

-----------------------------------------------------------------------------
(* Deletions.                                                              *)

\* A row leaves the table only when it is the first of the marked ones.
LEMMA DeletedIsMarked ==
    ASSUME Inv, TimeInv, [Next]_vars, NEW r \in db \ db'
    PROVE  \E i \in 1..needDeleted : earliest[i] = r
<1>1. /\ needDeleted > 0 /\ r.seq = Head(earliest).seq
    <2>1. CASE DeleteRow
        BY <2>1 DEF DeleteRow, Inv, HeadsStable
    <2>2. CASE FlushDelete
        BY <2>2 DEF FlushDelete, Inv, TypeOK
    <2>3. CASE AddAny
        BY <2>3 DEF AddAny, AddIndex, tables
    <2>4. CASE Create \/ FlushCreate
        BY <2>4 DEF Create, CreateFetch, CreateInsert, CreateDone, FlushCreate, tables
    <2>5. CASE DeleteFetch \/ DeleteDone \/ Grow \/ Channel
        BY <2>5 DEF DeleteFetch, DeleteDone, Grow, GrowFetch, GrowQuery, GrowFail, GrowPush,
                    Channel, ChannelFetch, ChannelUpdate, tables
    <2>6. CASE AddIndexTry \/ Take \/ DeleteIndex \/ Start \/ Crash
        BY <2>6 DEF AddIndexTry, Take, TakeTask, DeleteIndex, Start, Crash, Vanish, tables
    <2>7. CASE Shutdown \/ Interrupts \/ ExecutorsClosed \/ Closed
        BY <2>7 DEF Shutdown, Interrupts, Interrupt, ExecutorsClosed, Closed, Vanish, tables
    <2>8. CASE UNCHANGED vars
        BY <2>8 DEF vars, tables
    <2> QED
        BY <2>1, <2>2, <2>3, <2>4, <2>5, <2>6, <2>7, <2>8 DEF Next, Manager, Delete, Closing
<1>2. /\ earliest # <<>> /\ earliest \in Seq(Row) /\ 1 \in 1..needDeleted /\ 1 \in DOMAIN earliest
      /\ Head(earliest) = earliest[1]
    BY <1>1, TailFacts DEF Inv, TypeOK, HeadsStable
<1>3. r \in Known /\ earliest[1] \in Known
    BY <1>2 DEF Known, Saved, Elems
<1>4. r = earliest[1]
    BY <1>1, <1>2, <1>3 DEF TimeInv, Timeline
<1> QED BY <1>2, <1>4

\* deleteIndex and the final flush delete no index that retention did not mark.
THEOREM DeletesOnlyMarked == Spec => OnlyMarkedDeleted
<1>1. Init => Inv /\ TimeInv
    BY InvInit, TimeInit
<1>2. Inv /\ TimeInv /\ [Next]_vars => Inv' /\ TimeInv'
    BY InvNext, TimeNext
<1>3. Inv /\ TimeInv /\ [Next]_vars =>
         [\A r \in db \ db' : \E i \in 1..needDeleted : earliest[i] = r]_vars
    BY DeletedIsMarked
<1> QED BY <1>1, <1>2, <1>3, PTL DEF Spec, OnlyMarkedDeleted

-----------------------------------------------------------------------------
(* Retention.                                                              *)

\* The file behind fileCtx is one that the writer may put into an index.
FileTypes ==
    /\ now \in Nat
    /\ files \subseteq FileSeqs /\ IsFiniteSet(files)
    /\ openFile \in FileSeqs

TickTypes ==
    tick \in [pc : {"idle", "mark", "prev", "get", "next"}, first : Row \union {NoRow}]

\* Expired, as OnlyExpiredMarked has it.
Old(t) == t < now + offset - Cover

\* The tick loop holds an index only while the manager runs, and only an
\* expired one.
TickHolds ==
    /\ phase = "down" => tick.pc = "idle"
    /\ tick.pc = "mark" => Old(tick.first.end)

RetentionInv ==
    /\ Inv /\ FileTypes /\ TickTypes
    /\ TickHolds /\ MarksWhatItChecked /\ OnlyExpiredMarked

-----------------------------------------------------------------------------
(* What the manager's steps do to the cache and the marks.                 *)

\* The cache grows behind what is in it; nothing is marked.
CacheGrows ==
    /\ needDeleted' = needDeleted /\ phase' = phase
    /\ Len(earliest') \in Nat /\ Len(earliest') >= Len(earliest)
    /\ \A i \in 1..Len(earliest) : earliest'[i] = earliest[i]

\* The first index, which is marked, leaves the cache.
CachePops ==
    /\ needDeleted > 0 /\ needDeleted' = needDeleted - 1 /\ phase' = phase
    /\ Len(earliest') = Len(earliest) - 1
    /\ \A i \in 1..(Len(earliest) - 1) : earliest'[i] = earliest[i + 1]

\* The numbers of the cache, and that the marks are in it.
LEMMA CacheState ==
    ASSUME Inv
    PROVE  /\ earliest \in Seq(Row) /\ Len(earliest) \in Nat
           /\ needDeleted \in Nat /\ needDeleted <= Len(earliest)
           /\ offset \in Nat
           /\ \A i \in 1..Len(earliest) : earliest[i].end \in Nat
<1>1. earliest \in Seq(Row) /\ needDeleted \in Nat /\ offset \in Nat
  BY DEF Inv, TypeOK
<1>2. \A i \in 1..Len(earliest) : earliest[i] \in Row
  BY <1>1
<1>3. \A r \in Row : r.end \in Nat
  BY BoundAssumption DEF Row
<1> QED BY <1>1, <1>2, <1>3 DEF Inv, HeadsStable

\* A step that only adds to the cache, and at most moves the clock and the
\* offset forward, keeps what the tick loop relies on.
LEMMA GrowsKeeps ==
    ASSUME RetentionInv, CacheGrows, now' \in Nat, now' >= now, offset' \in Nat, offset' >= offset,
           tick' = tick
    PROVE  TickHolds' /\ MarksWhatItChecked' /\ OnlyExpiredMarked'
<1>0. Inv /\ now \in Nat /\ TickHolds /\ MarksWhatItChecked /\ OnlyExpiredMarked /\ Cover \in Nat
  BY RetentionAssumption DEF RetentionInv, FileTypes
<1> DEFINE a == now + offset - Cover
           b == now' + offset' - Cover
<1>1. a \in Int /\ b \in Int /\ a <= b
  BY <1>0, CacheState
<1>2. /\ phase = "down" => tick.pc = "idle"
      /\ tick.pc = "mark" => tick.first.end < a
      /\ tick.pc = "mark" => needDeleted < Len(earliest) /\ earliest[needDeleted + 1] = tick.first
      /\ \A i \in 1..needDeleted : earliest[i].end < a
  BY <1>0 DEF TickHolds, Old, MarksWhatItChecked, OnlyExpiredMarked
<1>3. /\ needDeleted' = needDeleted /\ phase' = phase /\ Len(earliest') \in Nat
      /\ Len(earliest') >= Len(earliest) /\ \A i \in 1..Len(earliest) : earliest'[i] = earliest[i]
  BY DEF CacheGrows
<1> HIDE DEF a, b
<1>4. /\ needDeleted \in Nat /\ Len(earliest) \in Nat /\ needDeleted <= Len(earliest)
      /\ \A i \in 1..Len(earliest) : earliest[i].end \in Nat
  BY <1>0, CacheState
<1>5. \A i \in 1..needDeleted : earliest'[i].end < b
  <2> SUFFICES ASSUME NEW i \in 1..needDeleted PROVE earliest'[i].end < b
    OBVIOUS
  <2>1. i \in 1..Len(earliest)
    BY <1>4
  <2>2. earliest'[i] = earliest[i] /\ earliest[i].end \in Nat /\ earliest[i].end < a
    BY <1>2, <1>3, <1>4, <2>1
  <2> QED BY <1>1, <2>2
<1>6. ASSUME tick.pc = "mark"
      PROVE  /\ needDeleted' < Len(earliest') /\ earliest'[needDeleted' + 1] = tick.first
             /\ tick.first.end < b
  <2>1. needDeleted + 1 \in 1..Len(earliest)
    BY <1>2, <1>4, <1>6
  <2>2. tick.first.end \in Nat /\ tick.first.end < a
    BY <1>2, <1>4, <1>6, <2>1
  <2>3. needDeleted < Len(earliest') /\ earliest'[needDeleted + 1] = tick.first
    BY <1>2, <1>3, <1>4, <1>6, <2>1
  <2> QED BY <1>1, <1>3, <2>2, <2>3
<1>7. OnlyExpiredMarked'
  BY <1>3, <1>5 DEF OnlyExpiredMarked, b
<1>8. MarksWhatItChecked' /\ TickHolds'
  BY <1>2, <1>3, <1>6 DEF MarksWhatItChecked, TickHolds, Old, b
<1> QED BY <1>7, <1>8

\* When deleteIndex has deleted the first index, the one that the tick loop
\* looks at moves with the marks.
LEMMA PopsKeeps ==
    ASSUME RetentionInv, CachePops, now' = now, offset' = offset, tick' = tick
    PROVE  TickHolds' /\ MarksWhatItChecked' /\ OnlyExpiredMarked'
<1>0. Inv /\ TickHolds /\ MarksWhatItChecked /\ OnlyExpiredMarked
  BY DEF RetentionInv
<1> DEFINE a == now + offset - Cover
<1>1. now' + offset' - Cover = a
  OBVIOUS
<1>2. /\ phase = "down" => tick.pc = "idle"
      /\ tick.pc = "mark" => tick.first.end < a
      /\ tick.pc = "mark" => needDeleted < Len(earliest) /\ earliest[needDeleted + 1] = tick.first
      /\ \A i \in 1..needDeleted : earliest[i].end < a
  BY <1>0 DEF TickHolds, Old, MarksWhatItChecked, OnlyExpiredMarked
<1>3. /\ needDeleted > 0 /\ needDeleted' = needDeleted - 1 /\ phase' = phase
      /\ Len(earliest') = Len(earliest) - 1
      /\ \A i \in 1..(Len(earliest) - 1) : earliest'[i] = earliest[i + 1]
  BY DEF CachePops
<1>4. needDeleted \in Nat /\ Len(earliest) \in Nat /\ needDeleted <= Len(earliest)
  BY <1>0, CacheState
<1> HIDE DEF a
<1>5. \A i \in 1..needDeleted' : earliest'[i].end < a
  <2> SUFFICES ASSUME NEW i \in 1..needDeleted' PROVE earliest'[i].end < a
    OBVIOUS
  <2>1. i \in 1..(Len(earliest) - 1) /\ i + 1 \in 1..needDeleted
    BY <1>3, <1>4
  <2> QED BY <1>2, <1>3, <2>1
<1>6. ASSUME tick.pc = "mark"
      PROVE  needDeleted' < Len(earliest') /\ earliest'[needDeleted' + 1] = tick.first
  <2>1. needDeleted \in 1..(Len(earliest) - 1) /\ needDeleted' + 1 = needDeleted
    BY <1>2, <1>3, <1>4, <1>6
  <2>2. earliest'[needDeleted] = tick.first
    BY <1>2, <1>3, <1>6, <2>1
  <2>3. needDeleted' < Len(earliest')
    BY <1>3, <1>4, <2>1
  <2> QED BY <2>1, <2>2, <2>3
<1>7. OnlyExpiredMarked'
  BY <1>1, <1>5 DEF OnlyExpiredMarked
<1>8. MarksWhatItChecked' /\ TickHolds'
  BY <1>1, <1>2, <1>3, <1>6 DEF MarksWhatItChecked, TickHolds, Old, a
<1> QED BY <1>7, <1>8

-----------------------------------------------------------------------------
(* The steps.                                                              *)

\* A step of the manager's workers adds to the cache, or pops a marked index.
LEMMA WorkersKeep ==
    ASSUME Inv, \/ AddIndexTry \/ Create \/ Delete \/ Grow
                \/ \E w \in {"create", "delete", "grow"} : TakeTask(w)
    PROVE  (CacheGrows \/ CachePops) /\ offset' = offset
<1> USE DEF queues, tables, workers
<1>0. earliest \in Seq(Row) /\ Len(earliest) \in Nat /\ needDeleted \in Nat /\ Len(earliest) <= CacheCap
  BY CacheState DEF Inv, TypeOK
<1>1. ASSUME UNCHANGED <<phase, earliest, needDeleted, offset>>
      PROVE  CacheGrows /\ offset' = offset
  BY <1>0, <1>1 DEF CacheGrows
<1>2. CASE AddIndexTry \/ \E w \in {"create", "delete", "grow"} : TakeTask(w)
  BY <1>1, <1>2 DEF AddIndexTry, TakeTask
<1>3. CASE CreateFetch \/ CreateInsert \/ DeleteFetch \/ DeleteRow \/ GrowFetch \/ GrowQuery \/ GrowFail
  BY <1>1, <1>3 DEF CreateFetch, CreateInsert, DeleteFetch, DeleteRow, GrowFetch, GrowQuery, GrowFail
<1>4. CASE CreateDone
  <2>1. needCreated # <<>> /\ needCreated \in Seq(Row)
    BY <1>4 DEF CreateDone, Inv, HeadsStable, TypeOK
  <2>2. Head(needCreated) \in Row
    BY <2>1, TailFacts
  <2>3. earliest' = earliest \/ earliest' = Append(earliest, Head(needCreated))
    BY <1>4 DEF CreateDone, CreateCompletion, Push
  <2>4. /\ Len(earliest') \in Nat /\ Len(earliest') >= Len(earliest)
        /\ \A i \in 1..Len(earliest) : earliest'[i] = earliest[i]
    BY <1>0, <2>2, <2>3, AppendFacts
  <2>5. UNCHANGED <<phase, needDeleted, offset>>
    BY <1>4 DEF CreateDone
  <2> QED BY <2>4, <2>5 DEF CacheGrows
<1>5. CASE DeleteDone
  <2>1. needDeleted > 0 /\ needDeleted <= Len(earliest)
    BY <1>5 DEF DeleteDone, Inv, HeadsStable
  <2>2. earliest # <<>>
    BY <1>0, <2>1
  <2>3. earliest' = Tail(earliest) /\ needDeleted' = needDeleted - 1 /\ UNCHANGED <<phase, offset>>
    BY <1>5 DEF DeleteDone, DeleteCompletion
  <2> QED BY <1>0, <2>1, <2>2, <2>3, TailFacts DEF CachePops
<1>6. CASE GrowPush
  <2>1. PICK acc \in SeqOf(DOMAIN growRows, Len(growRows)) : earliest' = PushAll(earliest, growRows, acc)
    BY <1>6 DEF GrowPush
  <2>2. growRows \in Seq(Row)
    BY DEF Inv, TypeOK
  <2>3. /\ Len(earliest') \in Len(earliest)..CacheCap
        /\ \A i \in 1..Len(earliest) : earliest'[i] = earliest[i]
    BY <1>0, <2>1, <2>2, PushAllFacts
  <2>4. UNCHANGED <<phase, needDeleted, offset>>
    BY <1>6 DEF GrowPush
  <2> QED BY <1>0, <2>3, <2>4, CapAssumption DEF CacheGrows
<1> QED BY <1>2, <1>3, <1>4, <1>5, <1>6 DEF Create, Delete, Grow

\* The file that OpenFile chooses is one that the metadata knows.
LEMMA LastFileKnown ==
    ASSUME FileTypes, files # {}
    PROVE  LastFile \in files
<1>1. files \in SUBSET Nat /\ IsFiniteSet(files)
  BY InputAssumption DEF FileTypes
<1> DEFINE n == Cardinality(files)
           q == Ascending(files)
<1>2. /\ n \in Nat /\ q \in [1..n -> files]
      /\ \A i, j \in 1..n : i < j => q[i] < q[j]
      /\ \A x \in files : \E i \in 1..n : q[i] = x
  BY <1>1, AscendingFacts
<1> HIDE DEF n, q
<1>3. n \in 1..n
  BY <1>2
<1>4. q[n] \in files
  BY <1>2, <1>3
<1>5. \A g \in files : g <= q[n]
  <2> SUFFICES ASSUME NEW g \in files PROVE g <= q[n]
    OBVIOUS
  <2>1. PICK i \in 1..n : q[i] = g
    BY <1>2
  <2>2. i = n \/ q[i] < q[n]
    BY <1>2, <1>3
  <2>3. g \in Nat /\ q[n] \in Nat
    BY <1>1, <1>4
  <2> QED BY <2>1, <2>2, <2>3
<1> QED BY <1>4, <1>5 DEF LastFile

\* Every step keeps the manager's invariant and the types of the files.
LEMMA ManagerKept ==
    ASSUME RetentionInv, [RNext]_<<vars, space>>
    PROVE  Inv' /\ FileTypes'
<1>0. Inv /\ FileTypes
  BY DEF RetentionInv
<1>1. CASE Indexing
  <2>1. Next /\ UNCHANGED <<now, files, openFile>>
    BY <1>1 DEF Indexing, Next, Manager, Take, space
  <2> QED BY <1>0, <2>1, InvNext DEF FileTypes
<1>2. CASE TickMark
  <2>1. Next /\ UNCHANGED <<now, files, openFile>>
    BY <1>2 DEF TickMark, Next
  <2> QED BY <1>0, <2>1, InvNext DEF FileTypes
<1>3. CASE TickCheck \/ TickPrev \/ TickGetFile \/ TickNext
  <2>1. UNCHANGED vars /\ UNCHANGED <<now, files, openFile>>
    BY <1>3 DEF TickCheck, TickPrev, TickGetFile, TickNext
  <2> QED BY <1>0, <2>1, InvNext DEF FileTypes
<1>4. CASE Deleting
  <2>1. UNCHANGED vars /\ UNCHANGED <<now, openFile>> /\ files' \subseteq files
    BY <1>4 DEF Deleting, DeleteTake, DeleteRemove, DeleteMeta, DeleteEnd
  <2>2. IsFiniteSet(files')
    BY <1>0, <2>1, FS_Subset DEF FileTypes
  <2> QED BY <1>0, <2>1, <2>2, InvNext DEF FileTypes
<1>5. CASE OpenFile
  <2>1. UNCHANGED vars /\ now' = now /\ files' = files \union {openFile'}
    BY <1>5 DEF OpenFile
  <2>2. openFile' \in FileSeqs
    BY <1>0, <1>5, LastFileKnown DEF OpenFile, FileTypes
  <2>3. IsFiniteSet(files')
    BY <1>0, <2>1, FS_AddElement DEF FileTypes
  <2> QED BY <1>0, <2>1, <2>2, <2>3, InvNext DEF FileTypes
<1>6. CASE WriteBlock
  <2>1. AddIndex(now, now, openFile) /\ openFile' \in {openFile, 0} /\ UNCHANGED <<now, files>>
    BY <1>6 DEF WriteBlock
  <2>2. Inv'
    BY <1>0, <2>1, InvAddIndex DEF FileTypes
  <2> QED BY <1>0, <2>1, <2>2, InputAssumption DEF FileTypes
<1>7. CASE Clock
  <2>1. UNCHANGED vars /\ now' = now + 1 /\ UNCHANGED <<files, openFile>>
    BY <1>7 DEF Clock
  <2> QED BY <1>0, <2>1, InvNext DEF FileTypes
<1>8. CASE Kill
  <2>1. Next /\ openFile' = 0 /\ UNCHANGED <<now, files>>
    BY <1>8 DEF Kill, Next, Manager
  <2> QED BY <1>0, <2>1, InvNext, InputAssumption DEF FileTypes
<1>9. CASE UNCHANGED <<vars, space>>
  <2>1. UNCHANGED vars /\ UNCHANGED <<now, files, openFile>>
    BY <1>9 DEF space
  <2> QED BY <1>0, <2>1, InvNext DEF FileTypes
<1> QED BY <1>1, <1>2, <1>3, <1>4, <1>5, <1>6, <1>7, <1>8, <1>9 DEF RNext, Ticking

\* The tick loop holds an index of the cache.
LEMMA TickTypesKept ==
    ASSUME RetentionInv, [RNext]_<<vars, space>>
    PROVE  TickTypes'
<1>0. Inv /\ TickTypes
  BY DEF RetentionInv
<1>1. ASSUME NEW p \in {"idle", "mark", "prev", "get", "next"}, tick' = [tick EXCEPT !.pc = p]
      PROVE  TickTypes'
  BY <1>0, <1>1 DEF TickTypes
<1>2. ASSUME tick' = tick \/ tick' = NoTick
      PROVE  TickTypes'
  BY <1>0, <1>2 DEF TickTypes, NoTick
<1>3. CASE TickCheck
  <2>1. CASE tick' = tick
    BY <1>2, <2>1
  <2>2. CASE tick' # tick
    <3> DEFINE first == FirstIndex.index
    <3>1. first # NoRow /\ tick' = [pc |-> "mark", first |-> first]
      BY <1>3, <2>2 DEF TickCheck
    <3>2. needDeleted # Len(earliest) /\ first = earliest[needDeleted + 1]
      BY <3>1 DEF FirstIndex
    <3>3. needDeleted + 1 \in 1..Len(earliest) /\ earliest \in Seq(Row)
      BY <1>0, <3>2, CacheState
    <3>4. first \in Row
      BY <3>2, <3>3
    <3> HIDE DEF first
    <3> QED BY <3>1, <3>4 DEF TickTypes
  <2> QED BY <2>1, <2>2
<1>4. CASE TickMark \/ TickPrev \/ TickGetFile \/ TickNext
  <2>1. tick' = NoTick \/ \E p \in {"prev", "get", "next"} : tick' = [tick EXCEPT !.pc = p]
    BY <1>4 DEF TickMark, TickPrev, TickGetFile, TickNext, Step
  <2> QED BY <1>1, <1>2, <2>1
<1>5. CASE Indexing \/ Deleting \/ OpenFile \/ WriteBlock \/ Clock \/ Kill \/ UNCHANGED <<vars, space>>
  <2>1. tick' = tick \/ tick' = NoTick
    BY <1>5 DEF Indexing, Deleting, DeleteTake, DeleteRemove, DeleteMeta, DeleteEnd,
                OpenFile, WriteBlock, Clock, Kill, space
  <2> QED BY <1>2, <2>1
<1> QED BY <1>3, <1>4, <1>5 DEF RNext, Ticking

\* A step of another thread leaves to the tick loop what it has looked at.
LEMMA OthersKeep ==
    ASSUME RetentionInv, Indexing \/ Deleting \/ OpenFile \/ WriteBlock \/ Clock \/ Kill
    PROVE  TickHolds' /\ MarksWhatItChecked' /\ OnlyExpiredMarked'
<1>0. Inv /\ FileTypes /\ now \in Nat /\ offset \in Nat
  BY CacheState DEF RetentionInv, FileTypes
<1>1. ASSUME needDeleted' = 0, tick'.pc = "idle"
      PROVE  TickHolds' /\ MarksWhatItChecked' /\ OnlyExpiredMarked'
  BY <1>1 DEF TickHolds, MarksWhatItChecked, OnlyExpiredMarked
<1>2. CASE Indexing
  <2>1. tick' = tick /\ now' = now
    BY <1>2 DEF Indexing, space
  <2>2. CASE Start
    BY <1>1, <2>1, <2>2 DEF Start, RetentionInv, TickHolds
  <2>3. CASE ~Start
    <3>1. (CacheGrows \/ CachePops) /\ offset' = offset
      BY <1>0, <1>2, <2>3, WorkersKeep DEF Indexing
    <3> QED BY <1>0, <2>1, <3>1, GrowsKeeps, PopsKeeps
  <2> QED BY <2>2, <2>3
<1>3. CASE Kill
  BY <1>1, <1>3 DEF Kill, Crash, Vanish, NoTick
<1>4. CASE Deleting \/ OpenFile \/ Clock
  <2>1. UNCHANGED vars /\ tick' = tick /\ now' \in {now, now + 1}
    BY <1>4 DEF Deleting, DeleteTake, DeleteRemove, DeleteMeta, DeleteEnd, OpenFile, Clock
  <2>2. CacheGrows /\ offset' = offset
    BY <1>0, <2>1, CacheState DEF CacheGrows, vars, queues
  <2> QED BY <1>0, <2>1, <2>2, GrowsKeeps
<1>5. CASE WriteBlock
  <2>1. /\ UNCHANGED <<phase, earliest, needDeleted, tick, now>>
        /\ offset' = offset + Correction(now)
    BY <1>5 DEF WriteBlock, AddIndex
  <2>2. Correction(now) \in Nat
    BY <1>0, LatestFacts DEF Correction, Inv
  <2>3. CacheGrows
    BY <1>0, <2>1, CacheState DEF CacheGrows
  <2> QED BY <1>0, <2>1, <2>2, <2>3, GrowsKeeps
<1> QED BY <1>2, <1>3, <1>4, <1>5

\* The tick loop itself.
LEMMA TicksKeep ==
    ASSUME RetentionInv, Ticking
    PROVE  TickHolds' /\ MarksWhatItChecked' /\ OnlyExpiredMarked'
<1>0. /\ Inv /\ TickHolds /\ MarksWhatItChecked /\ OnlyExpiredMarked
      /\ now \in Nat /\ offset \in Nat /\ Cover \in Nat
      /\ Len(earliest) \in Nat /\ needDeleted \in Nat /\ needDeleted <= Len(earliest)
      /\ \A i \in 1..Len(earliest) : earliest[i].end \in Nat
  BY CacheState, RetentionAssumption DEF RetentionInv, FileTypes
<1>1. ASSUME UNCHANGED vars, now' = now, tick'.pc # "mark", tick'.pc = "idle" \/ phase # "down"
      PROVE  TickHolds' /\ MarksWhatItChecked' /\ OnlyExpiredMarked'
  <2>1. UNCHANGED <<phase, earliest, needDeleted, offset>>
    BY <1>1 DEF vars, queues
  <2> QED BY <1>0, <1>1, <2>1 DEF TickHolds, MarksWhatItChecked, OnlyExpiredMarked
<1>2. CASE TickCheck /\ tick' # tick
  <2> DEFINE first == FirstIndex.index
  <2>1. /\ first # NoRow /\ Expired(first) /\ tick' = [pc |-> "mark", first |-> first]
        /\ phase = "running" /\ UNCHANGED vars /\ now' = now
    BY <1>2 DEF TickCheck
  <2>2. needDeleted # Len(earliest) /\ first = earliest[needDeleted + 1]
    BY <2>1 DEF FirstIndex
  <2>3. UNCHANGED <<phase, earliest, needDeleted, offset>>
    BY <2>1 DEF vars, queues
  <2>4. needDeleted + 1 \in 1..Len(earliest)
    BY <1>0, <2>2
  <2> HIDE DEF first
  <2>5. first.end \in Nat /\ now + offset - first.end > Cover
    BY <1>0, <2>1, <2>2, <2>4 DEF Expired
  <2>6. first.end < now + offset - Cover
    BY <1>0, <2>5
  <2>7. tick'.pc = "mark" /\ tick'.first = first
    BY <2>1
  <2>8. TickHolds'
    BY <2>1, <2>3, <2>6, <2>7 DEF TickHolds, Old
  <2>9. MarksWhatItChecked'
    BY <1>0, <2>2, <2>3, <2>7 DEF MarksWhatItChecked
  <2>10. OnlyExpiredMarked'
    BY <1>0, <2>1, <2>3 DEF OnlyExpiredMarked
  <2> QED BY <2>8, <2>9, <2>10
<1>3. CASE TickCheck /\ tick' = tick
  BY <1>1, <1>3 DEF TickCheck
<1>4. CASE TickMark
  <2>1. /\ needDeleted' = needDeleted + 1 /\ UNCHANGED <<phase, earliest, offset, now>>
        /\ tick.pc = "mark" /\ phase = "running"
    BY <1>4 DEF TickMark, DeleteIndex
  <2>2. tick' = NoTick \/ tick' = [tick EXCEPT !.pc = "prev"]
    BY <1>4 DEF TickMark
  <2>3. tick'.pc # "mark"
    BY <2>2 DEF NoTick, RetentionInv, TickTypes
  <2>4. earliest[needDeleted + 1].end < now + offset - Cover
    BY <1>0, <2>1 DEF TickHolds, Old, MarksWhatItChecked
  <2>5. \A i \in 1..(needDeleted + 1) : i \in 1..needDeleted \/ i = needDeleted + 1
    BY <1>0
  <2>6. OnlyExpiredMarked'
    BY <1>0, <2>1, <2>4, <2>5 DEF OnlyExpiredMarked
  <2> QED BY <2>1, <2>3, <2>6 DEF TickHolds, MarksWhatItChecked
<1>5. CASE TickPrev \/ TickGetFile \/ TickNext
  <2>1. /\ UNCHANGED vars /\ now' = now /\ tick.pc \in {"prev", "get", "next"}
        /\ \/ tick' = [tick EXCEPT !.pc = "get"]
           \/ tick' = [tick EXCEPT !.pc = "next"]
           \/ tick' = NoTick
    BY <1>5 DEF TickPrev, TickGetFile, TickNext, Step
  <2>2. tick'.pc # "mark"
    BY <2>1 DEF NoTick, RetentionInv, TickTypes
  <2>3. phase # "down"
    BY <1>0, <2>1 DEF TickHolds
  <2> QED BY <1>1, <2>1, <2>2, <2>3
<1> QED BY <1>2, <1>3, <1>4, <1>5 DEF Ticking

\* The invariant of retention holds in every state.
LEMMA RetentionInvariant == RSpec => []RetentionInv
<1>1. RInit => RetentionInv
  <2> SUFFICES ASSUME RInit PROVE RetentionInv
    OBVIOUS
  <2>1. Inv
    BY InvInit DEF RInit
  <2>2. FileTypes
    BY RetentionAssumption, InputAssumption DEF RInit, FileTypes
  <2>3. TickTypes /\ TickHolds /\ MarksWhatItChecked
    BY DEF RInit, NoTick, TickTypes, TickHolds, MarksWhatItChecked
  <2>4. OnlyExpiredMarked
    BY DEF RInit, Init, OnlyExpiredMarked
  <2> QED BY <2>1, <2>2, <2>3, <2>4 DEF RetentionInv
<1>2. RetentionInv /\ [RNext]_<<vars, space>> => RetentionInv'
  <2> SUFFICES ASSUME RetentionInv, [RNext]_<<vars, space>> PROVE RetentionInv'
    OBVIOUS
  <2>1. Inv' /\ FileTypes' /\ TickTypes'
    BY ManagerKept, TickTypesKept
  <2>2. TickHolds' /\ MarksWhatItChecked' /\ OnlyExpiredMarked'
    <3>1. CASE UNCHANGED <<vars, space>>
      BY <3>1 DEF vars, queues, space, RetentionInv, TickHolds, Old, MarksWhatItChecked, OnlyExpiredMarked
    <3> QED BY <3>1, OthersKeep, TicksKeep DEF RNext
  <2> QED BY <2>1, <2>2 DEF RetentionInv
<1> QED BY <1>1, <1>2, PTL DEF RSpec

\* DeleteIndex marks the index that the tick loop has read with FirstIndex,
\* although no lock is held in between and the workers push and pop meanwhile.
THEOREM TickMarksWhatItChecked == RSpec => []MarksWhatItChecked
<1>1. RetentionInv => MarksWhatItChecked
  BY DEF RetentionInv
<1> QED BY <1>1, RetentionInvariant, PTL

\* Only indexes older than the cover period are marked for deletion.
THEOREM OnlyExpiredAreMarked == RSpec => []OnlyExpiredMarked
<1>1. RetentionInv => OnlyExpiredMarked
  BY DEF RetentionInv
<1> QED BY <1>1, RetentionInvariant, PTL

-----------------------------------------------------------------------------
(* Queries.                                                                *)

\* A set of numbers from 1 on without a gap is counted by its last number.
LEMMA Prefix ==
    ASSUME NEW n \in Nat, NEW A \in SUBSET (1..n), \A i \in A : \A j \in 1..i : j \in A
    PROVE  Cardinality(A) \in 0..n /\ A = 1..Cardinality(A)
<1> DEFINE Out == {k \in Nat : k >= 1 /\ k \notin A}
<1>1. n + 1 \in Out
    OBVIOUS
<1>2. PICK m \in Out : \A k \in Out : m <= k
    BY <1>1, LeastNat
<1>3. m \in Nat /\ m >= 1 /\ m \notin A /\ m <= n + 1
    BY <1>1, <1>2
<1>4. \A k \in Nat : k >= 1 /\ k < m => k \in A
    BY <1>2, <1>3
<1>5. \A k \in A : k < m
    BY <1>3
<1> HIDE DEF Out
<1>6. A = 1..(m - 1)
    <2>1. \A k \in 1..(m - 1) : k \in A
        BY <1>3, <1>4
    <2>2. \A k \in A : k \in 1..(m - 1)
        BY <1>3, <1>5
    <2> QED BY <2>1, <2>2
<1>7. Cardinality(1..(m - 1)) = m - 1
    BY <1>3, FS_Interval
<1> QED BY <1>3, <1>6, <1>7

\* The queue is in order: its starts and its ends ascend with its numbers.
LEMMA QueueFacts ==
    ASSUME TypeOK, TimeInv
    PROVE  /\ Len(needCreated) \in Nat /\ DOMAIN needCreated = 1..Len(needCreated)
           /\ \A i \in DOMAIN needCreated :
                /\ needCreated[i] \in Row /\ needCreated[i] \in Queued
                /\ needCreated[i].seq \in Nat /\ needCreated[i].start \in Nat /\ needCreated[i].end \in Nat
                /\ needCreated[i].start <= needCreated[i].end
           /\ \A i, j \in DOMAIN needCreated : i < j =>
                /\ needCreated[i].seq < needCreated[j].seq
                /\ needCreated[i].end <= needCreated[j].start
<1>1. needCreated \in Seq(Row)
    BY DEF TypeOK
<1>2. Len(needCreated) \in Nat /\ DOMAIN needCreated = 1..Len(needCreated)
      /\ \A i \in DOMAIN needCreated : needCreated[i] \in Row /\ needCreated[i] \in Queued
    BY <1>1 DEF Queued
<1>3. \A r \in Row : r.seq \in Nat /\ r.start \in Nat /\ r.end \in Nat
    BY BoundAssumption DEF Row
<1>4. Queued \subseteq Known
    BY DEF Known
<1>5. \A i \in DOMAIN needCreated : needCreated[i].start <= needCreated[i].end
    BY <1>2, <1>4 DEF TimeInv, Timeline
<1>6. \A i, j \in DOMAIN needCreated : i < j => needCreated[i].seq < needCreated[j].seq
    BY DEF TimeInv, QueueOrdered
<1>7. \A i, j \in DOMAIN needCreated : i < j => needCreated[i].end <= needCreated[j].start
    BY <1>2, <1>4, <1>6 DEF TimeInv, Timeline
<1> QED BY <1>1, <1>2, <1>3, <1>5, <1>6, <1>7

\* What the two binary searches find.
LEMMA SearchFacts ==
    ASSUME TypeOK, TimeInv, NEW t \in Nat
    PROVE  /\ StartingBefore(t) \in 0..Len(needCreated)
           /\ \A i \in DOMAIN needCreated : needCreated[i].start < t <=> i <= StartingBefore(t)
           /\ EndingBy(t) \in 0..Len(needCreated)
           /\ \A i \in DOMAIN needCreated : needCreated[i].end <= t <=> i <= EndingBy(t)
<1> DEFINE n == Len(needCreated)
           A == {i \in DOMAIN needCreated : needCreated[i].start < t}
           B == {i \in DOMAIN needCreated : needCreated[i].end <= t}
<1>1. n \in Nat /\ DOMAIN needCreated = 1..n
    BY QueueFacts
<1>2. A \in SUBSET (1..n) /\ B \in SUBSET (1..n)
    BY <1>1
<1>3. ASSUME NEW i \in 1..n, NEW j \in 1..n, j < i
      PROVE  needCreated[j].start <= needCreated[i].start /\ needCreated[j].end <= needCreated[i].end
            /\ needCreated[i].start \in Nat /\ needCreated[j].start \in Nat
            /\ needCreated[i].end \in Nat /\ needCreated[j].end \in Nat
    <2>1. /\ needCreated[j].start \in Nat /\ needCreated[j].end \in Nat
          /\ needCreated[i].start \in Nat /\ needCreated[i].end \in Nat
          /\ needCreated[j].start <= needCreated[j].end /\ needCreated[i].start <= needCreated[i].end
        BY <1>1, QueueFacts
    <2>2. needCreated[j].end <= needCreated[i].start
        BY <1>1, <1>3, QueueFacts
    <2> QED BY <2>1, <2>2
<1>4. \A i \in A : \A j \in 1..i : j \in A
    <2> SUFFICES ASSUME NEW i \in A, NEW j \in 1..i PROVE j \in A
        OBVIOUS
    <2>1. i \in 1..n /\ j \in 1..n /\ (j < i \/ j = i) /\ needCreated[i].start < t
        BY <1>1
    <2>2. CASE j < i
        <3>1. needCreated[j].start < t
            BY <1>3, <2>1, <2>2
        <3> QED BY <1>1, <2>1, <3>1
    <2> QED BY <2>1, <2>2
<1>5. \A i \in B : \A j \in 1..i : j \in B
    <2> SUFFICES ASSUME NEW i \in B, NEW j \in 1..i PROVE j \in B
        OBVIOUS
    <2>1. i \in 1..n /\ j \in 1..n /\ (j < i \/ j = i) /\ needCreated[i].end <= t
        BY <1>1
    <2>2. CASE j < i
        <3>1. needCreated[j].end <= t
            BY <1>3, <2>1, <2>2
        <3> QED BY <1>1, <2>1, <3>1
    <2> QED BY <2>1, <2>2
<1>6. Cardinality(A) \in 0..n /\ A = 1..Cardinality(A) /\ Cardinality(B) \in 0..n /\ B = 1..Cardinality(B)
    BY <1>1, <1>2, <1>4, <1>5, Prefix
<1>7. StartingBefore(t) = Cardinality(A) /\ EndingBy(t) = Cardinality(B)
    BY DEF StartingBefore, EndingBy
<1>8. \A i \in 1..n : (needCreated[i].start < t <=> i \in A) /\ (needCreated[i].end <= t <=> i \in B)
    BY <1>1
<1> HIDE DEF A, B
<1> QED BY <1>1, <1>6, <1>7, <1>8

\* No index of the table is behind the head of the queue.
TableBehind == \A r \in db : \A i \in DOMAIN needCreated : r.seq <= needCreated[i].seq

\* What the manager may do to the indexes while a call is under way.  A new index
\* comes after everything, the last one of the queue may be prolonged, an index of
\* the queue may enter the table.
GoesOn ==
    /\ phase' = "running"
    /\ latest'.seq >= latest.seq /\ latest'.end >= latest.end
    /\ \A q \in db' : q \in db \/ q \in Queued
    /\ \A q \in Queued' : \/ q \in Queued
                          \/ q.seq > latest.seq /\ q.start >= latest.end
                          \/ latest \in Queued /\ q.seq = latest.seq /\ q.start = latest.start

\* What holds of the manager.
ManagerOK == Inv /\ TimeInv /\ TableBehind /\ IsFiniteSet(db)

\* An index, or none, has numbers.
LEMMA IndexNumbers ==
    ASSUME NEW x \in Row \union {NoRow}
    PROVE  x.seq \in Nat /\ x.start \in Nat /\ x.end \in Nat
<1>1. CASE x \in Row
    BY <1>1, BoundAssumption DEF Row
<1>2. CASE x = NoRow
    BY <1>2 DEF NoRow
<1> QED BY <1>1, <1>2

\* The last index has numbers.
LEMMA LatestNumbers ==
    ASSUME TypeOK
    PROVE  latest.seq \in Nat /\ latest.start \in Nat /\ latest.end \in Nat
    BY IndexNumbers DEF TypeOK

\* Rows have numbers.
LEMMA RowNumbers ==
    ASSUME NEW r \in Row
    PROVE  r.seq \in Nat /\ r.start \in Nat /\ r.end \in Nat
    BY BoundAssumption DEF Row

\* An index is appended.
LEMMA AppendGoesOn ==
    ASSUME ManagerOK, NEW r \in Row, needCreated' = Append(needCreated, r), latest' = r,
           r.seq > latest.seq, r.start >= latest.end, r.end >= r.start,
           UNCHANGED <<phase, db>>, phase = "running"
    PROVE  TableBehind' /\ IsFiniteSet(db') /\ GoesOn
<1>1. needCreated \in Seq(Row) /\ TypeOK /\ LatestIsLast /\ db \subseteq Known
    BY DEF ManagerOK, Inv, TypeOK, TimeInv, Known, Saved
<1>2. /\ DOMAIN needCreated' = 1..(Len(needCreated) + 1) /\ DOMAIN needCreated = 1..Len(needCreated)
      /\ Len(needCreated) \in Nat
      /\ \A i \in 1..Len(needCreated) : needCreated'[i] = needCreated[i]
      /\ needCreated'[Len(needCreated) + 1] = r
    BY <1>1, AppendFacts
<1>3. latest.seq \in Nat /\ latest.end \in Nat /\ r.seq \in Nat /\ r.start \in Nat /\ r.end \in Nat
    BY <1>1, LatestNumbers, RowNumbers
<1>4. \A i \in DOMAIN needCreated' : \/ i \in DOMAIN needCreated /\ needCreated'[i] = needCreated[i]
                                   \/ needCreated'[i] = r
    BY <1>2
<1>5. \A k \in db : k.seq <= latest.seq /\ k.seq \in Nat
    BY <1>1, RowNumbers DEF LatestIsLast, TypeOK
<1>6. TableBehind'
    <2> SUFFICES ASSUME NEW k \in db, NEW i \in DOMAIN needCreated'
                 PROVE  k.seq <= needCreated'[i].seq
        BY DEF TableBehind
    <2>1. CASE i \in DOMAIN needCreated /\ needCreated'[i] = needCreated[i]
        BY <2>1 DEF ManagerOK, TableBehind
    <2>2. CASE needCreated'[i] = r
        BY <1>3, <1>5, <2>2
    <2> QED BY <1>4, <2>1, <2>2
<1>7. \A q \in Queued' : q \in Queued \/ q = r
    BY <1>4 DEF Queued
<1>8. GoesOn
    BY <1>3, <1>7 DEF GoesOn
<1> QED BY <1>6, <1>8 DEF ManagerOK

\* The last index is prolonged.
LEMMA ProlongGoesOn ==
    ASSUME ManagerOK, NEW t \in 0..MaxTime, NEW n, n = Len(needCreated), n >= 2,
           t >= latest.end, needCreated' = [needCreated EXCEPT ![n] = latest'],
           latest' = [needCreated[n] EXCEPT !.end = t],
           UNCHANGED <<phase, db, earliest, growRows>>, phase = "running"
    PROVE  TableBehind' /\ IsFiniteSet(db') /\ GoesOn
<1>0. TypeOK /\ TimeInv /\ phase # "down"
    BY DEF ManagerOK, Inv
<1> DEFINE old == needCreated[n]
<1>1. /\ n \in Nat /\ DOMAIN needCreated = 1..n /\ DOMAIN needCreated' = 1..n
      /\ old \in Row /\ latest' \in Row /\ old = latest
      /\ latest'.seq = old.seq /\ latest'.start = old.start /\ latest'.end = t
      /\ \A i \in 1..n : i # n => needCreated'[i] = needCreated[i]
      /\ needCreated'[n] = latest'
      /\ Queued' = (Queued \ {old}) \union {latest'}
    BY <1>0, ProlongEffect
<1>2. latest \in Queued
    BY <1>1 DEF Queued
<1>3. \A i \in 1..n : needCreated'[i].seq = needCreated[i].seq
    BY <1>1
<1>4. TableBehind'
    BY <1>1, <1>3 DEF ManagerOK, TableBehind
<1>5. latest.seq \in Nat /\ latest.end \in Nat
    BY <1>0, LatestNumbers
<1>6. latest'.seq = latest.seq /\ latest'.start = latest.start /\ latest'.end = t
    BY <1>1
<1>7. \A q \in Queued' : q \in Queued \/ q = latest'
    BY <1>1
<1>8. \A q \in Queued' : q \in Queued \/ (latest \in Queued /\ q.seq = latest.seq /\ q.start = latest.start)
    BY <1>2, <1>6, <1>7
<1>9. \A q \in db' : q \in db
    OBVIOUS
<1>10. latest'.seq >= latest.seq /\ latest'.end >= latest.end
    BY <1>5, <1>6
<1>11. GoesOn
    BY <1>8, <1>9, <1>10 DEF GoesOn
<1> QED BY <1>4, <1>11 DEF ManagerOK

\* createIndex saves the head of the queue, and takes it from the queue.
LEMMA SaveGoesOn ==
    ASSUME ManagerOK, Create
    PROVE  TableBehind' /\ IsFiniteSet(db') /\ (phase = "running" => GoesOn)
<1>0. TypeOK /\ TimeInv /\ Inv /\ latest.seq \in Nat /\ latest.end \in Nat
    BY LatestNumbers DEF ManagerOK, Inv
<1>1. CASE CreateFetch
    <2>1. UNCHANGED <<needCreated, latest, phase, db>>
        BY <1>1 DEF CreateFetch, tables, queues
    <2>2. Queued' = Queued
        BY <2>1 DEF Queued
    <2> QED BY <1>0, <2>1, <2>2 DEF ManagerOK, TableBehind, GoesOn
<1>2. CASE CreateInsert
    <2>1. UNCHANGED <<needCreated, latest, phase>> /\ db' = db \union {createIdx}
        BY <1>2 DEF CreateInsert, queues
    <2>2. needCreated # <<>> /\ createIdx = Head(needCreated)
        BY <1>0, <1>2 DEF CreateInsert, Inv, HeadsStable
    <2>3. needCreated \in Seq(Row) /\ 1 \in DOMAIN needCreated /\ createIdx = needCreated[1]
        BY <1>0, <2>2, TailFacts DEF TypeOK
    <2>4. createIdx \in Queued /\ Queued' = Queued
        BY <2>1, <2>3 DEF Queued
    <2>5. \A i \in DOMAIN needCreated : createIdx.seq <= needCreated[i].seq
        <3> SUFFICES ASSUME NEW i \in DOMAIN needCreated PROVE createIdx.seq <= needCreated[i].seq
            OBVIOUS
        <3>1. i = 1 \/ 1 < i
            BY <1>0, QueueFacts
        <3>2. needCreated[i].seq \in Nat /\ needCreated[1].seq \in Nat
            BY <1>0, <2>3, QueueFacts
        <3>3. 1 < i => needCreated[1].seq < needCreated[i].seq
            BY <1>0, <2>3, QueueFacts
        <3> QED BY <2>3, <3>1, <3>2, <3>3
    <2>6. TableBehind'
        BY <2>1, <2>5 DEF ManagerOK, TableBehind
    <2>7. IsFiniteSet(db')
        BY <2>1, FS_AddElement DEF ManagerOK
    <2> QED BY <1>0, <2>1, <2>4, <2>6, <2>7 DEF GoesOn
<1>3. CASE CreateDone
    <2>1. needCreated' = Tail(needCreated) /\ UNCHANGED <<latest, phase, db>> /\ needCreated # <<>>
        BY <1>0, <1>3 DEF CreateDone, CreateCompletion, tables, Inv, HeadsStable
    <2>2. needCreated \in Seq(Row)
        BY <1>0 DEF TypeOK
    <2>3. /\ DOMAIN needCreated = 1..Len(needCreated) /\ DOMAIN needCreated' = 1..(Len(needCreated) - 1)
          /\ Len(needCreated) \in Nat
          /\ \A i \in 1..(Len(needCreated) - 1) : needCreated'[i] = needCreated[i + 1]
        BY <2>1, <2>2, TailFacts
    <2>4. \A i \in DOMAIN needCreated' : i + 1 \in DOMAIN needCreated /\ needCreated'[i] = needCreated[i + 1]
        BY <2>3
    <2>5. TableBehind'
        BY <2>1, <2>4 DEF ManagerOK, TableBehind
    <2>6. \A q \in Queued' : q \in Queued
        BY <2>4 DEF Queued
    <2> QED BY <1>0, <2>1, <2>5, <2>6 DEF ManagerOK, GoesOn
<1> QED BY <1>1, <1>2, <1>3 DEF Create

\* Every step of the manager that may run beside a call.
LEMMA BackgroundGoesOn ==
    ASSUME ManagerOK, Background
    PROVE  ManagerOK' /\ (phase = "running" => GoesOn)
<1>0. TypeOK /\ TimeInv /\ Inv /\ latest.seq \in Nat /\ latest.end \in Nat
    BY LatestNumbers DEF ManagerOK, Inv
<1>1. Next
    <2>1. (\E w \in {"create", "delete"} : TakeTask(w)) => Take
        BY DEF Take
    <2>2. \/ Start \/ AddAny \/ AddIndexTry \/ Create \/ DeleteIndex \/ Delete
          \/ \E w \in {"create", "delete"} : TakeTask(w)
        BY DEF Background
    <2> QED BY <2>1, <2>2 DEF Next, Manager
<1>2. Inv' /\ TimeInv'
    BY <1>0, <1>1, InvNext, TimeNext
<1>3. CASE AddAny
    <2>1. PICK s \in Times, e \in Times, f \in FileSeqs : AddIndex(s, e, f)
        BY <1>3 DEF AddAny
    <2>2. UNCHANGED <<phase, db, earliest, growRows>> /\ phase = "running"
        BY <2>1 DEF AddIndex, tables, workers
    <2>3. TableBehind' /\ IsFiniteSet(db') /\ GoesOn
        BY <1>0, <2>1, <2>2, AddIndexEffect, AppendGoesOn, ProlongGoesOn
    <2> QED BY <1>2, <2>3 DEF ManagerOK
<1>4. CASE Create
    BY <1>2, <1>4, SaveGoesOn DEF ManagerOK
<1>5. CASE Start
    <2>1. phase = "down" /\ needCreated' = <<>> /\ db' = db
        BY <1>5 DEF Start, tables
    <2>2. TableBehind'
        BY <2>1 DEF TableBehind
    <2> QED BY <1>2, <2>1, <2>2 DEF ManagerOK
<1>6. CASE AddIndexTry \/ DeleteIndex \/ Delete \/ \E w \in {"create", "delete"} : TakeTask(w)
    <2>1. UNCHANGED needCreated /\ db' \subseteq db
        BY <1>0, <1>6, TimeQuiet DEF Take
    <2>2. UNCHANGED <<latest, phase>>
        BY <1>6 DEF AddIndexTry, DeleteIndex, Delete, DeleteFetch, DeleteRow, DeleteDone, TakeTask, queues
    <2>3. Queued' = Queued
        BY <2>1 DEF Queued
    <2>4. IsFiniteSet(db')
        BY <2>1, FS_Subset DEF ManagerOK
    <2>5. TableBehind'
        BY <2>1 DEF ManagerOK, TableBehind
    <2> QED BY <1>0, <1>2, <2>1, <2>2, <2>3, <2>4, <2>5 DEF ManagerOK, GoesOn
<1> QED BY <1>3, <1>4, <1>5, <1>6 DEF Background

\* What the variables of the call are.
CallTypes ==
    /\ find \in [pc : {"idle", "db", "done"}, from : Nat, to : Nat, limit : Int, end : Nat, extends : Seq(Row)]
    /\ seen \subseteq Row
    /\ found \in Seq(Row)

\* While a call is under way the manager runs, and the indexes that were there when
\* it was made are not newer than the last one.
Remembered == find.pc # "idle" => phase = "running" /\ \A r \in seen : r.seq <= latest.seq

\* Index h was the head of the queue: every index is before it, in number and in
\* time, or does not start before it.
Splits(h) ==
    /\ h.seq <= latest.seq /\ h.start <= latest.end
    /\ \A q \in db \union Queued : /\ q.seq < h.seq => q.end <= h.start
                                   /\ q.seq >= h.seq => q.start >= h.start

\* What was taken from the queue: indexes of the range in order, of which the first
\* ends the range of the query.
Taken(c) ==
    /\ c.from < c.to /\ c.from < c.end /\ c.end <= c.to /\ c.limit # 0
    /\ \A i, j \in DOMAIN c.extends : i < j => c.extends[i].seq < c.extends[j].seq
    /\ \A i \in DOMAIN c.extends : c.extends[i].end > c.from /\ c.extends[i].start < c.to
    /\ c.limit > 0 => Len(c.extends) <= c.limit
    /\ c.extends # <<>> => c.end = c.extends[1].start

\* An index that is left to the query: no longer in the queue, and in the table
\* unless it was deleted.
Left(c, r) ==
    /\ r.start < c.end
    /\ ~HasSeq(Queued, r.seq)
    /\ r \in db \/ ~HasSeq(db, r.seq)

\* An index was taken, is behind the limit, or is left to the query.
Covered(c, r) ==
    \/ \E i \in DOMAIN c.extends : c.extends[i].seq = r.seq
    \/ Len(c.extends) = c.limit /\ \A i \in DOMAIN c.extends : c.extends[i].seq < r.seq
    \/ Left(c, r)

\* The call between the queue and the query.
Waiting ==
    find.pc = "db" =>
        /\ Taken(find)
        /\ find.extends # <<>> => Splits(find.extends[1])
        /\ \A r \in seen : Overlaps(r) /\ r.start < r.end => Covered(find, r)

\* The inductive invariant.
FindInv == ManagerOK /\ CallTypes /\ Remembered /\ Waiting /\ FindExact

\* An index that is not new was there before, under the same number.
LEMMA NotNew ==
    ASSUME ManagerOK, GoesOn, NEW seq \in Nat, seq <= latest.seq
    PROVE  /\ HasSeq(Queued', seq) => HasSeq(Queued, seq)
           /\ HasSeq(db', seq) => HasSeq(db \union Queued, seq)
           /\ HasSeq(db' \union Queued', seq) => HasSeq(db \union Queued, seq)
<1>1. latest.seq \in Nat
    BY LatestNumbers DEF ManagerOK, Inv
<1>2. ASSUME NEW q \in Queued', q.seq = seq
      PROVE  HasSeq(Queued, seq)
    <2>1. q \in Queued \/ (latest \in Queued /\ q.seq = latest.seq)
        BY <1>1, <1>2 DEF GoesOn
    <2> QED BY <1>2, <2>1 DEF HasSeq
<1>3. HasSeq(Queued', seq) => HasSeq(Queued, seq)
    BY <1>2 DEF HasSeq
<1>4. HasSeq(db', seq) => HasSeq(db \union Queued, seq)
    BY DEF HasSeq, GoesOn
<1>5. HasSeq(Queued, seq) => HasSeq(db \union Queued, seq)
    BY DEF HasSeq
<1>6. HasSeq(db' \union Queued', seq) => HasSeq(db', seq) \/ HasSeq(Queued', seq)
    BY DEF HasSeq
<1> QED BY <1>3, <1>4, <1>5, <1>6

\* The manager goes on, and the head that was taken still splits the indexes.
LEMMA SplitsOn ==
    ASSUME ManagerOK, GoesOn, NEW h \in Row, Splits(h), ManagerOK'
    PROVE  Splits(h)'
<1>1. /\ latest.seq \in Nat /\ latest.end \in Nat /\ latest'.seq \in Nat /\ latest'.end \in Nat
      /\ latest.start \in Nat
    <2>1. latest \in Row \union {NoRow} /\ latest' \in Row \union {NoRow}
        BY DEF ManagerOK, Inv, TypeOK
    <2> QED BY <2>1, IndexNumbers
<1>2. h.seq \in Nat /\ h.start \in Nat
    BY RowNumbers
<1>3. h.seq <= latest'.seq /\ h.start <= latest'.end
    BY <1>1, <1>2 DEF GoesOn, Splits
<1>4. ASSUME NEW q \in db' \union Queued'
      PROVE  (q.seq < h.seq => q.end <= h.start) /\ (q.seq >= h.seq => q.start >= h.start)
    <2>0. q.seq \in Nat /\ q.start \in Nat
        <3>1. TypeOK'
            BY DEF ManagerOK, Inv
        <3>2. db' \subseteq Row /\ needCreated' \in Seq(Row)
            BY <3>1 DEF TypeOK
        <3>3. Queued' \subseteq Row
            BY <3>2 DEF Queued
        <3>4. q \in Row
            BY <1>4, <3>2, <3>3
        <3> QED BY <3>4, RowNumbers
    <2>1. CASE q \in db \union Queued
        BY <2>1 DEF Splits
    <2>2. CASE q.seq > latest.seq /\ q.start >= latest.end
        BY <1>1, <1>2, <2>0, <2>2 DEF Splits
    <2>3. CASE latest \in Queued /\ q.seq = latest.seq /\ q.start = latest.start
        <3>1. latest.seq >= h.seq => latest.start >= h.start
            BY <2>3 DEF Splits
        <3>2. latest.seq >= h.seq
            BY <1>1, <1>2 DEF Splits
        <3> QED BY <1>1, <1>2, <2>3, <3>1, <3>2
    <2> QED BY <1>4, <2>1, <2>2, <2>3 DEF GoesOn
<1> QED BY <1>3, <1>4 DEF Splits

\* The manager goes on, and what is left to the query stays so.
LEMMA LeftOn ==
    ASSUME ManagerOK, GoesOn, NEW c, NEW r \in Row, r.seq <= latest.seq, Left(c, r)
    PROVE  Left(c, r)'
<1>1. r.seq \in Nat
    BY RowNumbers
<1>2. ~HasSeq(Queued', r.seq)
    BY <1>1, NotNew DEF Left
<1>3. ASSUME r \notin db', HasSeq(db', r.seq)
      PROVE  FALSE
    <2>1. PICK q \in db' : q.seq = r.seq
        BY <1>3 DEF HasSeq
    <2>2. q \notin Queued
        BY <2>1 DEF Left, HasSeq
    <2>3. q \in db
        BY <2>1, <2>2 DEF GoesOn
    <2>4. r \in db
        BY <2>1, <2>3 DEF Left, HasSeq
    <2>5. q = r
        BY <2>1, <2>3, <2>4 DEF ManagerOK, TimeInv, Timeline, Known, Saved
    <2> QED BY <1>3, <2>5
<1> QED BY <1>2, <1>3 DEF Left

\* The manager goes on beside a call.
LEMMA BackgroundKeeps ==
    ASSUME FindInv, Background
    PROVE  FindInv'
<1>1. ManagerOK' /\ (phase = "running" => GoesOn)
    BY BackgroundGoesOn DEF FindInv
<1>2. UNCHANGED <<find, seen, found>>
    BY DEF Background, findVars
<1>3. CallTypes'
    BY <1>2 DEF FindInv, CallTypes
<1>4. CASE find.pc = "idle"
    BY <1>1, <1>2, <1>3, <1>4 DEF FindInv, Remembered, Waiting, FindExact
<1>5. CASE find.pc # "idle"
    <2>1. GoesOn /\ phase' = "running" /\ ManagerOK
        BY <1>1, <1>5 DEF FindInv, Remembered, GoesOn
    <2>2. \A r \in seen : r \in Row /\ r.seq \in Nat /\ r.seq <= latest.seq
        BY <1>5, RowNumbers DEF FindInv, Remembered, CallTypes
    <2>3. latest.seq \in Nat /\ latest'.seq \in Nat /\ latest'.seq >= latest.seq
        <3>1. latest \in Row \union {NoRow} /\ latest' \in Row \union {NoRow}
            BY <1>1, <2>1 DEF ManagerOK, Inv, TypeOK
        <3> QED BY <2>1, <3>1, IndexNumbers DEF GoesOn
    <2>4. Remembered'
        BY <1>2, <2>1, <2>2, <2>3 DEF Remembered
    <2>5. \A r : Overlaps(r)' <=> Overlaps(r)
        BY <1>2 DEF Overlaps
    <2>6. Waiting'
        <3> SUFFICES ASSUME find.pc = "db"
                     PROVE  /\ Taken(find')
                            /\ find'.extends # <<>> => Splits(find.extends[1])'
                            /\ \A r \in seen : Overlaps(r) /\ r.start < r.end => Covered(find, r)'
            BY <1>2 DEF Waiting, Overlaps
        <3>1. Taken(find)
            BY DEF FindInv, Waiting
        <3>2. ASSUME find.extends # <<>> PROVE Splits(find.extends[1])'
            <4>1. find.extends[1] \in Row
                BY <3>2 DEF FindInv, CallTypes
            <4>2. Splits(find.extends[1])
                BY <3>2 DEF FindInv, Waiting
            <4> QED BY <1>1, <2>1, <4>1, <4>2, <1>2, SplitsOn
        <3>3. ASSUME NEW r \in seen, Overlaps(r), r.start < r.end PROVE Covered(find, r)'
            <4>1. Covered(find, r)
                BY <3>3 DEF FindInv, Waiting
            <4>2. Left(find, r) => Left(find, r)'
                BY <1>2, <2>1, <2>2, LeftOn
            <4> QED BY <1>2, <4>1, <4>2 DEF Covered
        <3> QED BY <1>2, <3>1, <3>2, <3>3
    <2>7. FindExact'
        <3>1. \A r \in seen : HasSeq(db' \union Queued', r.seq) => HasSeq(db \union Queued, r.seq)
            BY <2>1, <2>2, NotNew
        <3> QED BY <1>2, <2>5, <3>1 DEF FindInv, FindExact
    <2> QED BY <1>1, <1>3, <2>4, <2>6, <2>7 DEF FindInv
<1> QED BY <1>4, <1>5

\* What a call record is.
Calls == [pc : {"idle", "db", "done"}, from : Nat, to : Nat, limit : Int, end : Nat, extends : Seq(Row)]

\* An index of positive length in the range of call c.
Asked(c, r) == c.from < c.to /\ r.end > c.from /\ r.start < c.to /\ r.start < r.end

\* Call c, made when the indexes were S, has something to ask the database.
Asks(c, S) ==
    /\ Taken(c)
    /\ c.extends # <<>> => Splits(c.extends[1])
    /\ \A r \in S : Asked(c, r) => Covered(c, r)

\* Index r is among the answers, or behind the limit.
Finds(c, fd, r) ==
    \/ \E i \in DOMAIN fd : fd[i].seq = r.seq
    \/ Len(fd) = c.limit /\ \A i \in DOMAIN fd : fd[i].seq < r.seq

\* FindExact of the answer fd to call c.
Satisfies(c, S, fd) ==
    /\ \A i \in DOMAIN fd : c.from < c.to /\ fd[i].end > c.from /\ fd[i].start < c.to
    /\ \A i, j \in DOMAIN fd : i < j => fd[i].seq < fd[j].seq
    /\ c.limit >= 0 => Len(fd) <= c.limit
    /\ c.limit # 0 => \A r \in S : HasSeq(db \union Queued, r.seq) /\ Asked(c, r) => Finds(c, fd, r)

\* The manager stands still while the call takes a step.
LEMMA StandsStill ==
    ASSUME ManagerOK, UNCHANGED vars
    PROVE  ManagerOK' /\ UNCHANGED <<phase, db, needCreated, latest>> /\ Queued' = Queued
<1>1. UNCHANGED <<phase, db, needCreated, latest>>
    BY DEF vars, tables, queues
<1>2. Inv' /\ TimeInv'
    BY InvNext, TimeNext DEF ManagerOK
<1>3. TableBehind' /\ Queued' = Queued
    BY <1>1 DEF ManagerOK, TableBehind, Queued
<1> QED BY <1>1, <1>2, <1>3 DEF ManagerOK

\* A step of the call.
LEMMA CallStep ==
    ASSUME ManagerOK, UNCHANGED vars, phase = "running",
           NEW c \in Calls, NEW S \in SUBSET Row, NEW fd \in Seq(Row),
           find' = c, seen' = S, found' = fd,
           \A r \in S : r.seq <= latest.seq,
           c.pc = "db" => Asks(c, S),
           c.pc = "done" => Satisfies(c, S, fd)
    PROVE  FindInv'
<1>1. ManagerOK' /\ UNCHANGED <<phase, db, needCreated, latest>> /\ Queued' = Queued
    BY StandsStill
<1>2. CallTypes'
    BY DEF CallTypes, Calls
<1>3. Remembered'
    BY <1>1 DEF Remembered
<1>4. \A r : Overlaps(r)' /\ r.start < r.end <=> Asked(c, r)
    BY DEF Overlaps, Asked
<1>5. Waiting'
    <2> SUFFICES ASSUME c.pc = "db"
                 PROVE  /\ Taken(c)
                        /\ c.extends # <<>> => Splits(c.extends[1])'
                        /\ \A r \in S : Overlaps(r)' /\ r.start < r.end => Covered(c, r)'
        BY DEF Waiting
    <2>1. Asks(c, S)
        OBVIOUS
    <2>2. c.extends # <<>> => Splits(c.extends[1])'
        BY <1>1, <2>1 DEF Asks, Splits
    <2>3. \A r \in S : Asked(c, r) => Covered(c, r)'
        BY <1>1, <2>1 DEF Asks, Covered, Left
    <2> QED BY <1>4, <2>1, <2>2, <2>3 DEF Asks
<1>6. FindExact'
    <2> SUFFICES ASSUME c.pc = "done"
                 PROVE  /\ \A i \in DOMAIN fd : Overlaps(fd[i])'
                        /\ \A i, j \in DOMAIN fd : i < j => fd[i].seq < fd[j].seq
                        /\ c.limit >= 0 => Len(fd) <= c.limit
                        /\ c.limit # 0 =>
                             \A r \in S : (HasSeq(db \union Queued, r.seq) /\ Overlaps(r)' /\ r.start < r.end)
                                => \/ \E i \in DOMAIN fd : fd[i].seq = r.seq
                                   \/ Len(fd) = c.limit /\ \A i \in DOMAIN fd : fd[i].seq < r.seq
        BY <1>1 DEF FindExact, Overlaps
    <2>1. Satisfies(c, S, fd)
        OBVIOUS
    <2>2. \A i \in DOMAIN fd : Overlaps(fd[i])'
        BY <2>1 DEF Satisfies, Overlaps
    <2> QED BY <1>4, <2>1, <2>2 DEF Satisfies, Finds
<1> QED BY <1>1, <1>2, <1>3, <1>5, <1>6 DEF FindInv

\* The head of the queue, and where the other indexes are.
LEMMA HeadFacts ==
    ASSUME ManagerOK, phase = "running", needCreated # <<>>
    PROVE  LET h == needCreated[1] IN
           /\ Head(needCreated) = h /\ 1 \in DOMAIN needCreated
           /\ h \in Row /\ h \in Queued /\ h.seq \in Nat /\ h.start \in Nat /\ h.end \in Nat
           /\ \A i \in DOMAIN needCreated : needCreated[i].seq >= h.seq /\ needCreated[i].start >= h.start
           /\ \A r \in db : r \in Queued \/ (r.seq < h.seq /\ r.end <= h.start)
           /\ Splits(h)
<1> DEFINE h == needCreated[1]
<1>0. TypeOK /\ TimeInv /\ needCreated \in Seq(Row) /\ db \subseteq Row
    BY DEF ManagerOK, Inv, TypeOK
<1>1. Head(needCreated) = h /\ 1 \in DOMAIN needCreated
    BY <1>0, TailFacts
<1>2. /\ h \in Row /\ h \in Queued /\ h.seq \in Nat /\ h.start \in Nat /\ h.end \in Nat
      /\ h.start <= h.end
    BY <1>0, <1>1, QueueFacts
<1>3. ASSUME NEW i \in DOMAIN needCreated
      PROVE  needCreated[i].seq >= h.seq /\ needCreated[i].start >= h.start
    <2>1. (i = 1 \/ 1 < i) /\ needCreated[i].seq \in Nat /\ needCreated[i].start \in Nat
        BY <1>0, QueueFacts
    <2>2. 1 < i => h.seq < needCreated[i].seq /\ h.end <= needCreated[i].start
        BY <1>0, <1>1, QueueFacts
    <2> QED BY <1>2, <2>1, <2>2
<1>4. db \union Queued \subseteq Known /\ Timeline(Known)
    BY <1>0 DEF Known, Saved, TimeInv
<1>5. ASSUME NEW r \in db
      PROVE  r \in Queued \/ (r.seq < h.seq /\ r.end <= h.start)
    <2>1. r.seq \in Nat /\ r.seq <= h.seq
        BY <1>0, <1>1, RowNumbers DEF ManagerOK, TableBehind
    <2>2. CASE r.seq = h.seq
        BY <1>2, <1>4, <2>2 DEF Timeline
    <2>3. CASE r.seq < h.seq
        BY <1>2, <1>4, <2>3 DEF Timeline
    <2> QED BY <1>2, <2>1, <2>2, <2>3
<1>6. Splits(h)
    <2>1. h.seq <= latest.seq /\ h.end <= latest.end /\ latest.end \in Nat
        BY <1>0, <1>2, <1>4, LatestNumbers DEF TimeInv, LatestIsLast
    <2>2. ASSUME NEW q \in db \union Queued
          PROVE  (q.seq < h.seq => q.end <= h.start) /\ (q.seq >= h.seq => q.start >= h.start)
        <3>1. q.seq < h.seq => q.end <= h.start
            BY <1>2, <1>4 DEF Timeline
        <3>2. CASE q \in Queued
            BY <1>3, <3>1, <3>2 DEF Queued
        <3>3. CASE q \in db /\ q \notin Queued
            <4>1. q.seq < h.seq /\ q.seq \in Nat
                BY <1>0, <1>5, <3>3, RowNumbers
            <4> QED BY <1>2, <3>1, <4>1
        <3> QED BY <3>2, <3>3
    <2>3. h.start <= latest.end
        BY <1>2, <2>1
    <2> HIDE DEF h
    <2> QED BY <2>1, <2>2, <2>3 DEF Splits
<1> QED BY <1>1, <1>2, <1>3, <1>5, <1>6

\* How much of n indexes a limit leaves.
LEMMA CutFacts ==
    ASSUME NEW n \in Nat, NEW l \in Int, l # 0
    PROVE  /\ Cut(n, l) \in 0..n
           /\ l > 0 => Cut(n, l) <= l
           /\ Cut(n, l) < n => Cut(n, l) = l /\ l > 0
           /\ n > 0 => Cut(n, l) > 0
    BY DEF Cut, Least

\* A part of a sequence.
LEMMA SubSeqFacts ==
      ASSUME NEW S, NEW q \in Seq(S), NEW a \in Nat, NEW m \in Nat, a + m <= Len(q)
      PROVE  /\ SubSeq(q, a + 1, a + m) \in Seq(S)
             /\ Len(SubSeq(q, a + 1, a + m)) = m
             /\ DOMAIN SubSeq(q, a + 1, a + m) = 1..m
             /\ \A k \in 1..m : SubSeq(q, a + 1, a + m)[k] = q[a + k]
<1> DEFINE x == a + 1
             y == a + m
             s == SubSeq(q, x, y)
<1>1. x \in Int /\ y \in Int /\ x >= 1 /\ y <= Len(q) /\ y - x + 1 = m
    OBVIOUS
<1>2. \A i \in x..y : i \in 1..Len(q)
    BY <1>1
<1>3. \A i \in x..y : q[i] \in S
    BY <1>2
<1>4. s \in Seq(S)
    BY <1>1, <1>2, <1>3
<1>5. Len(s) = m
    BY <1>1
<1>6. \A k \in 1..m : s[k] = q[a + k]
    <2> SUFFICES ASSUME NEW k \in 1..m PROVE s[k] = q[a + k]
      OBVIOUS
    <2>1. k \in 1..(y - x + 1) /\ x + k - 1 = a + k
      BY <1>1
    <2> HIDE DEF x, y
    <2>2. SubSeq(q, x, y)[k] = q[x + k - 1]
      BY <1>1, <2>1
    <2> QED BY <2>1, <2>2
<1> QED BY <1>4, <1>5, <1>6

\* The range is all in the queue.
LEMMA QueueSatisfies ==
    ASSUME ManagerOK, phase = "running", needCreated # <<>>,
           NEW c, c.from \in Nat, c.to \in Nat, c.limit \in Int, c.limit # 0, c.from < c.to,
           c.from >= Head(needCreated).start,
           NEW si, si = EndingBy(c.from), NEW ei, ei = StartingBefore(c.to),
           NEW fd, fd = SubSeq(needCreated, si + 1, si + Cut(ei - si, c.limit))
    PROVE  fd \in Seq(Row) /\ Satisfies(c, db \union Queued, fd)
<1> DEFINE n == Len(needCreated)
           m == Cut(ei - si, c.limit)
           h == needCreated[1]
<1>0. TypeOK /\ TimeInv /\ needCreated \in Seq(Row)
    BY DEF ManagerOK, Inv, TypeOK
<1>1. n \in Nat /\ DOMAIN needCreated = 1..n
    BY <1>0, QueueFacts
<1>2. /\ ei \in 0..n /\ \A i \in 1..n : needCreated[i].start < c.to <=> i <= ei
      /\ si \in 0..n /\ \A i \in 1..n : needCreated[i].end <= c.from <=> i <= si
    BY <1>0, <1>1, SearchFacts
<1>3. \A i \in 1..n : /\ needCreated[i].seq \in Nat /\ needCreated[i].start \in Nat /\ needCreated[i].end \in Nat
                      /\ needCreated[i].start <= needCreated[i].end
    BY <1>0, <1>1, QueueFacts
<1>4. si <= ei
    <2>1. CASE si = 0
        BY <1>2, <2>1
    <2>2. CASE si # 0
        <3>1. si \in 1..n
            BY <1>1, <1>2, <2>2
        <3>2. needCreated[si].end <= c.from
            BY <1>2, <3>1
        <3>3. needCreated[si].start < c.to
            BY <1>3, <3>1, <3>2
        <3> QED BY <1>2, <3>1, <3>3
    <2> QED BY <2>1, <2>2
<1>5. ei - si \in Nat
    BY <1>2, <1>4
<1>6. m \in 0..(ei - si) /\ (c.limit > 0 => m <= c.limit) /\ (m < ei - si => m = c.limit /\ c.limit > 0)
    BY <1>5, CutFacts
<1> HIDE DEF m
<1>7. fd = SubSeq(needCreated, si + 1, si + m)
    BY DEF m
<1>8. fd \in Seq(Row) /\ Len(fd) = m /\ DOMAIN fd = 1..m /\ \A k \in 1..m : fd[k] = needCreated[si + k]
    <2>1. si \in Nat /\ m \in Nat /\ si + m <= Len(needCreated)
        BY <1>1, <1>2, <1>6
    <2> QED BY ONLY <1>0, <1>7, <2>1, SubSeqFacts
<1>9. \A k \in 1..m : si + k \in 1..n /\ si + k <= ei /\ ~(si + k <= si)
    BY <1>1, <1>2, <1>6
<1>10. \A k \in DOMAIN fd : fd[k].end > c.from /\ fd[k].start < c.to
    <2> SUFFICES ASSUME NEW k \in 1..m PROVE fd[k].end > c.from /\ fd[k].start < c.to
        BY <1>8
    <2>1. needCreated[si + k].start < c.to /\ ~(needCreated[si + k].end <= c.from)
        BY <1>2, <1>9
    <2>2. needCreated[si + k].start \in Nat /\ needCreated[si + k].end \in Nat /\ fd[k] = needCreated[si + k]
        BY <1>3, <1>8, <1>9
    <2>3. needCreated[si + k].end > c.from
        BY <2>1, <2>2
    <2> QED BY <2>1, <2>2, <2>3
<1>11. \A i, j \in DOMAIN fd : i < j => fd[i].seq < fd[j].seq
    <2> SUFFICES ASSUME NEW i \in 1..m, NEW j \in 1..m, i < j PROVE fd[i].seq < fd[j].seq
        BY <1>8
    <2>1. si + i < si + j
        BY <1>2
    <2>2. needCreated[si + i].seq < needCreated[si + j].seq
        BY <1>0, <1>1, <1>9, <2>1, QueueFacts
    <2> QED BY <1>8, <2>2
<1>12. ASSUME NEW r \in db \union Queued, Asked(c, r)
       PROVE  Finds(c, fd, r)
    <2>1. r \in Queued
        <3>1. h.start <= c.from /\ h.start \in Nat
            BY HeadFacts
        <3>2. r \in Queued \/ (r \in db /\ r.end <= h.start)
            BY <1>12, HeadFacts
        <3>3. r.end \in Nat /\ r.end > c.from
            BY <1>12, RowNumbers, <1>0 DEF Asked, TypeOK, Queued
        <3> QED BY <3>1, <3>2, <3>3
    <2>2. PICK i \in 1..n : r = needCreated[i]
        BY <1>1, <2>1 DEF Queued
    <2>3. i <= ei /\ ~(i <= si)
        BY <1>2, <1>3, <1>12, <2>2 DEF Asked
    <2>4. CASE i <= si + m
        <3>1. i - si \in 1..m /\ si + (i - si) = i
            BY <1>2, <1>6, <2>3, <2>4
        <3>2. fd[i - si] = r /\ i - si \in DOMAIN fd
            BY <1>8, <2>2, <3>1
        <3> QED BY <3>2 DEF Finds
    <2>5. CASE i > si + m
        <3>1. m < ei - si
            BY <1>2, <1>6, <2>3, <2>5
        <3>2. Len(fd) = c.limit
            BY <1>6, <1>8, <3>1
        <3>3. ASSUME NEW k \in DOMAIN fd PROVE fd[k].seq < r.seq
            <4>0. k \in 1..m
                BY <1>8
            <4>1. k \in 1..m /\ si + k < i
                BY <1>2, <1>6, <2>5, <4>0
            <4>2. needCreated[si + k].seq < needCreated[i].seq
                BY <1>0, <1>1, <1>9, <4>1, QueueFacts
            <4> QED BY <1>8, <2>2, <4>1, <4>2
        <3> QED BY <3>2, <3>3 DEF Finds
    <2> QED BY <1>2, <1>6, <2>4, <2>5
<1>13. c.limit >= 0 => Len(fd) <= c.limit
    BY <1>6, <1>8
<1> QED BY <1>8, <1>10, <1>11, <1>12, <1>13 DEF Satisfies

\* Nothing of the range is in the queue.
LEMMA NothingTaken ==
    ASSUME ManagerOK, phase = "running",
           NEW c, c.from \in Nat, c.to \in Nat, c.limit \in Int, c.limit # 0, c.from < c.to,
           c.end = c.to, c.extends = <<>>,
           needCreated = <<>> \/ c.to <= Head(needCreated).start
    PROVE  Asks(c, db \union Queued)
<1>1. Taken(c)
    BY DEF Taken
<1>2. ASSUME NEW r \in db \union Queued, Asked(c, r)
      PROVE  Covered(c, r)
    <2>0. db \subseteq Row /\ needCreated \in Seq(Row)
        BY DEF ManagerOK, Inv, TypeOK
    <2>1. r.seq \in Nat /\ r.start \in Nat /\ r.start < c.to
        BY <1>2, <2>0, RowNumbers DEF Asked, Queued
    <2>2. r \in db /\ ~HasSeq(Queued, r.seq)
        <3>1. CASE needCreated = <<>>
            <4>1. Queued = {}
                BY <3>1 DEF Queued
            <4> QED BY <1>2, <4>1 DEF HasSeq
        <3>2. CASE needCreated # <<>>
            <4> DEFINE h == needCreated[1]
            <4>1. /\ c.to <= h.start /\ h.start \in Nat /\ h.seq \in Nat
                  /\ \A i \in DOMAIN needCreated : needCreated[i].seq >= h.seq /\ needCreated[i].start >= h.start
                  /\ \A k \in db : k \in Queued \/ k.seq < h.seq
                BY <3>2, HeadFacts
            <4>2. \A q \in Queued : q.seq >= h.seq /\ q.start >= h.start
                BY <4>1 DEF Queued
            <4> HIDE DEF h
            <4>3. r \notin Queued
                BY <2>1, <4>1, <4>2
            <4>4. r \in db /\ r.seq < h.seq
                BY <1>2, <4>1, <4>3
            <4>5. \A q \in Queued : q.seq # r.seq
                BY <2>1, <4>1, <4>2, <4>4
            <4> QED BY <4>4, <4>5 DEF HasSeq
        <3> QED BY <3>1, <3>2
    <2> QED BY <2>1, <2>2 DEF Covered, Left
<1> QED BY <1>1, <1>2 DEF Asks

\* What is taken from the front of the queue is a sequence of rows.
LEMMA TakenSeq ==
    ASSUME ManagerOK, NEW t \in Nat, NEW l \in Int, l # 0
    PROVE  SubSeq(needCreated, 1, Cut(StartingBefore(t), l)) \in Seq(Row)
<1> DEFINE m == Cut(StartingBefore(t), l)
<1>0. TypeOK /\ TimeInv /\ needCreated \in Seq(Row)
    BY DEF ManagerOK, Inv, TypeOK
<1>1. StartingBefore(t) \in 0..Len(needCreated) /\ Len(needCreated) \in Nat
    BY <1>0, SearchFacts, QueueFacts
<1>2. m \in Nat /\ 0 + m <= Len(needCreated)
    BY <1>1, CutFacts
<1> HIDE DEF m
<1>3. 0 + 1 = 1 /\ 0 + m = m /\ 0 \in Nat
    BY <1>2
<1>4. SubSeq(needCreated, 0 + 1, 0 + m) \in Seq(Row)
    BY ONLY <1>0, <1>2, <1>3, SubSeqFacts
<1> QED BY <1>3, <1>4 DEF m

\* The range ends in the queue and begins before it.
LEMMA SomeTaken ==
    ASSUME ManagerOK, phase = "running", needCreated # <<>>,
           NEW c, c.from \in Nat, c.to \in Nat, c.limit \in Int, c.limit # 0, c.from < c.to,
           c.end = Head(needCreated).start,
           c.from < Head(needCreated).start, Head(needCreated).start < c.to,
           NEW ei, ei = StartingBefore(c.to),
           c.extends = SubSeq(needCreated, 1, Cut(ei, c.limit))
    PROVE  c.extends \in Seq(Row) /\ Asks(c, db \union Queued)
<1> DEFINE n == Len(needCreated)
           m == Cut(ei, c.limit)
           h == needCreated[1]
           x == c.extends
<1>0. TypeOK /\ TimeInv /\ needCreated \in Seq(Row) /\ db \subseteq Row
    BY DEF ManagerOK, Inv, TypeOK
<1>1. n \in Nat /\ DOMAIN needCreated = 1..n
    BY <1>0, QueueFacts
<1>2. /\ ei \in 0..n /\ \A i \in 1..n : needCreated[i].start < c.to <=> i <= ei
    BY <1>0, <1>1, SearchFacts
<1>3. \A i \in 1..n : /\ needCreated[i].seq \in Nat /\ needCreated[i].start \in Nat /\ needCreated[i].end \in Nat
                      /\ needCreated[i].start <= needCreated[i].end
    BY <1>0, <1>1, QueueFacts
<1>4. /\ Head(needCreated) = h /\ 1 \in 1..n /\ h.seq \in Nat /\ h.start \in Nat
      /\ \A i \in 1..n : needCreated[i].seq >= h.seq /\ needCreated[i].start >= h.start
      /\ \A r \in db : r \in Queued \/ (r.seq < h.seq /\ r.end <= h.start)
      /\ Splits(h)
    BY <1>1, HeadFacts
<1>5. c.end = h.start /\ c.from < h.start /\ h.start < c.to
    BY <1>4
<1>6. ei > 0 /\ ei \in Nat
    BY <1>2, <1>4, <1>5
<1>7. m \in 0..ei /\ (c.limit > 0 => m <= c.limit) /\ (m < ei => m = c.limit /\ c.limit > 0) /\ m > 0
    BY <1>6, CutFacts
<1> HIDE DEF m, h
<1>8. x = SubSeq(needCreated, 0 + 1, 0 + m)
    <2>1. 0 + 1 = 1 /\ 0 + m = m
        BY <1>7
    <2> QED BY <2>1 DEF m
<1>9. x \in Seq(Row) /\ Len(x) = m /\ DOMAIN x = 1..m /\ \A k \in 1..m : x[k] = needCreated[k]
    <2>1. 0 \in Nat /\ m \in Nat /\ 0 + m <= Len(needCreated) /\ \A k \in 1..m : 0 + k = k
        BY <1>1, <1>2, <1>7
    <2>2. /\ x \in Seq(Row) /\ Len(x) = m /\ DOMAIN x = 1..m
          /\ \A k \in 1..m : x[k] = needCreated[0 + k]
        BY ONLY <1>0, <1>8, <2>1, SubSeqFacts
    <2> QED BY <2>1, <2>2
<1> HIDE DEF x
<1>10. \A k \in 1..m : k \in 1..n /\ k <= ei
    BY <1>1, <1>2, <1>7
<1>11. \A i, j \in 1..m : i < j => x[i].seq < x[j].seq
    BY <1>0, <1>1, <1>9, <1>10, QueueFacts
<1>12. ASSUME NEW i \in 1..m PROVE x[i].end > c.from /\ x[i].start < c.to
    <2>1. /\ needCreated[i].start < c.to /\ needCreated[i].start >= h.start
          /\ needCreated[i].start <= needCreated[i].end /\ needCreated[i].start \in Nat /\ needCreated[i].end \in Nat
          /\ x[i] = needCreated[i]
        BY <1>2, <1>3, <1>4, <1>9, <1>10
    <2>2. needCreated[i].end > c.from
        BY <1>4, <1>5, <2>1
    <2> QED BY <2>1, <2>2
<1>13. x[1] = h /\ 1 \in 1..m
    BY <1>7, <1>9 DEF h
<1>14. Taken(c)
    <2>1. c.end <= c.to
        BY <1>4, <1>5
    <2>2. /\ \A i, j \in DOMAIN c.extends : i < j => c.extends[i].seq < c.extends[j].seq
          /\ \A i \in DOMAIN c.extends : c.extends[i].end > c.from /\ c.extends[i].start < c.to
          /\ c.limit > 0 => Len(c.extends) <= c.limit
          /\ c.end = c.extends[1].start
        BY <1>5, <1>7, <1>9, <1>11, <1>12, <1>13 DEF x
    <2> QED BY <1>5, <2>1, <2>2 DEF Taken
<1>15. ASSUME NEW r \in db \union Queued, Asked(c, r)
       PROVE  Covered(c, r)
    <2>1. CASE r \in Queued
        <3>1. PICK i \in 1..n : r = needCreated[i]
            BY <1>1, <2>1 DEF Queued
        <3>2. i <= ei
            BY <1>2, <1>15, <3>1 DEF Asked
        <3>3. CASE i <= m
            <4>1. i \in DOMAIN x /\ x[i] = r
                BY <1>9, <3>1, <3>3
            <4> QED BY <4>1 DEF Covered, x
        <3>4. CASE i > m
            <4>1. m < ei
                BY <1>2, <1>7, <3>2, <3>4
            <4>2. Len(x) = c.limit
                BY <1>7, <1>9, <4>1
            <4>3. ASSUME NEW k \in DOMAIN x PROVE x[k].seq < r.seq
                <5>0. k \in 1..m
                    BY <1>9
                <5>1. k \in 1..n /\ k < i
                    BY <1>7, <1>10, <3>4, <5>0
                <5>2. needCreated[k].seq < needCreated[i].seq
                    BY <1>0, <1>1, <5>1, QueueFacts
                <5> QED BY <1>9, <3>1, <5>0, <5>2
            <4> QED BY <4>2, <4>3 DEF Covered, x
        <3> QED BY <1>7, <3>3, <3>4
    <2>2. CASE r \notin Queued
        <3>1. r \in db /\ r.seq < h.seq /\ r.end <= h.start
            BY <1>4, <1>15, <2>2
        <3>2. r.seq \in Nat /\ r.start \in Nat /\ r.end \in Nat /\ r.start < r.end
            BY <1>0, <1>15, <3>1, RowNumbers DEF Asked
        <3>3. r.start < c.end
            BY <1>4, <1>5, <3>1, <3>2
        <3>4. \A q \in Queued : q.seq # r.seq
            <4> SUFFICES ASSUME NEW i \in 1..n PROVE needCreated[i].seq # r.seq
                BY <1>1 DEF Queued
            <4> QED BY <1>3, <1>4, <3>1, <3>2
        <3> QED BY <3>1, <3>3, <3>4 DEF Covered, Left, HasSeq
    <2> QED BY <2>1, <2>2
<1>16. c.extends # <<>> => Splits(c.extends[1])
    BY <1>4, <1>13 DEF x
<1> QED BY <1>9, <1>14, <1>15, <1>16 DEF Asks, x

\* A new call, and a call that takes indexes of the queue.
CallFor(f, t, l)  == [NoFind EXCEPT !.from = f, !.to = t, !.limit = l, !.end = t]
Taking(c, e, x)   == [c EXCEPT !.pc = "db", !.end = e, !.extends = x]

\* A new call has nothing yet.
LEMMA NewCall ==
    ASSUME NEW f \in Nat, NEW t \in Nat, NEW l \in Int, NEW c, c = CallFor(f, t, l)
    PROVE  /\ c \in Calls
           /\ c.pc = "idle" /\ c.from = f /\ c.to = t /\ c.limit = l /\ c.end = t /\ c.extends = <<>>
<1>1. NoFind \in Calls
    BY DEF NoFind, Calls
<1>2. c \in Calls
    BY <1>1 DEF Calls, CallFor
<1>3. c.pc = "idle" /\ c.from = f /\ c.to = t /\ c.limit = l /\ c.end = t /\ c.extends = <<>>
    BY DEF NoFind, CallFor
<1> QED BY <1>2, <1>3

\* A call that goes on.
LEMMA NextCall ==
    ASSUME NEW c \in Calls, NEW q \in {"idle", "db", "done"}, NEW d, d = [c EXCEPT !.pc = q]
    PROVE  /\ d \in Calls /\ d.pc = q /\ d.from = c.from /\ d.to = c.to /\ d.limit = c.limit
           /\ d.end = c.end /\ d.extends = c.extends
<1>1. d \in Calls
    BY DEF Calls
<1> QED BY <1>1 DEF Calls

\* A call that has taken indexes of the queue.
LEMMA TakingCall ==
    ASSUME NEW c \in Calls, NEW e \in Nat, NEW x \in Seq(Row), NEW d, d = Taking(c, e, x)
    PROVE  /\ d \in Calls /\ d.pc = "db" /\ d.from = c.from /\ d.to = c.to /\ d.limit = c.limit
           /\ d.end = e /\ d.extends = x
<1>1. d \in Calls
    BY DEF Calls, Taking
<1> QED BY <1>1 DEF Calls, Taking

\* FindIndexes looks into the queue.
LEMMA FindCacheKeeps ==
    ASSUME FindInv, NEW f \in Points, NEW t \in Points, NEW l \in Limits, FindCache(f, t, l)
    PROVE  FindInv'
<1> DEFINE call == [NoFind EXCEPT !.from = f, !.to = t, !.limit = l, !.end = t]
           S == db \union Queued
           ei == StartingBefore(t)
           si == EndingBy(f)
<1>1. f \in Nat /\ t \in Nat /\ l \in Int
    BY QueryAssumption
<1>2. ManagerOK /\ phase = "running" /\ seen' = S /\ UNCHANGED vars
    BY DEF FindInv, FindCache
<1>3. S \in SUBSET Row /\ \A r \in S : r.seq <= latest.seq
    <2>1. db \subseteq Row /\ needCreated \in Seq(Row) /\ LatestIsLast /\ S \subseteq Known
        BY <1>2 DEF ManagerOK, Inv, TypeOK, TimeInv, Known, Saved
    <2>2. Queued \subseteq Row
        BY <2>1 DEF Queued
    <2> QED BY <1>2, <2>1, <2>2 DEF LatestIsLast
<1>4. <<>> \in Seq(Row)
    OBVIOUS
<1>5. /\ call \in Calls
      /\ call.from = f /\ call.to = t /\ call.limit = l /\ call.end = t /\ call.extends = <<>>
    <2>1. call = CallFor(f, t, l)
        BY DEF CallFor
    <2> HIDE DEF call
    <2> QED BY ONLY <1>1, <2>1, NewCall
<1>6. CASE f >= t \/ l = 0
    <2> DEFINE c == [call EXCEPT !.pc = "done"]
    <2>1. find' = c /\ found' = <<>>
        BY <1>6 DEF FindCache, Answer
    <2>3. c \in Calls /\ c.pc = "done" /\ c.from = f /\ c.to = t /\ c.limit = l
        <3>1. c = [call EXCEPT !.pc = "done"]
            OBVIOUS
        <3> HIDE DEF c, call
        <3> QED BY ONLY <1>5, <3>1, NextCall
    <2> HIDE DEF c
    <2>4. Satisfies(c, S, <<>>)
        BY <1>1, <1>6, <2>3 DEF Satisfies, Asked
    <2> QED BY <1>2, <1>3, <1>4, <2>1, <2>3, <2>4, CallStep
<1>7. CASE f < t /\ l # 0 /\ (needCreated = <<>> \/ t <= Head(needCreated).start)
    <2> DEFINE c == [call EXCEPT !.pc = "db"]
    <2>1. find' = c /\ found' = <<>>
        BY <1>1, <1>7 DEF FindCache
    <2>3. c \in Calls /\ c.pc = "db" /\ c.from = f /\ c.to = t /\ c.limit = l /\ c.end = t /\ c.extends = <<>>
        <3>1. c = [call EXCEPT !.pc = "db"]
            OBVIOUS
        <3> HIDE DEF c, call
        <3> QED BY ONLY <1>5, <3>1, NextCall
    <2> HIDE DEF c
    <2>4. Asks(c, S)
        BY <1>1, <1>2, <1>7, <2>3, NothingTaken
    <2> QED BY <1>2, <1>3, <1>4, <2>1, <2>3, <2>4, CallStep
<1>8. CASE f < t /\ l # 0 /\ needCreated # <<>> /\ ~(t <= Head(needCreated).start) /\ f >= Head(needCreated).start
    <2> DEFINE c == [call EXCEPT !.pc = "done"]
               fd == SubSeq(needCreated, si + 1, si + Cut(ei - si, l))
    <2>1. find' = c /\ found' = fd
        BY <1>1, <1>8 DEF FindCache, Answer
    <2>3. c \in Calls /\ c.pc = "done" /\ c.from = f /\ c.to = t /\ c.limit = l
        <3>1. c = [call EXCEPT !.pc = "done"]
            OBVIOUS
        <3> HIDE DEF c, call
        <3> QED BY ONLY <1>5, <3>1, NextCall
    <2> HIDE DEF c
    <2>4. fd \in Seq(Row) /\ Satisfies(c, S, fd)
        BY <1>1, <1>2, <1>8, <2>3, QueueSatisfies
    <2> HIDE DEF fd
    <2> QED BY <1>2, <1>3, <2>1, <2>3, <2>4, CallStep
<1>9. CASE f < t /\ l # 0 /\ needCreated # <<>> /\ ~(t <= Head(needCreated).start) /\ ~(f >= Head(needCreated).start)
    <2> DEFINE x == SubSeq(needCreated, 1, Cut(ei, l))
               e == Head(needCreated).start
               c == [call EXCEPT !.pc = "db", !.end = e, !.extends = x]
    <2>1. find' = c /\ found' = <<>>
        BY <1>1, <1>9 DEF FindCache, QueryEnd
    <2>2. e \in Nat /\ f < e /\ e < t
        <3>1. e \in Nat
            BY <1>2, <1>9, HeadFacts
        <3> QED BY <1>1, <1>9, <3>1
    <2>3. x \in Seq(Row)
        BY <1>1, <1>2, <1>9, TakenSeq
    <2>4. c \in Calls /\ c.pc = "db" /\ c.from = f /\ c.to = t /\ c.limit = l /\ c.end = e /\ c.extends = x
        <3>1. c = Taking(call, e, x)
            BY DEF Taking
        <3> HIDE DEF c, call, e, x
        <3>2. call \in Calls /\ e \in Nat
            BY <1>5, <2>2
        <3>3. /\ c \in Calls /\ c.pc = "db" /\ c.from = call.from /\ c.to = call.to
              /\ c.limit = call.limit /\ c.end = e /\ c.extends = x
            BY ONLY <2>3, <3>1, <3>2, TakingCall
        <3> QED BY ONLY <1>5, <3>3
    <2> HIDE DEF c
    <2>5. Asks(c, S)
        BY <1>1, <1>2, <1>9, <2>2, <2>4, SomeTaken
    <2> HIDE DEF x, e
    <2> QED BY <1>2, <1>3, <1>4, <2>1, <2>4, <2>5, CallStep
<1> QED BY <1>1, <1>6, <1>7, <1>8, <1>9

\* The first m of the indexes in order, for call c: they are in the sequence, and
\* every index of the sequence or behind the limit is accounted for.
FrontOf(all, c, m, fd) ==
    /\ fd \in Seq(Row) /\ m \in 0..Len(all) /\ Len(fd) = m /\ DOMAIN fd = 1..m
    /\ \A k \in 1..m : k \in DOMAIN all /\ fd[k] = all[k]
    /\ c.limit >= 0 => Len(fd) <= c.limit
    /\ \A r : (\E k \in DOMAIN all : all[k].seq = r.seq) => Finds(c, fd, r)
    /\ \A r : c.limit > 0 /\ Len(all) >= c.limit /\ (\A k \in 1..c.limit : all[k].seq < r.seq) => Finds(c, fd, r)

\* The front of all indexes of the range: what the limit leaves of them.
LEMMA FrontFinds ==
    ASSUME NEW all \in Seq(Row), \A i, j \in DOMAIN all : i < j => all[i].seq < all[j].seq,
           NEW c, c.limit \in Int, c.limit # 0,
           NEW m, m = Cut(Len(all), c.limit), NEW fd, fd = SubSeq(all, 1, m)
    PROVE  FrontOf(all, c, m, fd)
<1>1. Len(all) \in Nat /\ DOMAIN all = 1..Len(all)
    OBVIOUS
<1>2. /\ m \in 0..Len(all) /\ (c.limit > 0 => m <= c.limit)
      /\ (m < Len(all) => m = c.limit /\ c.limit > 0)
    BY <1>1, CutFacts
<1>3. fd \in Seq(Row) /\ Len(fd) = m /\ DOMAIN fd = 1..m /\ \A k \in 1..m : fd[k] = all[k]
    <2>1. 0 \in Nat /\ m \in Nat /\ 0 + m <= Len(all) /\ 0 + 1 = 1 /\ 0 + m = m /\ \A k \in 1..m : 0 + k = k
        BY <1>1, <1>2
    <2>2. fd = SubSeq(all, 0 + 1, 0 + m)
        BY <2>1
    <2>3. /\ fd \in Seq(Row) /\ Len(fd) = m /\ DOMAIN fd = 1..m
          /\ \A k \in 1..m : fd[k] = all[0 + k]
        BY ONLY all \in Seq(Row), <2>1, <2>2, SubSeqFacts
    <2> QED BY <2>1, <2>3
<1>4. \A k \in 1..m : k \in DOMAIN all
    BY <1>1, <1>2
<1>5. ASSUME NEW r, NEW k \in DOMAIN all, all[k].seq = r.seq PROVE Finds(c, fd, r)
    <2>1. CASE k <= m
        <3>1. k \in DOMAIN fd /\ fd[k].seq = r.seq
            BY <1>1, <1>2, <1>3, <1>5, <2>1
        <3> QED BY <3>1 DEF Finds
    <2>2. CASE k > m
        <3>1. m < Len(all)
            BY <1>1, <1>2, <2>2
        <3>2. Len(fd) = c.limit
            BY <1>2, <1>3, <3>1
        <3>3. ASSUME NEW i \in DOMAIN fd PROVE fd[i].seq < r.seq
            <4>1. i \in 1..m
                BY <1>3
            <4>2. i \in DOMAIN all /\ i < k /\ fd[i] = all[i]
                BY <1>1, <1>2, <1>3, <1>4, <2>2, <4>1
            <4> QED BY <1>5, <4>2
        <3> QED BY <3>2, <3>3 DEF Finds
    <2> QED BY <1>1, <1>2, <2>1, <2>2
<1>6. ASSUME NEW r, c.limit > 0, Len(all) >= c.limit, \A k \in 1..c.limit : all[k].seq < r.seq
      PROVE  Finds(c, fd, r)
    <2>1. m = c.limit
        BY <1>1, <1>2, <1>6
    <2> QED BY <1>3, <1>6, <2>1 DEF Finds
<1>7. c.limit >= 0 => Len(fd) <= c.limit
    BY <1>2, <1>3
<1> QED BY <1>2, <1>3, <1>4, <1>5, <1>6, <1>7 DEF FrontOf

\* Two sequences one after the other.
LEMMA ConcatFacts ==
    ASSUME NEW a \in Seq(Row), NEW b \in Seq(Row)
    PROVE  /\ a \o b \in Seq(Row) /\ Len(a) \in Nat /\ Len(b) \in Nat /\ Len(a \o b) = Len(a) + Len(b)
           /\ DOMAIN (a \o b) = 1..(Len(a) + Len(b))
           /\ \A i \in 1..Len(a) : (a \o b)[i] = a[i]
           /\ \A j \in 1..Len(b) : (a \o b)[Len(a) + j] = b[j]
<1>1. a \o b \in Seq(Row) /\ Len(a) \in Nat /\ Len(b) \in Nat /\ Len(a \o b) = Len(a) + Len(b)
    OBVIOUS
<1>2. \A i \in 1..Len(a) : (a \o b)[i] = a[i]
    OBVIOUS
<1>3. \A j \in 1..Len(b) : (a \o b)[Len(a) + j] = b[j]
    OBVIOUS
<1> QED BY <1>1, <1>2, <1>3

\* Two ascending sequences, the first before the second.
LEMMA ConcatAscends ==
    ASSUME NEW a \in Seq(Row), NEW b \in Seq(Row),
           \A i, j \in DOMAIN a : i < j => a[i].seq < a[j].seq,
           \A i, j \in DOMAIN b : i < j => b[i].seq < b[j].seq,
           \A i \in DOMAIN a : \A j \in DOMAIN b : a[i].seq < b[j].seq
    PROVE  \A i, j \in DOMAIN (a \o b) : i < j => (a \o b)[i].seq < (a \o b)[j].seq
<1> DEFINE s == a \o b
           n == Len(a)
           m == Len(b)
<1>1. /\ n \in Nat /\ m \in Nat /\ DOMAIN s = 1..(n + m)
      /\ \A i \in 1..n : s[i] = a[i]
      /\ \A j \in 1..m : s[n + j] = b[j]
    BY ConcatFacts
<1>2. DOMAIN a = 1..n /\ DOMAIN b = 1..m
    OBVIOUS
<1> SUFFICES ASSUME NEW i \in DOMAIN s, NEW j \in DOMAIN s, i < j PROVE s[i].seq < s[j].seq
    OBVIOUS
<1> HIDE DEF s, n, m
<1>3. CASE j <= n
    <2>1. i \in 1..n /\ j \in 1..n
        BY <1>1, <1>3
    <2> QED BY <1>1, <1>2, <2>1
<1>4. CASE i <= n /\ j > n
    <2>0. i \in Nat /\ i >= 1 /\ j \in Nat /\ j <= n + m
        BY <1>1
    <2>1. i \in 1..n /\ j - n \in 1..m /\ n + (j - n) = j
        BY <1>1, <1>4, <2>0
    <2>2. s[i] = a[i] /\ s[j] = b[j - n]
        BY <1>1, <2>1
    <2> QED BY <1>2, <2>1, <2>2
<1>5. CASE i > n
    <2>0. i \in Nat /\ j \in Nat /\ i <= n + m /\ j <= n + m /\ j > n
        BY <1>1, <1>5
    <2>1. i - n \in 1..m /\ n + (i - n) = i /\ j - n \in 1..m /\ n + (j - n) = j /\ i - n < j - n
        BY <1>1, <1>5, <2>0
    <2>2. s[i] = b[i - n] /\ s[j] = b[j - n]
        BY <1>1, <2>1
    <2> QED BY <1>2, <2>1, <2>2
<1> QED BY <1>1, <1>3, <1>4, <1>5

\* The rows that the query of a call matches.
Matching == {r \in db : r.end > find.from /\ r.start < find.end}

\* What the query returns: rows of the table, in order, all or as many as the limit
\* has room for, and no row is left out before the last of them.
LEMMA QueryRows ==
    ASSUME FindInv, find.pc = "db", NEW rows \in SeqOf(Matching, Cardinality(db)), IsQueried(rows)
    PROVE  /\ rows \in Seq(Row) /\ Len(rows) \in Nat /\ DOMAIN rows = 1..Len(rows)
           /\ \A i \in 1..Len(rows) : rows[i] \in db /\ rows[i].end > find.from /\ rows[i].start < find.end
           /\ \A i, j \in 1..Len(rows) : i < j => rows[i].seq < rows[j].seq /\ rows[i].end <= rows[j].start
           /\ \A r \in Matching : \/ \E i \in 1..Len(rows) : rows[i] = r
                                  \/ /\ Len(rows) = find.limit /\ find.limit > 0
                                     /\ \A i \in 1..Len(rows) : rows[i].seq < r.seq
<1> DEFINE n == Len(rows)
<1>0. ManagerOK /\ IsFiniteSet(db) /\ db \subseteq Row /\ find.limit \in Int /\ find.limit # 0
    BY DEF FindInv, ManagerOK, Inv, TypeOK, CallTypes, Waiting, Taken
<1>1. PICK m \in Nat : rows \in [1..m -> Matching]
    <2>1. Cardinality(db) \in Nat
        BY <1>0, FS_CardinalityType
    <2>2. PICK m \in 0..Cardinality(db) : rows \in [1..m -> Matching]
        BY DEF SeqOf
    <2> QED BY <2>1, <2>2
<1>2. Matching \subseteq db /\ Matching \subseteq Row
    BY <1>0 DEF Matching
<1>3. rows \in Seq(Row) /\ n = m /\ DOMAIN rows = 1..n /\ n \in Nat
    <2>1. rows \in [1..m -> Row]
        BY <1>1, <1>2
    <2> QED BY <1>1, <2>1
<1>4. \A i \in 1..n : rows[i] \in Matching
    BY <1>1, <1>3
<1> HIDE DEF n
<1>5. \A i \in 1..n : rows[i] \in db /\ rows[i].end > find.from /\ rows[i].start < find.end
    BY <1>4 DEF Matching
<1>6. \A i, j \in 1..n : i < j => rows[i].seq < rows[j].seq
    BY <1>3 DEF IsQueried
<1>7. \A i, j \in 1..n : i < j => rows[i].end <= rows[j].start
    <2>1. Timeline(Known) /\ db \subseteq Known
        BY <1>0 DEF ManagerOK, TimeInv, Known, Saved
    <2> QED BY <1>5, <1>6, <2>1 DEF Timeline
<1>8. ASSUME NEW r \in Matching, ~\E i \in 1..n : rows[i] = r
      PROVE  n = find.limit /\ find.limit > 0 /\ \A i \in 1..n : rows[i].seq < r.seq
    <2>1. \A i \in 1..n : rows[i].seq < r.seq
        BY <1>3, <1>8 DEF IsQueried, Matching
    <2>2. IsFiniteSet(Matching) /\ Cardinality(Matching) \in Nat
        BY <1>0, <1>2, FS_Subset, FS_CardinalityType
    <2>3. IsFiniteSet(Matching \ {r}) /\ Cardinality(Matching \ {r}) = Cardinality(Matching) - 1
        BY <2>2, FS_RemoveElement
    <2>4. rows \in Injection(1..n, Matching \ {r})
        <3>1. rows \in [1..n -> Matching \ {r}]
            BY <1>1, <1>3, <1>4, <1>8
        <3>2. ASSUME NEW i \in 1..n, NEW j \in 1..n, rows[i] = rows[j] PROVE i = j
            <4>1. rows[i].seq \in Nat
                BY <1>0, <1>5, RowNumbers
            <4>2. ~(i < j) /\ ~(j < i)
                BY <1>6, <3>2, <4>1
            <4> QED BY <1>3, <4>2
        <3> QED BY <3>1, <3>2 DEF Injection, IsInjective
    <2>5. Cardinality(1..n) <= Cardinality(Matching \ {r})
        BY <2>3, <2>4, FS_Injection
    <2>6. Cardinality(1..n) = n
        BY <1>3, FS_Interval
    <2>7. n < Cardinality(Matching)
        BY <1>3, <2>2, <2>3, <2>5, <2>6
    <2>8. n = Cut(Cardinality(Matching), find.limit)
        BY DEF IsQueried, Matching, n
    <2>9. n = find.limit /\ find.limit > 0
        BY <1>0, <2>2, <2>7, <2>8, CutFacts
    <2> QED BY <2>1, <2>9
<1> QED BY <1>3, <1>5, <1>6, <1>7, <1>8 DEF n

\* The checker accepts every row of the query.
LEMMA AllAccepted ==
    ASSUME FindInv, find.pc = "db", NEW rows \in SeqOf(Matching, Cardinality(db)), IsQueried(rows),
           NEW acc \in SeqOf(DOMAIN rows, Len(rows)), NEW i \in DOMAIN rows
    PROVE  /\ Accepted(rows, acc, i)
           /\ find.extends # <<>> => rows[i].seq < find.extends[1].seq
<1>1. /\ DOMAIN rows = 1..Len(rows) /\ Len(rows) \in Nat
      /\ rows[i] \in db /\ rows[i].start < find.end
      /\ \A j \in 1..Len(rows) : j < i => rows[j].end <= rows[i].start
    BY QueryRows
<1>2. rows[i] \in Row /\ rows[i].start <= rows[i].end
    BY <1>1 DEF FindInv, ManagerOK, Inv, TypeOK, TimeInv, Timeline, Known, Saved
<1>3. rows[i].seq \in Nat /\ rows[i].start \in Nat /\ rows[i].end \in Nat
    BY <1>2, RowNumbers
<1>4. ASSUME find.extends # <<>>
      PROVE  /\ rows[i].seq < find.extends[1].seq /\ rows[i].end <= find.extends[1].start
             /\ Head(find.extends) = find.extends[1]
    <2> DEFINE h == find.extends[1]
    <2>1. find.extends \in Seq(Row)
        BY DEF FindInv, CallTypes
    <2>2. h \in Row /\ Head(find.extends) = h
        BY <1>4, <2>1, TailFacts
    <2>3. h.seq \in Nat /\ h.start \in Nat
        BY <2>2, RowNumbers
    <2>4. Splits(h) /\ find.end = h.start
        BY <1>4 DEF FindInv, Waiting, Taken
    <2> HIDE DEF h
    <2>5. (rows[i].seq < h.seq => rows[i].end <= h.start) /\ (rows[i].seq >= h.seq => rows[i].start >= h.start)
        BY <1>1, <2>4 DEF Splits
    <2>6. rows[i].seq < h.seq /\ rows[i].end <= h.start
        BY <1>1, <1>3, <2>3, <2>4, <2>5
    <2> QED BY <2>2, <2>6 DEF h
<1>5. ASSUME NEW k \in DOMAIN acc, acc[k] < i PROVE rows[i].start >= rows[acc[k]].end
    <2>1. acc[k] \in DOMAIN rows
        BY DEF SeqOf
    <2>2. rows[acc[k]].end <= rows[i].start
        BY <1>1, <1>5, <2>1
    <2>3. rows[acc[k]] \in Row
        BY <2>1, QueryRows
    <2>4. rows[acc[k]].end \in Nat
        BY <2>3, RowNumbers
    <2> QED BY <1>3, <2>2, <2>4
<1> QED BY <1>2, <1>4, <1>5 DEF Accepted

\* A sequence of positions that ascends and leaves none out has as many as there are.
LEMMA AllPositions ==
    ASSUME NEW n \in Nat, NEW acc \in SeqOf(1..n, n),
           \A k, l \in DOMAIN acc : k < l => acc[k] < acc[l],
           \A i \in 1..n : \E k \in DOMAIN acc : acc[k] = i
    PROVE  DOMAIN acc = 1..n /\ acc \in [1..n -> 1..n]
<1>1. PICK p \in 0..n : acc \in [1..p -> 1..n]
    BY DEF SeqOf
<1>2. p \in Nat /\ DOMAIN acc = 1..p /\ \A k \in 1..p : acc[k] \in Nat
    BY <1>1
<1>3. \A k, l \in 1..p : acc[k] = acc[l] => k = l
    <2> SUFFICES ASSUME NEW k \in 1..p, NEW l \in 1..p, acc[k] = acc[l] PROVE k = l
        OBVIOUS
    <2>1. acc[k] \in Nat /\ ~(acc[k] < acc[k])
        BY <1>2
    <2>2. k < l => acc[k] < acc[l]
        BY <1>2
    <2>3. l < k => acc[l] < acc[k]
        BY <1>2
    <2>4. ~(k < l) /\ ~(l < k)
        BY <2>1, <2>2, <2>3
    <2> QED BY <1>2, <2>4
<1>4. acc \in Bijection(1..p, 1..n)
    BY <1>1, <1>2, <1>3 DEF Bijection, Injection, Surjection, IsInjective
<1>5. ExistsBijection(1..p, 1..n)
    BY <1>4 DEF ExistsBijection
<1>6. IsFiniteSet(1..p) /\ Cardinality(1..p) = p /\ Cardinality(1..n) = n
    BY <1>2, FS_Interval
<1>7. p = n
    BY <1>5, <1>6, FS_Bijection
<1> QED BY <1>1, <1>2, <1>7

\* The answer to a query: the rows, then what was taken from the queue, as far as
\* the limit goes.
LEMMA QueryAnswer ==
    ASSUME FindInv, find.pc = "db",
           NEW rows \in SeqOf(Matching, Cardinality(db)), IsQueried(rows),
           NEW acc \in SeqOf(DOMAIN rows, Len(rows)),
           \A k, l \in DOMAIN acc : k < l => acc[k] < acc[l],
           \A i \in DOMAIN rows : (\E k \in DOMAIN acc : acc[k] = i) <=> Accepted(rows, acc, i),
           NEW got, got = [k \in DOMAIN acc |-> rows[acc[k]]],
           NEW fd, fd = SubSeq(got \o find.extends, 1, Cut(Len(got \o find.extends), find.limit))
    PROVE  fd \in Seq(Row) /\ Satisfies(find, seen, fd)
<1> DEFINE n == Len(rows)
           x == find.extends
           p == Len(x)
           all == got \o x
           m == Cut(Len(all), find.limit)
<1>1. /\ rows \in Seq(Row) /\ n \in Nat /\ DOMAIN rows = 1..n
      /\ \A i \in 1..n : rows[i] \in db /\ rows[i].end > find.from /\ rows[i].start < find.end
      /\ \A i, j \in 1..n : i < j => rows[i].seq < rows[j].seq
      /\ \A r \in Matching : \/ \E i \in 1..n : rows[i] = r
                             \/ /\ n = find.limit /\ find.limit > 0
                                /\ \A i \in 1..n : rows[i].seq < r.seq
    BY QueryRows
<1>2. \A i \in 1..n : Accepted(rows, acc, i) /\ (x # <<>> => rows[i].seq < x[1].seq)
    BY <1>1, AllAccepted
<1>3. \A i \in 1..n : \E k \in DOMAIN acc : acc[k] = i
    BY <1>1, <1>2
<1>4. DOMAIN acc = 1..n /\ acc \in [1..n -> 1..n]
    <2>1. acc \in SeqOf(1..n, n)
        BY <1>1
    <2> HIDE DEF n
    <2> QED BY <1>1, <1>3, <2>1, AllPositions
<1> HIDE DEF n
<1>5. /\ got \in Seq(Row) /\ Len(got) = n /\ DOMAIN got = 1..n
      /\ \A k \in 1..n : acc[k] \in 1..n /\ got[k] = rows[acc[k]]
    <2>1. \A k \in 1..n : acc[k] \in 1..n /\ got[k] = rows[acc[k]] /\ rows[acc[k]] \in Row
        BY <1>1, <1>4
    <2>2. got \in [1..n -> Row]
        BY <1>4, <2>1
    <2>3. n \in Nat
        BY <1>1
    <2>4. got \in Seq(Row) /\ Len(got) = n /\ DOMAIN got = 1..n
        BY ONLY <2>2, <2>3
    <2> QED BY <2>1, <2>4
<1>6. /\ CallTypes /\ Taken(find) /\ x \in Seq(Row) /\ p \in Nat /\ DOMAIN x = 1..p
      /\ find \in Calls /\ seen \subseteq Row
    BY DEF FindInv, Waiting, CallTypes, Calls
<1>7. /\ find.from \in Nat /\ find.to \in Nat /\ find.end \in Nat /\ find.limit \in Int /\ find.limit # 0
      /\ find.from < find.to /\ find.end <= find.to
    BY <1>6 DEF CallTypes, Taken
<1> HIDE DEF p, x
<1>8. /\ \A i, j \in 1..p : i < j => x[i].seq < x[j].seq
      /\ \A i \in 1..p : x[i].end > find.from /\ x[i].start < find.to
      /\ p = Len(x)
    BY <1>6 DEF Taken, x, p
<1>9. \A i \in 1..n : got[i].seq \in Nat /\ got[i].start \in Nat /\ got[i] \in Row
    BY <1>5, RowNumbers
<1>10. \A i \in 1..p : x[i].seq \in Nat /\ x[i] \in Row
    BY <1>6, <1>8, RowNumbers
<1>11. \A i, j \in 1..n : i < j => got[i].seq < got[j].seq
    <2> SUFFICES ASSUME NEW i \in 1..n, NEW j \in 1..n, i < j PROVE got[i].seq < got[j].seq
        OBVIOUS
    <2>1. acc[i] < acc[j]
        BY <1>4
    <2> QED BY <1>1, <1>5, <2>1
<1>12. ASSUME NEW i \in 1..n, NEW j \in 1..p PROVE got[i].seq < x[j].seq
    <2>1. x # <<>> /\ 1 \in 1..p
        BY <1>6
    <2>2. got[i].seq < x[1].seq
        BY <1>2, <1>5, <2>1
    <2>3. j = 1 \/ x[1].seq < x[j].seq
        BY <1>6, <1>8, <2>1
    <2>4. got[i].seq \in Nat /\ x[1].seq \in Nat /\ x[j].seq \in Nat
        BY <1>9, <1>10, <2>1
    <2> QED BY ONLY <2>2, <2>3, <2>4
<1>13. /\ all \in Seq(Row) /\ Len(all) = n + p /\ DOMAIN all = 1..(n + p)
       /\ \A i \in 1..n : all[i] = got[i]
       /\ \A j \in 1..p : all[n + j] = x[j]
    <2>1. Len(got) = n /\ Len(x) = p
        BY <1>5, <1>8
    <2> QED BY <1>5, <1>6, <2>1, ConcatFacts
<1>14. \A i, j \in DOMAIN all : i < j => all[i].seq < all[j].seq
    <2>1. \A i \in DOMAIN got : \A j \in DOMAIN x : got[i].seq < x[j].seq
        BY <1>5, <1>6, <1>12
    <2>2. /\ \A i, j \in DOMAIN got : i < j => got[i].seq < got[j].seq
          /\ \A i, j \in DOMAIN x : i < j => x[i].seq < x[j].seq
        BY <1>5, <1>6, <1>8, <1>11
    <2> QED BY ONLY <1>5, <1>6, <2>1, <2>2, ConcatAscends
<1> HIDE DEF all
<1>15. fd = SubSeq(all, 1, m)
    BY DEF all, x
<1> HIDE DEF m
<1>16. m = Cut(Len(all), find.limit)
    BY DEF m
<1>17. /\ fd \in Seq(Row) /\ m \in 0..Len(all) /\ Len(fd) = m /\ DOMAIN fd = 1..m
       /\ \A k \in 1..m : k \in DOMAIN all /\ fd[k] = all[k]
       /\ find.limit >= 0 => Len(fd) <= find.limit
       /\ \A r : (\E k \in DOMAIN all : all[k].seq = r.seq) => Finds(find, fd, r)
       /\ \A r : find.limit > 0 /\ Len(all) >= find.limit /\ (\A k \in 1..find.limit : all[k].seq < r.seq)
                    => Finds(find, fd, r)
    <2>1. all \in Seq(Row) /\ find.limit \in Int /\ find.limit # 0
        BY <1>7, <1>13
    <2>2. FrontOf(all, find, m, fd)
        BY ONLY <1>14, <1>15, <1>16, <2>1, FrontFinds
    <2> QED BY ONLY <2>2 DEF FrontOf
<1>18. ASSUME NEW k \in 1..(n + p) PROVE all[k].end > find.from /\ all[k].start < find.to
    <2>1. CASE k <= n
        <3>1. k \in 1..n /\ all[k] = rows[acc[k]] /\ acc[k] \in 1..n /\ all[k] = got[k]
            BY <1>1, <1>5, <1>13, <2>1
        <3>2. all[k].end > find.from /\ all[k].start < find.end /\ all[k].start \in Nat
            BY <1>1, <1>9, <3>1
        <3> QED BY <1>7, <3>2
    <2>2. CASE k > n
        <3>1. k - n \in 1..p /\ n + (k - n) = k
            BY <1>1, <1>6, <2>2
        <3>2. all[k] = x[k - n]
            BY <1>13, <3>1
        <3> QED BY <1>8, <3>1, <3>2
    <2> QED BY <1>1, <1>6, <2>1, <2>2
<1>19. \A i \in DOMAIN fd : find.from < find.to /\ fd[i].end > find.from /\ fd[i].start < find.to
    <2> SUFFICES ASSUME NEW i \in 1..m PROVE fd[i].end > find.from /\ fd[i].start < find.to
        BY <1>7, <1>17
    <2>1. i \in 1..(n + p) /\ fd[i] = all[i]
        BY <1>13, <1>17
    <2> QED BY <1>18, <2>1
<1>20. \A i, j \in DOMAIN fd : i < j => fd[i].seq < fd[j].seq
    <2>1. DOMAIN fd = 1..m
        BY <1>17
    <2>2. ASSUME NEW i \in 1..m, NEW j \in 1..m, i < j PROVE fd[i].seq < fd[j].seq
        <3>1. i \in DOMAIN all /\ j \in DOMAIN all /\ fd[i] = all[i] /\ fd[j] = all[j]
            BY <1>17
        <3>2. all[i].seq < all[j].seq
            BY <1>14, <2>2, <3>1
        <3> QED BY <3>1, <3>2
    <2> QED BY ONLY <2>1, <2>2
<1>21. ASSUME NEW r \in seen, HasSeq(db \union Queued, r.seq), Asked(find, r)
       PROVE  Finds(find, fd, r)
    <2>0. r \in Row /\ r.seq \in Nat
        BY <1>6, RowNumbers
    <2>1. Covered(find, r)
        <3>1. Overlaps(r) /\ r.start < r.end
            BY <1>21 DEF Asked, Overlaps
        <3> QED BY <3>1 DEF FindInv, Waiting
    <2>2. CASE \E i \in 1..p : x[i].seq = r.seq
        <3>1. PICK i \in 1..p : x[i].seq = r.seq
            BY <2>2
        <3>2. n + i \in 1..(n + p)
            BY <1>1, <1>6
        <3>3. n + i \in DOMAIN all /\ all[n + i].seq = r.seq
            BY <1>13, <3>1, <3>2
        <3> QED BY <1>17, <3>3
    <2>3. CASE p = find.limit /\ \A i \in 1..p : x[i].seq < r.seq
        <3>1. find.limit > 0 /\ Len(all) >= find.limit /\ 1 \in 1..p
            BY <1>1, <1>6, <1>7, <1>13, <2>3
        <3>2. ASSUME NEW k \in 1..find.limit PROVE all[k].seq < r.seq
            <4>1. CASE k <= n
                <5>1. k \in 1..n /\ all[k] = got[k]
                    <6>1. k \in Nat /\ k >= 1 /\ n \in Nat
                        BY <1>1, <3>1
                    <6>2. k \in 1..n
                        BY ONLY <4>1, <6>1
                    <6> QED BY <1>13, <6>2
                <5>2. got[k].seq < x[1].seq /\ x[1].seq < r.seq
                    BY <1>12, <2>3, <3>1, <5>1
                <5>3. got[k].seq \in Nat /\ x[1].seq \in Nat /\ r.seq \in Nat
                    BY <1>9, <1>10, <2>0, <3>1, <5>1
                <5> QED BY <5>1, <5>2, <5>3
            <4>2. CASE k > n
                <5>1. k - n \in 1..p /\ n + (k - n) = k
                    BY <1>1, <1>6, <2>3, <4>2
                <5>2. all[k] = x[k - n]
                    BY <1>13, <5>1
                <5> QED BY <2>3, <5>1, <5>2
            <4> QED BY <1>1, <4>1, <4>2
        <3> QED BY <1>17, <3>1, <3>2
    <2>4. CASE Left(find, r)
        <3>1. r \in Matching
            <4>1. HasSeq(db, r.seq)
                BY <1>21, <2>4 DEF Left, HasSeq
            <4>2. r \in db /\ r.start < find.end
                BY <2>4, <4>1 DEF Left
            <4> QED BY <1>21, <4>2 DEF Matching, Asked
        <3>2. CASE \E i \in 1..n : rows[i] = r
            <4>1. PICK k \in 1..n : rows[acc[k]] = r
                BY <1>3, <1>4, <3>2
            <4>2. k \in 1..(n + p)
                BY <1>1, <1>6
            <4>3. k \in DOMAIN all /\ all[k].seq = r.seq
                BY <1>5, <1>13, <4>1, <4>2
            <4> QED BY <1>17, <4>3
        <3>3. CASE n = find.limit /\ find.limit > 0 /\ \A i \in 1..n : rows[i].seq < r.seq
            <4>1. Len(all) >= find.limit
                BY <1>1, <1>6, <1>13, <3>3
            <4>2. \A k \in 1..find.limit : all[k].seq < r.seq
                BY <1>5, <1>13, <3>3
            <4> QED BY <1>17, <3>3, <4>1, <4>2
        <3> QED BY <1>1, <3>1, <3>2, <3>3
    <2>5. \/ \E i \in 1..p : x[i].seq = r.seq
          \/ p = find.limit /\ \A i \in 1..p : x[i].seq < r.seq
          \/ Left(find, r)
        BY <1>6, <1>8, <2>1 DEF Covered, x
    <2> QED BY <2>2, <2>3, <2>4, <2>5
<1> QED BY <1>17, <1>19, <1>20, <1>21 DEF Satisfies

\* The database answers the query of FindIndexes.
LEMMA FindQueryKeeps ==
    ASSUME FindInv, FindQuery
    PROVE  FindInv'
<1>1. find.pc = "db" /\ UNCHANGED <<seen, vars>>
    BY DEF FindQuery
<1>2. PICK rows \in SeqOf(Matching, Cardinality(db)) :
          /\ IsQueried(rows)
          /\ \E acc \in SeqOf(DOMAIN rows, Len(rows)) :
                /\ \A k, l \in DOMAIN acc : k < l => acc[k] < acc[l]
                /\ \A i \in DOMAIN rows :
                      (\E k \in DOMAIN acc : acc[k] = i) <=> Accepted(rows, acc, i)
                /\ LET all == [k \in DOMAIN acc |-> rows[acc[k]]] \o find.extends
                   IN  Answer(find, SubSeq(all, 1, Cut(Len(all), find.limit)))
    BY DEF FindQuery, Matching
<1>3. PICK acc \in SeqOf(DOMAIN rows, Len(rows)) :
                /\ \A k, l \in DOMAIN acc : k < l => acc[k] < acc[l]
                /\ \A i \in DOMAIN rows :
                      (\E k \in DOMAIN acc : acc[k] = i) <=> Accepted(rows, acc, i)
                /\ LET all == [k \in DOMAIN acc |-> rows[acc[k]]] \o find.extends
                   IN  Answer(find, SubSeq(all, 1, Cut(Len(all), find.limit)))
    BY <1>2
<1> DEFINE got == [k \in DOMAIN acc |-> rows[acc[k]]]
           fd == SubSeq(got \o find.extends, 1, Cut(Len(got \o find.extends), find.limit))
           c == [find EXCEPT !.pc = "done"]
<1>4. find' = c /\ found' = fd
    BY <1>3 DEF Answer
<1>5. fd \in Seq(Row) /\ Satisfies(find, seen, fd)
    BY <1>1, <1>2, <1>3, QueryAnswer
<1> HIDE DEF fd
<1>6. /\ ManagerOK /\ phase = "running" /\ find \in Calls /\ seen \in SUBSET Row
      /\ \A r \in seen : r.seq <= latest.seq
    BY <1>1 DEF FindInv, Remembered, CallTypes, Calls
<1>7. c \in Calls /\ c.pc = "done" /\ c.from = find.from /\ c.to = find.to /\ c.limit = find.limit
    <2>1. c = [find EXCEPT !.pc = "done"]
        OBVIOUS
    <2> HIDE DEF c
    <2> QED BY ONLY <1>6, <2>1, NextCall
<1> HIDE DEF c
<1>8. Satisfies(c, seen, fd)
    BY <1>5, <1>7 DEF Satisfies, Asked, Finds
<1> QED BY <1>1, <1>4, <1>5, <1>6, <1>7, <1>8, CallStep

\* No call is under way.
LEMMA NoCall ==
    ASSUME ManagerOK, UNCHANGED vars, find' = NoFind, found' = <<>>, seen' = {}
    PROVE  FindInv'
<1>1. ManagerOK'
    BY StandsStill
<1>2. find'.pc = "idle" /\ find' \in Calls
    BY DEF NoFind, Calls
<1>3. CallTypes'
    BY <1>2 DEF CallTypes, Calls
<1> QED BY <1>1, <1>2, <1>3 DEF FindInv, Remembered, Waiting, FindExact

\* At the start no call is under way, and the table is as it was found.
LEMMA FindInit ==
    ASSUME QInit
    PROVE  FindInv
<1>1. Init /\ find = NoFind /\ seen = {} /\ found = <<>>
    BY DEF QInit
<1>2. Inv /\ TimeInv
    BY <1>1, InvInit, TimeInit
<1>3. TableBehind
    BY <1>1 DEF Init, TableBehind
<1>4. IsFiniteSet(db)
    BY <1>1, Rows0Assumption DEF Init
<1>5. find.pc = "idle" /\ find \in Calls
    BY <1>1 DEF NoFind, Calls
<1>6. CallTypes
    BY <1>1, <1>5 DEF CallTypes, Calls
<1> QED BY <1>2, <1>3, <1>4, <1>5, <1>6 DEF FindInv, ManagerOK, Remembered, Waiting, FindExact

\* Every step of the manager and of the call keeps the invariant.
LEMMA FindNext ==
    ASSUME FindInv, [QNext]_<<vars, findVars>>
    PROVE  FindInv'
<1>1. CASE Background
    BY <1>1, BackgroundKeeps
<1>2. CASE \E f, t \in Points, l \in Limits : FindCache(f, t, l)
    BY <1>2, FindCacheKeeps
<1>3. CASE FindQuery
    BY <1>3, FindQueryKeeps
<1>4. CASE FindFail \/ FindReturn
    BY <1>4, NoCall DEF FindFail, FindReturn, FindInv
<1>5. CASE UNCHANGED <<vars, findVars>>
    <2>1. ManagerOK' /\ UNCHANGED <<phase, db, needCreated, latest>> /\ Queued' = Queued
        BY <1>5, StandsStill DEF FindInv
    <2>2. UNCHANGED <<find, seen, found>>
        BY <1>5 DEF findVars
    <2>3. CallTypes' /\ Remembered'
        BY <2>1, <2>2 DEF FindInv, CallTypes, Remembered
    <2>4. Waiting'
        BY <2>1, <2>2 DEF FindInv, Waiting, Splits, Covered, Left, Overlaps
    <2>5. FindExact'
        BY <2>1, <2>2 DEF FindInv, FindExact, Overlaps
    <2> QED BY <2>1, <2>3, <2>4, <2>5 DEF FindInv
<1> QED BY <1>1, <1>2, <1>3, <1>4, <1>5 DEF QNext

\* FindIndexes answers exactly: what it returns are indexes of the asked range, each
\* once and in order, and it misses none that was there when it was called and is
\* still there, although createIndex moves indexes from the queue to the table
\* between the look into the queue and the query.
THEOREM FindIsExact == QSpec => []FindExact
<1>1. QInit => FindInv
    BY FindInit
<1>2. FindInv /\ [QNext]_<<vars, findVars>> => FindInv'
    BY FindNext
<1>3. FindInv => FindExact
    BY DEF FindInv
<1> QED BY <1>1, <1>2, <1>3, PTL DEF QSpec
=============================================================================
