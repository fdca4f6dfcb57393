---------------------------- MODULE MetaIndexes ----------------------------
(***************************************************************************)
(* The index side of DBMetaManager (storage/meta/db-meta-manager.go): the  *)
(* queue of indexes waiting for the database, the cache of the earliest    *)
(* indexes that retention looks at, the channel's time offset, and the     *)
(* four workers (task executors) that move them to and from the database.  *)
(*                                                                         *)
(* One action is one section the code runs under indexLock or channelLock, *)
(* or one statement sent to the database.  A statement that fails leaves   *)
(* everything as it was and is retried for ever, so it is a stuttering     *)
(* step; the failures that do leave a trace (the one of a cache refill and *)
(* those during the final flush) are actions.                              *)
(***************************************************************************)
EXTENDS Timelines, Naturals, Sequences, FiniteSets, SequencesExt

CONSTANTS
    CacheCap,       \* capacity of earliestIndexes
    QueueCap,       \* capacity of needCreatedIndexes
    Times,          \* the times a writer stamps blocks with
    FileSeqs,       \* the file sequence numbers a writer puts into an index
    Rows0,          \* the rows of the index table when the process starts
    MaxSeq,         \* bound: sequence numbers
    MaxTime,        \* bound: corrected times
    LoseAcks,       \* may an insert be committed and still reported failed?
    GrowMayFail     \* may the query that refills the cache fail?

Row == [seq : 1..MaxSeq, start : 0..MaxTime, end : 0..MaxTime,
        file : FileSeqs, dropped : BOOLEAN]

\* The zero Index; as latestIndex it stands for nil, all real times being > 0.
NoRow == [seq |-> 0, start |-> 0, end |-> 0, file |-> 0, dropped |-> FALSE]

ASSUME CapAssumption    == CacheCap \in Nat \ {0} /\ QueueCap \in Nat \ {0, 1}
ASSUME BoundAssumption  == MaxSeq \in Nat /\ MaxTime \in Nat
ASSUME InputAssumption  == Times \subseteq Nat /\ FileSeqs \subseteq Nat /\ 0 \in FileSeqs
ASSUME Rows0Assumption  == Rows0 \subseteq Row /\ IsFiniteSet(Rows0) /\ Timeline(Rows0)
ASSUME FlagAssumption   == LoseAcks \in BOOLEAN /\ GrowMayFail \in BOOLEAN

Executors == {"create", "delete", "grow", "channel"}
Threads   == Executors \union {"add"}

VARIABLES
    phase,          \* "down", "running", "closing" (executors) or "flush"
    db,             \* the rows of the channel's index table
    dbOffset,       \* timeOffset as saved in the channel table
    offset,         \* channelInfo.TimeOffset
    latest,         \* latestIndex
    needCreated,    \* needCreatedIndexes
    earliest,       \* earliestIndexes
    loadable,       \* loadableEarliestIndexes
    needDeleted,    \* needDeletedIndexes
    pending,        \* the executors that have a task waiting in their channel
    pc,             \* where each thread stands
    createIdx,      \* createIndex: the index being inserted
    deleteIdx,      \* deleteIndex: the index being deleted
    growFrom,       \* growEarliestIndexes: [seq, time, need] of its snapshot
    growRows,       \* growEarliestIndexes: what its query returned
    chanVal         \* updateChannel: the offset being saved

tables  == <<db, dbOffset>>
queues  == <<offset, latest, needCreated, earliest, loadable, needDeleted>>
workers == <<createIdx, deleteIdx, growFrom, growRows, chanVal>>
vars    == <<phase, tables, queues, pending, pc, workers>>

NoGrow == [seq |-> 0, time |-> 0, need |-> 0]

TypeOK ==
    /\ phase \in {"down", "running", "closing", "flush"}
    /\ db \in SUBSET Row
    /\ dbOffset \in Nat /\ offset \in Nat /\ chanVal \in Nat
    /\ latest \in Row \union {NoRow}
    /\ needCreated \in Seq(Row) /\ Len(needCreated) <= QueueCap
    /\ earliest \in Seq(Row) /\ Len(earliest) <= CacheCap
    /\ loadable \in 0..CacheCap
    /\ needDeleted \in Nat
    /\ pending \in SUBSET Executors
    /\ pc \in [Threads -> {"idle", "fetch", "db", "done"}]
    /\ createIdx \in Row \union {NoRow} /\ deleteIdx \in Row \union {NoRow}
    /\ growFrom \in [seq : Nat, time : Nat, need : Nat]
    /\ growRows \in Seq(Row)

-----------------------------------------------------------------------------
(* Library code the manager is built on.                                   *)

\* container.Queue.Push: refuses (returns false) when the queue is full.
Push(q, x, cap) == IF Len(q) < cap THEN Append(q, x) ELSE q

\* TaskExecutor.Try on an executor of capacity 1: the task is put into the
\* executor's channel, or refused when one is already waiting there.
Submitted(w) == pending \union {w}

Goto(w, where) == pc' = [pc EXCEPT ![w] = where]

Alive == phase \in {"running", "closing"}

\* An executor's goroutine takes the waiting task and starts it.
TakeTask(w) ==
    /\ Alive
    /\ w \in pending /\ pc[w] = "idle"
    /\ pending' = pending \ {w}
    /\ Goto(w, "fetch")
    /\ UNCHANGED <<phase, tables, queues, workers>>

-----------------------------------------------------------------------------
(* Queries.                                                                *)

\* SELECT ... WHERE seq > from ORDER BY seq LIMIT need
IsSelected(rows, from, need) ==
    /\ \A i \in DOMAIN rows : rows[i].seq > from
    /\ \A i, j \in DOMAIN rows : i < j => rows[i].seq < rows[j].seq
    /\ \A r \in db : \/ r.seq <= from
                     \/ \E i \in DOMAIN rows : rows[i] = r
                     \/ /\ Len(rows) = need
                        /\ \A i \in DOMAIN rows : rows[i].seq < r.seq

\* IndexChecker: row i of a query sorted by seq passes when it follows, in
\* time, the start given to the checker and every row that passed before.
Passes(rows, acc, i, from) ==
    /\ rows[i].start <= rows[i].end
    /\ rows[i].seq > from.seq
    /\ from.time # 0 => rows[i].start >= from.time
    /\ \A k \in DOMAIN acc : acc[k] < i => rows[i].start >= rows[acc[k]].end

\* acc lists, in order, the positions of the rows that the checker accepts.
IsChecked(rows, acc, from) ==
    /\ \A k, l \in DOMAIN acc : k < l => acc[k] < acc[l]
    /\ \A i \in DOMAIN rows :
          (\E k \in DOMAIN acc : acc[k] = i) <=> Passes(rows, acc, i, from)

\* The accepted rows are pushed until the cache is full.
PushAll(q, rows, acc) ==
    LET room == CacheCap - Len(q)
        new  == [k \in DOMAIN acc |-> rows[acc[k]]]
    IN  q \o (IF Len(new) <= room THEN new ELSE SubSeq(new, 1, room))

-----------------------------------------------------------------------------
(* AddIndex, called by the channel's single sync worker.                   *)

\* Plausible bug: the new index is compared with the start of the last one.
CorrectionToStart(start) ==
    IF start + offset < latest.start THEN latest.start - (start + offset) ELSE 0

\* How far the channel's offset has to grow for the index to follow the last.
Correction(start) ==
    IF start + offset < latest.end THEN latest.end - (start + offset) ELSE 0

Numbered(start, end, file) ==
    LET shift == offset + Correction(start)
    IN  [seq |-> latest.seq + 1, start |-> start + shift, end |-> end + shift,
         file |-> file, dropped |-> FALSE]

\* Plausible bug: the last slot of the queue is given to an ordinary index.
NearlyFullLate(n) == n >= QueueCap

\* The last free slot is for the index that stands for all dropped ones.
NearlyFull(n) == n + 1 >= QueueCap

\* SetState and SetFileSeq of an index whose block will not be found.
AsDropped(index) ==
    [seq |-> index.seq, start |-> index.start, end |-> index.end, file |-> 0, dropped |-> TRUE]

AddIndex(start, end, file) ==
    LET index   == Numbered(start, end, file)
        n       == Len(needCreated)
        stored  == IF NearlyFull(n) THEN AsDropped(index) ELSE index
    IN  /\ phase = "running" /\ pc["add"] = "idle"
        /\ start <= end
        /\ n < QueueCap => index.seq <= MaxSeq
        /\ index.end <= MaxTime
        /\ offset' = offset + Correction(start)
        /\ pending' = IF Correction(start) > 0
                      THEN Submitted("channel") ELSE pending
        /\ IF n = QueueCap
           THEN LET tail == [needCreated[n] EXCEPT !.end = index.end]
                IN  /\ needCreated' = [needCreated EXCEPT ![n] = tail]
                    /\ latest' = tail
                    /\ UNCHANGED pc
           ELSE /\ needCreated' = Append(needCreated, stored)
                /\ latest' = stored
                /\ Goto("add", "done")
        /\ UNCHANGED <<phase, tables, earliest, loadable, needDeleted, workers>>

\* AddIndex, after indexLock is released: start createIndex.
AddIndexTry ==
    /\ pc["add"] = "done"
    /\ pending' = Submitted("create")
    /\ Goto("add", "idle")
    /\ UNCHANGED <<phase, tables, queues, workers>>

-----------------------------------------------------------------------------
(* createIndex.                                                            *)

HasSeq(rows, seq) == \E r \in rows : r.seq = seq

\* Plausible bug: a full load of the cache is not taken into account.
CreateCompletionAlways ==
    /\ needCreated' = Tail(needCreated)
    /\ earliest' = Push(earliest, Head(needCreated), CacheCap)
    /\ loadable' = loadable + 1

\* Plausible bug: the cached index is not counted.
CreateCompletionUncounted ==
    /\ needCreated' = Tail(needCreated)
    /\ earliest' = IF loadable < CacheCap
                   THEN Push(earliest, Head(needCreated), CacheCap) ELSE earliest
    /\ UNCHANGED loadable

\* The index leaves the queue; while every index is cached it enters the cache.
CreateCompletion ==
    /\ needCreated' = Tail(needCreated)
    /\ IF loadable < CacheCap
       THEN /\ earliest' = Push(earliest, Head(needCreated), CacheCap)
            /\ loadable' = loadable + 1
       ELSE UNCHANGED <<earliest, loadable>>

CreateFetch ==
    /\ pc["create"] = "fetch"
    /\ IF needCreated = <<>>
       THEN Goto("create", "idle") /\ createIdx' = NoRow
       ELSE Goto("create", "db") /\ createIdx' = Head(needCreated)
    /\ UNCHANGED <<phase, tables, queues, pending, deleteIdx, growFrom, growRows, chanVal>>

CreateInsert ==
    /\ pc["create"] = "db"
    /\ ~HasSeq(db, createIdx.seq)           \* else: duplicate primary key
    /\ db' = db \union {createIdx}
    /\ \/ Goto("create", "done")
       \/ LoseAcks /\ UNCHANGED pc
    /\ UNCHANGED <<phase, dbOffset, queues, pending, workers>>

\* Plausible bug: one index per task.
CreateDoneOnce ==
    /\ pc["create"] = "done"
    /\ CreateCompletion
    /\ Goto("create", "idle")
    /\ UNCHANGED <<phase, tables, offset, latest, needDeleted, pending, workers>>

CreateDone ==
    /\ pc["create"] = "done"
    /\ CreateCompletion
    /\ Goto("create", "fetch")
    /\ UNCHANGED <<phase, tables, offset, latest, needDeleted, pending, workers>>

-----------------------------------------------------------------------------
(* DeleteIndex, FirstIndex and deleteIndex.                                *)

\* Plausible bug: the indexes already marked are not skipped.
FirstIndexHead ==
    IF needDeleted # Len(earliest)
    THEN [index |-> Head(earliest), loaded |-> TRUE]
    ELSE [index |-> NoRow, loaded |-> loadable # CacheCap]

\* FirstIndex returns the earliest index not yet marked, or (nil, loaded).
FirstIndex ==
    IF needDeleted # Len(earliest)
    THEN [index |-> earliest[needDeleted + 1], loaded |-> TRUE]
    ELSE [index |-> NoRow, loaded |-> loadable # CacheCap]

DeleteIndex ==
    /\ phase = "running"
    /\ needDeleted # Len(earliest)
    /\ needDeleted' = needDeleted + 1
    /\ pending' = Submitted("delete")
    /\ UNCHANGED <<phase, tables, offset, latest, needCreated, earliest, loadable, pc, workers>>

\* Plausible bug: the loop runs until the cache is empty.
DeleteFetchAll ==
    /\ pc["delete"] = "fetch"
    /\ IF earliest = <<>>
       THEN Goto("delete", "idle") /\ deleteIdx' = NoRow
       ELSE Goto("delete", "db") /\ deleteIdx' = Head(earliest)
    /\ UNCHANGED <<phase, tables, queues, pending, createIdx, growFrom, growRows, chanVal>>

DeleteFetch ==
    /\ pc["delete"] = "fetch"
    /\ IF needDeleted = 0
       THEN Goto("delete", "idle") /\ deleteIdx' = NoRow
       ELSE Goto("delete", "db") /\ deleteIdx' = Head(earliest)
    /\ UNCHANGED <<phase, tables, queues, pending, createIdx, growFrom, growRows, chanVal>>

DeleteRow ==
    /\ pc["delete"] = "db"
    /\ db' = {r \in db : r.seq # deleteIdx.seq}
    /\ Goto("delete", "done")
    /\ UNCHANGED <<phase, dbOffset, queues, pending, workers>>

\* The cache is refilled once it is less than half full, if the database may
\* hold indexes that are not cached.
DeleteCompletion ==
    /\ earliest' = Tail(earliest)
    /\ needDeleted' = needDeleted - 1

\* Plausible bug: the refill waits for more room than the cache ever has.
WantsGrowLate == loadable = CacheCap /\ Len(earliest) < CacheCap \div 2

WantsGrow == loadable = CacheCap /\ Len(earliest) - 1 < CacheCap \div 2

DeleteDone ==
    /\ pc["delete"] = "done"
    /\ DeleteCompletion
    /\ pending' = IF WantsGrow THEN Submitted("grow") ELSE pending
    /\ Goto("delete", "fetch")
    /\ UNCHANGED <<phase, tables, offset, latest, needCreated, loadable, workers>>

-----------------------------------------------------------------------------
(* growEarliestIndexes.                                                    *)

GrowFetch ==
    /\ pc["grow"] = "fetch"
    /\ IF Len(earliest) = CacheCap
       THEN Goto("grow", "idle") /\ growFrom' = NoGrow
       ELSE LET tail == IF earliest = <<>> THEN NoRow ELSE earliest[Len(earliest)]
            IN  /\ growFrom' = [seq |-> tail.seq, time |-> tail.end,
                                need |-> CacheCap - Len(earliest)]
                /\ Goto("grow", "db")
    /\ UNCHANGED <<phase, tables, queues, pending, createIdx, deleteIdx, growRows, chanVal>>

GrowQuery ==
    /\ pc["grow"] = "db"
    /\ \E rows \in SeqOf(db, growFrom.need) :
          /\ IsSelected(rows, growFrom.seq, growFrom.need)
          /\ growRows' = rows
    /\ Goto("grow", "done")
    /\ UNCHANGED <<phase, tables, queues, pending, createIdx, deleteIdx, growFrom, chanVal>>

GrowFail ==
    /\ GrowMayFail
    /\ pc["grow"] = "db"
    /\ Goto("grow", "idle")
    /\ growFrom' = NoGrow
    /\ UNCHANGED <<phase, tables, queues, pending, createIdx, deleteIdx, growRows, chanVal>>

GrowPush ==
    /\ pc["grow"] = "done"
    /\ \E acc \in SeqOf(DOMAIN growRows, Len(growRows)) :
          /\ IsChecked(growRows, acc, growFrom)
          /\ earliest' = PushAll(earliest, growRows, acc)
    /\ loadable' = Len(earliest')
    /\ Goto("grow", "idle")
    /\ growFrom' = NoGrow
    /\ growRows' = <<>>
    /\ UNCHANGED <<phase, tables, offset, latest, needCreated, needDeleted,
                   pending, createIdx, deleteIdx, chanVal>>

-----------------------------------------------------------------------------
(* updateChannel.                                                          *)

ChannelFetch ==
    /\ pc["channel"] = "fetch"
    /\ chanVal' = offset
    /\ Goto("channel", "db")
    /\ UNCHANGED <<phase, tables, queues, pending, createIdx, deleteIdx, growFrom, growRows>>

ChannelUpdate ==
    /\ pc["channel"] = "db"
    /\ dbOffset' = chanVal
    /\ chanVal' = 0
    /\ Goto("channel", "idle")
    /\ UNCHANGED <<phase, db, queues, pending, createIdx, deleteIdx, growFrom, growRows>>

-----------------------------------------------------------------------------
(* start and run: loading, closing, the final flush, and crashes.          *)

NoWorkers ==
    /\ pc' = [t \in Threads |-> "idle"]
    /\ createIdx' = NoRow /\ deleteIdx' = NoRow
    /\ growFrom' = NoGrow /\ growRows' = <<>> /\ chanVal' = 0

\* loadChannelInfo, loadLastIndex and loadEarliestIndexes into a new manager.
Start ==
    /\ phase = "down"
    /\ offset' = dbOffset
    /\ latest' \in db \union {NoRow}
    /\ \A r \in db : r.seq <= latest'.seq
    /\ \E rows \in SeqOf(db, CacheCap) :
          /\ IsSelected(rows, 0, CacheCap)
          /\ \E acc \in SeqOf(DOMAIN rows, Len(rows)) :
                /\ IsChecked(rows, acc, NoGrow)
                /\ earliest' = PushAll(<<>>, rows, acc)
    /\ loadable' = Len(earliest')
    /\ needCreated' = <<>> /\ needDeleted' = 0
    /\ phase' = "running"
    /\ UNCHANGED <<tables, pending, pc, workers>>

\* Shutdown comes after the channel's sync worker and its tick loop ended.
Shutdown ==
    /\ phase = "running" /\ pc["add"] = "idle"
    /\ phase' = "closing"
    /\ UNCHANGED <<tables, queues, pending, pc, workers>>

\* Closing an executor interrupts the retry loop of its task.
Interrupt(w) ==
    /\ phase = "closing"
    /\ pc[w] = "db"
    /\ Goto(w, "idle")
    /\ UNCHANGED <<phase, tables, queues, pending, workers>>

\* All executors have closed; what still waited in their channels is dropped.
ExecutorsClosed ==
    /\ phase = "closing"
    /\ \A w \in Executors : pc[w] = "idle"
    /\ phase' = "flush"
    /\ pending' = {}
    /\ NoWorkers
    /\ UNCHANGED <<tables, queues>>

\* createIndex(nil): one attempt per index, which leaves the queue anyway.
FlushCreate ==
    /\ phase = "flush" /\ needCreated # <<>>
    /\ \/ ~HasSeq(db, Head(needCreated).seq) /\ db' = db \union {Head(needCreated)}
       \/ UNCHANGED db
    /\ CreateCompletion
    /\ UNCHANGED <<phase, dbOffset, offset, latest, needDeleted, pending, pc, workers>>

\* deleteIndex(nil): the same.
FlushDelete ==
    /\ phase = "flush" /\ needCreated = <<>> /\ needDeleted # 0
    /\ \/ db' = {r \in db : r.seq # Head(earliest).seq}
       \/ UNCHANGED db
    /\ DeleteCompletion
    /\ UNCHANGED <<phase, dbOffset, offset, latest, needCreated, loadable, pending, pc, workers>>

Vanish ==
    /\ phase' = "down"
    /\ offset' = 0 /\ latest' = NoRow
    /\ needCreated' = <<>> /\ earliest' = <<>>
    /\ loadable' = 0 /\ needDeleted' = 0
    /\ pending' = {}
    /\ NoWorkers
    /\ UNCHANGED tables

Closed == phase = "flush" /\ needCreated = <<>> /\ needDeleted = 0 /\ Vanish

\* The process is killed or the machine stops.
Crash == phase # "down" /\ Vanish

-----------------------------------------------------------------------------
Init ==
    /\ phase = "down"
    /\ db = Rows0 /\ dbOffset = 0
    /\ offset = 0 /\ latest = NoRow
    /\ needCreated = <<>> /\ earliest = <<>>
    /\ loadable = 0 /\ needDeleted = 0
    /\ pending = {}
    /\ pc = [t \in Threads |-> "idle"]
    /\ createIdx = NoRow /\ deleteIdx = NoRow
    /\ growFrom = NoGrow /\ growRows = <<>> /\ chanVal = 0

AddAny    == \E s, e \in Times, f \in FileSeqs : AddIndex(s, e, f)
Take      == \E w \in Executors : TakeTask(w)
Create    == CreateFetch \/ CreateInsert \/ CreateDone
Delete    == DeleteFetch \/ DeleteRow \/ DeleteDone
Grow      == GrowFetch \/ GrowQuery \/ GrowFail \/ GrowPush
Channel   == ChannelFetch \/ ChannelUpdate
Interrupts == \E w \in {"create", "delete", "channel"} : Interrupt(w)
Closing   == Shutdown \/ Interrupts \/ ExecutorsClosed \/ FlushCreate \/ FlushDelete \/ Closed

\* Everything the manager and its writer do, except marking indexes.
Manager ==
    \/ AddAny \/ AddIndexTry \/ Take
    \/ Create \/ Delete \/ Grow \/ Channel
    \/ Start \/ Closing \/ Crash

Next == Manager \/ DeleteIndex

Spec == Init /\ [][Next]_vars

-----------------------------------------------------------------------------
(* Properties.                                                             *)

Queued == {needCreated[i] : i \in DOMAIN needCreated}

\* When needCreatedIndexes is full its last index is the one that stands for
\* dropped blocks, so AddIndex can prolong it: its panic is unreachable.
FullTailDropped ==
    Len(needCreated) = QueueCap => needCreated[Len(needCreated)].dropped

\* The saved indexes and the waiting ones together form one timeline, whatever
\* times the writer stamps on its blocks and whatever crashes in between.
OneTimeline == Timeline(db \union Queued)

\* "When all indexes are loaded the cache is certainly not full", as the
\* comment in createIndex has it: the push of a created index never fails.
CacheHasRoom == loadable < CacheCap => Len(earliest) < CacheCap

\* DeleteIndex never marks more indexes than are cached, and the workers still
\* hold the heads of their queues when they pop them.
HeadsStable ==
    /\ needDeleted <= Len(earliest)
    /\ pc["delete"] \in {"db", "done"} =>
          needDeleted > 0 /\ deleteIdx = Head(earliest)
    /\ pc["create"] \in {"db", "done"} =>
          needCreated # <<>> /\ createIdx = Head(needCreated)

\* No submission is lost although Try may refuse it: whenever there is an index
\* to insert, one to delete or an offset to save, a task that will see it waits
\* or runs, or its submission is about to be made.
NoLostWakeup ==
    phase = "running" =>
        /\ needCreated # <<>> =>
              "create" \in pending \/ pc["create"] # "idle" \/ pc["add"] = "done"
        /\ needDeleted # 0 => "delete" \in pending \/ pc["delete"] # "idle"
        /\ offset # dbOffset =>
              \/ "channel" \in pending \/ pc["channel"] = "fetch"
              \/ pc["channel"] = "db" /\ chanVal = offset

\* A row leaves the index table only after DeleteIndex marked it in the cache.
OnlyMarkedDeleted ==
    [][\A r \in db \ db' : \E i \in 1..needDeleted : earliest[i] = r]_vars

\* The manager implements the abstract log: its indexes are the saved ones and
\* those waiting to be saved.
Log == INSTANCE IndexLog WITH log <- db \union Queued
ImplementsLog == Log!Spec
=============================================================================
