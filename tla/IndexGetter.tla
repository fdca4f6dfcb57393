---------------------------- MODULE IndexGetter ----------------------------
(***************************************************************************)
(* CachedIndexGetter (storage/index-getter.go): a reader of the indexes of *)
(* a period, with a cache that a goroutine of its own fills ahead of the   *)
(* reader and that keeps some indexes behind it, so that seeking back is   *)
(* cheap.  Get and Seek are called by one thread, the history pusher's.    *)
(*                                                                         *)
(* One action is one section under cacheLock, together with the signal it  *)
(* sends afterwards to a channel of capacity 1 (ChanTryPush: a signal that *)
(* is already there is enough), or one call of Channel.FindIndexes.        *)
(***************************************************************************)
EXTENDS Timelines, Naturals, Sequences, FiniteSets, SequencesExt

CONSTANTS
    Stored,         \* the channel's indexes, recorded before or during the play
    Known0,         \* how many of them are there when the getter is created
    StartTime,      \* the period
    EndTime,
    CacheCap,       \* capacity of cache
    BufferCap,      \* capacity of buffer: indexes per query
    FindMayFail     \* may FindIndexes fail?

ASSUME GetterAssumption ==
    /\ Known0 \in 0..Len(Stored)
    /\ StartTime \in Nat \ {0} /\ EndTime \in Nat /\ StartTime < EndTime
    /\ CacheCap \in Nat \ {0, 1} /\ BufferCap \in 1..CacheCap
    /\ FindMayFail \in BOOLEAN
ASSUME StoredAssumption ==
    /\ Stored \in Seq([seq : Nat, start : Nat, end : Nat])
    /\ \A i \in DOMAIN Stored : Stored[i].seq = i /\ Stored[i].start < Stored[i].end
    /\ \A i, j \in DOMAIN Stored : i < j => Stored[i].end <= Stored[j].start

VARIABLES
    known,          \* how many indexes the channel has by now
    cache,          \* cache
    cur,            \* cur: how many cached indexes lie behind the reader
    curTime,        \* curTime: the end of the last index read, or where to seek
    err,            \* err: "none", "eof" or "fail"
    addable,        \* is there a signal in the channel addable?
    accessible,     \* is there a signal in the channel accessible?
    run             \* the goroutine: [pc, start, limit, rows]

ivars == <<known, cache, cur, curTime, err, addable, accessible, run>>

Waiting == [pc |-> "wait", start |-> 0, limit |-> 0, rows |-> <<>>]

-----------------------------------------------------------------------------
(* Channel.FindIndexes, as MetaQueries shows it to answer.                 *)

\* The numbers of the stored indexes that end after a time, up to EndTime.
Period(t) == {i \in DOMAIN Stored : Stored[i].end > t /\ Stored[i].start < EndTime}

FindIndexes(start, limit) ==
    LET match == {i \in Period(start) : i <= known}
        n     == Cardinality(match)
    IN  [j \in 1..(IF limit < n THEN limit ELSE n) |-> Stored[Ascending(match)[j]]]

-----------------------------------------------------------------------------
(* run.                                                                    *)

Half == CacheCap \div 2
Threshold == IF Half > BufferCap THEN BufferCap ELSE Half

\* Where the next query has to start: behind the cache, or at the reader.
Behind == IF cache = <<>> THEN curTime ELSE Last(cache).end

RunTake ==
    LET room == IF err # "none" THEN 0 ELSE CacheCap - Len(cache)
    IN  /\ run.pc = "wait" /\ addable
        /\ addable' = FALSE
        /\ run' = IF room < Threshold THEN run
                  ELSE [pc |-> "find", start |-> Behind, rows |-> <<>>,
                        limit |-> IF room > BufferCap THEN BufferCap ELSE room]
        /\ UNCHANGED <<known, cache, cur, curTime, err, accessible>>

RunFind ==
    /\ run.pc = "find"
    /\ run' = [run EXCEPT !.pc = "apply", !.rows = FindIndexes(run.start, run.limit)]
    /\ UNCHANGED <<known, cache, cur, curTime, err, addable, accessible>>

\* Plausible bug: the result is used although the reader has moved.
InPlaceAlways == TRUE

\* The reader is still where the query was made for.
InPlace == Behind = run.start

\* The error is stored; there is no early return.
RunFail ==
    /\ FindMayFail /\ run.pc = "find"
    /\ err' = IF InPlace THEN "fail" ELSE err
    /\ run' = [run EXCEPT !.pc = "failed"]
    /\ UNCHANGED <<known, cache, cur, curTime, addable, accessible>>

\* The section that follows asks the nil result for its length: unless the
\* reader has moved meanwhile the goroutine panics, and the process ends.
RunFailed ==
    /\ run.pc = "failed"
    /\ run' = IF InPlace THEN [Waiting EXCEPT !.pc = "panic"] ELSE Waiting
    /\ UNCHANGED <<known, cache, cur, curTime, err, addable, accessible>>

\* Plausible bug: a full answer is taken for the last one.
RunApplyFull ==
    /\ run.pc = "apply"
    /\ IF InPlace
       THEN /\ cache' = cache \o run.rows
            /\ err' = IF run.limit >= Len(run.rows) THEN "eof" ELSE err
            /\ accessible' = TRUE
       ELSE UNCHANGED <<cache, err, accessible>>
    /\ run' = Waiting
    /\ UNCHANGED <<known, cur, curTime, addable>>

\* The rows are what IndexChecker lets pass: FindIndexes has checked them, and
\* the first ends, and so starts, behind the last one cached.
RunApply ==
    /\ run.pc = "apply"
    /\ IF InPlace
       THEN /\ cache' = cache \o run.rows
            /\ err' = IF run.limit > Len(run.rows) THEN "eof" ELSE err
            /\ accessible' = TRUE
       ELSE UNCHANGED <<cache, err, accessible>>
    /\ run' = Waiting
    /\ UNCHANGED <<known, cur, curTime, addable>>

\* The channel records another block.
Record ==
    /\ known < Len(Stored)
    /\ known' = known + 1
    /\ UNCHANGED <<cache, cur, curTime, err, addable, accessible, run>>

-----------------------------------------------------------------------------
(* Get, one turn of its loop: an index, an error, or nothing yet.          *)

HasIndex == cur < Len(cache)
HasError == ~HasIndex /\ err # "none"
NextIndex == cache[cur + 1]

\* Plausible bug: the goroutine is not told that there is room again.
TakeIndexSilent ==
    /\ HasIndex
    /\ curTime' = NextIndex.end
    /\ IF cur < Half
       THEN cur' = cur + 1 /\ UNCHANGED cache
       ELSE cache' = Tail(cache) /\ UNCHANGED cur
    /\ UNCHANGED <<known, err, addable, accessible, run>>

TakeIndex ==
    /\ HasIndex
    /\ curTime' = NextIndex.end
    /\ IF cur < Half
       THEN cur' = cur + 1 /\ UNCHANGED cache
       ELSE cache' = Tail(cache) /\ UNCHANGED cur
    /\ addable' = TRUE
    /\ UNCHANGED <<known, err, accessible, run>>

\* The caller blocks until the goroutine has added something.
AwaitAccess ==
    /\ accessible
    /\ accessible' = FALSE
    /\ UNCHANGED <<known, cache, cur, curTime, err, addable, run>>

-----------------------------------------------------------------------------
(* Seek.                                                                   *)

Clamped(t) == IF t < StartTime THEN StartTime ELSE IF t > EndTime THEN EndTime ELSE t

\* popCache: at most half of the cache lies behind the reader.
Popped(n) == IF n > Half THEN n - Half ELSE 0

Clear(e) == cache' = <<>> /\ cur' = 0 /\ err' = e

\* To the end of the period.
SeekEnd ==
    IF err = "eof"
    THEN /\ cache' = SubSeq(cache, Popped(Len(cache)) + 1, Len(cache))
         /\ cur' = Len(cache')
         /\ UNCHANGED <<err, addable, accessible>>
    ELSE /\ Clear("eof")
         /\ accessible' = (accessible \/ (cache = <<>> /\ err = "none"))
         /\ UNCHANGED addable

\* sort.Search: how many cached indexes lie before the first that ends after t.
Search(t) ==
    CHOOSE n \in 0..Len(cache) :
        /\ \A i \in 1..n : cache[i].end <= t
        /\ n < Len(cache) => cache[n + 1].end > t

\* To a time that the cache covers.
SeekCached(t) ==
    LET n == Search(t)
    IN  /\ cache' = SubSeq(cache, Popped(n) + 1, Len(cache))
        /\ cur' = n - Popped(n)
        /\ addable' = (addable \/ (err = "none" /\ Popped(n) > 0))
        /\ UNCHANGED <<err, accessible>>

Seek(t) ==
    /\ curTime' = t
    /\ IF t = curTime THEN UNCHANGED <<cache, cur, err, addable, accessible>>
       ELSE IF t = EndTime THEN SeekEnd
       ELSE IF cache = <<>> THEN UNCHANGED <<cache, cur, err, addable, accessible>>
       ELSE IF t < Head(cache).start \/ t >= Last(cache).end
       THEN Clear("none") /\ addable' = TRUE /\ UNCHANGED accessible
       ELSE SeekCached(t)
    /\ UNCHANGED <<known, run>>

-----------------------------------------------------------------------------
\* newCachedIndexGetter and start, which sends the first addable signal.
GetterInit ==
    /\ known = Known0
    /\ cache = <<>> /\ cur = 0 /\ curTime = StartTime /\ err = "none"
    /\ addable = TRUE /\ accessible = FALSE
    /\ run = Waiting

Running == RunTake \/ RunFind \/ RunFail \/ RunFailed \/ RunApply
=============================================================================
