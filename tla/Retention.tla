----------------------------- MODULE Retention -----------------------------
(***************************************************************************)
(* How a file storage channel gives space back (storage/file/channel.go):  *)
(* the tick loop of Channel.run looks at the earliest index, marks it for  *)
(* deletion once it is older than the cover period and decides when a file *)
(* has no index left; doDelete, on an executor of its own, removes the     *)
(* file from the disk and then from the metadata.  Both run concurrently   *)
(* with the index workers of MetaIndexes and with the writer.              *)
(*                                                                         *)
(* A file is its sequence number.  Of the manager, the threads that touch  *)
(* the indexes' cache and table run here, with crashes but without the     *)
(* orderly shutdown, and the writer stamps a block with the current time.  *)
(***************************************************************************)
EXTENDS MetaIndexes, Integers

CONSTANTS
    Cover,          \* the cover period
    DeleteCap,      \* capacity of deleteFiles
    Files0,         \* the files on the disk when the process starts
    MaxNow          \* bound: the clock

ASSUME RetentionAssumption ==
    /\ Cover \in Nat /\ DeleteCap \in Nat \ {0} /\ MaxNow \in Nat
    /\ Files0 \subseteq FileSeqs \ {0} /\ IsFiniteSet(Files0)

VARIABLES
    now,            \* the clock
    files,          \* metaManager.files
    disk,           \* the files that exist in the channel's directory
    openFile,       \* the file behind fileCtx, or 0
    tick,           \* the tick loop: [pc, first], first being its last FirstIndex
    curFile,        \* curFile of the tick loop, 0 for nil
    deleteFiles,    \* the files waiting for doDelete
    deleting,       \* doDelete: [task, busy, removed, batch]
    referenced,     \* history: was a file submitted that an index still needs?
    quiet           \* is this a time without recording and without crashes?

space == <<now, files, disk, openFile, tick, curFile, deleteFiles, deleting,
           referenced, quiet>>

NoTick     == [pc |-> "idle", first |-> NoRow]
NoDeleting == [task |-> FALSE, busy |-> FALSE, removed |-> FALSE, batch |-> <<>>]

-----------------------------------------------------------------------------
(* deleteCurFile.                                                          *)

Unmarked(r) == \A i \in 1..needDeleted : earliest[i] # r

\* An index that is not marked for deletion points to the file.
Needed(f) == \E r \in db \union Queued : r.file = f /\ Unmarked(r)

DeleteCurFile(f) ==
    IF Len(deleteFiles) < DeleteCap
    THEN /\ deleteFiles' = Append(deleteFiles, f)
         /\ curFile' = 0
         /\ deleting' = [deleting EXCEPT !.task = TRUE]
         /\ referenced' = (referenced \/ Needed(f))
    ELSE /\ curFile' = f
         /\ UNCHANGED <<deleteFiles, deleting, referenced>>

KeepCurFile(f) == curFile' = f /\ UNCHANGED <<deleteFiles, deleting, referenced>>

-----------------------------------------------------------------------------
(* The tick loop.                                                          *)

\* Plausible bug: an index as old as the cover period is taken for expired.
ExpiredOrEqual(r) == now + offset - r.end >= Cover

Expired(r) == now + offset - r.end > Cover

Step(where) == tick' = [tick EXCEPT !.pc = where]

TickCheck ==
    LET first == FirstIndex.index
    IN  /\ phase = "running" /\ tick.pc = "idle"
        /\ \/ /\ first # NoRow /\ Expired(first)
              /\ tick' = [pc |-> "mark", first |-> first]
              /\ UNCHANGED <<curFile, deleteFiles, deleting, referenced>>
           \/ /\ first = NoRow /\ curFile # 0
              /\ DeleteCurFile(curFile)
              /\ UNCHANGED tick
        /\ UNCHANGED <<now, files, disk, openFile, quiet, vars>>

\* DeleteIndex marks whatever index is now the first one; MarksWhatItChecked
\* shows that there is one, so that its early return is never taken.
TickMark ==
    /\ tick.pc = "mark"
    /\ DeleteIndex
    /\ tick' = IF tick.first.file = 0 THEN NoTick ELSE [tick EXCEPT !.pc = "prev"]
    /\ UNCHANGED <<now, files, disk, openFile, curFile, deleteFiles, deleting, referenced, quiet>>

\* The index belongs to a later file than the one before it.
TickPrev ==
    /\ tick.pc = "prev"
    /\ IF curFile # 0 /\ tick.first.file > curFile
       THEN DeleteCurFile(curFile)
       ELSE KeepCurFile(curFile)
    /\ Step("get")
    /\ UNCHANGED <<now, files, disk, openFile, quiet, vars>>

TickGetFile ==
    /\ tick.pc = "get"
    /\ IF tick.first.file \in files
       THEN curFile' = tick.first.file /\ Step("next")
       ELSE tick' = NoTick /\ UNCHANGED curFile
    /\ UNCHANGED <<now, files, disk, openFile, deleteFiles, deleting, referenced, quiet, vars>>

\* No other index, or one of a later file, follows.
LastOfFile(next, f) ==
    next.loaded /\ (next.index = NoRow \/ (next.index.file # 0 /\ next.index.file > f))

TickNext ==
    /\ tick.pc = "next"
    /\ IF LastOfFile(FirstIndex, tick.first.file)
       THEN DeleteCurFile(curFile)
       ELSE KeepCurFile(curFile)
    /\ tick' = NoTick
    /\ UNCHANGED <<now, files, disk, openFile, quiet, vars>>

-----------------------------------------------------------------------------
(* doDelete.  A failing os.Remove is retried for ever.                     *)

DeleteTake ==
    /\ deleting.task /\ ~deleting.busy
    /\ deleting' = [task |-> FALSE, busy |-> TRUE, removed |-> FALSE, batch |-> deleteFiles]
    /\ deleteFiles' = <<>>
    /\ UNCHANGED <<now, files, disk, openFile, tick, curFile, referenced, quiet, vars>>

\* Plausible bug: a failing os.Remove is taken for success.
DeleteRemoveUnchecked ==
    /\ deleting.busy /\ deleting.batch # <<>> /\ ~deleting.removed
    /\ disk' \in {disk, disk \ {Head(deleting.batch)}}
    /\ deleting' = [deleting EXCEPT !.removed = TRUE]
    /\ UNCHANGED <<now, files, openFile, tick, curFile, deleteFiles, referenced, quiet, vars>>

DeleteRemove ==
    /\ deleting.busy /\ deleting.batch # <<>> /\ ~deleting.removed
    /\ disk' = disk \ {Head(deleting.batch)}
    /\ deleting' = [deleting EXCEPT !.removed = TRUE]
    /\ UNCHANGED <<now, files, openFile, tick, curFile, deleteFiles, referenced, quiet, vars>>

\* metaManager.DeleteFile: every file up to this one leaves the metadata.
DeleteMeta ==
    /\ deleting.removed
    /\ files' = {f \in files : f > Head(deleting.batch)}
    /\ deleting' = [deleting EXCEPT !.removed = FALSE, !.batch = Tail(@)]
    /\ UNCHANGED <<now, disk, openFile, tick, curFile, deleteFiles, referenced, quiet, vars>>

DeleteEnd ==
    /\ deleting.busy /\ deleting.batch = <<>>
    /\ deleting' = [deleting EXCEPT !.busy = FALSE]
    /\ UNCHANGED <<now, files, disk, openFile, tick, curFile, deleteFiles, referenced, quiet, vars>>

-----------------------------------------------------------------------------
(* The writer (doSync), the clock and crashes.                             *)

LastFile == CHOOSE f \in files : \A g \in files : g <= f

\* The last file is reopened, or a new one is created behind it.
OpenFile ==
    /\ ~quiet /\ phase = "running" /\ openFile = 0
    /\ \/ files # {} /\ openFile' = LastFile
       \/ openFile' = (IF files = {} THEN 1 ELSE LastFile + 1) /\ openFile' \in FileSeqs
    /\ files' = files \union {openFile'}
    /\ disk' = disk \union {openFile'}
    /\ UNCHANGED <<now, tick, curFile, deleteFiles, deleting, referenced, quiet, vars>>

\* A block is written and its index added; or the file is full and closed.
WriteBlock ==
    /\ openFile # 0
    /\ AddIndex(now, now, openFile)
    /\ openFile' \in {openFile, 0}
    /\ UNCHANGED <<now, files, disk, tick, curFile, deleteFiles, deleting, referenced, quiet>>

Clock ==
    /\ now < MaxNow
    /\ now' = now + 1
    /\ UNCHANGED <<files, disk, openFile, tick, curFile, deleteFiles, deleting, referenced, quiet, vars>>

Kill ==
    /\ ~quiet
    /\ Crash
    /\ openFile' = 0 /\ curFile' = 0
    /\ tick' = NoTick /\ deleteFiles' = <<>> /\ deleting' = NoDeleting
    /\ UNCHANGED <<now, files, disk, referenced, quiet>>

-----------------------------------------------------------------------------
RInit ==
    /\ Init
    /\ now = 0
    /\ files = Files0 /\ disk = Files0 /\ openFile = 0
    /\ tick = NoTick /\ curFile = 0
    /\ deleteFiles = <<>> /\ deleting = NoDeleting
    /\ referenced = FALSE
    /\ quiet \in BOOLEAN

Indexing ==
    /\ \/ Start \/ AddIndexTry
       \/ Create \/ Delete \/ Grow
       \/ \E w \in {"create", "delete", "grow"} : TakeTask(w)
    /\ UNCHANGED space

Ticking   == TickCheck \/ TickMark \/ TickPrev \/ TickGetFile \/ TickNext
Deleting  == DeleteTake \/ DeleteRemove \/ DeleteMeta \/ DeleteEnd

RNext == Indexing \/ Ticking \/ Deleting \/ OpenFile \/ WriteBlock \/ Clock \/ Kill

RSpec == RInit /\ [][RNext]_<<vars, space>>

\* Besides the index workers, the ticker fires, the delete executor runs, the
\* clock advances and os.Remove succeeds in the end.
RFairSpec ==
    /\ RSpec
    /\ WF_<<vars, space>>(Indexing) /\ WF_<<vars, space>>(Ticking)
    /\ WF_<<vars, space>>(Deleting) /\ WF_<<vars, space>>(Clock)

-----------------------------------------------------------------------------
(* Properties.                                                             *)

\* Between reading the first index and marking it the tick loop holds no lock,
\* yet only indexes older than the cover period are ever marked.
OnlyExpiredMarked == \A i \in 1..needDeleted : earliest[i].end < now + offset - Cover

\* What the tick loop marks is the index it has looked at, whatever the workers
\* did to the cache since.
MarksWhatItChecked ==
    tick.pc = "mark" => /\ needDeleted < Len(earliest)
                        /\ earliest[needDeleted + 1] = tick.first

\* The log line of deleteCurFile, "the earliest file has no index pointing to
\* it any more": at that moment every index that points to it is marked.
DeletedUnreferenced == ~referenced

\* The comment on deleteFiles, doDelete "deletes the files and their file
\* information": unless the writer creates a file while doDelete is at work, or
\* the process is killed, a file on the disk is known to the metadata, so that
\* it can still be deleted.
DiskKnown == quiet => disk \subseteq files

\* When nothing is recorded any more, every file is given back in the end.
EventuallyReclaimed == quiet => <>[](disk = {})
=============================================================================
