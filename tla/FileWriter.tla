----------------------------- MODULE FileWriter -----------------------------
(***************************************************************************)
(* The write path of a file storage channel (storage/file/channel.go).     *)
(* Write, WriteStreamLost, Sync and CloseFile run under writeLock: they    *)
(* gather blocks in a buffer and hand requests over to doSync, which runs  *)
(* on an executor of its own, opens and rotates the files, writes the      *)
(* buffers and adds an index per block.                                    *)
(*                                                                         *)
(* A block is the number of the call that brought it and has a size in     *)
(* units; unit k of block b is the pair <<b, k>>, so that a file's content *)
(* tells whose data it is.  Times are left out: that a file is old enough  *)
(* to be rotated is a choice.  The metadata manager appears as what it     *)
(* promises (MetaIndexes, MetaFiles): the indexes are saved in order, the  *)
(* file records some time after they changed.                              *)
(***************************************************************************)
EXTENDS Timelines, Integers, FiniteSets, SequencesExt

CONSTANTS
    BufferSize,     \* writeBufferSize
    MaxSyncReqs,    \* capacity of syncReqs
    FileSize,       \* fileSize
    MaxBlocks,      \* bound: calls of Write and WriteStreamLost
    Scenes          \* what a behaviour is about: [buffers, ring, sizes, ops, faults, blocks]

\* A scene has buffers in writeBufferPool and ring places for the metadata
\* manager's files; its calls are of ops, its blocks of sizes, blocks in all.
\* "open", "write", "seek": that file operation may fail; "crash": the process
\* may be killed; "late": the insert of a file record may come later than that
\* of an index; "expire": retention deletes files; "expireOpen": even the one
\* that is open.
AllFaults == {"open", "write", "seek", "crash", "late", "expire", "expireOpen"}

ASSUME WriterAssumption ==
    /\ {BufferSize, MaxSyncReqs, FileSize} \subseteq Nat \ {0} /\ MaxBlocks \in Nat
    /\ \A s \in Scenes :
          /\ {s.buffers, s.ring} \union s.sizes \subseteq Nat \ {0} /\ s.blocks \in 0..MaxBlocks
          /\ s.ops \subseteq {"write", "lost", "sync", "close"} /\ s.faults \subseteq AllFaults

VARIABLES
    scene,          \* the scene
    calls,          \* how many blocks have been offered
    call,           \* the call under writeLock: [todo, index], todo its steps
    syncReq,        \* syncReq
    syncReqs,       \* syncReqs
    free,           \* how many buffers are in writeBufferPool
    task,           \* does doSync wait in its executor's channel?
    sync,           \* doSync: [pc, reqs, seek, offset, size, err]
    fileCtx,        \* fileCtx: [seq, path, off, size]
    switchFile,     \* switchFile
    files,          \* metaManager's files: [seq, path, size]
    table,          \* the file records that are in the database
    disk,           \* the content of every path
    paths,          \* how many paths have been used
    log,            \* the indexes that AddIndex has got and that still exist
    saved,          \* how many of them are in the database
    made            \* history: the blocks an index was made for

writing == <<calls, call, syncReq>>
handing == <<syncReqs, task>>
storing == <<fileCtx, switchFile, files, table, disk, paths>>
logging == <<log, saved>>
wvars   == <<scene, writing, handing, free, sync, storing, logging, made>>

Index(b, size, state) == [block |-> b, size |-> size, file |-> 0, off |-> 0, state |-> state]

\* A request: its kind, what is in its buffer and its indexes.
NoReq   == [kind |-> "none", data |-> <<>>, indexes |-> <<>>]
NoCall  == [todo |-> <<>>, index |-> Index(0, 0, "none")]
NoCtx   == [seq |-> 0, path |-> 0, off |-> 0, size |-> 0]
Resting == [pc |-> "idle", reqs |-> <<>>, seek |-> -1, offset |-> 0, size |-> 0, err |-> FALSE]

-----------------------------------------------------------------------------
(* The calls.  Each sets out its steps; sync that finds syncReqs full ends *)
(* the call with the error "busy" and leaves syncReq where it is.          *)

HasRoom(size) == syncReq.kind = "block" /\ Len(syncReq.data) + size <= BufferSize

Begin(todo, index) ==
    /\ call.todo = <<>>
    /\ call' = [todo |-> todo, index |-> index]
    /\ UNCHANGED <<syncReq, handing, free, sync, storing, logging, made>>

\* writeBlock, and dropBlock for a block that is larger than a buffer.
Write(size, now) ==
    LET room == IF HasRoom(size) THEN <<"put">> ELSE <<"sync", "put">>
        b    == calls + 1
    IN  /\ "write" \in scene.ops /\ b <= scene.blocks
        /\ calls' = b
        /\ IF size > BufferSize
           THEN Begin(<<"sync", "index", "sync">>, Index(b, size, "dropped"))
           ELSE Begin(IF now THEN room \o <<"sync">> ELSE room, Index(b, size, "data"))

WriteStreamLost ==
    /\ "lost" \in scene.ops /\ calls < scene.blocks
    /\ calls' = calls + 1
    /\ Begin(<<"sync", "index", "sync">>, Index(calls', 0, "lost"))

Sync == "sync" \in scene.ops /\ Begin(<<"sync">>, NoCall.index) /\ UNCHANGED calls

CloseFile == "close" \in scene.ops /\ Begin(<<"sync", "close", "sync">>, NoCall.index) /\ UNCHANGED calls

\* The next step of the call is s.
At(s) == call.todo # <<>> /\ Head(call.todo) = s
Then(todo) == call' = IF todo = <<>> THEN NoCall ELSE [call EXCEPT !.todo = todo]
Rest == Tail(call.todo)

\* Plausible bug: the request that did not fit is forgotten.
StepSyncForget ==
    /\ At("sync")
    /\ IF syncReq = NoReq
       THEN Then(Rest) /\ UNCHANGED <<syncReq, syncReqs>>
       ELSE IF Len(syncReqs) = MaxSyncReqs
       THEN Then(<<>>) /\ syncReq' = NoReq /\ UNCHANGED syncReqs
       ELSE /\ syncReqs' = Append(syncReqs, syncReq)
            /\ syncReq' = NoReq
            /\ Then(<<"try">> \o Rest)
    /\ UNCHANGED <<calls, task, free, sync, storing, logging, made>>

StepSync ==
    /\ At("sync")
    /\ IF syncReq = NoReq
       THEN Then(Rest) /\ UNCHANGED <<syncReq, syncReqs>>
       ELSE IF Len(syncReqs) = MaxSyncReqs
       THEN Then(<<>>) /\ UNCHANGED <<syncReq, syncReqs>>
       ELSE /\ syncReqs' = Append(syncReqs, syncReq)
            /\ syncReq' = NoReq
            /\ Then(<<"try">> \o Rest)
    /\ UNCHANGED <<calls, task, free, sync, storing, logging, made>>

\* Plausible bug: doSync is submitted only while the executor is free.
StepTryIfIdle ==
    /\ At("try")
    /\ task' = (task \/ sync.pc = "idle")
    /\ Then(Rest)
    /\ UNCHANGED <<calls, syncReq, syncReqs, free, sync, storing, logging, made>>

StepTry ==
    /\ At("try")
    /\ task' = TRUE
    /\ Then(Rest)
    /\ UNCHANGED <<calls, syncReq, syncReqs, free, sync, storing, logging, made>>

Dropped(index) == [index EXCEPT !.state = "dropped"]

Units(b, size) == [k \in 1..size |-> <<b, k>>]

\* What the block of the call adds to a request with the buffer data.
Filled(data, indexes) ==
    [kind |-> "block", data |-> data \o Units(call.index.block, call.index.size),
     indexes |-> Append(indexes, call.index)]

\* The block goes into the buffer at hand or into a new one.  Without a buffer
\* it is dropped: dropBlock has nothing to hand over first, syncReq being nil.
StepPut ==
    /\ At("put")
    /\ IF syncReq.kind = "block"
       THEN /\ syncReq' = Filled(syncReq.data, syncReq.indexes)
            /\ made' = made \union {call.index.block}
            /\ Then(Rest) /\ UNCHANGED free
       ELSE IF free > 0
       THEN /\ syncReq' = Filled(<<>>, <<>>)
            /\ made' = made \union {call.index.block}
            /\ free' = free - 1
            /\ Then(Rest)
       ELSE /\ call' = [todo |-> <<"index", "sync">>, index |-> Dropped(call.index)]
            /\ UNCHANGED <<syncReq, free, made>>
    /\ UNCHANGED <<calls, handing, sync, storing, logging>>

StepIndex ==
    /\ At("index")
    /\ syncReq' = [kind |-> "index", data |-> <<>>, indexes |-> <<call.index>>]
    /\ made' = made \union {call.index.block}
    /\ Then(Rest)
    /\ UNCHANGED <<calls, handing, free, sync, storing, logging>>

StepClose ==
    /\ At("close")
    /\ syncReq' = [NoReq EXCEPT !.kind = "close"]
    /\ Then(Rest)
    /\ UNCHANGED <<calls, handing, free, sync, storing, logging, made>>

-----------------------------------------------------------------------------
(* doSync.                                                                 *)

Req   == Head(sync.reqs)
IsReq(kind) == sync.pc = "next" /\ sync.reqs # <<>> /\ Req.kind = kind
NextReq == sync' = [Resting EXCEPT !.pc = "next", !.reqs = Tail(sync.reqs)]

\* The executor starts doSync, which takes all requests at once.
SyncTake ==
    /\ task /\ sync.pc = "idle"
    /\ task' = FALSE
    /\ sync' = [sync EXCEPT !.pc = "pop"]
    /\ UNCHANGED <<writing, syncReqs, free, storing, logging, made>>

SyncPopAll ==
    /\ sync.pc = "pop"
    /\ sync' = [sync EXCEPT !.pc = "next", !.reqs = syncReqs]
    /\ syncReqs' = <<>>
    /\ UNCHANGED <<writing, task, free, storing, logging, made>>

SyncEnd ==
    /\ sync.pc = "next" /\ sync.reqs = <<>>
    /\ sync' = Resting
    /\ UNCHANGED <<writing, handing, free, storing, logging, made>>

\* indexRequest.
SyncIndex ==
    /\ IsReq("index")
    /\ log' = log \o Req.indexes
    /\ NextReq
    /\ UNCHANGED <<writing, handing, free, storing, saved, made>>

\* metaManager.UpdateFile: the record of a file that is gone stays gone.
UpdateFile(ctx) ==
    files' = [i \in DOMAIN files |-> IF files[i].seq = ctx.seq
                THEN [seq |-> ctx.seq, path |-> ctx.path, size |-> ctx.size] ELSE files[i]]

\* closeFileRequest.
SyncClose ==
    /\ IsReq("close")
    /\ IF fileCtx = NoCtx THEN UNCHANGED files ELSE UpdateFile(fileCtx)
    /\ fileCtx' = NoCtx
    /\ NextReq
    /\ UNCHANGED <<writing, handing, free, switchFile, table, disk, paths, logging, made>>

NewFile == [seq |-> IF files = <<>> THEN 1 ELSE Last(files).seq + 1, path |-> paths + 1, size |-> 0]

\* blockRequest with an open file.
SyncOpened ==
    /\ IsReq("block") /\ fileCtx # NoCtx
    /\ sync' = [sync EXCEPT !.pc = "write", !.seek = -1]
    /\ UNCHANGED <<writing, handing, free, storing, logging, made>>

\* Plausible bug: the buffer of a block that cannot be written is kept.
AbandonKeeping(state) ==
    /\ log' = log \o [k \in DOMAIN Req.indexes |-> [Req.indexes[k] EXCEPT !.state = state]]
    /\ UNCHANGED free
    /\ NextReq

\* Every index of the request is added without a file, the buffer goes back.
Abandon(state) ==
    /\ log' = log \o [k \in DOMAIN Req.indexes |-> [Req.indexes[k] EXCEPT !.state = state]]
    /\ free' = free + 1
    /\ NextReq

\* The last file is continued when it is neither full nor too old.
SyncReopen ==
    /\ IsReq("block") /\ fileCtx = NoCtx
    /\ ~switchFile /\ files # <<>> /\ Last(files).size < FileSize
    /\ fileCtx' = [seq |-> Last(files).seq, path |-> Last(files).path, off |-> 0,
                   size |-> Len(disk[Last(files).path])]
    /\ sync' = [sync EXCEPT !.pc = "write", !.seek = Last(files).size]
    /\ UNCHANGED <<writing, handing, free, switchFile, files, table, disk, paths, logging, made>>

\* Otherwise a new one is created; the metadata manager may have no room.
SyncCreate ==
    /\ IsReq("block") /\ fileCtx = NoCtx
    /\ switchFile' = FALSE
    /\ paths' = paths + 1
    /\ fileCtx' = [seq |-> NewFile.seq, path |-> NewFile.path, off |-> 0, size |-> 0]
    /\ IF Len(files) < scene.ring
       THEN /\ files' = Append(files, NewFile)
            /\ table' = IF "late" \in scene.faults THEN table ELSE table \union {NewFile}
            /\ sync' = [sync EXCEPT !.pc = "write", !.seek = -1]
            /\ UNCHANGED <<free, log>>
       ELSE Abandon("dropped") /\ UNCHANGED <<files, table>>
    /\ UNCHANGED <<writing, handing, disk, saved, made>>

SyncOpenFails ==
    /\ "open" \in scene.faults
    /\ IsReq("block") /\ fileCtx = NoCtx
    /\ switchFile' = FALSE
    /\ Abandon("ioerror")
    /\ UNCHANGED <<writing, handing, fileCtx, files, table, disk, paths, saved, made>>

Overwrite(content, pos, data) ==
    SubSeq(content, 1, pos) \o data \o SubSeq(content, pos + Len(data) + 1, Len(content))

Greater(a, b) == IF a >= b THEN a ELSE b

\* fileCtx.Write: seek, then write all of the data or, failing, a part of it.
SyncWrite ==
    LET pos == IF sync.seek >= 0 THEN sync.seek ELSE fileCtx.off
    IN  /\ sync.pc = "write"
        /\ \E n \in 0..Len(Req.data) :
              /\ n < Len(Req.data) => "write" \in scene.faults
              /\ disk' = [disk EXCEPT ![fileCtx.path] = Overwrite(@, pos, SubSeq(Req.data, 1, n))]
              /\ fileCtx' = [fileCtx EXCEPT !.off = pos + n, !.size = Greater(@, pos + n)]
              /\ sync' = [sync EXCEPT !.pc = "index", !.offset = pos, !.size = n,
                                      !.err = n < Len(Req.data)]
        /\ free' = free + 1
        /\ UNCHANGED <<writing, handing, switchFile, files, table, paths, logging, made>>

SyncSeekFails ==
    /\ "seek" \in scene.faults
    /\ sync.pc = "write" /\ sync.seek >= 0
    /\ sync' = [sync EXCEPT !.pc = "index", !.offset = sync.seek, !.size = 0, !.err = TRUE]
    /\ free' = free + 1
    /\ UNCHANGED <<writing, handing, storing, logging, made>>

Lesser(a, b) == IF a <= b THEN a ELSE b

\* An index says where its block begins and how much of it has been written.
Placed(index) ==
    [index EXCEPT !.file = fileCtx.seq, !.off = sync.offset, !.size = Lesser(@, sync.size),
                  !.state = IF sync.err THEN "ioerror" ELSE @]

SyncAddIndex ==
    LET index == Placed(Head(Req.indexes))
    IN  /\ sync.pc = "index" /\ Req.indexes # <<>>
        /\ log' = Append(log, index)
        /\ sync' = [sync EXCEPT !.reqs[1].indexes = Tail(@),
                                !.offset = @ + index.size, !.size = @ - index.size]
        /\ UNCHANGED <<writing, handing, free, storing, saved, made>>

\* After the last index: the file is closed when it is full or old enough.
SyncRotate ==
    /\ sync.pc = "index" /\ Req.indexes = <<>>
    /\ \/ /\ UpdateFile(fileCtx)
          /\ fileCtx' = NoCtx
          /\ switchFile' = TRUE
       \/ /\ fileCtx.size < FileSize
          /\ UNCHANGED <<fileCtx, switchFile, files>>
    /\ NextReq
    /\ UNCHANGED <<writing, handing, free, table, disk, paths, logging, made>>

-----------------------------------------------------------------------------
(* The metadata manager, retention, crash and restart.                     *)

SaveIndex ==
    /\ scene.faults \cap {"crash", "expire"} # {}        \* else it makes no difference
    /\ saved < Len(log)
    /\ saved' = saved + 1
    /\ UNCHANGED <<writing, handing, free, sync, storing, log, made>>

\* createFile or updateFile.
SaveFile ==
    /\ "crash" \in scene.faults
    /\ \E i \in DOMAIN files :
          table' = {r \in table : r.seq # files[i].seq} \union {files[i]}
    /\ UNCHANGED <<writing, handing, free, sync, fileCtx, switchFile, files, disk, paths, logging, made>>

\* The last index of file f is old: it goes with all before it, and doDelete
\* and DeleteFile take f and the files before f.
Expire ==
    /\ "expire" \in scene.faults
    /\ \E n \in 1..saved :
          LET f == log[n].file
          IN  /\ f # 0 /\ \A k \in (n + 1)..Len(log) : log[k].file # f
              /\ fileCtx = NoCtx \/ fileCtx.seq > f \/ "expireOpen" \in scene.faults
              /\ log' = SubSeq(log, n + 1, Len(log))
              /\ saved' = saved - n
              /\ made' = made \ {log[k].block : k \in 1..n}
              /\ \E m \in 0..Len(files) :
                    /\ \A i \in DOMAIN files : files[i].seq <= f <=> i <= m
                    /\ files' = SubSeq(files, m + 1, Len(files))
              /\ table' = {r \in table : r.seq > f}
    /\ UNCHANGED <<writing, handing, free, sync, fileCtx, switchFile, disk, paths>>

\* The file records, in the order of their numbers.
Ordered(rows) ==
    LET seqs == Ascending({r.seq : r \in rows})
    IN  [i \in DOMAIN seqs |-> CHOOSE r \in rows : r.seq = seqs[i]]

\* Plausible bug: the size of the last file is not taken from the disk.
LoadedAsStored(rows, indexes) == Ordered(rows)

\* loadFiles: the size of the last file is taken from the disk if the last
\* index belongs to it.
Loaded(rows, indexes) ==
    LET loaded == Ordered(rows)
        n      == Len(loaded)
    IN  IF n > 0 /\ indexes # <<>> /\ Last(indexes).file = loaded[n].seq
        THEN [loaded EXCEPT ![n].size = Len(disk[loaded[n].path])] ELSE loaded

\* The process is killed and started again.
Crash ==
    /\ "crash" \in scene.faults
    /\ log' = SubSeq(log, 1, saved)
    /\ made' = {log[k].block : k \in 1..saved}
    /\ files' = Loaded(table, log')
    /\ call' = NoCall /\ syncReq' = NoReq /\ syncReqs' = <<>> /\ free' = scene.buffers
    /\ task' = FALSE /\ sync' = Resting
    /\ fileCtx' = NoCtx /\ switchFile' = FALSE
    /\ UNCHANGED <<calls, table, disk, paths, saved>>

-----------------------------------------------------------------------------
WInit ==
    /\ scene \in Scenes
    /\ calls = 0 /\ call = NoCall /\ syncReq = NoReq /\ syncReqs = <<>>
    /\ free = scene.buffers /\ task = FALSE /\ sync = Resting
    /\ fileCtx = NoCtx /\ switchFile = FALSE
    /\ files = <<>> /\ table = {} /\ disk = [p \in 1..MaxBlocks |-> <<>>] /\ paths = 0
    /\ log = <<>> /\ saved = 0 /\ made = {}

Calls == \/ \E size \in scene.sizes, now \in BOOLEAN : Write(size, now)
         \/ WriteStreamLost \/ Sync \/ CloseFile

Calling == StepSync \/ StepTry \/ StepPut \/ StepIndex \/ StepClose

DoSync ==
    \/ SyncTake \/ SyncPopAll \/ SyncEnd
    \/ SyncIndex \/ SyncClose
    \/ SyncOpened \/ SyncReopen \/ SyncCreate \/ SyncOpenFails
    \/ SyncWrite \/ SyncSeekFails \/ SyncAddIndex \/ SyncRotate

WNext ==
    /\ Calls \/ Calling \/ DoSync \/ SaveIndex \/ SaveFile \/ Expire \/ Crash
    /\ UNCHANGED scene

WSpec == WInit /\ [][WNext]_wvars

\* A call under way goes on, and so does the executor of doSync.
WFairSpec == WSpec /\ WF_wvars(Calling /\ UNCHANGED scene) /\ WF_wvars(DoSync /\ UNCHANGED scene)

-----------------------------------------------------------------------------
(* Properties.                                                             *)

\* The requests on their way: those doSync holds, those that wait, and syncReq.
Pending == sync.reqs \o syncReqs \o <<syncReq>>

Blocks(indexes) == [k \in DOMAIN indexes |-> indexes[k].block]

\* The blocks that AddIndex has seen (0), and those of every request.
Flow == [i \in 0..Len(Pending) |-> Blocks(IF i = 0 THEN log ELSE Pending[i].indexes)]

\* Every block that got an index, dropped or not, has it added exactly once and
\* in the order of the calls: what AddIndex has seen, what doSync holds, what
\* waits in syncReqs and syncReq together are the blocks, also after "busy".
NothingLost ==
    /\ \A i, j \in DOMAIN Flow : \A k \in DOMAIN Flow[i], l \in DOMAIN Flow[j] :
          (i < j \/ (i = j /\ k < l)) => Flow[i][k] < Flow[j][l]
    /\ UNION {ToSet(Flow[i]) : i \in DOMAIN Flow} = made

\* The requests whose buffer doSync has not written yet.
Holders == {i \in DOMAIN Pending : Pending[i].kind = "block" /\ ~(i = 1 /\ sync.pc = "index")}

\* No write buffer leaks and none is given back twice, whatever fails: those
\* not in the pool are in syncReq, in syncReqs or not yet written by doSync.
BuffersConserved == free + Cardinality(Holders) = scene.buffers

\* What a read of at most size units at offset off finds.
ReadAt(content, off, size) == SubSeq(content, off + 1, Lesser(off + size, Len(content)))

\* Every block gets into a file whose record is there in time: the metadata
\* manager and the pool have room, no block is lost or too large, and what may
\* fail is a write.  Only then an index can be relied upon (see the README).
Orderly ==
    /\ scene.blocks <= scene.ring /\ scene.blocks <= scene.buffers
    /\ "lost" \notin scene.ops /\ \A size \in scene.sizes : size <= BufferSize
    /\ scene.faults \subseteq {"write", "crash", "expire"}

\* The comments on the columns of an index: its offset is that of its block in
\* the file with its file number.  Reading the index gives the block's data,
\* after a restart that continues a file too.
IndexesReadable ==
    Orderly => \A k \in DOMAIN log : (log[k].file # 0 /\ log[k].size > 0) =>
        \E i \in DOMAIN files :
            /\ files[i].seq = log[k].file
            /\ ReadAt(disk[files[i].path], log[k].off, log[k].size)
                   = Units(log[k].block, log[k].size)

\* A block that has been handed over to doSync gets its index, unless the
\* process dies first.
EventuallyIndexed ==
    \A b \in 1..MaxBlocks :
        (\E i \in DOMAIN syncReqs : b \in ToSet(Blocks(syncReqs[i].indexes))) ~>
            (b \in {log[k].block : k \in DOMAIN log} \/ b \notin made)
=============================================================================
