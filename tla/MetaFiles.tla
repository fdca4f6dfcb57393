----------------------------- MODULE MetaFiles -----------------------------
(***************************************************************************)
(* The file side of DBMetaManager (storage/meta/db-meta-manager.go): the   *)
(* ring of file records, the three ordered maps of records that still have *)
(* to be inserted, updated or deleted in the file table, and the single    *)
(* worker that does so.  The writer calls NewFile, AddFile and UpdateFile, *)
(* doDelete calls DeleteFile.                                              *)
(*                                                                         *)
(* A record is its sequence number and a version that every UpdateFile     *)
(* advances.  The maps hold pointers into the slots of the ring, and the   *)
(* worker reads the record through its pointer when it builds a statement, *)
(* without filesLock: it sees what UpdateFile and, once the record has     *)
(* been popped, a later AddFile put into that slot.                        *)
(***************************************************************************)
EXTENDS Naturals, Sequences, SequencesExt, Timelines

CONSTANTS
    RingCap,        \* capacity of the ring (maxFiles)
    DeleteLast,     \* may retention delete the newest file?
    DBMayFail,      \* may a statement fail?
    Crashes,        \* may the process be killed?
    MaxFileSeq,     \* bound: sequence numbers
    MaxVer          \* bound: updates of one file

ASSUME RingAssumption  == RingCap \in Nat \ {0} /\ MaxFileSeq \in Nat /\ MaxVer \in Nat
ASSUME FilesFlagAssumption ==
    DeleteLast \in BOOLEAN /\ DBMayFail \in BOOLEAN /\ Crashes \in BOOLEAN

TaskTypes == {"create", "update", "delete"}

VARIABLES
    phase,          \* "running", "flush" (the final tasks of run) or "down"
    table,          \* the rows of the channel's file table
    files,          \* the ring
    head,           \* the slot of the ring's first record
    toCreate,       \* needCreatedFiles: entries in insertion order; an entry
    toUpdate,       \*   needUpdatedFiles  that is not live has the value nil
    toDelete,       \* needDeletedFiles
    fileTasks,      \* the task types that wait, in insertion order
    queued,         \* is doFileTask waiting in the executor's channel?
    stuck,          \* has Async blocked while filesLock was held?
    worker          \* where the worker stands: [pc, batch, left, slot, cur, stmt];
                    \*   cur is what its pointer to slot shows, stmt the record
                    \*   in the statement it has built

maps == <<toCreate, toUpdate, toDelete>>
ring == <<files, head>>
fvars == <<phase, table, ring, maps, fileTasks, queued, stuck, worker>>

NoFile == [seq |-> 0, ver |-> 0]
Idle   == [pc |-> "idle", batch |-> <<>>, left |-> 0, slot |-> RingCap,
           cur |-> NoFile, stmt |-> NoFile]

-----------------------------------------------------------------------------
(* The ring and the ordered maps (container.LinkedMap).                    *)

Seqs(q)   == {q[i].seq : i \in DOMAIN q}
Row(seq)  == CHOOSE r \in ToSet(files) : r.seq = seq
Slot(i)   == (head + i - 1) % RingCap

\* Put: a present key keeps its place and becomes live.
Put(q, seq) ==
    IF seq \in Seqs(q)
    THEN [i \in DOMAIN q |-> IF q[i].seq = seq THEN [q[i] EXCEPT !.live = TRUE] ELSE q[i]]
    ELSE Append(q, [seq |-> seq, live |-> TRUE])

PutIfAbsent(q, seq) == IF seq \in Seqs(q) THEN q ELSE Append(q, [seq |-> seq, live |-> TRUE])

\* GetEntry(seq).SetValue(nil) for every file that leaves the ring.
Kill(q, gone) ==
    [i \in DOMAIN q |-> IF q[i].seq \in gone THEN [q[i] EXCEPT !.live = FALSE] ELSE q[i]]

\* Plausible bug: only the last file that left the ring is put.
PutKeysNewest(keys, gone) == keys \o Ascending({s \in gone \ ToSet(keys) : \A t \in gone : t <= s})

\* needDeletedFiles.Put for every file that leaves the ring, in their order.
PutKeys(keys, gone) == keys \o Ascending(gone \ ToSet(keys))

\* Plausible bug: an entry whose statement failed is forgotten.
RetriedNever(q, seq) == q

\* An entry whose statement failed goes back if its file is still in the ring.
Retried(q, seq) == IF seq \in Seqs(files) THEN PutIfAbsent(q, seq) ELSE q

-----------------------------------------------------------------------------
(* addFileTask.  Async blocks when a task waits in the executor's channel. *)

\* Plausible bug: every new task type submits doFileTask.
AddFileTaskEach(type) ==
    IF type \in ToSet(fileTasks)
    THEN UNCHANGED <<fileTasks, queued, stuck>>
    ELSE /\ fileTasks' = Append(fileTasks, type)
         /\ queued' = TRUE
         /\ stuck' = (stuck \/ queued)

\* Plausible bug: a busy worker is expected to look again.
AddFileTaskIfIdle(type) ==
    IF type \in ToSet(fileTasks)
    THEN UNCHANGED <<fileTasks, queued, stuck>>
    ELSE /\ fileTasks' = Append(fileTasks, type)
         /\ IF Len(fileTasks') = 1 /\ worker.pc = "idle"
            THEN queued' = TRUE /\ stuck' = (stuck \/ queued)
            ELSE UNCHANGED <<queued, stuck>>

AddFileTask(type) ==
    IF type \in ToSet(fileTasks)
    THEN UNCHANGED <<fileTasks, queued, stuck>>
    ELSE /\ fileTasks' = Append(fileTasks, type)
         /\ IF Len(fileTasks') = 1
            THEN queued' = TRUE /\ stuck' = (stuck \/ queued)
            ELSE UNCHANGED <<queued, stuck>>

-----------------------------------------------------------------------------
(* The operations of the manager.                                          *)

NewFile == [seq |-> IF files = <<>> THEN 1 ELSE files[Len(files)].seq + 1, ver |-> 0]

\* NewFile and AddFile; a full ring refuses the file.
AddFile ==
    /\ phase = "running"
    /\ NewFile.seq <= MaxFileSeq /\ Len(files) < RingCap
    /\ files' = Append(files, NewFile)
    /\ toCreate' = Put(toCreate, NewFile.seq)
    /\ worker' = IF worker.slot = Slot(Len(files) + 1)
                 THEN [worker EXCEPT !.cur = NewFile] ELSE worker
    /\ AddFileTask("create")
    /\ UNCHANGED <<phase, table, head, toUpdate, toDelete>>

\* Plausible bug: a record that is being inserted is not updated again.
UpdateFileUnlessCreating(seq) ==
    /\ phase = "running"
    /\ seq \in Seqs(files) /\ Row(seq).ver < MaxVer
    /\ \E i \in DOMAIN files :
          /\ files[i].seq = seq
          /\ files' = [files EXCEPT ![i].ver = @ + 1]
          /\ worker' = IF worker.slot = Slot(i)
                       THEN [worker EXCEPT !.cur = files'[i]] ELSE worker
    /\ IF seq \in Seqs(toCreate) \/ seq \in Seqs(toUpdate) \/ worker.cur.seq = seq
       THEN UNCHANGED <<toUpdate, fileTasks, queued, stuck>>
       ELSE toUpdate' = PutIfAbsent(toUpdate, seq) /\ AddFileTask("update")
    /\ UNCHANGED <<phase, table, head, toCreate, toDelete>>

UpdateFile(seq) ==
    /\ phase = "running"
    /\ seq \in Seqs(files) /\ Row(seq).ver < MaxVer
    /\ \E i \in DOMAIN files :
          /\ files[i].seq = seq
          /\ files' = [files EXCEPT ![i].ver = @ + 1]
          /\ worker' = IF worker.slot = Slot(i)
                       THEN [worker EXCEPT !.cur = files'[i]] ELSE worker
    /\ IF seq \in Seqs(toCreate) \/ seq \in Seqs(toUpdate)
       THEN UNCHANGED <<toUpdate, fileTasks, queued, stuck>>
       ELSE toUpdate' = PutIfAbsent(toUpdate, seq) /\ AddFileTask("update")
    /\ UNCHANGED <<phase, table, head, toCreate, toDelete>>

\* The first n files are popped from the ring.
Popped(n) == {files[i].seq : i \in 1..n}

PopFiles(n) ==
    /\ files' = SubSeq(files, n + 1, Len(files))
    /\ head' = (head + n) % RingCap
    /\ toCreate' = Kill(toCreate, Popped(n))
    /\ toUpdate' = Kill(toUpdate, Popped(n))
    /\ toDelete' = PutKeys(toDelete, Popped(n))

\* The files at the head of the ring leave it, up to seq.
DeleteFile(seq) ==
    /\ phase = "running"
    /\ \E n \in 1..Len(files) :
          /\ \A i \in 1..n : files[i].seq <= seq
          /\ n < Len(files) => files[n + 1].seq > seq
          /\ DeleteLast \/ n < Len(files)
          /\ PopFiles(n)
    /\ AddFileTask("delete")
    /\ UNCHANGED <<phase, table, worker>>

-----------------------------------------------------------------------------
(* doFileTask and the three tasks.                                         *)

Type == Head(worker.batch)

\* The executor's goroutine takes doFileTask out of its channel.
WorkerTake ==
    /\ worker.pc = "idle" /\ queued
    /\ queued' = FALSE
    /\ worker' = [worker EXCEPT !.pc = "take"]
    /\ UNCHANGED <<phase, table, ring, maps, fileTasks, stuck>>

\* doFileTask takes all task types at once.
WorkerBatch ==
    /\ worker.pc = "take"
    /\ worker' = [worker EXCEPT !.pc = "count", !.batch = fileTasks]
    /\ fileTasks' = <<>>
    /\ UNCHANGED <<phase, table, ring, maps, queued, stuck>>

Waiting(type) == CASE type = "create" -> toCreate
                   [] type = "update" -> toUpdate
                   [] type = "delete" -> toDelete

\* A task first counts its entries, so that it tries each of them once.
WorkerCount ==
    /\ worker.pc = "count"
    /\ worker' = IF worker.batch = <<>> THEN Idle
                 ELSE [worker EXCEPT !.pc = "next", !.left = Len(Waiting(Type))]
    /\ phase' = IF worker.batch = <<>> /\ phase = "flush" THEN "down" ELSE phase
    /\ UNCHANGED <<table, ring, maps, fileTasks, queued, stuck>>

\* The worker goes on with the file seq; deleteFile keeps only the number.
Pointing(seq) ==
    LET next == [worker EXCEPT !.pc = "build", !.left = @ - 1]
    IN  IF Type = "delete" THEN [next EXCEPT !.cur = [seq |-> seq, ver |-> 0]]
        ELSE LET i == CHOOSE j \in DOMAIN files : files[j].seq = seq
             IN  [next EXCEPT !.slot = Slot(i), !.cur = files[i]]

\* RemoveFirst; an entry without value is skipped.
WorkerNext ==
    /\ worker.pc = "next"
    /\ IF worker.left = 0
       THEN worker' = [worker EXCEPT !.pc = "count", !.batch = Tail(@)] /\ UNCHANGED maps
       ELSE /\ worker' = IF Type # "delete" /\ ~Head(Waiting(Type)).live
                         THEN [worker EXCEPT !.left = @ - 1]
                         ELSE Pointing(IF Type = "delete" THEN Head(toDelete)
                                       ELSE Head(Waiting(Type)).seq)
            /\ toCreate' = IF Type = "create" THEN Tail(toCreate) ELSE toCreate
            /\ toUpdate' = IF Type = "update" THEN Tail(toUpdate) ELSE toUpdate
            /\ toDelete' = IF Type = "delete" THEN Tail(toDelete) ELSE toDelete
    /\ UNCHANGED <<phase, table, ring, fileTasks, queued, stuck>>

\* The statement is built from what the pointer shows.
WorkerBuild ==
    /\ worker.pc = "build"
    /\ worker' = [worker EXCEPT !.pc = "db", !.stmt = worker.cur]
    /\ UNCHANGED <<phase, table, ring, maps, fileTasks, queued, stuck>>

Others == {r \in table : r.seq # worker.stmt.seq}

Continue == worker' = [worker EXCEPT !.pc = "next", !.slot = RingCap, !.cur = NoFile, !.stmt = NoFile]

WorkerStatement ==
    /\ worker.pc = "db"
    /\ CASE Type = "create" -> Others = table /\ table' = table \union {worker.stmt}
         [] Type = "update" -> table' = IF Others = table THEN table ELSE Others \union {worker.stmt}
         [] Type = "delete" -> table' = Others
    /\ Continue
    /\ UNCHANGED <<phase, ring, maps, fileTasks, queued, stuck>>

\* The statement fails, as an insert always does when the key is present: the
\* entry goes back into its map, but no task is submitted for it.
WorkerFail ==
    /\ worker.pc = "db"
    /\ DBMayFail \/ (Type = "create" /\ Others # table)
    /\ LET seq == worker.cur.seq
       IN  /\ toCreate' = IF Type = "create" THEN Retried(toCreate, seq) ELSE toCreate
           /\ toUpdate' = IF Type = "update" THEN Retried(toUpdate, seq) ELSE toUpdate
           /\ toDelete' = IF Type = "delete" THEN PutKeys(toDelete, {seq}) ELSE toDelete
    /\ Continue
    /\ UNCHANGED <<phase, table, ring, fileTasks, queued, stuck>>

-----------------------------------------------------------------------------
(* run, loadFiles and crashes.                                             *)

\* The executor is closed; then createFile, updateFile and deleteFile run once.
Shutdown ==
    /\ phase = "running" /\ worker.pc = "idle"
    /\ phase' = "flush"
    /\ queued' = FALSE /\ fileTasks' = <<>>
    /\ worker' = [Idle EXCEPT !.pc = "count", !.batch = <<"create", "update", "delete">>]
    /\ UNCHANGED <<table, ring, maps, stuck>>

Empty ==
    /\ files' = <<>> /\ head' = 0 /\ toCreate' = <<>> /\ toUpdate' = <<>> /\ toDelete' = <<>>
    /\ fileTasks' = <<>> /\ queued' = FALSE /\ worker' = Idle

Crash ==
    /\ Crashes /\ phase # "down"
    /\ phase' = "down"
    /\ Empty
    /\ UNCHANGED <<table, stuck>>

\* loadFiles: the newest rows, as many as the ring holds.
LoadFiles ==
    /\ phase = "down"
    /\ LET seqs == Ascending({r.seq : r \in table})
           n    == Len(seqs)
           skip == IF n <= RingCap THEN 0 ELSE n - RingCap
       IN  files' = [i \in 1..(n - skip) |-> CHOOSE r \in table : r.seq = seqs[skip + i]]
    /\ head' = 0
    /\ phase' = "running"
    /\ toCreate' = <<>> /\ toUpdate' = <<>> /\ toDelete' = <<>>
    /\ UNCHANGED <<table, fileTasks, queued, stuck, worker>>

-----------------------------------------------------------------------------
FInit ==
    /\ phase = "down"
    /\ table = {}
    /\ files = <<>> /\ head = 0 /\ toCreate = <<>> /\ toUpdate = <<>> /\ toDelete = <<>>
    /\ fileTasks = <<>> /\ queued = FALSE /\ stuck = FALSE
    /\ worker = Idle

Work == WorkerTake \/ WorkerBatch \/ WorkerCount \/ WorkerNext \/ WorkerBuild
        \/ WorkerStatement \/ WorkerFail

FNext ==
    \/ AddFile
    \/ \E seq \in 1..MaxFileSeq : UpdateFile(seq) \/ DeleteFile(seq)
    \/ Work
    \/ Shutdown \/ Crash \/ LoadFiles

FSpec == FInit /\ [][FNext]_fvars

-----------------------------------------------------------------------------
(* Properties.                                                             *)

\* addFileTask submits doFileTask while it holds filesLock, which doFileTask
\* needs: the executor's channel is always empty then, so Async never blocks.
AsyncNeverBlocks == ~stuck

InFlight(type) == IF worker.pc \in {"build", "db"} /\ Type = type THEN {worker.cur.seq} ELSE {}
Live(q) == {q[i].seq : i \in {j \in DOMAIN q : q[j].live}}

\* A file of the ring is in the table, or it is known that it has to get there;
\* and a row of the table is never without owner: its file is in the ring, or
\* its deletion waits or is being done.  No insert or update that was under way
\* when the file was deleted brings its row back.
FilesTracked ==
    /\ phase = "running" =>
        Seqs(files) \subseteq {r.seq : r \in table} \union Live(toCreate) \union InFlight("create")
    /\ phase # "down" =>
        {r.seq : r \in table} \subseteq Seqs(files) \union ToSet(toDelete) \union InFlight("delete")

\* A row that is older than its file is known to need an update: no UpdateFile
\* is lost, even one made while the record is being inserted or updated.
UpdatesTracked ==
    phase = "running" =>
        \A r \in table : \A i \in DOMAIN files :
            (files[i].seq = r.seq /\ files[i].ver # r.ver) =>
                r.seq \in Live(toUpdate) \union Live(toCreate) \union InFlight("update")

\* A task type that has been noted down has a doFileTask that will take it,
\* although addFileTask submits one only for the first of them.
NoTaskForgotten ==
    (phase = "running" /\ fileTasks # <<>>) => queued \/ worker.pc = "take"
=============================================================================
