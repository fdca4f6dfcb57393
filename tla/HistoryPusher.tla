--------------------------- MODULE HistoryPusher ---------------------------
(***************************************************************************)
(* Playing back what a channel has stored (media/channel/history-rtp-      *)
(* pusher.go): the pusher's goroutine takes one block after the other from *)
(* blockGetter, which reads one block ahead on a goroutine of its own, and *)
(* sends the block's frames at the pace of a timer, while the API starts,  *)
(* pauses, seeks and closes it through channels of capacity 1.             *)
(*                                                                         *)
(* A block is known by its index' number and holds one frame, whose data   *)
(* stays in the buffer that the block was read into until it is sent.      *)
(* Three goroutines take part: the pusher's (pc), the reader of blocks     *)
(* (reader) and the one that finds indexes (run of IndexGetter).           *)
(***************************************************************************)
EXTENDS IndexGetter

CONSTANTS
    Seeks,          \* the offsets a client seeks to
    MayFail,        \* may reading a block or parsing a frame fail?
    MaxCommands     \* bound: seeks and pauses of a client

ASSUME PusherAssumption ==
    Seeks \subseteq Nat /\ MayFail \in BOOLEAN /\ MaxCommands \in Nat

Bufs == {1, 2}

VARIABLES
    pc,             \* where the pusher's goroutine stands
    then,           \* what follows readNext: "seek", "first" or "return"
    nested,         \* has readNext met the current block and called itself?
    want,           \* the index that readNext got
    failed,         \* does Get return an error after the read ahead?
    curSeq,         \* curBlockSeq
    curBuf,         \* the buffer behind curBlock
    blockBuf,       \* the buffer behind blockBuf
    data,           \* which block each buffer holds
    eof,            \* eof
    indexErr,       \* getIndexErr
    seekFlag,       \* seekFlag
    blockReading,   \* blockReading
    requests,       \* readRequestChan
    responses,      \* readResponseChan
    reader,         \* blockReaderRun: [pc, seq, buf]
    firstPush,      \* firstPush: the send timer has not been triggered yet
    pushSignal,     \* a signal in pushSignal
    pauseSignal,    \* a signal in pauseSignal
    seekSignal,     \* the time in seekSignal, 0 for none
    closing,        \* has the pusher been interrupted?
    autoEOF,        \* autoEOFCallback
    callbacks,      \* history: calls of eofCallback
    resumed,        \* history: seeks that left the end of the period
    seeks,          \* history: seeks of the client
    pauses,         \* history: its pauses
    from,           \* history: where the play started, or was sought to last
    sent,           \* history: the blocks sent since then
    lost            \* history: the blocks that could not be read since then

call     == <<then, nested, want, failed>>
getter   == <<curSeq, curBuf, blockBuf, data, eof, indexErr, seekFlag, blockReading>>
chans    == <<requests, responses, reader>>
client   == <<firstPush, pushSignal, pauseSignal, seekSignal, closing>>
history  == <<callbacks, resumed, seeks, pauses, from, sent, lost>>
hvars    == <<ivars, pc, call, getter, chans, client, autoEOF, history>>

NoReader == [pc |-> "idle", seq |-> 0, buf |-> 0]

-----------------------------------------------------------------------------
(* The answers of Get, as HistoryRtpPusher.run takes them.                 *)

Returns(block) ==
    /\ pc' = block
    /\ UNCHANGED <<autoEOF, callbacks>>

\* io.EOF: the callback is called, then the pusher waits to be closed.
ReturnsEOF ==
    /\ pc' = "eof"
    /\ callbacks' = callbacks + 1
    /\ autoEOF' = FALSE

\* Another error: readKeepChooser lets the loop go on, or the play ends.
ReturnsError == pc' \in {"get", "stop"} /\ UNCHANGED <<autoEOF, callbacks>>

ReturnsErr(e) == IF e = "eof" THEN ReturnsEOF ELSE ReturnsError

-----------------------------------------------------------------------------
(* blockGetter.Get.                                                        *)

CallNext(cont) ==
    /\ pc' = "next" /\ then' = cont /\ nested' = FALSE
    /\ UNCHANGED <<want, autoEOF, callbacks>>

Stays == UNCHANGED <<want, then, nested>>

Get ==
    /\ pc = "get"
    /\ failed' = (~eof /\ ~seekFlag /\ ~blockReading /\ indexErr = "fail")
    /\ eof' = (eof \/ (~seekFlag /\ ~blockReading /\ indexErr = "eof"))
    /\ seekFlag' = (eof /\ seekFlag)
    /\ IF eof' THEN ReturnsEOF /\ Stays
       ELSE IF seekFlag THEN CallNext("seek")
       ELSE IF blockReading THEN Returns("recv") /\ Stays
       ELSE IF indexErr = "fail" THEN CallNext("return")
       ELSE CallNext("first")
    /\ UNCHANGED <<ivars, curSeq, curBuf, blockBuf, data, indexErr, blockReading,
                   chans, client, resumed, seeks, pauses, from, sent, lost>>

\* What Get does once readNext has returned; e is the getIndexErr it left.
Resume(e) ==
    CASE then = "seek" /\ nested -> Returns("play") /\ UNCHANGED <<then, failed, eof>>
      [] then = "seek" /\ ~nested /\ e # "none" -> ReturnsErr(e) /\ UNCHANGED <<then, failed, eof>>
      [] then = "seek" /\ ~nested /\ e = "none" -> Returns("recvFrom") /\ UNCHANGED <<then, failed, eof>>
      [] then = "first" /\ e = "none" -> Returns("recv") /\ UNCHANGED <<then, failed, eof>>
      [] then = "first" /\ e = "eof" -> ReturnsEOF /\ eof' = TRUE /\ UNCHANGED <<then, failed>>
      [] then = "first" /\ e = "fail" ->
             Returns("next") /\ then' = "return" /\ failed' = TRUE /\ UNCHANGED eof
      [] then = "return" ->
             /\ IF failed THEN ReturnsError ELSE Returns("play")
             /\ UNCHANGED <<then, failed, eof>>

\* readNext: the index getter has an index.
NextGot ==
    /\ pc = "next"
    /\ TakeIndex
    /\ IF NextIndex.seq = curSeq
       THEN pc' = "next" /\ nested' = TRUE /\ UNCHANGED <<want, indexErr>>
       ELSE pc' = "send" /\ want' = NextIndex.seq /\ indexErr' = "none" /\ UNCHANGED nested
    /\ UNCHANGED <<then, failed, curSeq, curBuf, blockBuf, data, eof, seekFlag, blockReading,
                   chans, client, autoEOF, history>>

\* readNext: it has an error, or is at its end.
NextError ==
    /\ pc = "next" /\ HasError
    /\ indexErr' = err
    /\ blockReading' = FALSE
    /\ Resume(err)
    /\ nested' = FALSE
    /\ UNCHANGED <<ivars, want, curSeq, curBuf, blockBuf, data, seekFlag,
                   chans, client, resumed, seeks, pauses, from, sent, lost>>

\* readNext: it has nothing yet and blocks.
NextBlocks ==
    /\ pc = "next" /\ ~HasIndex /\ ~HasError
    /\ pc' = "await"
    /\ UNCHANGED <<ivars, call, getter, chans, client, autoEOF, history>>

NextAwaits ==
    /\ pc = "await"
    /\ AwaitAccess
    /\ pc' = "next"
    /\ UNCHANGED <<call, getter, chans, client, autoEOF, history>>

\* readNext: the request is sent as soon as the channel has room.
NextSends ==
    /\ pc = "send" /\ requests = <<>>
    /\ requests' = <<want>>
    /\ blockReading' = TRUE
    /\ Resume("none")
    /\ nested' = FALSE
    /\ UNCHANGED <<ivars, want, curSeq, curBuf, blockBuf, data, indexErr, seekFlag,
                   responses, reader, client, resumed, seeks, pauses, from, sent, lost>>

Response == Head(responses)

\* Plausible bug: the buffers are not swapped.
UseResponseKeeping ==
    IF Response.ok
    THEN curSeq' = Response.seq /\ curBuf' = Response.buf /\ UNCHANGED blockBuf
    ELSE UNCHANGED <<curSeq, curBuf, blockBuf>>

\* The block read becomes the current one, and the buffers are swapped.
UseResponse ==
    IF Response.ok
    THEN curSeq' = Response.seq /\ curBuf' = Response.buf /\ blockBuf' = curBuf
    ELSE UNCHANGED <<curSeq, curBuf, blockBuf>>

\* getAfterRead, and getAfterReadFrom when the answer is the one wanted: the
\* next block is read ahead before this one, or its error, is returned.
Receive ==
    /\ responses # <<>>
    /\ \/ pc = "recv"
       \/ pc = "recvFrom" /\ Response.seq = want
    /\ responses' = <<>>
    /\ UseResponse
    /\ failed' = ~Response.ok
    /\ lost' = IF Response.ok THEN lost ELSE lost \union {Response.seq}
    /\ CallNext("return")
    /\ UNCHANGED <<ivars, data, eof, indexErr, seekFlag, blockReading, requests, reader,
                   client, resumed, seeks, pauses, from, sent>>

\* getAfterReadFrom: an answer that was under way when the client sought.
ReceiveOld ==
    /\ responses # <<>> /\ pc = "recvFrom" /\ Response.seq # want
    /\ responses' = <<>>
    /\ UseResponse
    /\ pc' = "resend"
    /\ UNCHANGED <<ivars, call, data, eof, indexErr, seekFlag, blockReading, requests, reader,
                   client, autoEOF, history>>

\* get(index): the index is requested (again) and its answer awaited.
Resend ==
    /\ pc = "resend" /\ requests = <<>>
    /\ requests' = <<want>>
    /\ blockReading' = TRUE
    /\ pc' = "recv"
    /\ UNCHANGED <<ivars, call, curSeq, curBuf, blockBuf, data, eof, indexErr, seekFlag,
                   responses, reader, client, autoEOF, history>>

-----------------------------------------------------------------------------
(* blockReaderRun.                                                         *)

ReadTake ==
    /\ reader.pc = "idle" /\ requests # <<>>
    /\ reader' = [pc |-> "read", seq |-> Head(requests), buf |-> blockBuf]
    /\ requests' = <<>>
    /\ UNCHANGED <<ivars, pc, call, getter, responses, client, autoEOF, history>>

\* Plausible bug: an error is not answered.
ReadBlockSilent ==
    /\ reader.pc = "read"
    /\ \/ data' = [data EXCEPT ![reader.buf] = reader.seq] /\ reader' = [reader EXCEPT !.pc = "reply"]
       \/ MayFail /\ reader' = NoReader /\ UNCHANGED data
    /\ UNCHANGED <<ivars, pc, call, curSeq, curBuf, blockBuf, eof, indexErr, seekFlag, blockReading,
                   requests, responses, client, autoEOF, history>>

ReadBlock ==
    /\ reader.pc = "read"
    /\ \/ data' = [data EXCEPT ![reader.buf] = reader.seq] /\ reader' = [reader EXCEPT !.pc = "reply"]
       \/ MayFail /\ reader' = [reader EXCEPT !.pc = "reply", !.buf = 0] /\ UNCHANGED data
    /\ UNCHANGED <<ivars, pc, call, curSeq, curBuf, blockBuf, eof, indexErr, seekFlag, blockReading,
                   requests, responses, client, autoEOF, history>>

ReadReply ==
    /\ reader.pc = "reply" /\ responses = <<>>
    /\ responses' = <<[seq |-> reader.seq, buf |-> reader.buf, ok |-> reader.buf # 0]>>
    /\ reader' = NoReader
    /\ UNCHANGED <<ivars, pc, call, getter, requests, client, autoEOF, history>>

-----------------------------------------------------------------------------
(* The play: waitSend, handlePsFrame and waitClose.                        *)

\* The frame's time has come: it is sent.
PlaySend ==
    /\ pc = "play" /\ ~firstPush
    /\ sent' = Append(sent, data[curBuf])
    /\ pc' = "get"
    /\ UNCHANGED <<ivars, call, getter, chans, client, autoEOF, callbacks, resumed, seeks, pauses, from, lost>>

\* The block cannot be parsed, or the frame's data not be packed.
PlayFails ==
    /\ MayFail /\ pc = "play"
    /\ pc' = "stop"
    /\ UNCHANGED <<ivars, call, getter, chans, client, autoEOF, history>>

\* A push signal triggers the timer for the first time, and ends a pause.
PlayPush ==
    /\ pc \in {"play", "paused", "eof"} /\ pushSignal
    /\ pushSignal' = FALSE
    /\ firstPush' = FALSE
    /\ pc' = IF pc = "paused" THEN "play" ELSE pc
    /\ UNCHANGED <<ivars, call, getter, chans, pauseSignal, seekSignal, closing, autoEOF, history>>

PlayPause ==
    /\ pc \in {"play", "paused", "eof"} /\ pauseSignal
    /\ pauseSignal' = FALSE
    /\ pc' = IF pc = "play" THEN "paused" ELSE pc
    /\ UNCHANGED <<ivars, call, getter, chans, firstPush, pushSignal, seekSignal, closing, autoEOF, history>>

\* Plausible bug: the end is not reported again after a seek.
PlaySeekQuiet ==
    /\ pc \in {"play", "paused", "eof"} /\ seekSignal # 0
    /\ seekSignal' = 0
    /\ Seek(Clamped(seekSignal))
    /\ seekFlag' = TRUE /\ eof' = FALSE
    /\ pc' = "get"
    /\ autoEOF' = autoEOF
    /\ resumed' = resumed + (IF pc = "eof" THEN 1 ELSE 0)
    /\ from' = Clamped(seekSignal) /\ sent' = <<>> /\ lost' = {}
    /\ UNCHANGED <<call, curSeq, curBuf, blockBuf, data, indexErr, blockReading, chans,
                   firstPush, pushSignal, pauseSignal, closing, callbacks, seeks, pauses>>

\* blockGetter.Seek; the frame at hand is dropped.
PlaySeek ==
    /\ pc \in {"play", "paused", "eof"} /\ seekSignal # 0
    /\ seekSignal' = 0
    /\ Seek(Clamped(seekSignal))
    /\ seekFlag' = TRUE /\ eof' = FALSE
    /\ pc' = "get"
    /\ autoEOF' = (autoEOF \/ pc = "eof")
    /\ resumed' = resumed + (IF pc = "eof" THEN 1 ELSE 0)
    /\ from' = Clamped(seekSignal) /\ sent' = <<>> /\ lost' = {}
    /\ UNCHANGED <<call, curSeq, curBuf, blockBuf, data, indexErr, blockReading, chans,
                   firstPush, pushSignal, pauseSignal, closing, callbacks, seeks, pauses>>

PlayInterrupted ==
    /\ pc \in {"play", "paused", "eof"} /\ closing
    /\ pc' = "stop"
    /\ UNCHANGED <<ivars, call, getter, chans, client, autoEOF, history>>

\* run's deferred function: blockGetter.Shutdown waits for the reader, which
\* sees its interrupter only between two requests.
Stop ==
    /\ pc = "stop" /\ reader.pc = "idle"
    /\ pc' = "stopped"
    /\ callbacks' = callbacks + (IF autoEOF THEN 1 ELSE 0)
    /\ UNCHANGED <<ivars, call, getter, chans, client, autoEOF, resumed, seeks, pauses, from, sent, lost>>

-----------------------------------------------------------------------------
(* The client.  A signal that finds its channel full is dropped.           *)

StartPush ==
    /\ ~pushSignal /\ pushSignal' = TRUE
    /\ UNCHANGED <<ivars, pc, call, getter, chans, firstPush, pauseSignal, seekSignal, closing, autoEOF, history>>

Pause ==
    /\ ~pauseSignal /\ seeks + pauses < MaxCommands
    /\ pauseSignal' = TRUE
    /\ pauses' = pauses + 1
    /\ UNCHANGED <<ivars, pc, call, getter, chans, firstPush, pushSignal, seekSignal, closing, autoEOF,
                   callbacks, resumed, seeks, from, sent, lost>>

SeekTo(t) ==
    /\ seekSignal = 0 /\ seeks + pauses < MaxCommands
    /\ seekSignal' = IF StartTime + t > EndTime THEN EndTime ELSE StartTime + t
    /\ seeks' = seeks + 1
    /\ UNCHANGED <<ivars, pc, call, getter, chans, firstPush, pushSignal, pauseSignal, closing, autoEOF,
                   callbacks, resumed, pauses, from, sent, lost>>

Close ==
    /\ ~closing /\ closing' = TRUE
    /\ UNCHANGED <<ivars, pc, call, getter, chans, firstPush, pushSignal, pauseSignal, seekSignal, autoEOF, history>>

-----------------------------------------------------------------------------
HInit ==
    /\ GetterInit
    /\ pc = "get" /\ then = "first" /\ nested = FALSE /\ want = 0 /\ failed = FALSE
    /\ curSeq = 0 /\ curBuf = 1 /\ blockBuf = 2 /\ data = [b \in Bufs |-> 0]
    /\ eof = FALSE /\ indexErr = "none" /\ seekFlag = FALSE /\ blockReading = FALSE
    /\ requests = <<>> /\ responses = <<>> /\ reader = NoReader
    /\ firstPush = TRUE /\ pushSignal = FALSE /\ pauseSignal = FALSE /\ seekSignal = 0
    /\ closing = FALSE /\ autoEOF = TRUE
    /\ callbacks = 0 /\ resumed = 0 /\ seeks = 0 /\ pauses = 0 /\ pauses = 0
    /\ from = StartTime /\ sent = <<>> /\ lost = {}

Getting == \/ Get \/ NextGot \/ NextError \/ NextBlocks \/ NextAwaits \/ NextSends
           \/ Receive \/ ReceiveOld \/ Resend
Reading == ReadTake \/ ReadBlock \/ ReadReply
Finding == Running /\ UNCHANGED <<pc, call, getter, chans, client, autoEOF, history>>
Playing == PlaySend \/ PlayFails \/ PlayPush \/ PlayPause \/ PlaySeek \/ PlayInterrupted \/ Stop
Recording == Record /\ UNCHANGED <<pc, call, getter, chans, client, autoEOF, history>>
Client  == StartPush \/ Pause \/ Close \/ \E t \in Seeks : SeekTo(t)

\* After the panic of RunFailed there is no process any more.
Alive == run.pc # "panic" /\ pc # "stopped"

HNext ==
    /\ Alive
    /\ Getting \/ Reading \/ Finding \/ Playing \/ Recording \/ Client

HSpec == HInit /\ [][HNext]_hvars

\* The goroutines run, the timer fires, and select takes an interruption.
HFairSpec ==
    /\ HSpec
    /\ WF_hvars(Alive /\ Getting) /\ WF_hvars(Alive /\ Reading) /\ WF_hvars(Alive /\ Finding)
    /\ WF_hvars(Alive /\ PlaySend) /\ WF_hvars(Alive /\ PlayPush)
    /\ SF_hvars(Alive /\ PlayInterrupted) /\ WF_hvars(Alive /\ Stop)

-----------------------------------------------------------------------------
(* Properties.                                                             *)

\* However the client seeks while the goroutine is looking for indexes, and
\* whatever is dropped from the cache, the index that Get would return next is
\* the first one behind the reader's position: none is skipped or repeated.
\* Without a seek the end is reported only behind all blocks that were there
\* from the start.
CursorExact ==
    /\ HasIndex => /\ NextIndex.seq \in Period(curTime) /\ NextIndex = Stored[NextIndex.seq]
                   /\ \A n \in Period(curTime) : NextIndex.seq <= n
    /\ (seeks = 0 /\ pc = "eof") =>
        \A n \in Period(from) : n <= Known0 => n \in ToSet(sent) \union lost

\* The comment on readNext and getAfterRead: the block of the last index is
\* returned while the next is read ahead.  From where the play started or was
\* sought to, every block that can be read is sent once, with its own data, and
\* after all those before it.
BlocksInOrder ==
    /\ \A i, j \in DOMAIN sent : i < j => sent[i] < sent[j]
    /\ \A i \in DOMAIN sent :
        /\ sent[i] \in Period(from) \ lost
        /\ \A n \in Period(from) : n < sent[i] => n \in ToSet(sent) \union lost

\* The same as long as the client has not sought.
InOrderUntilSeek == seeks = 0 => BlocksInOrder

\* Whoever waits for the end of the play is told once: at its end, and once
\* more after every seek that left the end, or when the pusher stops before.
ToldOnce ==
    /\ callbacks <= 1 + resumed
    /\ pc = "stopped" => callbacks = 1 + resumed

\* Close ends the pusher's goroutine, if the client has not sought.
CloseTerminates == closing ~> (pc = "stopped" \/ seeks > 0 \/ run.pc = "panic")

\* A started play reaches the end of the period, unless it is disturbed.
PlaysToEnd ==
    pushSignal ~> \/ pc \in {"eof", "stopped"} \/ run.pc = "panic"
                  \/ seeks + pauses > 0 \/ closing
=============================================================================
