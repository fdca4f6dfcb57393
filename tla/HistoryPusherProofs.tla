------------------------ MODULE HistoryPusherProofs ------------------------
(***************************************************************************)
(* Proofs about the playback of stored blocks, for every stored timeline,  *)
(* period, cache size and any number of seeks and pauses, also while       *)
(* queries and reads fail:                                                 *)
(*                                                                         *)
(*   - whoever waits for the end of a play is told of it exactly once;     *)
(*   - the index that Get returns next is the first one behind the         *)
(*     reader, however the client seeks, and an undisturbed play reports   *)
(*     its end only behind all blocks that were there from the start;      *)
(*   - until the client seeks, every block that can be read is sent once,  *)
(*     in order and with its own data.                                     *)
(***************************************************************************)
EXTENDS HistoryPusher, OrderLemmas

Positions == {"get", "next", "await", "send", "recv", "recvFrom", "resend",
              "play", "paused", "eof", "stop", "stopped"}

\* What a CASE of Resume and the arithmetic of the counters need.
CallTypes ==
    /\ pc \in Positions
    /\ then \in {"seek", "first", "return"}
    /\ nested \in BOOLEAN /\ autoEOF \in BOOLEAN
    /\ err \in {"none", "eof", "fail"}
    /\ callbacks \in Nat /\ resumed \in Nat

\* The flag is set on the way, cleared at the end of the period.
FlagSet ==
    /\ pc \notin {"eof", "stop", "stopped"} => autoEOF
    /\ pc = "eof" => ~autoEOF

\* While the goroutine runs, a call is due exactly while the flag is set.
CallsCounted ==
    /\ pc # "stopped" => callbacks = resumed + (IF autoEOF THEN 0 ELSE 1)
    /\ pc = "stopped" => callbacks = 1 + resumed

ToldInv == CallTypes /\ FlagSet /\ CallsCounted

-----------------------------------------------------------------------------
(* The two ways in which a step of Get may end.                            *)

\* The pusher goes on or stops and nobody is told.
Silent(where) ==
    /\ pc' \in where
    /\ autoEOF' = autoEOF /\ callbacks' = callbacks /\ resumed' = resumed

\* The pusher is at the end of the period and tells it.
Tells ==
    /\ pc' = "eof"
    /\ autoEOF' = FALSE /\ callbacks' = callbacks + 1 /\ resumed' = resumed

OnTheWay == {"get", "next", "await", "send", "recv", "recvFrom", "resend", "play", "paused"}

CallTypesKept ==
    /\ then' \in {"seek", "first", "return"}
    /\ nested' \in BOOLEAN
    /\ err' \in {"none", "eof", "fail"}

\* A step on the way that ends silently, or tells of the end, keeps the invariant.
LEMMA StepOnTheWay ==
    ASSUME ToldInv, pc \in OnTheWay, CallTypesKept,
           Silent(OnTheWay \union {"stop"}) \/ Tells
    PROVE  ToldInv'
<1>1. autoEOF = TRUE /\ callbacks = resumed /\ callbacks \in Nat /\ resumed \in Nat
  BY DEF ToldInv, CallTypes, FlagSet, CallsCounted, OnTheWay
<1>2. CASE Silent(OnTheWay \union {"stop"})
  <2>1. pc' \in OnTheWay \union {"stop"} /\ autoEOF' = TRUE /\ callbacks' = callbacks /\ resumed' = resumed
    BY <1>1, <1>2 DEF Silent
  <2>2. CallTypes'
    BY <1>1, <2>1 DEF CallTypes, CallTypesKept, OnTheWay, Positions
  <2>3. FlagSet' /\ CallsCounted'
    BY <1>1, <2>1 DEF FlagSet, CallsCounted, OnTheWay
  <2> QED BY <2>2, <2>3 DEF ToldInv
<1>3. CASE Tells
  <2>1. pc' = "eof" /\ autoEOF' = FALSE /\ callbacks' = callbacks + 1 /\ resumed' = resumed
    BY <1>3 DEF Tells
  <2>a. autoEOF' \in BOOLEAN
    BY <2>1, Zenon
  <2>2. CallTypes'
    BY <1>1, <2>1, <2>a DEF CallTypes, CallTypesKept, Positions
  <2>3. FlagSet' /\ CallsCounted'
    BY <1>1, <2>1 DEF FlagSet, CallsCounted
  <2> QED BY <2>2, <2>3 DEF ToldInv
<1> QED BY <1>2, <1>3

\* What readNext leaves to Get is one of the two as well, whatever error it met.
LEMMA ResumeEnds ==
    ASSUME ToldInv, NEW e \in {"none", "eof", "fail"}, Resume(e), resumed' = resumed
    PROVE  /\ Silent(OnTheWay \union {"stop"}) \/ Tells
           /\ then' \in {"seek", "first", "return"}
<1> USE DEF Returns, ReturnsEOF, ReturnsError, ReturnsErr, Silent, Tells, OnTheWay
<1>0. then \in {"seek", "first", "return"} /\ nested \in BOOLEAN
  BY DEF ToldInv, CallTypes
<1>1. CASE then = "seek" /\ nested
  BY <1>0, <1>1 DEF Resume
<1>2. CASE then = "seek" /\ ~nested /\ e # "none"
  BY <1>0, <1>2 DEF Resume
<1>3. CASE then = "seek" /\ ~nested /\ e = "none"
  BY <1>0, <1>3 DEF Resume
<1>4. CASE then = "first" /\ e = "none"
  BY <1>0, <1>4 DEF Resume
<1>5. CASE then = "first" /\ e = "eof"
  BY <1>0, <1>5 DEF Resume
<1>6. CASE then = "first" /\ e = "fail"
  BY <1>0, <1>6 DEF Resume
<1>7. CASE then = "return"
  BY <1>0, <1>7 DEF Resume
<1> QED BY <1>0, <1>1, <1>2, <1>3, <1>4, <1>5, <1>6, <1>7

-----------------------------------------------------------------------------
(* The steps.                                                              *)

\* A step that leaves the counters, the flag and the call alone keeps the
\* invariant as long as the pusher's goroutine moves on the way or stops.
LEMMA StepAside ==
    ASSUME ToldInv, then' = then, nested' = nested, err' \in {"none", "eof", "fail"},
           autoEOF' = autoEOF, callbacks' = callbacks, resumed' = resumed,
           \/ pc' = pc
           \/ pc \in OnTheWay /\ pc' \in OnTheWay
           \/ pc # "stopped" /\ pc' = "stop"
    PROVE  ToldInv'
<1>1. CallTypes'
  BY DEF ToldInv, CallTypes, OnTheWay, Positions
<1>2. FlagSet'
  BY DEF ToldInv, FlagSet, OnTheWay
<1>3. CallsCounted'
  BY DEF ToldInv, CallsCounted, OnTheWay
<1> QED BY <1>1, <1>2, <1>3 DEF ToldInv

\* Get and what it waits for.
LEMMA ToldGetting ==
    ASSUME ToldInv, Getting
    PROVE  ToldInv'
<1>t. /\ then \in {"seek", "first", "return"} /\ nested \in BOOLEAN
      /\ err \in {"none", "eof", "fail"}
  BY DEF ToldInv, CallTypes
<1>1. CASE Get
  <2>0. pc \in OnTheWay /\ err' = err /\ resumed' = resumed
    BY <1>1 DEF Get, OnTheWay, ivars
  <2>1. CASE eof'
    <3>1. ReturnsEOF /\ Stays
      BY <1>1, <2>1 DEF Get
    <3> QED BY <1>t, <2>0, <3>1, StepOnTheWay DEF ReturnsEOF, Stays, Tells, CallTypesKept
  <2>2. CASE ~eof' /\ ~seekFlag /\ blockReading
    <3>1. Returns("recv") /\ Stays
      BY <1>1, <2>2 DEF Get
    <3> QED BY <1>t, <2>0, <3>1, StepOnTheWay DEF Returns, Stays, Silent, CallTypesKept, OnTheWay
  <2>3. CASE ~eof' /\ (seekFlag \/ ~blockReading)
    <3>1. CallNext("seek") \/ CallNext("return") \/ CallNext("first")
      BY <1>1, <2>3 DEF Get
    <3> QED BY <1>t, <2>0, <3>1, StepOnTheWay DEF CallNext, Silent, CallTypesKept, OnTheWay
  <2> QED BY <2>1, <2>2, <2>3
<1>2. CASE NextGot
  <2>1. /\ pc \in OnTheWay /\ pc' \in OnTheWay /\ then' = then /\ nested' \in {nested, TRUE}
        /\ err' = err /\ autoEOF' = autoEOF /\ callbacks' = callbacks /\ resumed' = resumed
    BY <1>2 DEF NextGot, TakeIndex, OnTheWay, history
  <2> QED BY <1>t, <2>1, StepOnTheWay DEF Silent, CallTypesKept
<1>3. CASE NextError
  <2>1. /\ pc \in OnTheWay /\ Resume(err) /\ nested' = FALSE /\ err' = err /\ resumed' = resumed
    BY <1>3 DEF NextError, OnTheWay, ivars
  <2> QED BY <1>t, <2>1, ResumeEnds, StepOnTheWay DEF CallTypesKept
<1>4. CASE NextBlocks
  BY <1>t, <1>4, StepAside DEF NextBlocks, OnTheWay, ivars, call, history
<1>5. CASE NextAwaits
  BY <1>t, <1>5, StepAside DEF NextAwaits, AwaitAccess, OnTheWay, call, history
<1>6. CASE NextSends
  <2>1. /\ pc \in OnTheWay /\ Resume("none") /\ nested' = FALSE /\ err' = err /\ resumed' = resumed
    BY <1>6 DEF NextSends, OnTheWay, ivars
  <2> QED BY <1>t, <2>1, ResumeEnds, StepOnTheWay DEF CallTypesKept
<1>7. CASE Receive
  <2>1. pc \in OnTheWay /\ CallNext("return") /\ err' = err /\ resumed' = resumed
    BY <1>7 DEF Receive, OnTheWay, ivars
  <2> QED BY <1>t, <2>1, StepOnTheWay DEF CallNext, Silent, CallTypesKept, OnTheWay
<1>8. CASE ReceiveOld
  BY <1>t, <1>8, StepAside DEF ReceiveOld, OnTheWay, ivars, call, history
<1>9. CASE Resend
  BY <1>t, <1>9, StepAside DEF Resend, OnTheWay, ivars, call, history
<1> QED BY <1>1, <1>2, <1>3, <1>4, <1>5, <1>6, <1>7, <1>8, <1>9 DEF Getting

\* The block reader, the index getter's goroutine and the recording.
LEMMA ToldAround ==
    ASSUME ToldInv, Reading \/ Finding \/ Recording
    PROVE  ToldInv'
<1>t. err \in {"none", "eof", "fail"}
  BY DEF ToldInv, CallTypes
<1>1. CASE Reading
  BY <1>t, <1>1, StepAside DEF Reading, ReadTake, ReadBlock, ReadReply, ivars, call, history
<1>2. CASE Finding
  <2>1. err' \in {"none", "eof", "fail"}
    BY <1>t, <1>2 DEF Finding, Running, RunTake, RunFind, RunFail, RunFailed, RunApply
  <2> QED BY <1>2, <2>1, StepAside DEF Finding, call, history
<1>3. CASE Recording
  BY <1>t, <1>3, StepAside DEF Recording, Record, call, history
<1> QED BY <1>1, <1>2, <1>3

\* The play: only a seek that leaves the end makes another call due, and only
\* the deferred function makes the one that is due when the goroutine stops.
LEMMA ToldPlaying ==
    ASSUME ToldInv, Playing, pc # "stopped"
    PROVE  ToldInv'
<1>t. /\ then \in {"seek", "first", "return"} /\ nested \in BOOLEAN
      /\ err \in {"none", "eof", "fail"} /\ autoEOF \in BOOLEAN
      /\ callbacks \in Nat /\ resumed \in Nat
  BY DEF ToldInv, CallTypes
<1>1. CASE PlaySend
  BY <1>t, <1>1, StepAside DEF PlaySend, OnTheWay, ivars, call
<1>2. CASE PlayFails
  BY <1>t, <1>2, StepAside DEF PlayFails, OnTheWay, ivars, call, history
<1>3. CASE PlayPush
  BY <1>t, <1>3, StepAside DEF PlayPush, OnTheWay, ivars, call, history
<1>4. CASE PlayPause
  BY <1>t, <1>4, StepAside DEF PlayPause, OnTheWay, ivars, call, history
<1>5. CASE PlaySeek
  <2>1. /\ pc' = "get" /\ then' = then /\ nested' = nested /\ callbacks' = callbacks
        /\ autoEOF' = (autoEOF \/ pc = "eof") /\ pc \in {"play", "paused", "eof"}
        /\ resumed' = resumed + (IF pc = "eof" THEN 1 ELSE 0)
    BY <1>5 DEF PlaySeek, call
  <2>2. err' \in {"none", "eof", "fail"}
    <3>1. Seek(Clamped(seekSignal))
      BY <1>5 DEF PlaySeek
    <3> QED BY <1>t, <3>1 DEF Seek, SeekEnd, SeekCached, Clear
  <2>3. CASE pc = "eof"
    <3>1. callbacks = resumed + 1
      BY <1>t, <2>3 DEF ToldInv, FlagSet, CallsCounted
    <3>2. autoEOF' = TRUE /\ resumed' = resumed + 1
      BY <2>1, <2>3
    <3>a. autoEOF' \in BOOLEAN /\ nested' \in BOOLEAN
      BY <1>t, <2>1, <3>2, Zenon
    <3>3. CallTypes'
      BY <1>t, <2>1, <2>2, <3>2, <3>a DEF CallTypes, Positions
    <3> QED BY <1>t, <2>1, <3>1, <3>2, <3>3 DEF ToldInv, FlagSet, CallsCounted
  <2>4. CASE pc # "eof"
    <3>1. autoEOF = TRUE
      BY <1>t, <2>1, <2>4 DEF ToldInv, FlagSet
    <3>2. autoEOF' = autoEOF
      BY <2>1, <2>4, <3>1, Zenon
    <3>3. resumed' = resumed
      BY <1>t, <2>1, <2>4
    <3> QED BY <1>t, <2>1, <2>2, <2>4, <3>2, <3>3, StepAside DEF OnTheWay
  <2> QED BY <2>3, <2>4
<1>6. CASE PlayInterrupted
  BY <1>t, <1>6, StepAside DEF PlayInterrupted, OnTheWay, ivars, call, history
<1>7. CASE Stop
  <2>1. /\ pc = "stop" /\ pc' = "stopped" /\ then' = then /\ nested' = nested /\ err' = err
        /\ autoEOF' = autoEOF /\ resumed' = resumed
        /\ callbacks' = callbacks + (IF autoEOF THEN 1 ELSE 0)
    BY <1>7 DEF Stop, ivars, call
  <2>2. callbacks = resumed + (IF autoEOF THEN 0 ELSE 1)
    BY <2>1 DEF ToldInv, CallsCounted
  <2>3. callbacks' = 1 + resumed'
    BY <1>t, <2>1, <2>2
  <2>4. CallTypes'
    BY <1>t, <2>1, <2>3 DEF CallTypes, Positions
  <2> QED BY <2>1, <2>3, <2>4 DEF ToldInv, FlagSet, CallsCounted
<1> QED BY <1>1, <1>2, <1>3, <1>4, <1>5, <1>6, <1>7 DEF Playing

\* What a client calls only leaves a signal.
LEMMA ToldClient ==
    ASSUME ToldInv, Client
    PROVE  ToldInv'
<1>t. err \in {"none", "eof", "fail"}
  BY DEF ToldInv, CallTypes
<1> QED
  BY <1>t, StepAside DEF Client, StartPush, Pause, Close, SeekTo, ivars, call, history

\* Every step keeps the invariant.
LEMMA ToldNext == ASSUME ToldInv, [HNext]_hvars PROVE ToldInv'
<1>1. CASE HNext
  BY <1>1, ToldGetting, ToldAround, ToldPlaying, ToldClient DEF HNext, Alive
<1>2. CASE UNCHANGED hvars
  BY <1>2 DEF hvars, ivars, call, history, ToldInv, CallTypes, FlagSet, CallsCounted
<1> QED BY <1>1, <1>2

\* Whoever waits for the end of the play is told once, and once more after
\* every seek that left the end (run and its deferred function).
THEOREM EndIsToldOnce == HSpec => []ToldOnce
<1>1. HInit => ToldInv
  <2> SUFFICES ASSUME HInit PROVE ToldInv
    OBVIOUS
  <2>1. nested \in BOOLEAN /\ autoEOF \in BOOLEAN
    BY Zenon DEF HInit
  <2>2. CallTypes
    BY <2>1 DEF HInit, GetterInit, CallTypes, Positions
  <2> QED BY <2>2 DEF HInit, ToldInv, FlagSet, CallsCounted
<1>2. ToldInv /\ [HNext]_hvars => ToldInv'
  BY ToldNext
<1>3. ToldInv => ToldOnce
  <2> SUFFICES ASSUME ToldInv PROVE ToldOnce
    OBVIOUS
  <2>1. callbacks \in Nat /\ resumed \in Nat
    BY DEF ToldInv, CallTypes
  <2>2. callbacks <= 1 + resumed
    <3>1. CASE pc = "stopped"
      BY <2>1, <3>1 DEF ToldInv, CallsCounted
    <3>2. CASE pc # "stopped"
      BY <2>1, <3>2 DEF ToldInv, CallsCounted
    <3> QED BY <3>1, <3>2
  <2> QED BY <2>2 DEF ToldInv, CallsCounted, ToldOnce
<1> QED BY <1>1, <1>2, <1>3, PTL DEF HSpec

-----------------------------------------------------------------------------
(* The invariant of the index getter.                                      *)

Block == [seq : Nat, start : Nat, end : Nat]

GetterTypes ==
    /\ known \in Known0..Len(Stored)
    /\ cache \in Seq(Block) /\ cur \in 0..Len(cache)
    /\ curTime \in Nat /\ err \in {"none", "eof", "fail"}
    /\ run \in [pc : {"wait", "find", "apply", "failed", "panic"},
                start : Nat, limit : Nat, rows : Seq(Block)]

\* A sequence of stored indexes of the period without a gap.
Chain(q) ==
    \A i \in DOMAIN q :
        /\ q[i].seq \in DOMAIN Stored /\ q[i] = Stored[q[i].seq]
        /\ q[i].start < EndTime
        /\ q[i].seq = q[1].seq + (i - 1)

\* The n-th stored index is the first one that ends after t.
FirstBehind(n, t) ==
    /\ n \in Period(t)
    /\ \A i \in DOMAIN Stored : i < n => Stored[i].end <= t

\* The cache has no gap, and the reader's place in it is the one of curTime.
\* Where the reader has read everything, curTime is the end of what is cached,
\* so that what is added next follows it.
CacheExact ==
    /\ Chain(cache)
    /\ HasIndex => FirstBehind(NextIndex.seq, curTime)
    /\ (cache # <<>> /\ ~HasIndex /\ (err = "none" \/ seeks = 0)) => curTime = Last(cache).end

\* What the goroutine has found follows the place it was asked for, and is all
\* there was when it is less than was asked for.
FoundExact ==
    run.pc = "apply" =>
        /\ Chain(run.rows)
        /\ run.rows # <<>> => FirstBehind(run.rows[1].seq, run.start)
        /\ run.limit > Len(run.rows) =>
              \A n \in Period(run.start) :
                  n <= Known0 => \E j \in DOMAIN run.rows : run.rows[j].seq = n

\* A query is under way only when there is no error; a seek to the end may set
\* one meanwhile, but then it has cleared the cache.
InFlight ==
    (run.pc \in {"find", "apply"} /\ err # "none") => cache = <<>> /\ seeks # 0

GetterInv == GetterTypes /\ CacheExact /\ FoundExact /\ InFlight

-----------------------------------------------------------------------------
(* The invariant of an undisturbed play: every index that was given out is *)
(* sent, lost, at hand or on its way through the reader.                   *)

\* The numbers given out so far.
Taken == {n \in Period(StartTime) : Stored[n].end <= curTime}

\* The block being read or asked for, or 0.
Fly == IF pc = "send" THEN want
       ELSE IF requests # <<>> THEN requests[1]
       ELSE IF reader.pc # "idle" THEN reader.seq
       ELSE IF responses # <<>> THEN responses[1].seq ELSE 0

\* Is the current block still to be sent?
AtHand == \/ pc \in {"play", "paused"}
          \/ pc \in {"next", "await", "send"} /\ then = "return" /\ ~failed

Answer == [seq : Nat, buf : {0, 1, 2}, ok : BOOLEAN]

PipeTypes ==
    /\ requests \in Seq(Nat) /\ Len(requests) <= 1
    /\ responses \in Seq(Answer) /\ Len(responses) <= 1
    /\ \A i \in DOMAIN responses : responses[i].ok <=> responses[i].buf # 0
    /\ reader \in [pc : {"idle", "read", "reply"}, seq : Nat, buf : {0, 1, 2}]
    /\ curSeq \in Nat /\ want \in Nat /\ data \in [Bufs -> Nat]
    /\ curBuf \in Bufs /\ blockBuf \in Bufs
    /\ failed \in BOOLEAN /\ blockReading \in BOOLEAN /\ eof \in BOOLEAN
    /\ seekFlag \in BOOLEAN /\ indexErr \in {"none", "eof", "fail"}
    /\ sent \in Seq(Nat) /\ lost \in SUBSET Nat /\ seeks \in Nat /\ pauses \in Nat
    /\ seekSignal \in Nat /\ from \in Nat

\* The client has not sought.
Undisturbed ==
    /\ seekSignal = 0 /\ ~seekFlag /\ from = StartTime
    /\ then # "seek" /\ pc \notin {"recvFrom", "resend"}
    /\ curTime >= StartTime

\* At most one block is under way, and none while the next index is looked for.
OneUnderWay ==
    /\ (pc \in {"next", "await", "send"} \/ ~blockReading) =>
          requests = <<>> /\ reader.pc = "idle" /\ responses = <<>>
    /\ requests # <<>> => reader.pc = "idle" /\ responses = <<>>
    /\ reader.pc # "idle" => responses = <<>>

\* The reader never writes into the buffer of the current block.
DataExact ==
    /\ curBuf # blockBuf /\ data[curBuf] = curSeq
    /\ reader.pc = "read" => reader.buf = blockBuf
    /\ (reader.pc = "reply" /\ reader.buf # 0) =>
          reader.buf = blockBuf /\ data[blockBuf] = reader.seq
    /\ (responses # <<>> /\ responses[1].buf # 0) =>
          responses[1].buf = blockBuf /\ data[blockBuf] = responses[1].seq

UnderWay == pc = "send" \/ requests # <<>> \/ reader.pc # "idle" \/ responses # <<>>

\* What was given out is sent, lost, at hand or under way, in this order.
AllTracked ==
    pc \notin {"stop", "stopped"} =>
        /\ \A n \in Taken : \/ n \in ToSet(sent) \union lost
                            \/ AtHand /\ n = curSeq
                            \/ UnderWay /\ n = Fly
        /\ AtHand => /\ curSeq \in Taken
                     /\ \A n \in ToSet(sent) \union lost : n < curSeq
        /\ UnderWay => /\ Fly \in Taken /\ curSeq < Fly
                       /\ \A n \in ToSet(sent) \union lost : n < Fly

\* Only what was given out is current, sent or lost.
OnlyTaken ==
    /\ curSeq \in Taken \union {0}
    /\ \A n \in ToSet(sent) \union lost : n \in Taken

\* The end is reported once the getter has nothing left and will get nothing.
EndReached ==
    /\ eof => pc \in {"eof", "stop", "stopped"}
    /\ (indexErr = "eof" \/ pc = "eof") => err = "eof" /\ ~HasIndex
    /\ pc = "eof" => ~blockReading
    /\ err = "eof" =>
          \A n \in DOMAIN Stored :
              (n <= Known0 /\ Stored[n].start < EndTime) => Stored[n].end <= Behind

Steady ==
    /\ Undisturbed /\ OneUnderWay /\ DataExact
    /\ OnlyTaken /\ AllTracked /\ BlocksInOrder /\ EndReached

PipeInv == PipeTypes /\ (seeks = 0 => Steady)

PlayInv == ToldInv /\ GetterInv /\ PipeInv

-----------------------------------------------------------------------------
(* The stored timeline.                                                    *)

\* Later indexes start and end later.
LEMMA StoredFacts ==
    /\ Stored \in Seq(Block) /\ Len(Stored) \in Nat /\ DOMAIN Stored = 1..Len(Stored)
    /\ \A i \in DOMAIN Stored :
          /\ Stored[i] \in Block /\ Stored[i].seq = i
          /\ Stored[i].start \in Nat /\ Stored[i].end \in Nat /\ Stored[i].start < Stored[i].end
    /\ \A i, j \in DOMAIN Stored :
          i < j => Stored[i].end < Stored[j].end /\ Stored[i].start < Stored[j].start
<1>1. /\ Stored \in Seq(Block) /\ Len(Stored) \in Nat /\ DOMAIN Stored = 1..Len(Stored)
  BY StoredAssumption DEF Block
<1>2. ASSUME NEW i \in DOMAIN Stored
      PROVE  /\ Stored[i] \in Block /\ Stored[i].seq = i
             /\ Stored[i].start \in Nat /\ Stored[i].end \in Nat /\ Stored[i].start < Stored[i].end
  <2>1. Stored[i] \in Block
    BY <1>1
  <2>2. Stored[i].seq = i /\ Stored[i].start < Stored[i].end
    BY StoredAssumption
  <2> QED BY <2>1, <2>2 DEF Block
<1>3. ASSUME NEW i \in DOMAIN Stored, NEW j \in DOMAIN Stored, i < j
      PROVE  Stored[i].end < Stored[j].end /\ Stored[i].start < Stored[j].start
  <2>1. Stored[i].end <= Stored[j].start
    BY <1>3, StoredAssumption
  <2> QED BY <1>2, <2>1
<1> QED BY <1>1, <1>2, <1>3

\* The index after the n-th is the first one behind the end of the n-th.
LEMMA BehindNext ==
    ASSUME NEW n \in DOMAIN Stored, n + 1 \in DOMAIN Stored, Stored[n + 1].start < EndTime
    PROVE  FirstBehind(n + 1, Stored[n].end)
<1>1. n \in Nat /\ Stored[n].end < Stored[n + 1].end
  BY StoredFacts
<1>2. n + 1 \in Period(Stored[n].end)
  BY <1>1, StoredFacts DEF Period
<1>3. ASSUME NEW i \in DOMAIN Stored, i < n + 1
      PROVE  Stored[i].end <= Stored[n].end
  <2>1. i \in Nat /\ (i = n \/ i < n)
    BY <1>1, <1>3, StoredFacts
  <2> QED BY <2>1, StoredFacts
<1> QED BY <1>2, <1>3 DEF FirstBehind

\* And there is no other first one.
LEMMA BehindUnique ==
    ASSUME NEW n \in DOMAIN Stored, NEW m, FirstBehind(m, Stored[n].end)
    PROVE  m = n + 1
<1>1. m \in DOMAIN Stored /\ Stored[m].end > Stored[n].end
  BY DEF FirstBehind, Period
<1>2. m \in Nat /\ n \in Nat /\ m > n
  BY <1>1, StoredFacts
<1>3. CASE m > n + 1
  <2>1. n + 1 \in DOMAIN Stored
    BY <1>1, <1>2, <1>3, StoredFacts
  <2>2. Stored[n + 1].end <= Stored[n].end
    BY <1>3, <2>1 DEF FirstBehind
  <2>3. Stored[n].end < Stored[n + 1].end
    BY <1>2, <2>1, StoredFacts
  <2> QED BY <2>1, <2>2, <2>3, StoredFacts
<1> QED BY <1>2, <1>3

\* An index of the period is the first one behind t if the one before it ends
\* at or before t, or if it has started by then.
LEMMA BehindHere ==
    ASSUME NEW n \in DOMAIN Stored, Stored[n].start < EndTime, NEW t \in Nat, Stored[n].end > t,
           Stored[n].start <= t \/ (n - 1 \in DOMAIN Stored /\ Stored[n - 1].end <= t)
    PROVE  FirstBehind(n, t)
<1>1. n \in Period(t)
  BY DEF Period
<1>2. ASSUME NEW i \in DOMAIN Stored, i < n
      PROVE  Stored[i].end <= t
  <2>1. CASE Stored[n].start <= t
    <3>1. Stored[i].end <= Stored[n].start
      BY <1>2, StoredAssumption
    <3> QED BY <2>1, <3>1, StoredFacts
  <2>2. CASE n - 1 \in DOMAIN Stored /\ Stored[n - 1].end <= t
    <3>1. i \in Nat /\ n \in Nat /\ (i = n - 1 \/ i < n - 1)
      BY <1>2, StoredFacts
    <3>2. Stored[i].end <= Stored[n - 1].end
      BY <2>2, <3>1, StoredFacts
    <3> QED BY <2>2, <3>2, StoredFacts
  <2> QED BY <2>1, <2>2
<1> QED BY <1>1, <1>2 DEF FirstBehind

\* The numbers of a chain differ as their places do.
LEMMA ChainSteps ==
    ASSUME NEW q \in Seq(Block), Chain(q), NEW i \in 1..Len(q), NEW j \in 1..Len(q)
    PROVE  q[i].seq \in Nat /\ q[j].seq = q[i].seq + (j - i)
<1> DEFINE a == q[1].seq
           b == q[i].seq
           c == q[j].seq
<1>1. Len(q) \in Nat /\ i \in DOMAIN q /\ j \in DOMAIN q /\ 1 \in DOMAIN q /\ q[1] \in Block
  OBVIOUS
<1>2. a \in Nat
  BY <1>1 DEF Block
<1>3. b = a + (i - 1) /\ c = a + (j - 1)
  BY <1>1 DEF Chain
<1>i. i \in Nat /\ j \in Nat /\ i >= 1 /\ j >= 1
  OBVIOUS
<1> HIDE DEF a, b, c
<1>4. b \in Nat /\ c = b + (j - i)
  BY ONLY <1>i, <1>2, <1>3
<1> QED BY <1>4 DEF b, c

\* What remains of a chain without its first p elements is a chain.
LEMMA ChainSuffix ==
    ASSUME NEW q \in Seq(Block), Chain(q), NEW p \in 0..Len(q), NEW r \in Seq(Block),
           Len(r) = Len(q) - p, \A i \in 1..Len(r) : r[i] = q[i + p]
    PROVE  Chain(r)
<1> SUFFICES ASSUME NEW i \in DOMAIN r
             PROVE  /\ r[i].seq \in DOMAIN Stored /\ r[i] = Stored[r[i].seq]
                    /\ r[i].start < EndTime
                    /\ r[i].seq = r[1].seq + (i - 1)
  BY DEF Chain
<1>1. Len(q) \in Nat /\ Len(r) \in Nat /\ p \in Nat /\ i \in 1..Len(r) /\ 1 \in 1..Len(r)
  OBVIOUS
<1>a. i + p \in 1..Len(q) /\ 1 + p \in 1..Len(q)
  BY <1>1
<1>2. i + p \in DOMAIN q /\ 1 + p \in DOMAIN q /\ r[i] = q[i + p] /\ r[1] = q[1 + p]
  BY <1>1, <1>a
<1>3. q[i + p].seq = q[1].seq + (i + p - 1) /\ q[1 + p].seq = q[1].seq + (1 + p - 1)
  BY <1>2 DEF Chain
<1>4. q[1] \in Block
  BY <1>1
<1> DEFINE b == q[1].seq
<1>5. b \in Nat
  BY <1>4 DEF Block
<1>6. r[i].seq = r[1].seq + (i - 1)
  <2>1. r[i].seq = b + (i + p - 1) /\ r[1].seq = b + (1 + p - 1)
    BY <1>2, <1>3
  <2> HIDE DEF b
  <2> QED BY <1>1, <1>5, <2>1
<1> QED BY <1>2, <1>6 DEF Chain

\* Two chains of which the second goes on where the first ends are one chain.
LEMMA ChainAppend ==
    ASSUME NEW q \in Seq(Block), Chain(q), NEW r \in Seq(Block), Chain(r),
           (q # <<>> /\ r # <<>>) => r[1].seq = q[Len(q)].seq + 1
    PROVE  Chain(q \o r)
<1> DEFINE w == q \o r
<1>1. /\ Len(q) \in Nat /\ Len(r) \in Nat /\ w \in Seq(Block) /\ Len(w) = Len(q) + Len(r)
      /\ DOMAIN w = 1..Len(w)
      /\ \A i \in 1..Len(w) : w[i] = IF i <= Len(q) THEN q[i] ELSE r[i - Len(q)]
  OBVIOUS
<1> SUFFICES Chain(w)
  OBVIOUS
<1> HIDE DEF w
<1> SUFFICES ASSUME NEW i \in 1..Len(w)
             PROVE  /\ w[i].seq \in DOMAIN Stored /\ w[i] = Stored[w[i].seq]
                    /\ w[i].start < EndTime
                    /\ w[i].seq = w[1].seq + (i - 1)
  BY <1>1 DEF Chain
<1>2. CASE i <= Len(q)
  <2>1. i \in DOMAIN q /\ w[i] = q[i] /\ w[1] = q[1]
    BY <1>1, <1>2
  <2> QED BY <2>1 DEF Chain
<1>3. CASE i > Len(q)
  <2>1. i - Len(q) \in DOMAIN r /\ w[i] = r[i - Len(q)] /\ r # <<>>
    BY <1>1, <1>3
  <2>2. /\ w[i].seq \in DOMAIN Stored /\ w[i] = Stored[w[i].seq] /\ w[i].start < EndTime
        /\ w[i].seq = r[1].seq + (i - Len(q) - 1)
    BY <2>1 DEF Chain
  <2>3. CASE q = <<>>
    BY <1>1, <2>1, <2>2, <2>3
  <2>4. CASE q # <<>>
    <3>1. Len(q) \in DOMAIN q /\ 1 \in DOMAIN q /\ w[1] = q[1]
      BY <1>1, <2>4
    <3>2. q[Len(q)].seq = q[1].seq + (Len(q) - 1)
      BY <3>1 DEF Chain
    <3>3. q[1] \in Block
      BY <3>1
    <3>4. q[1].seq \in Nat
      BY <3>3 DEF Block
    <3>5. w[i].seq = w[1].seq + (i - 1)
      <4> DEFINE b == q[1].seq
                 c == r[1].seq
      <4>1. b \in Nat /\ w[1].seq = b /\ c = b + (Len(q) - 1) + 1
        BY <2>1, <2>4, <3>1, <3>2, <3>4
      <4>2. w[i].seq = c + (i - Len(q) - 1)
        BY <2>2
      <4> HIDE DEF b, c
      <4> QED BY <1>1, <4>1, <4>2
    <3> QED BY <2>2, <3>5
  <2> QED BY <2>3, <2>4
<1> QED BY <1>1, <1>2, <1>3

\* FindIndexes returns the first indexes of the period without a gap, and all
\* of them when there are less than it was asked for.
LEMMA FindFacts ==
    ASSUME known \in Known0..Len(Stored), NEW start \in Nat, NEW limit \in Nat
    PROVE  LET rows == FindIndexes(start, limit)
           IN  /\ rows \in Seq(Block) /\ Chain(rows)
               /\ rows # <<>> => FirstBehind(rows[1].seq, start)
               /\ limit > Len(rows) =>
                     \A n \in Period(start) :
                         n <= Known0 => \E j \in DOMAIN rows : rows[j].seq = n
<1> DEFINE match == {i \in Period(start) : i <= known}
           n     == Cardinality(match)
           a     == Ascending(match)
           len   == IF limit < n THEN limit ELSE n
           rows  == FindIndexes(start, limit)
<1>1. Known0 \in Nat /\ known \in Nat /\ known <= Len(Stored) /\ Known0 <= known
  BY GetterAssumption, StoredFacts
<1>2. match \subseteq DOMAIN Stored /\ match \in SUBSET Nat
  BY StoredFacts DEF Period
<1>3. IsFiniteSet(match)
  <2>1. IsFiniteSet(1..Len(Stored))
    BY StoredFacts, FS_Interval
  <2> QED BY <1>2, <2>1, StoredFacts, FS_Subset
<1>4. /\ n \in Nat /\ a \in [1..n -> match]
      /\ \A i, j \in 1..n : i < j => a[i] < a[j]
      /\ \A x \in match : \E i \in 1..n : a[i] = x
  BY <1>2, <1>3, AscendingFacts
<1>5. rows = [j \in 1..len |-> Stored[a[j]]] /\ len \in Nat /\ len <= n
  BY <1>4 DEF FindIndexes
<1>m. \A x : x \in match <=> /\ x \in DOMAIN Stored /\ Stored[x].end > start
                             /\ Stored[x].start < EndTime /\ x <= known
  BY DEF Period
<1> HIDE DEF match, n, a, rows
<1>6. \A j \in 1..n : a[j] \in match /\ a[j] \in DOMAIN Stored /\ a[j] \in Nat
  BY <1>2, <1>4
<1>7. ASSUME NEW j \in 1..n, j + 1 \in 1..n
      PROVE  a[j + 1] = a[j] + 1
  <2> DEFINE x == a[j] + 1
  <2>1. a[j] \in match /\ a[j + 1] \in match /\ a[j] < a[j + 1]
        /\ a[j] \in Nat /\ a[j + 1] \in Nat /\ j \in Nat
    BY <1>4, <1>6, <1>7
  <2>2. x \in DOMAIN Stored /\ x \in Nat /\ a[j] < x /\ x <= a[j + 1] /\ x <= known
    BY <1>1, <1>m, <2>1, StoredFacts
  <2>3. Stored[x].end > start
    <3>1. Stored[a[j]].end > start /\ Stored[a[j]].end < Stored[x].end
      BY <1>m, <2>1, <2>2, StoredFacts
    <3> QED BY <1>m, <2>1, <2>2, <3>1, StoredFacts
  <2>4. Stored[x].start < EndTime
    <3> DEFINE y == a[j + 1]
    <3>1. y \in match /\ y \in Nat /\ x <= y
      BY <2>1, <2>2
    <3> HIDE DEF y, x
    <3>2. y \in DOMAIN Stored /\ Stored[y].start < EndTime
      BY <1>m, <3>1
    <3>3. x = y \/ x < y
      BY <2>2, <3>1
    <3>4. Stored[x].start <= Stored[y].start
      BY <2>2, <3>2, <3>3, StoredFacts
    <3> QED BY <2>2, <3>2, <3>4, StoredFacts, GetterAssumption
  <2>5. PICK k \in 1..n : a[k] = x
    BY <1>4, <1>m, <2>2, <2>3, <2>4
  <2> HIDE DEF x
  <2>6. k > j
    <3>1. CASE k = j
      BY <2>1, <2>2, <2>5, <3>1
    <3>2. CASE k < j
      <4>1. a[k] < a[j]
        BY <1>4, <3>2
      <4> QED BY <2>1, <2>2, <2>5, <4>1
    <3> QED BY <2>1, <3>1, <3>2, <2>5, <1>4
  <2>7. CASE k = j + 1
    BY <2>5, <2>7 DEF x
  <2>8. CASE k > j + 1
    <3>1. a[j + 1] < a[k]
      BY <1>4, <1>7, <2>8
    <3> QED BY <2>1, <2>2, <2>5, <3>1
  <2> QED BY <1>4, <2>1, <2>6, <2>7, <2>8
<1>8. \A j \in 1..n : a[j] = a[1] + (j - 1)
  <2> DEFINE S == {m \in Nat : m + 1 \in 1..n => a[m + 1] = a[1] + m}
  <2>1. 0 \in S
    <3>1. ASSUME 0 + 1 \in 1..n PROVE a[0 + 1] = a[1] + 0
      <4>1. 1 \in 1..n
        BY <3>1
      <4>2. a[1] \in Nat
        BY <1>6, <4>1
      <4> QED BY <4>2
    <3> QED BY <3>1
  <2>2. ASSUME NEW m \in S PROVE m + 1 \in S
    <3>1. m \in Nat /\ (m + 1 \in 1..n => a[m + 1] = a[1] + m)
      OBVIOUS
    <3>2. ASSUME (m + 1) + 1 \in 1..n PROVE a[(m + 1) + 1] = a[1] + (m + 1)
      <4>1. m + 1 \in 1..n /\ 1 \in 1..n
        BY <1>4, <3>1, <3>2
      <4>2. a[(m + 1) + 1] = a[m + 1] + 1
        BY <1>7, <3>2, <4>1
      <4>3. a[1] \in Nat
        BY <1>6, <4>1
      <4> QED BY <3>1, <4>1, <4>2, <4>3
    <3> QED BY <3>1, <3>2
  <2>3. S = Nat
    <3> HIDE DEF S
    <3>1. S \subseteq Nat
      BY DEF S
    <3> QED BY <2>1, <2>2, <3>1, SetInduction
  <2> SUFFICES ASSUME NEW j \in 1..n PROVE a[j] = a[1] + (j - 1)
    OBVIOUS
  <2>4. j - 1 \in S /\ j - 1 + 1 = j
    BY <1>4, <2>3
  <2> QED BY <2>4
<1>9. /\ rows \in Seq(Block) /\ Len(rows) = len /\ DOMAIN rows = 1..len
      /\ \A j \in 1..len : /\ j \in 1..n /\ rows[j] = Stored[a[j]] /\ rows[j].seq = a[j]
  <2>1. \A j \in 1..len : j \in 1..n /\ Stored[a[j]] \in Block /\ Stored[a[j]].seq = a[j]
    BY <1>4, <1>5, <1>6, StoredFacts
  <2> QED BY <1>5, <2>1
<1>10. Chain(rows)
  <2> SUFFICES ASSUME NEW i \in DOMAIN rows
               PROVE  /\ rows[i].seq \in DOMAIN Stored /\ rows[i] = Stored[rows[i].seq]
                      /\ rows[i].start < EndTime
                      /\ rows[i].seq = rows[1].seq + (i - 1)
    BY DEF Chain
  <2>1. i \in 1..len /\ 1 \in 1..len
    BY <1>5, <1>9
  <2>2. rows[i].seq = a[i] /\ rows[i] = Stored[a[i]] /\ rows[1].seq = a[1] /\ i \in 1..n
    BY <1>9, <2>1
  <2>3. Stored[a[i]].start < EndTime /\ a[i] \in DOMAIN Stored
    BY <1>6, <1>m, <2>2
  <2> QED BY <1>8, <2>2, <2>3
<1>11. ASSUME rows # <<>> PROVE FirstBehind(rows[1].seq, start)
  <2>1. 1 \in 1..len
    BY <1>5, <1>9, <1>11
  <2>2. rows[1].seq = a[1] /\ a[1] \in match /\ 1 \in 1..n /\ a[1] \in Nat
    BY <1>6, <1>9, <2>1
  <2>3. a[1] \in Period(start)
    BY <1>m, <2>2 DEF Period
  <2>4. ASSUME NEW i \in DOMAIN Stored, i < a[1] PROVE Stored[i].end <= start
    <3>1. i \notin match
      <4>1. ASSUME NEW k \in 1..n PROVE a[k] # i
        <5>1. a[k] = a[1] + (k - 1)
          BY <1>8
        <5>2. i \in Nat
          BY StoredFacts
        <5> QED BY <1>4, <2>2, <2>4, <5>1, <5>2
      <4> QED BY <1>4, <4>1
    <3>2. i <= known /\ Stored[i].start < Stored[a[1]].start /\ Stored[a[1]].start < EndTime
      <4>1. a[1] \in DOMAIN Stored /\ a[1] <= known /\ Stored[a[1]].start < EndTime
        BY <1>m, <2>2
      <4> QED BY <1>1, <2>2, <2>4, <4>1, StoredFacts
    <3>3. Stored[i].start < EndTime
      <4>1. a[1] \in DOMAIN Stored
        BY <1>m, <2>2
      <4> QED BY <3>2, <4>1, StoredFacts, GetterAssumption
    <3>4. ~(Stored[i].end > start)
      BY <1>m, <3>1, <3>2, <3>3
    <3> QED BY <3>4, StoredFacts
  <2> QED BY <2>2, <2>3, <2>4 DEF FirstBehind
<1>12. ASSUME limit > Len(rows), NEW x \in Period(start), x <= Known0
       PROVE  \E j \in DOMAIN rows : rows[j].seq = x
  <2>1. x \in match
    <3>1. x \in DOMAIN Stored /\ x \in Nat
      BY StoredFacts DEF Period
    <3>2. x <= known
      BY <1>1, <1>12, <3>1
    <3> QED BY <1>m, <3>2 DEF Period
  <2>2. len = n
    BY <1>4, <1>9, <1>12
  <2>3. PICK j \in 1..n : a[j] = x
    BY <1>4, <2>1
  <2> QED BY <1>9, <2>2, <2>3
<1> QED BY <1>9, <1>10, <1>11, <1>12 DEF rows

-----------------------------------------------------------------------------
(* The steps of the index getter.                                          *)

\* What the steps below need of the state.
LEMMA GetterState ==
    ASSUME GetterInv
    PROVE  /\ known \in Known0..Len(Stored) /\ Known0 \in Nat /\ known \in Nat
           /\ cache \in Seq(Block) /\ Len(cache) \in Nat /\ DOMAIN cache = 1..Len(cache)
           /\ cur \in Nat /\ cur <= Len(cache) /\ curTime \in Nat
           /\ err \in {"none", "eof", "fail"}
           /\ run \in [pc : {"wait", "find", "apply", "failed", "panic"},
                       start : Nat, limit : Nat, rows : Seq(Block)]
           /\ Chain(cache)
           /\ \A i \in 1..Len(cache) :
                 /\ cache[i].seq \in DOMAIN Stored /\ cache[i] = Stored[cache[i].seq]
                 /\ cache[i].start \in Nat /\ cache[i].end \in Nat /\ cache[i].seq \in Nat
                 /\ cache[i].start < EndTime /\ cache[i].seq = cache[1].seq + (i - 1)
<1>1. GetterTypes /\ Chain(cache)
  BY DEF GetterInv, CacheExact
<1>2. Known0 \in Nat
  BY GetterAssumption, StoredFacts
<1>3. ASSUME NEW i \in 1..Len(cache)
      PROVE  /\ cache[i].seq \in DOMAIN Stored /\ cache[i] = Stored[cache[i].seq]
             /\ cache[i].start \in Nat /\ cache[i].end \in Nat /\ cache[i].seq \in Nat
             /\ cache[i].start < EndTime /\ cache[i].seq = cache[1].seq + (i - 1)
  <2>1. cache[i] \in Block /\ i \in DOMAIN cache
    BY <1>1 DEF GetterTypes
  <2>2. cache[i].start \in Nat /\ cache[i].end \in Nat /\ cache[i].seq \in Nat
    BY <2>1 DEF Block
  <2> QED BY <1>1, <2>1, <2>2 DEF Chain
<1> QED BY <1>1, <1>2, <1>3, StoredFacts DEF GetterTypes

\* A step that leaves the getter alone, or only moves signals.
LEMMA GetterStill ==
    ASSUME GetterInv, seeks \in Nat, seeks' \in {seeks, seeks + 1},
           UNCHANGED <<known, cache, cur, curTime, err, run>>
    PROVE  GetterInv'
<1>1. seeks' = 0 => seeks = 0
  OBVIOUS
<1>2. GetterTypes'
  BY DEF GetterInv, GetterTypes
<1>3. CacheExact'
  BY <1>1 DEF GetterInv, CacheExact, HasIndex, NextIndex
<1>4. FoundExact'
  BY DEF GetterInv, FoundExact
<1>5. InFlight'
  BY <1>1 DEF GetterInv, InFlight
<1> QED BY <1>2, <1>3, <1>4, <1>5 DEF GetterInv

\* Get takes the next index: the reader's place is the one behind it.
LEMMA GetterTakes ==
    ASSUME GetterInv, TakeIndex, seeks' = seeks
    PROVE  GetterInv' /\ cache' # <<>> /\ Last(cache') = Last(cache) /\ cache # <<>>
<1> DEFINE k == cur + 1
<1>1. k \in 1..Len(cache) /\ k \in Nat /\ cur \in Nat /\ Len(cache) \in Nat
  BY GetterState DEF TakeIndex, HasIndex
<1>2. curTime' = cache[k].end /\ curTime' \in Nat
  BY <1>1, GetterState DEF TakeIndex, NextIndex
<1>3. /\ known' = known /\ err' = err /\ run' = run
  BY DEF TakeIndex
<1>4. Half \in Nat \ {0}
  BY GetterAssumption DEF Half
<1> DEFINE p == IF cur < Half THEN 0 ELSE 1
<1>5. /\ p \in {0, 1} /\ p \in 0..Len(cache)
      /\ cur' = cur + (1 - p) /\ cur' \in Nat
      /\ cache' \in Seq(Block) /\ Len(cache') = Len(cache) - p /\ DOMAIN cache' = 1..Len(cache')
      /\ \A i \in 1..Len(cache') : cache'[i] = cache[i + p]
  <2>1. CASE cur < Half
    BY <1>1, <2>1, GetterState DEF TakeIndex
  <2>2. CASE ~(cur < Half)
    <3>1. cache' = Tail(cache) /\ cur' = cur /\ cache # <<>>
      BY <1>1, <2>2 DEF TakeIndex
    <3>2. cache \in Seq(Block)
      BY GetterState
    <3>3. /\ cache' \in Seq(Block) /\ Len(cache') = Len(cache) - 1
          /\ \A i \in 1..Len(cache') : cache'[i] = cache[i + 1]
      BY <3>1, <3>2
    <3>4. p = 1 /\ p \in 0..Len(cache)
      BY <1>1, <2>2
    <3>5. cur' = cur + (1 - p) /\ cur' \in Nat
      BY <1>1, <3>1, <3>4
    <3> HIDE DEF p
    <3> QED BY <3>3, <3>4, <3>5
  <2> QED BY <2>1, <2>2
<1>6. Len(cache') >= 1 /\ cur' <= Len(cache') /\ cur' + p = k
  <2>1. CASE cur < Half
    BY <1>1, <1>5, <2>1
  <2>2. CASE ~(cur < Half)
    <3>1. cur >= 1 /\ p = 1
      BY <1>1, <1>4, <2>2
    <3> QED BY <1>1, <1>5, <3>1
  <2> QED BY <2>1, <2>2
<1>7. cache' # <<>> /\ cache # <<>> /\ Last(cache') = Last(cache)
  <2>1. Len(cache') \in 1..Len(cache') /\ Len(cache') + p = Len(cache)
    BY <1>1, <1>5, <1>6
  <2>2. cache'[Len(cache')] = cache[Len(cache)]
    BY <1>5, <2>1
  <2> QED BY <1>1, <1>5, <1>6, <2>2 DEF Last
<1> HIDE DEF p
<1>8. GetterTypes'
  <2>1. cur' \in 0..Len(cache')
    BY <1>5, <1>6
  <2> QED BY <1>2, <1>3, <1>5, <2>1 DEF GetterInv, GetterTypes
<1>9. Chain(cache')
  BY <1>5, GetterState, ChainSuffix
<1>10. ASSUME HasIndex' PROVE FirstBehind(NextIndex.seq, curTime)'
  <2>1. cur' + 1 \in 1..Len(cache') /\ k + 1 \in 1..Len(cache) /\ cur' + 1 + p = k + 1
    BY <1>1, <1>5, <1>6, <1>10 DEF HasIndex
  <2>2. cache'[cur' + 1] = cache[k + 1]
    BY <1>5, <2>1
  <2> DEFINE n == cache[k].seq
  <2>3. n \in DOMAIN Stored /\ cache[k] = Stored[n] /\ n \in Nat
    BY <1>1, GetterState
  <2>4. /\ cache[k + 1].seq \in DOMAIN Stored /\ cache[k + 1] = Stored[cache[k + 1].seq]
        /\ cache[k + 1].start < EndTime
    BY <2>1, GetterState
  <2>5. cache[k + 1].seq = n + ((k + 1) - k)
    <3>1. cache \in Seq(Block) /\ Chain(cache) /\ k \in 1..Len(cache) /\ k + 1 \in 1..Len(cache)
      BY <1>1, <2>1, GetterState
    <3> HIDE DEF k
    <3> QED BY <3>1, ChainSteps
  <2> HIDE DEF n
  <2>6. cache[k + 1].seq = n + 1
    BY <1>1, <2>3, <2>5
  <2>7. FirstBehind(n + 1, Stored[n].end)
    BY <2>3, <2>4, <2>6, BehindNext
  <2>8. NextIndex'.seq = n + 1 /\ curTime' = Stored[n].end
    BY <1>2, <2>2, <2>3, <2>6 DEF NextIndex
  <2> QED BY <2>7, <2>8 DEF FirstBehind, Period
<1>11. ASSUME ~HasIndex' PROVE curTime' = Last(cache)'.end
  <2>1. cur' = Len(cache')
    BY <1>5, <1>6, <1>11 DEF HasIndex
  <2>2. k = Len(cache)
    BY <1>1, <1>5, <1>6, <2>1
  <2> QED BY <1>2, <1>7, <2>2 DEF Last
<1>12. CacheExact'
  BY <1>9, <1>10, <1>11 DEF CacheExact
<1>13. FoundExact' /\ InFlight'
  <2>1. FoundExact'
    BY <1>3 DEF GetterInv, FoundExact
  <2>2. InFlight'
    BY <1>3, <1>7 DEF GetterInv, InFlight
  <2> QED BY <2>1, <2>2
<1> QED BY <1>7, <1>8, <1>12, <1>13 DEF GetterInv

\* The goroutine takes a signal: a query is under way only without an error.
LEMMA GetterRunTake ==
    ASSUME GetterInv, RunTake, seeks' = seeks
    PROVE  GetterInv'
<1>1. UNCHANGED <<known, cache, cur, curTime, err>> /\ run.pc = "wait"
  BY DEF RunTake
<1> DEFINE room == IF err # "none" THEN 0 ELSE CacheCap - Len(cache)
<1>2. Threshold \in Nat \ {0} /\ BufferCap \in Nat
  BY GetterAssumption DEF Threshold, Half
<1>3. room \in Int
  BY GetterState, GetterAssumption
<1>4. \/ run' = run
      \/ /\ room >= Threshold
         /\ run' = [pc |-> "find", start |-> Behind, rows |-> <<>>,
                    limit |-> IF room > BufferCap THEN BufferCap ELSE room]
  BY <1>2, <1>3 DEF RunTake
<1>5. CASE run' = run
  <2>1. GetterTypes' /\ FoundExact' /\ InFlight'
    BY <1>1, <1>5 DEF GetterInv, GetterTypes, FoundExact, InFlight
  <2>2. CacheExact'
    BY <1>1 DEF GetterInv, CacheExact, HasIndex, NextIndex
  <2> QED BY <2>1, <2>2 DEF GetterInv
<1>6. CASE /\ room >= Threshold
           /\ run' = [pc |-> "find", start |-> Behind, rows |-> <<>>,
                      limit |-> IF room > BufferCap THEN BufferCap ELSE room]
  <2>1. err = "none"
    BY <1>2, <1>6
  <2>2. room \in Nat
    BY <1>2, <1>3, <1>6
  <2>3. Behind \in Nat
    <3>1. CASE cache = <<>>
      BY <3>1, GetterState DEF Behind
    <3>2. CASE cache # <<>>
      <4>1. Len(cache) \in 1..Len(cache)
        BY <3>2, GetterState
      <4> QED BY <3>2, <4>1, GetterState DEF Behind, Last
    <3> QED BY <3>1, <3>2
  <2> HIDE DEF room
  <2>4. run' \in [pc : {"wait", "find", "apply", "failed", "panic"},
                  start : Nat, limit : Nat, rows : Seq(Block)]
    BY <1>2, <1>6, <2>2, <2>3
  <2>5. GetterTypes'
    BY <1>1, <2>4 DEF GetterInv, GetterTypes
  <2>6. CacheExact'
    BY <1>1 DEF GetterInv, CacheExact, HasIndex, NextIndex
  <2>7. FoundExact'
    BY <1>6 DEF FoundExact
  <2>8. InFlight'
    BY <1>1, <2>1 DEF InFlight
  <2> QED BY <2>5, <2>6, <2>7, <2>8 DEF GetterInv
<1> QED BY <1>4, <1>5, <1>6

\* The query, its failure, and what follows a failure.
LEMMA GetterRunFind ==
    ASSUME GetterInv, RunFind \/ RunFail \/ RunFailed, seeks' = seeks
    PROVE  GetterInv'
<1>0. UNCHANGED <<known, cache, cur, curTime>>
  BY DEF RunFind, RunFail, RunFailed
<1>t. run \in [pc : {"wait", "find", "apply", "failed", "panic"},
               start : Nat, limit : Nat, rows : Seq(Block)]
  BY GetterState
<1>1. CASE RunFind
  <2> DEFINE found == FindIndexes(run.start, run.limit)
  <2>1. run.pc = "find" /\ err' = err /\ run' = [run EXCEPT !.pc = "apply", !.rows = found]
    BY <1>1 DEF RunFind
  <2>2. /\ found \in Seq(Block) /\ Chain(found)
        /\ found # <<>> => FirstBehind(found[1].seq, run.start)
        /\ run.limit > Len(found) =>
              \A n \in Period(run.start) :
                  n <= Known0 => \E j \in DOMAIN found : found[j].seq = n
    <3>1. known \in Known0..Len(Stored) /\ run.start \in Nat /\ run.limit \in Nat
      BY <1>t, GetterState
    <3> QED BY <3>1, FindFacts
  <2> HIDE DEF found
  <2>3. /\ run' \in [pc : {"wait", "find", "apply", "failed", "panic"},
                     start : Nat, limit : Nat, rows : Seq(Block)]
        /\ run'.pc = "apply" /\ run'.rows = found /\ run'.start = run.start /\ run'.limit = run.limit
    BY <1>t, <2>1, <2>2
  <2>4. GetterTypes'
    BY <1>0, <2>1, <2>3 DEF GetterInv, GetterTypes
  <2>5. CacheExact'
    BY <1>0, <2>1 DEF GetterInv, CacheExact, HasIndex, NextIndex
  <2>6. FoundExact'
    BY <2>2, <2>3 DEF FoundExact, Chain, FirstBehind, Period
  <2>7. InFlight'
    BY <1>0, <2>1 DEF GetterInv, InFlight
  <2> QED BY <2>4, <2>5, <2>6, <2>7 DEF GetterInv
<1>2. CASE RunFail \/ RunFailed
  <2>1. /\ run' \in [pc : {"wait", "find", "apply", "failed", "panic"},
                     start : Nat, limit : Nat, rows : Seq(Block)]
        /\ run'.pc \in {"wait", "failed", "panic"}
        /\ err' \in {err, "fail"}
    <3>1. CASE RunFail
      BY <1>t, <3>1 DEF RunFail
    <3>2. CASE RunFailed
      <4>1. err' = err /\ (run' = Waiting \/ run' = [Waiting EXCEPT !.pc = "panic"])
        BY <3>2 DEF RunFailed
      <4>2. <<>> \in Seq(Block)
        OBVIOUS
      <4>3. CASE run' = Waiting
        BY <4>1, <4>2, <4>3 DEF Waiting
      <4>4. CASE run' = [Waiting EXCEPT !.pc = "panic"]
        <5>1. run' = [pc |-> "panic", start |-> 0, limit |-> 0, rows |-> <<>>]
          BY <4>4 DEF Waiting
        <5> QED BY <4>1, <4>2, <5>1
      <4> QED BY <4>1, <4>3, <4>4
    <3> QED BY <1>2, <3>1, <3>2
  <2>2. GetterTypes'
    BY <1>0, <2>1 DEF GetterInv, GetterTypes
  <2>3. CacheExact'
    BY <1>0, <2>1 DEF GetterInv, CacheExact, HasIndex, NextIndex
  <2>4. FoundExact' /\ InFlight'
    BY <2>1 DEF FoundExact, InFlight
  <2> QED BY <2>2, <2>3, <2>4 DEF GetterInv
<1> QED BY <1>1, <1>2


\* What was found is added, if the reader is still where it was asked for.
LEMMA GetterRunApply ==
    ASSUME GetterInv, RunApply, seeks' = seeks
    PROVE  GetterInv'
<1> DEFINE rows == run.rows
<1>1. /\ run.pc = "apply" /\ run' = Waiting /\ UNCHANGED <<known, cur, curTime>>
  BY DEF RunApply
<1>2. rows \in Seq(Block) /\ Len(rows) \in Nat /\ run.start \in Nat /\ run.limit \in Nat
      /\ DOMAIN rows = 1..Len(rows)
  BY GetterState
<1>3. Chain(rows) /\ (rows # <<>> => FirstBehind(rows[1].seq, run.start))
  BY <1>1 DEF GetterInv, FoundExact
<1>4. run' \in [pc : {"wait", "find", "apply", "failed", "panic"},
               start : Nat, limit : Nat, rows : Seq(Block)] /\ run'.pc = "wait"
  BY <1>1 DEF Waiting
<1>5. FoundExact' /\ InFlight'
  BY <1>4 DEF FoundExact, InFlight
<1>6. CASE ~InPlace
  <2>1. UNCHANGED <<cache, err>>
    BY <1>6 DEF RunApply
  <2>2. GetterTypes'
    BY <1>1, <1>4, <2>1 DEF GetterInv, GetterTypes
  <2>3. CacheExact'
    BY <1>1, <2>1 DEF GetterInv, CacheExact, HasIndex, NextIndex
  <2> QED BY <1>5, <2>2, <2>3 DEF GetterInv
<1>7. CASE InPlace
  <2> HIDE DEF rows
  <2>0. cache' = cache \o rows /\ err' \in {err, "eof"}
    BY <1>7 DEF RunApply, rows
  <2>1. /\ cache' \in Seq(Block) /\ Len(cache') = Len(cache) + Len(rows) /\ Len(cache) \in Nat
        /\ cur \in Nat /\ cur <= Len(cache)
        /\ \A i \in 1..Len(cache) : cache'[i] = cache[i]
        /\ \A i \in 1..Len(rows) : cache'[Len(cache) + i] = rows[i]
    BY <1>2, <2>0, GetterState
  <2>2. GetterTypes'
    <3>1. cur' \in 0..Len(cache')
      BY <1>1, <1>2, <2>1
    <3> QED BY <1>1, <1>4, <2>0, <2>1, <3>1 DEF GetterInv, GetterTypes
  <2>3. ASSUME cache # <<>>
        PROVE  /\ Len(cache) \in 1..Len(cache) /\ err = "none"
               /\ cache[Len(cache)].seq \in DOMAIN Stored
               /\ run.start = Stored[cache[Len(cache)].seq].end
    <3>1. Len(cache) \in 1..Len(cache)
      BY <2>1, <2>3, GetterState
    <3>2. run.start = cache[Len(cache)].end
      BY <1>7, <2>3 DEF InPlace, Behind, Last
    <3>3. err = "none"
      BY <1>1, <2>3 DEF GetterInv, InFlight
    <3> QED BY <3>1, <3>2, <3>3, GetterState
  <2>4. Chain(cache')
    <3>1. ASSUME cache # <<>>, rows # <<>> PROVE rows[1].seq = cache[Len(cache)].seq + 1
      BY <1>3, <2>3, <3>1, BehindUnique
    <3>2. cache \in Seq(Block) /\ Chain(cache)
      BY GetterState
    <3> HIDE DEF rows
    <3> QED BY <1>2, <1>3, <2>0, <3>1, <3>2, ChainAppend
  <2>5. ASSUME HasIndex' PROVE FirstBehind(NextIndex.seq, curTime)'
    <3>1. CASE cur < Len(cache)
      <4>1. FirstBehind(NextIndex.seq, curTime)
        BY <3>1 DEF GetterInv, CacheExact, HasIndex
      <4>2. NextIndex' = NextIndex
        BY <1>1, <2>1, <3>1 DEF NextIndex
      <4> QED BY <1>1, <4>1, <4>2 DEF FirstBehind, Period
    <3>2. CASE cur = Len(cache)
      <4>1. 1 \in 1..Len(rows) /\ rows # <<>>
        BY <1>1, <1>2, <2>1, <2>5, <3>2 DEF HasIndex
      <4>2. NextIndex' = rows[1]
        BY <1>1, <2>1, <3>2, <4>1 DEF NextIndex
      <4>3. curTime = run.start
        <5>1. CASE cache = <<>>
          BY <1>7, <5>1 DEF InPlace, Behind
        <5>2. CASE cache # <<>>
          <6>1. curTime = Last(cache).end
            BY <2>1, <2>3, <3>2, <5>2 DEF GetterInv, CacheExact, HasIndex
          <6> QED BY <1>7, <5>2, <6>1 DEF InPlace, Behind
        <5> QED BY <5>1, <5>2
      <4> QED BY <1>1, <1>3, <4>1, <4>2, <4>3 DEF FirstBehind, Period
    <3> QED BY <2>1, <3>1, <3>2
  <2>6. ASSUME cache' # <<>>, ~HasIndex', (err = "none" \/ seeks = 0)'
        PROVE  curTime' = Last(cache)'.end
    <3>1. cur = Len(cache) /\ Len(rows) = 0
      BY <1>1, <1>2, <2>1, <2>6 DEF HasIndex
    <3>2. cache' = cache
      BY <1>2, <2>0, <3>1, GetterState
    <3>3. cache # <<>> /\ ~HasIndex
      BY <2>6, <3>1, <3>2 DEF HasIndex
    <3>4. curTime = Last(cache).end
      BY <2>3, <3>3 DEF GetterInv, CacheExact
    <3> QED BY <1>1, <3>2, <3>4
  <2>7. CacheExact'
    BY <2>4, <2>5, <2>6 DEF CacheExact
  <2> QED BY <1>5, <2>2, <2>7 DEF GetterInv
<1> QED BY <1>6, <1>7

\* sort.Search finds the place of a time that the cache covers.
LEMMA SearchFacts ==
    ASSUME GetterInv, NEW t \in Nat, cache # <<>>, t < Last(cache).end
    PROVE  /\ Search(t) \in 0..(Len(cache) - 1)
           /\ \A i \in 1..Search(t) : cache[i].end <= t
           /\ cache[Search(t) + 1].end > t
<1> DEFINE ok == {n \in Nat : n + 1 <= Len(cache) /\ cache[n + 1].end > t}
<1>1. Len(cache) \in Nat /\ Len(cache) >= 1
  BY GetterState
<1>2. Len(cache) - 1 \in ok
  <2>1. Len(cache) - 1 \in Nat /\ Len(cache) - 1 + 1 = Len(cache)
    BY <1>1
  <2>2. Len(cache) \in 1..Len(cache)
    BY <1>1
  <2>3. cache[Len(cache)].end > t
    BY <2>2, GetterState DEF Last
  <2> QED BY <1>1, <2>1, <2>3
<1>3. PICK m \in ok : \A n \in ok : m <= n
  BY <1>2, LeastNat
<1>4. m \in 0..Len(cache) /\ m + 1 <= Len(cache) /\ m \in Nat
  BY <1>1, <1>3
<1>5. ASSUME NEW i \in 1..m PROVE cache[i].end <= t
  <2>1. i - 1 \in Nat /\ i - 1 < m /\ i - 1 + 1 = i /\ i \in 1..Len(cache)
    BY <1>1, <1>4
  <2>2. i - 1 \notin ok
    BY <1>3, <1>4, <2>1
  <2>3. ~(cache[i].end > t)
    BY <1>1, <2>1, <2>2
  <2>4. cache[i].end \in Nat
    BY <2>1, GetterState
  <2> QED BY <2>3, <2>4
<1> DEFINE Good(n) == /\ \A i \in 1..n : cache[i].end <= t
                      /\ n < Len(cache) => cache[n + 1].end > t
<1>6. Good(m)
  BY <1>3, <1>5
<1>7. Search(t) \in 0..Len(cache) /\ Good(Search(t))
  <2>1. \E n \in 0..Len(cache) : Good(n)
    BY <1>4, <1>6
  <2> QED BY <2>1 DEF Search
<1> DEFINE s == Search(t)
<1> HIDE DEF s
<1>8. s \in 0..Len(cache) /\ Good(s)
  BY <1>7 DEF s
<1>9. s # Len(cache)
  <2> SUFFICES ASSUME s = Len(cache) PROVE FALSE
    OBVIOUS
  <2>1. Len(cache) \in 1..s
    BY <1>1
  <2>2. cache[Len(cache)].end <= t
    BY <1>8, <2>1
  <2>3. Len(cache) \in 1..Len(cache)
    BY <1>1
  <2>4. cache[Len(cache)].end \in Nat
    BY <2>3, GetterState
  <2> QED BY <2>2, <2>4 DEF Last
<1>10. s \in 0..(Len(cache) - 1) /\ s < Len(cache)
  BY <1>1, <1>8, <1>9
<1> QED BY <1>8, <1>10 DEF s

\* Seeking to a time that the cache covers.
LEMMA GetterSeekCached ==
    ASSUME GetterInv, NEW t \in Nat, cache # <<>>, seeks # 0, seeks' = seeks,
           Head(cache).start <= t, t < Last(cache).end,
           SeekCached(t), curTime' = t, UNCHANGED <<known, run>>
    PROVE  GetterInv'
<1> DEFINE n == Search(t)
           p == Popped(n)
<1>1. /\ n \in 0..(Len(cache) - 1) /\ \A i \in 1..n : cache[i].end <= t
      /\ cache[n + 1].end > t
  BY SearchFacts
<1>2. Half \in Nat
  BY GetterAssumption DEF Half
<1>3. /\ cache' = SubSeq(cache, p + 1, Len(cache)) /\ cur' = n - p /\ err' = err
  BY DEF SeekCached
<1> HIDE DEF n
<1>4. n \in Nat /\ Len(cache) \in Nat /\ n + 1 <= Len(cache) /\ n + 1 \in 1..Len(cache)
  BY <1>1, GetterState
<1>5. p \in Nat /\ p <= n
  BY <1>2, <1>4 DEF Popped
<1> HIDE DEF p
<1>6. /\ cache' \in Seq(Block) /\ Len(cache') = Len(cache) - p
      /\ \A i \in 1..Len(cache') : cache'[i] = cache[i + p]
  <2>1. cache \in Seq(Block) /\ p + 1 \in 1..(Len(cache) + 1) /\ Len(cache) \in 0..Len(cache)
    BY <1>4, <1>5, GetterState
  <2>2. /\ SubSeq(cache, p + 1, Len(cache)) \in Seq(Block)
        /\ Len(SubSeq(cache, p + 1, Len(cache))) = Len(cache) - (p + 1) + 1
        /\ \A i \in 1..(Len(cache) - (p + 1) + 1) : SubSeq(cache, p + 1, Len(cache))[i] = cache[i + p]
    BY <1>4, <1>5, <2>1
  <2> QED BY <1>3, <1>4, <1>5, <2>2
<1>7. cur' \in Nat /\ cur' + 1 \in 1..Len(cache') /\ cur' + 1 + p = n + 1
  BY <1>3, <1>4, <1>5, <1>6
<1>8. cache'[cur' + 1] = cache[n + 1]
  BY <1>6, <1>7
<1>9. GetterTypes'
  <2>1. cur' \in 0..Len(cache')
    BY <1>6, <1>7
  <2> QED BY <1>3, <1>6, <2>1 DEF GetterInv, GetterTypes
<1>10. Chain(cache')
  <2>1. p \in 0..Len(cache) /\ cache \in Seq(Block) /\ Chain(cache)
    BY <1>4, <1>5, GetterState
  <2> QED BY <1>6, <2>1, ChainSuffix
<1>11. FirstBehind(cache[n + 1].seq, t)
  <2> DEFINE k == cache[n + 1].seq
  <2>1. k \in DOMAIN Stored /\ Stored[k] = cache[n + 1] /\ Stored[k].start < EndTime /\ k \in Nat
    BY <1>4, GetterState
  <2>2. Stored[k].end > t
    BY <1>1, <2>1
  <2>3. CASE n = 0
    <3>1. Stored[k].start <= t
      BY <2>1, <2>3
    <3> HIDE DEF k
    <3> QED BY <2>1, <2>2, <3>1, BehindHere DEF k
  <2>4. CASE n # 0
    <3>1. n \in 1..Len(cache) /\ n \in 1..n
      BY <1>4, <2>4
    <3>2. k = cache[n].seq + ((n + 1) - n) /\ cache[n].seq \in Nat
      <4>1. cache \in Seq(Block) /\ Chain(cache)
        BY GetterState
      <4> QED BY <1>4, <3>1, <4>1, ChainSteps
    <3>3. cache[n].seq \in DOMAIN Stored /\ cache[n] = Stored[cache[n].seq]
      BY <3>1, GetterState
    <3>4. cache[n].end <= t
      BY <1>1, <3>1
    <3>5. k - 1 = cache[n].seq
      <4> DEFINE b == cache[n].seq
      <4>1. k = b + ((n + 1) - n) /\ b \in Nat
        BY <3>2
      <4> HIDE DEF b, k
      <4>2. k - 1 = b
        BY <1>4, <4>1
      <4> QED BY <4>2 DEF b
    <3> HIDE DEF k
    <3>6. k - 1 \in DOMAIN Stored /\ Stored[k - 1].end <= t
      BY <3>3, <3>4, <3>5
    <3> QED BY <2>1, <2>2, <3>6, BehindHere DEF k
  <2> QED BY <2>3, <2>4
<1>12. CacheExact'
  <2>1. FirstBehind(NextIndex.seq, curTime)'
    BY <1>8, <1>11 DEF NextIndex, FirstBehind, Period
  <2>2. HasIndex'
    BY <1>6, <1>7 DEF HasIndex
  <2> QED BY <1>10, <2>1, <2>2 DEF CacheExact
<1>13. FoundExact' /\ InFlight'
  <2>1. FoundExact'
    BY DEF GetterInv, FoundExact
  <2>2. InFlight'
    BY <1>3 DEF GetterInv, InFlight
  <2> QED BY <2>1, <2>2
<1> QED BY <1>9, <1>12, <1>13 DEF GetterInv

\* Clearing the cache, with or without an error.
LEMMA GetterClears ==
    ASSUME GetterInv, seeks # 0, seeks' = seeks, NEW e \in {"none", "eof"}, Clear(e),
           curTime' \in Nat, UNCHANGED <<known, run>>
    PROVE  GetterInv'
<1>1. cache' = <<>> /\ cur' = 0 /\ err' = e
  BY DEF Clear
<1>2. GetterTypes'
  BY <1>1 DEF GetterInv, GetterTypes
<1>3. CacheExact'
  BY <1>1 DEF CacheExact, Chain, HasIndex
<1>4. FoundExact' /\ InFlight'
  BY <1>1 DEF GetterInv, FoundExact, InFlight
<1> QED BY <1>2, <1>3, <1>4 DEF GetterInv

\* Every other seek: nowhere, to the end, or into an empty cache.
LEMMA GetterSeeks ==
    ASSUME GetterInv, seeks \in Nat \ {0}, seeks' = seeks, NEW t \in Nat, Seek(t)
    PROVE  GetterInv'
<1>1. curTime' = t /\ UNCHANGED <<known, run>>
  BY DEF Seek
<1>2. CASE t = curTime
  <2>1. UNCHANGED <<known, cache, cur, curTime, err, run>>
    BY <1>1, <1>2 DEF Seek
  <2> QED BY <2>1, GetterStill
<1>3. CASE t # curTime /\ t = EndTime /\ err = "eof"
  <2> DEFINE p == Popped(Len(cache))
  <2>1. cache' = SubSeq(cache, p + 1, Len(cache)) /\ cur' = Len(cache') /\ err' = err
    BY <1>3 DEF Seek, SeekEnd
  <2>2. Half \in Nat /\ Len(cache) \in Nat /\ cache \in Seq(Block)
    BY GetterAssumption, GetterState DEF Half
  <2>3. p \in Nat /\ p <= Len(cache)
    BY <2>2 DEF Popped
  <2> HIDE DEF p
  <2>4. /\ cache' \in Seq(Block) /\ Len(cache') = Len(cache) - p /\ Len(cache') \in Nat
        /\ \A i \in 1..Len(cache') : cache'[i] = cache[i + p]
    <3>1. p + 1 \in 1..(Len(cache) + 1) /\ Len(cache) \in 0..Len(cache)
      BY <2>2, <2>3
    <3>2. /\ SubSeq(cache, p + 1, Len(cache)) \in Seq(Block)
          /\ Len(SubSeq(cache, p + 1, Len(cache))) = Len(cache) - (p + 1) + 1
          /\ \A i \in 1..(Len(cache) - (p + 1) + 1) : SubSeq(cache, p + 1, Len(cache))[i] = cache[i + p]
      BY <2>2, <2>3, <3>1
    <3> QED BY <2>1, <2>2, <2>3, <3>2
  <2>5. GetterTypes'
    BY <1>1, <2>1, <2>4 DEF GetterInv, GetterTypes
  <2>6. Chain(cache')
    <3>1. p \in 0..Len(cache) /\ Chain(cache)
      BY <2>2, <2>3, GetterState
    <3> QED BY <2>2, <2>4, <3>1, ChainSuffix
  <2>7. ~HasIndex'
    BY <2>1, <2>4 DEF HasIndex
  <2>8. CacheExact'
    BY <1>3, <2>1, <2>6, <2>7 DEF CacheExact
  <2>9. FoundExact'
    BY <1>1 DEF GetterInv, FoundExact
  <2>10. InFlight'
    <3>1. cache = <<>> => cache' = <<>>
      BY <2>2, <2>3, <2>4
    <3> QED BY <1>1, <2>1, <3>1 DEF GetterInv, InFlight
  <2> QED BY <2>5, <2>8, <2>9, <2>10 DEF GetterInv
<1>4. CASE t # curTime /\ t = EndTime /\ err # "eof"
  <2>1. Clear("eof")
    BY <1>4 DEF Seek, SeekEnd
  <2> QED BY <1>1, <2>1, GetterClears
<1>5. CASE t # curTime /\ t # EndTime /\ cache = <<>>
  <2>1. UNCHANGED <<cache, cur, err>>
    BY <1>5 DEF Seek
  <2>2. cur = 0 /\ Len(cache) = 0
    BY <1>5, GetterState
  <2>3. GetterTypes'
    BY <1>1, <2>1 DEF GetterInv, GetterTypes
  <2>4. CacheExact'
    BY <1>5, <2>1, <2>2 DEF CacheExact, Chain, HasIndex
  <2>5. FoundExact' /\ InFlight'
    BY <1>1, <2>1 DEF GetterInv, FoundExact, InFlight
  <2> QED BY <2>3, <2>4, <2>5 DEF GetterInv
<1>6. CASE /\ t # curTime /\ t # EndTime /\ cache # <<>>
           /\ t < Head(cache).start \/ t >= Last(cache).end
  <2>1. Clear("none")
    BY <1>6 DEF Seek
  <2> QED BY <1>1, <2>1, GetterClears
<1>7. CASE /\ t # curTime /\ t # EndTime /\ cache # <<>>
           /\ ~(t < Head(cache).start \/ t >= Last(cache).end)
  <2>1. SeekCached(t)
    BY <1>7 DEF Seek
  <2>2. 1 \in 1..Len(cache) /\ Len(cache) \in 1..Len(cache) /\ Head(cache) = cache[1]
    BY <1>7, GetterState
  <2>3. Head(cache).start \in Nat /\ Last(cache).end \in Nat
    BY <2>2, GetterState DEF Last
  <2>4. Head(cache).start <= t /\ t < Last(cache).end
    BY <1>7, <2>3
  <2> QED BY <1>1, <1>7, <2>1, <2>4, GetterSeekCached
<1> QED BY <1>2, <1>3, <1>4, <1>5, <1>6, <1>7

\* Every step keeps the getter's invariant.
LEMMA GetterNext ==
    ASSUME GetterInv, seeks \in Nat, seekSignal \in Nat, seeks = 0 => seekSignal = 0, [HNext]_hvars
    PROVE  GetterInv'
<1> USE DEF ivars, history
<1>1. CASE Getting
  <2>1. CASE NextGot
    <3>1. TakeIndex /\ seeks' = seeks
      BY <2>1 DEF NextGot
    <3> QED BY <3>1, GetterTakes
  <2>2. CASE ~NextGot
    <3>1. seeks' = seeks /\ UNCHANGED <<known, cache, cur, curTime, err, run>>
      <4>1. CASE Get
        BY <4>1 DEF Get
      <4>2. CASE NextError
        BY <4>2 DEF NextError
      <4>3. CASE NextBlocks
        BY <4>3 DEF NextBlocks
      <4>4. CASE NextAwaits
        BY <4>4 DEF NextAwaits, AwaitAccess
      <4>5. CASE NextSends
        BY <4>5 DEF NextSends
      <4>6. CASE Receive
        BY <4>6 DEF Receive
      <4>7. CASE ReceiveOld
        BY <4>7 DEF ReceiveOld
      <4>8. CASE Resend
        BY <4>8 DEF Resend
      <4> QED BY <1>1, <2>2, <4>1, <4>2, <4>3, <4>4, <4>5, <4>6, <4>7, <4>8 DEF Getting
    <3> QED BY <3>1, GetterStill
  <2> QED BY <2>1, <2>2
<1>2. CASE Finding
  BY <1>2, GetterRunTake, GetterRunFind, GetterRunApply DEF Finding, Running
<1>3. CASE Recording
  <2>1. /\ known < Len(Stored) /\ known' = known + 1 /\ seeks' = seeks
        /\ UNCHANGED <<cache, cur, curTime, err, run>>
    BY <1>3 DEF Recording, Record
  <2>2. known' \in Known0..Len(Stored)
    BY <2>1, GetterState, StoredFacts
  <2>3. GetterTypes'
    BY <2>1, <2>2 DEF GetterInv, GetterTypes
  <2>4. CacheExact'
    BY <2>1 DEF GetterInv, CacheExact, HasIndex, NextIndex
  <2>5. FoundExact' /\ InFlight'
    BY <2>1 DEF GetterInv, FoundExact, InFlight
  <2> QED BY <2>3, <2>4, <2>5 DEF GetterInv
<1>4. CASE PlaySeek
  <2>1. Seek(Clamped(seekSignal)) /\ seeks' = seeks /\ seekSignal # 0
    BY <1>4 DEF PlaySeek
  <2>2. Clamped(seekSignal) \in Nat
    BY GetterAssumption DEF Clamped
  <2>3. seeks \in Nat \ {0}
    BY <2>1
  <2> QED BY <2>1, <2>2, <2>3, GetterSeeks
<1>5. CASE \/ Reading \/ Client \/ PlaySend \/ PlayFails \/ PlayPush \/ PlayPause
           \/ PlayInterrupted \/ Stop \/ UNCHANGED hvars
  <2>1. seeks' \in {seeks, seeks + 1} /\ UNCHANGED <<known, cache, cur, curTime, err, run>>
    <3>1. CASE Reading
      BY <3>1 DEF Reading, ReadTake, ReadBlock, ReadReply
    <3>2. CASE Client
      BY <3>2 DEF Client, StartPush, Pause, Close, SeekTo
    <3>3. CASE PlaySend \/ PlayFails \/ PlayPush \/ PlayPause \/ PlayInterrupted \/ Stop
      BY <3>3 DEF PlaySend, PlayFails, PlayPush, PlayPause, PlayInterrupted, Stop
    <3>4. CASE UNCHANGED hvars
      BY <3>4 DEF hvars
    <3> QED BY <1>5, <3>1, <3>2, <3>3, <3>4
  <2> QED BY <2>1, GetterStill
<1> QED BY <1>1, <1>2, <1>3, <1>4, <1>5 DEF HNext, Playing

\* At the start the cache is empty.
LEMMA GetterStarts == ASSUME HInit PROVE GetterInv
<1>1. GetterInit
  BY DEF HInit
<1>2. /\ cache = <<>> /\ cur = 0 /\ run = Waiting /\ run.pc = "wait" /\ known = Known0
      /\ curTime = StartTime /\ err = "none" /\ Len(cache) = 0
  BY <1>1 DEF GetterInit, Waiting
<1>3. GetterTypes
  <2>1. Known0 \in Known0..Len(Stored) /\ StartTime \in Nat
    BY GetterAssumption, StoredFacts
  <2>2. <<>> \in Seq(Block)
    OBVIOUS
  <2>3. run \in [pc : {"wait", "find", "apply", "failed", "panic"},
                 start : Nat, limit : Nat, rows : Seq(Block)]
    BY <1>2, <2>2 DEF Waiting
  <2> QED BY <1>2, <2>1, <2>2, <2>3 DEF GetterTypes
<1>4. CacheExact
  BY <1>2 DEF CacheExact, Chain, HasIndex
<1>5. FoundExact /\ InFlight
  BY <1>2 DEF FoundExact, InFlight
<1> QED BY <1>3, <1>4, <1>5 DEF GetterInv

-----------------------------------------------------------------------------
(* The types of the pusher's own state.                                    *)

Channels == <<requests, responses, reader>>
Buffers  == <<curSeq, curBuf, blockBuf, data>>
Flags    == <<failed, blockReading, eof, seekFlag, indexErr>>
Log      == <<sent, lost, from>>
Commands == <<seeks, pauses, seekSignal>>

\* The types fall into parts that few actions touch.
ChannelTypes ==
    /\ requests \in Seq(Nat) /\ Len(requests) <= 1
    /\ responses \in Seq(Answer) /\ Len(responses) <= 1
    /\ \A i \in DOMAIN responses : responses[i].ok <=> responses[i].buf # 0
    /\ reader \in [pc : {"idle", "read", "reply"}, seq : Nat, buf : {0, 1, 2}]
BufferTypes ==
    /\ curSeq \in Nat /\ data \in [Bufs -> Nat] /\ curBuf \in Bufs /\ blockBuf \in Bufs
FlagTypes ==
    /\ failed \in BOOLEAN /\ blockReading \in BOOLEAN /\ eof \in BOOLEAN
    /\ seekFlag \in BOOLEAN /\ indexErr \in {"none", "eof", "fail"}
LogTypes == sent \in Seq(Nat) /\ lost \in SUBSET Nat /\ from \in Nat
CommandTypes == seeks \in Nat /\ pauses \in Nat /\ seekSignal \in Nat

\* PipeTypes is the conjunction of its parts, now and after a step.
LEMMA PipeParts ==
    /\ PipeTypes <=> ChannelTypes /\ BufferTypes /\ FlagTypes /\ LogTypes /\ CommandTypes /\ want \in Nat
    /\ PipeTypes' <=> (ChannelTypes /\ BufferTypes /\ FlagTypes /\ LogTypes /\ CommandTypes /\ want \in Nat)'
BY DEF PipeTypes, ChannelTypes, BufferTypes, FlagTypes, LogTypes, CommandTypes

\* A part that a step leaves alone keeps its types.
LEMMA PartsKept ==
    /\ ChannelTypes /\ UNCHANGED Channels => ChannelTypes'
    /\ BufferTypes /\ UNCHANGED Buffers => BufferTypes'
    /\ FlagTypes /\ UNCHANGED Flags => FlagTypes'
    /\ LogTypes /\ UNCHANGED Log => LogTypes'
    /\ CommandTypes /\ UNCHANGED Commands => CommandTypes'
BY DEF ChannelTypes, BufferTypes, FlagTypes, LogTypes, CommandTypes,
       Channels, Buffers, Flags, Log, Commands

\* Get and what it waits for keep the types.
LEMMA TypesGetting ==
    ASSUME PlayInv, Getting
    PROVE  PipeTypes'
<1> USE DEF ivars, history, call, getter, chans, client
<1>0. ChannelTypes /\ BufferTypes /\ FlagTypes /\ LogTypes /\ CommandTypes /\ want \in Nat
  BY PipeParts DEF PlayInv, PipeInv
<1>e. err \in {"none", "eof", "fail"}
  BY GetterState DEF PlayInv
<1> USE DEF Channels, Buffers, Flags, Log, Commands
<1>r. ASSUME NEW e, Resume(e), ToldInv, e \in {"none", "eof", "fail"}
      PROVE  failed' \in {failed, TRUE} /\ eof' \in {eof, TRUE}
  <2>1. then \in {"seek", "first", "return"} /\ nested \in BOOLEAN
    BY <1>r DEF ToldInv, CallTypes
  <2> QED BY <1>r, <2>1 DEF Resume
<1>1. CASE Get
  <2>1. UNCHANGED <<Channels, Buffers, Log, Commands, blockReading, indexErr>>
    BY <1>1 DEF Get
  <2>2. failed' \in BOOLEAN /\ eof' \in BOOLEAN /\ seekFlag' \in BOOLEAN
    BY <1>1, Zenon DEF Get
  <2>3. want' = want
    BY <1>1 DEF Get, Stays, CallNext
  <2>4. FlagTypes'
    BY <1>0, <2>1, <2>2 DEF FlagTypes
  <2> QED BY <1>0, <2>1, <2>3, <2>4, PartsKept, PipeParts
<1>2. CASE NextGot
  <2>1. UNCHANGED <<Channels, Buffers, Log, Commands, failed, blockReading, eof, seekFlag>>
    BY <1>2 DEF NextGot
  <2>2. want' \in {want, NextIndex.seq} /\ indexErr' \in {indexErr, "none"} /\ HasIndex
    BY <1>2 DEF NextGot, TakeIndex
  <2>3. NextIndex.seq \in Nat
    <3>1. cur + 1 \in 1..Len(cache)
      BY <2>2, GetterState DEF PlayInv, HasIndex
    <3> QED BY <3>1, GetterState DEF PlayInv, NextIndex
  <2>4. FlagTypes'
    BY <1>0, <2>1, <2>2 DEF FlagTypes
  <2>5. want' \in Nat
    BY <1>0, <2>2, <2>3
  <2> QED BY <1>0, <2>1, <2>4, <2>5, PartsKept, PipeParts
<1>3. CASE NextError
  <2>1. UNCHANGED <<Channels, Buffers, Log, Commands, want, seekFlag>>
    BY <1>3 DEF NextError
  <2>2. indexErr' = err /\ blockReading' = FALSE /\ Resume(err)
    BY <1>3 DEF NextError
  <2>3. failed' \in {failed, TRUE} /\ eof' \in {eof, TRUE}
    BY <1>e, <1>r, <2>2 DEF PlayInv
  <2>4. failed' \in BOOLEAN /\ eof' \in BOOLEAN /\ blockReading' \in BOOLEAN
    BY <1>0, <2>2, <2>3, Zenon DEF FlagTypes
  <2>5. FlagTypes'
    BY <1>0, <1>e, <2>1, <2>2, <2>4 DEF FlagTypes
  <2> QED BY <1>0, <2>1, <2>5, PartsKept, PipeParts
<1>4. CASE NextBlocks \/ NextAwaits
  <2>1. UNCHANGED <<Channels, Buffers, Flags, Log, Commands, want>>
    BY <1>4 DEF NextBlocks, NextAwaits
  <2> QED BY <1>0, <2>1, PartsKept, PipeParts
<1>5. CASE NextSends
  <2>1. UNCHANGED <<Buffers, Log, Commands, want, seekFlag, indexErr, responses, reader>>
    BY <1>5 DEF NextSends
  <2>2. requests' = <<want>> /\ blockReading' = TRUE /\ Resume("none")
    BY <1>5 DEF NextSends
  <2>3. failed' \in {failed, TRUE} /\ eof' \in {eof, TRUE}
    BY <1>r, <2>2 DEF PlayInv
  <2>4. failed' \in BOOLEAN /\ eof' \in BOOLEAN /\ blockReading' \in BOOLEAN
    BY <1>0, <2>2, <2>3, Zenon DEF FlagTypes
  <2>5. FlagTypes'
    BY <1>0, <2>1, <2>4 DEF FlagTypes
  <2>6. ChannelTypes'
    BY <1>0, <2>1, <2>2 DEF ChannelTypes
  <2> QED BY <1>0, <2>1, <2>5, <2>6, PartsKept, PipeParts
<1>6. CASE Receive \/ ReceiveOld
  <2>1. UNCHANGED <<Commands, want, data, seekFlag, indexErr, blockReading, eof, requests, reader, sent, from>>
    BY <1>6 DEF Receive, ReceiveOld, CallNext
  <2>2. responses # <<>> /\ responses' = <<>> /\ UseResponse
    BY <1>6 DEF Receive, ReceiveOld
  <2>3. Response \in Answer
    BY <1>0, <2>2 DEF Response, ChannelTypes
  <2>4. Response.seq \in Nat /\ Response.buf \in {0, 1, 2} /\ Response.ok \in BOOLEAN
    BY <2>3 DEF Answer
  <2>5. failed' \in {failed, ~Response.ok}
    BY <1>6 DEF Receive, ReceiveOld
  <2>6. failed' \in BOOLEAN
    BY <1>0, <2>4, <2>5, Zenon DEF FlagTypes
  <2>7. FlagTypes'
    BY <1>0, <2>1, <2>6 DEF FlagTypes
  <2>8. LogTypes'
    <3>1. lost' = lost \/ lost' = lost \union {Response.seq}
      BY <1>6 DEF Receive, ReceiveOld
    <3> QED BY <1>0, <2>1, <2>4, <3>1 DEF LogTypes
  <2>9. ChannelTypes'
    BY <1>0, <2>1, <2>2 DEF ChannelTypes
  <2>10. BufferTypes'
    <3>1. curSeq' \in {curSeq, Response.seq} /\ (curBuf' = curBuf \/ (Response.ok /\ curBuf' = Response.buf))
          /\ blockBuf' \in {curBuf, blockBuf}
      <4>1. CASE Response.ok
        <5>1. curSeq' = Response.seq /\ curBuf' = Response.buf /\ blockBuf' = curBuf
          BY <2>2, <4>1 DEF UseResponse
        <5> QED BY <4>1, <5>1, Zenon
      <4>2. CASE ~Response.ok
        <5>1. UNCHANGED <<curSeq, curBuf, blockBuf>>
          BY <2>2, <4>2, Zenon DEF UseResponse
        <5> QED BY <5>1, Zenon
      <4> QED BY <4>1, <4>2
    <3>2. Response.ok => Response.buf # 0
      <4>1. Response = responses[1] /\ 1 \in DOMAIN responses
        BY <1>0, <2>2 DEF Response, ChannelTypes
      <4> QED BY <1>0, <4>1 DEF ChannelTypes
    <3>3. curBuf' \in Bufs
      <4>1. CASE curBuf' = curBuf
        BY <1>0, <4>1 DEF BufferTypes
      <4>2. CASE Response.ok /\ curBuf' = Response.buf
        BY <2>4, <3>2, <4>2 DEF Bufs
      <4> QED BY <3>1, <4>1, <4>2
    <3>4. blockBuf' \in Bufs
      BY <1>0, <3>1 DEF BufferTypes
    <3> QED BY <1>0, <2>1, <2>4, <3>1, <3>3, <3>4 DEF BufferTypes
  <2> QED BY <1>0, <2>1, <2>7, <2>8, <2>9, <2>10, PartsKept, PipeParts
<1>7. CASE Resend
  <2>1. UNCHANGED <<Buffers, Log, Commands, want, seekFlag, indexErr, failed, eof, responses, reader>>
    BY <1>7 DEF Resend
  <2>2. requests' = <<want>> /\ blockReading' = TRUE
    BY <1>7 DEF Resend
  <2>3. blockReading' \in BOOLEAN
    BY <2>2, Zenon
  <2>4. FlagTypes'
    BY <1>0, <2>1, <2>3 DEF FlagTypes
  <2>5. ChannelTypes'
    BY <1>0, <2>1, <2>2 DEF ChannelTypes
  <2> QED BY <1>0, <2>1, <2>4, <2>5, PartsKept, PipeParts
<1> QED BY <1>1, <1>2, <1>3, <1>4, <1>5, <1>6, <1>7 DEF Getting

\* The reader of blocks, the play, the client and the rest keep the types.
LEMMA TypesAround ==
    ASSUME PlayInv, Reading \/ Finding \/ Recording \/ Playing \/ Client
    PROVE  PipeTypes'
<1> USE DEF ivars, history, call, getter, chans, client, Channels, Buffers, Flags, Log, Commands
<1>0. ChannelTypes /\ BufferTypes /\ FlagTypes /\ LogTypes /\ CommandTypes /\ want \in Nat
  BY PipeParts DEF PlayInv, PipeInv
<1>r. reader.pc \in {"idle", "read", "reply"} /\ reader.seq \in Nat /\ reader.buf \in {0, 1, 2}
  BY <1>0 DEF ChannelTypes
<1>1. CASE ReadTake
  <2>1. UNCHANGED <<Buffers, Flags, Log, Commands, want, responses>>
    BY <1>1 DEF ReadTake
  <2>2. requests # <<>> /\ requests' = <<>>
        /\ reader' = [pc |-> "read", seq |-> Head(requests), buf |-> blockBuf]
    BY <1>1 DEF ReadTake
  <2>3. Head(requests) \in Nat /\ blockBuf \in {0, 1, 2}
    BY <1>0, <2>2 DEF ChannelTypes, BufferTypes, Bufs
  <2>4. ChannelTypes'
    BY <1>0, <2>1, <2>2, <2>3 DEF ChannelTypes
  <2> QED BY <1>0, <2>1, <2>4, PartsKept, PipeParts
<1>2. CASE ReadBlock
  <2>1. UNCHANGED <<Flags, Log, Commands, want, requests, responses, curSeq, curBuf, blockBuf>>
    BY <1>2 DEF ReadBlock
  <2>2. reader' = [reader EXCEPT !.pc = "reply"] \/ reader' = [reader EXCEPT !.pc = "reply", !.buf = 0]
    BY <1>2 DEF ReadBlock
  <2>3. reader' \in [pc : {"idle", "read", "reply"}, seq : Nat, buf : {0, 1, 2}]
    BY <1>0, <2>2 DEF ChannelTypes
  <2>4. data' = data \/ data' = [data EXCEPT ![reader.buf] = reader.seq]
    BY <1>2 DEF ReadBlock
  <2>5. data' \in [Bufs -> Nat]
    BY <1>0, <1>r, <2>4 DEF BufferTypes
  <2>6. ChannelTypes'
    BY <1>0, <2>1, <2>3 DEF ChannelTypes
  <2>7. BufferTypes'
    BY <1>0, <2>1, <2>5 DEF BufferTypes
  <2> QED BY <1>0, <2>1, <2>6, <2>7, PartsKept, PipeParts
<1>3. CASE ReadReply
  <2>1. UNCHANGED <<Buffers, Flags, Log, Commands, want, requests>>
    BY <1>3 DEF ReadReply
  <2> DEFINE a == [seq |-> reader.seq, buf |-> reader.buf, ok |-> reader.buf # 0]
  <2>2. responses' = <<a>> /\ reader' = NoReader
    BY <1>3 DEF ReadReply
  <2>3. (reader.buf # 0) \in BOOLEAN
    BY Zenon
  <2>4. a \in Answer /\ (a.ok <=> a.buf # 0)
    BY <1>r, <2>3 DEF Answer
  <2> HIDE DEF a
  <2>5. /\ responses' \in Seq(Answer) /\ Len(responses') = 1
        /\ \A i \in DOMAIN responses' : responses'[i] = a
    BY <2>2, <2>4
  <2>6. reader' \in [pc : {"idle", "read", "reply"}, seq : Nat, buf : {0, 1, 2}]
    BY <2>2 DEF NoReader
  <2>7. \A i \in DOMAIN responses' : responses'[i].ok <=> responses'[i].buf # 0
    BY <2>4, <2>5
  <2>8. ChannelTypes'
    BY <1>0, <2>1, <2>5, <2>6, <2>7 DEF ChannelTypes
  <2> QED BY <1>0, <2>1, <2>8, PartsKept, PipeParts
<1>4. CASE Finding \/ Recording
  <2>1. UNCHANGED <<Channels, Buffers, Flags, Log, Commands, want>>
    BY <1>4 DEF Finding, Recording
  <2> QED BY <1>0, <2>1, PartsKept, PipeParts
<1>5. CASE PlaySend
  <2>1. UNCHANGED <<Channels, Buffers, Flags, Commands, want, lost, from>> /\ sent' = Append(sent, data[curBuf])
    BY <1>5 DEF PlaySend
  <2>2. data[curBuf] \in Nat
    BY <1>0 DEF BufferTypes
  <2>3. LogTypes'
    BY <1>0, <2>1, <2>2 DEF LogTypes
  <2> QED BY <1>0, <2>1, <2>3, PartsKept, PipeParts
<1>6. CASE PlaySeek
  <2>1. /\ UNCHANGED <<Channels, Buffers, want, failed, blockReading, indexErr, seeks, pauses>>
        /\ seekSignal' = 0 /\ seekFlag' = TRUE /\ eof' = FALSE
        /\ from' = Clamped(seekSignal) /\ sent' = <<>> /\ lost' = {}
    BY <1>6 DEF PlaySeek
  <2>2. Clamped(seekSignal) \in Nat
    BY <1>0, GetterAssumption DEF Clamped, CommandTypes
  <2>3. seekFlag' \in BOOLEAN /\ eof' \in BOOLEAN
    BY <2>1, Zenon
  <2>4. FlagTypes'
    BY <1>0, <2>1, <2>3 DEF FlagTypes
  <2>5. LogTypes' /\ CommandTypes'
    BY <1>0, <2>1, <2>2 DEF LogTypes, CommandTypes
  <2> QED BY <1>0, <2>1, <2>4, <2>5, PartsKept, PipeParts
<1>7. CASE PlayFails \/ PlayPush \/ PlayPause \/ PlayInterrupted \/ Stop \/ StartPush \/ Close
  <2>1. UNCHANGED <<Channels, Buffers, Flags, Log, Commands, want>>
    BY <1>7 DEF PlayFails, PlayPush, PlayPause, PlayInterrupted, Stop, StartPush, Close
  <2> QED BY <1>0, <2>1, PartsKept, PipeParts
<1>8. CASE Pause \/ \E t \in Seeks : SeekTo(t)
  <2>1. UNCHANGED <<Channels, Buffers, Flags, Log, want>>
    BY <1>8 DEF Pause, SeekTo
  <2>2. CASE Pause
    <3>1. pauses' = pauses + 1 /\ seeks' = seeks /\ seekSignal' = seekSignal
      BY <2>2 DEF Pause
    <3>2. CommandTypes'
      BY <1>0, <3>1 DEF CommandTypes
    <3> QED BY <1>0, <2>1, <3>2, PartsKept, PipeParts
  <2>3. CASE \E t \in Seeks : SeekTo(t)
    <3>1. PICK t \in Seeks : SeekTo(t)
      BY <2>3
    <3>2. pauses' = pauses /\ seeks' = seeks + 1 /\ seekSignal' \in {EndTime, StartTime + t} /\ t \in Nat
      BY <3>1, PusherAssumption DEF SeekTo
    <3>3. CommandTypes'
      BY <1>0, <3>2, GetterAssumption DEF CommandTypes
    <3> QED BY <1>0, <2>1, <3>3, PartsKept, PipeParts
  <2> QED BY <1>8, <2>2, <2>3
<1> QED BY <1>1, <1>2, <1>3, <1>4, <1>5, <1>6, <1>7, <1>8 DEF Reading, Playing, Client

-----------------------------------------------------------------------------
(* The undisturbed play.                                                   *)

\* What the steps below use of the invariant while the client has not sought.
LEMMA SteadyState ==
    ASSUME PlayInv, seeks = 0
    PROVE  /\ Steady /\ PipeTypes /\ GetterInv
           /\ pc \in Positions /\ then \in {"first", "return"} /\ nested \in BOOLEAN
           /\ err \in {"none", "eof", "fail"}
           /\ ~eof \/ pc \in {"eof", "stop", "stopped"}
           /\ \A n \in Taken : n \in DOMAIN Stored /\ n \in Nat /\ n >= 1 /\ Stored[n].end <= curTime
<1>1. Steady /\ PipeTypes /\ GetterInv
  BY DEF PlayInv, PipeInv
<1>2. pc \in Positions /\ then \in {"seek", "first", "return"} /\ nested \in BOOLEAN
  BY DEF PlayInv, ToldInv, CallTypes
<1>3. then # "seek" /\ (~eof \/ pc \in {"eof", "stop", "stopped"})
  BY <1>1 DEF Steady, Undisturbed, EndReached
<1>4. \A n \in Taken : n \in DOMAIN Stored /\ n \in Nat /\ n >= 1 /\ Stored[n].end <= curTime
  BY StoredFacts DEF Taken, Period
<1>5. err \in {"none", "eof", "fail"}
  BY <1>1, GetterState
<1> QED BY <1>1, <1>2, <1>3, <1>4, <1>5

\* A step that moves a block on without changing what it is, or ends the play.
LEMMA TrackedStill ==
    ASSUME AllTracked, UNCHANGED <<curTime, sent, lost, curSeq>>,
           \/ pc' \in {"stop", "stopped"}
           \/ /\ pc \notin {"stop", "stopped"}
              /\ AtHand' <=> AtHand
              /\ UnderWay' <=> UnderWay
              /\ UnderWay => Fly' = Fly
    PROVE  AllTracked'
<1>1. CASE pc' \in {"stop", "stopped"}
  BY <1>1 DEF AllTracked
<1>2. CASE pc' \notin {"stop", "stopped"}
  <2>1. Taken' = Taken
    BY DEF Taken
  <2>2. ToSet(sent)' = ToSet(sent)
    BY DEF ToSet
  <2>3. pc \notin {"stop", "stopped"} /\ (AtHand' <=> AtHand) /\ (UnderWay' <=> UnderWay)
        /\ (UnderWay => Fly' = Fly)
    BY <1>2
  <2> QED BY <2>1, <2>2, <2>3 DEF AllTracked
<1> QED BY <1>1, <1>2

\* The parts of the invariant that a step leaves alone.
LEMMA SteadyKept ==
    /\ OneUnderWay /\ UNCHANGED <<blockReading, requests, reader, responses>>
          /\ (pc' \in {"next", "await", "send"} => pc \in {"next", "await", "send"}) => OneUnderWay'
    /\ DataExact /\ UNCHANGED <<data, curSeq, curBuf, blockBuf, reader, responses>> => DataExact'
    /\ OnlyTaken /\ UNCHANGED <<curSeq, curTime, sent, lost>> => OnlyTaken'
    /\ BlocksInOrder /\ UNCHANGED <<sent, lost, from>> => BlocksInOrder'
<1>1. OneUnderWay /\ UNCHANGED <<blockReading, requests, reader, responses>>
          /\ (pc' \in {"next", "await", "send"} => pc \in {"next", "await", "send"}) => OneUnderWay'
  BY DEF OneUnderWay
<1>2. DataExact /\ UNCHANGED <<data, curSeq, curBuf, blockBuf, reader, responses>> => DataExact'
  BY DEF DataExact
<1>3. OnlyTaken /\ UNCHANGED <<curSeq, curTime, sent, lost>> => OnlyTaken'
  BY DEF OnlyTaken, Taken, ToSet
<1>4. BlocksInOrder /\ UNCHANGED <<sent, lost, from>> => BlocksInOrder'
  BY DEF BlocksInOrder, ToSet, Period
<1> QED BY <1>1, <1>2, <1>3, <1>4

\* Get: the answers it can give at once, and the calls of readNext.
LEMMA SteadyGet ==
    ASSUME PlayInv, seeks = 0, Get
    PROVE  Steady'
<1> USE DEF ivars, history, call, getter, chans, client
<1>0. Steady /\ ~eof /\ pc = "get" /\ then \in {"first", "return"}
  BY SteadyState DEF Get
<1>1. ~seekFlag /\ seekSignal = 0 /\ from = StartTime /\ curTime >= StartTime
  BY <1>0 DEF Steady, Undisturbed
<1>2. /\ UNCHANGED <<known, cache, cur, curTime, err, run>>
      /\ UNCHANGED <<curSeq, curBuf, blockBuf, data, indexErr, blockReading>>
      /\ UNCHANGED <<requests, responses, reader, seekSignal, seeks, from, sent, lost>>
      /\ seekFlag' = FALSE
      /\ failed' = (~blockReading /\ indexErr = "fail")
      /\ eof' = (~blockReading /\ indexErr = "eof")
  BY <1>0, <1>1 DEF Get
<1>3. /\ \/ /\ pc' = "eof" /\ ~blockReading /\ indexErr = "eof" /\ then' = then
         \/ /\ pc' = "recv" /\ then' = then
         \/ /\ pc' = "next" /\ ~blockReading /\ then' = "return" /\ indexErr = "fail"
         \/ /\ pc' = "next" /\ ~blockReading /\ then' = "first"
      /\ eof' => pc' = "eof"
  <2>1. CASE eof'
    <3>1. ReturnsEOF /\ Stays
      BY <2>1 DEF Get
    <3> QED BY <1>2, <2>1, <3>1 DEF ReturnsEOF, Stays
  <2>2. CASE ~eof' /\ blockReading
    <3>1. Returns("recv") /\ Stays
      BY <1>1, <2>2 DEF Get
    <3> QED BY <2>2, <3>1 DEF Returns, Stays
  <2>3. CASE ~eof' /\ ~blockReading /\ indexErr = "fail"
    <3>1. CallNext("return")
      BY <1>1, <2>3 DEF Get
    <3> QED BY <2>3, <3>1 DEF CallNext
  <2>4. CASE ~eof' /\ ~blockReading /\ indexErr # "fail"
    <3>1. CallNext("first")
      BY <1>1, <2>4 DEF Get
    <3> QED BY <2>4, <3>1 DEF CallNext
  <2> QED BY <2>1, <2>2, <2>3, <2>4
<1>4. Undisturbed'
  BY <1>0, <1>1, <1>2, <1>3 DEF Undisturbed
<1>5. OneUnderWay'
  BY <1>0, <1>2, <1>3 DEF Steady, OneUnderWay
<1>6. DataExact' /\ OnlyTaken' /\ BlocksInOrder'
  BY <1>0, <1>2, SteadyKept DEF Steady
<1>7. AllTracked'
  <2>1. ~AtHand /\ ~AtHand'
    BY <1>0, <1>2, <1>3 DEF AtHand
  <2>2. (UnderWay' <=> UnderWay) /\ Fly' = Fly
    BY <1>0, <1>2, <1>3 DEF UnderWay, Fly
  <2> QED BY <1>0, <1>2, <2>1, <2>2, TrackedStill DEF Steady
<1>8. EndReached'
  <2>1. /\ (indexErr = "eof" \/ pc = "eof") => err = "eof" /\ ~HasIndex
        /\ err = "eof" => \A n \in DOMAIN Stored :
              (n <= Known0 /\ Stored[n].start < EndTime) => Stored[n].end <= Behind
    BY <1>0 DEF Steady, EndReached
  <2>2. HasIndex' = HasIndex /\ Behind' = Behind
    BY <1>2 DEF HasIndex, Behind
  <2> QED BY <1>2, <1>3, <2>1, <2>2 DEF EndReached
<1> QED BY <1>4, <1>5, <1>6, <1>7, <1>8 DEF Steady

\* readNext takes an index: it is not the current block's, and the first one
\* behind everything given out.
LEMMA SteadyNextGot ==
    ASSUME PlayInv, seeks = 0, NextGot
    PROVE  Steady'
<1> USE DEF ivars, history, call, getter, chans, client
<1> DEFINE n == NextIndex.seq
<1>0. Steady /\ pc = "next" /\ TakeIndex /\ HasIndex /\ GetterInv
  BY SteadyState DEF NextGot, TakeIndex
<1>1. cur + 1 \in 1..Len(cache)
  BY <1>0, GetterState DEF HasIndex
<1>2. /\ n \in DOMAIN Stored /\ NextIndex = Stored[n] /\ n \in Nat /\ n >= 1
      /\ Stored[n].start < EndTime /\ Stored[n].end \in Nat /\ curTime \in Nat
  BY <1>0, <1>1, GetterState, StoredFacts DEF NextIndex
<1>3. FirstBehind(n, curTime)
  BY <1>0 DEF GetterInv, CacheExact
<1>4. Stored[n].end > curTime /\ \A i \in DOMAIN Stored : i < n => Stored[i].end <= curTime
  BY <1>3 DEF FirstBehind, Period
<1>5. \A m \in Taken : m < n /\ m \in Nat
  <2> SUFFICES ASSUME NEW m \in Taken PROVE m < n /\ m \in Nat
    OBVIOUS
  <2>1. m \in DOMAIN Stored /\ m \in Nat /\ Stored[m].end <= curTime
    BY SteadyState
  <2>2. CASE m >= n
    <3>1. Stored[n].end <= Stored[m].end
      <4>1. m = n \/ n < m
        BY <1>2, <2>1, <2>2
      <4> QED BY <1>2, <2>1, <4>1, StoredFacts
    <3> QED BY <1>2, <1>4, <2>1, <3>1, StoredFacts
  <2> HIDE DEF n
  <2> QED BY <1>2, <2>1, <2>2
<1>6. curSeq < n /\ curSeq \in Nat
  <2>1. curSeq \in Taken \/ curSeq = 0
    BY <1>0 DEF Steady, OnlyTaken
  <2> HIDE DEF n
  <2> QED BY <1>2, <1>5, <2>1
<1>7. n # curSeq
  <2> HIDE DEF n
  <2> QED BY <1>2, <1>6
<1>8. /\ pc' = "send" /\ want' = n /\ indexErr' = "none" /\ curTime' = Stored[n].end
      /\ UNCHANGED <<then, nested, failed, curSeq, curBuf, blockBuf, data, eof, seekFlag, blockReading>>
      /\ UNCHANGED <<requests, responses, reader, seekSignal, seeks, from, sent, lost, err>>
  BY <1>2, <1>7 DEF NextGot, TakeIndex
<1>9. StartTime \in Nat /\ StartTime <= curTime /\ StartTime < Stored[n].end
  <2>1. StartTime \in Nat /\ StartTime <= curTime
    BY <1>0, GetterAssumption DEF Steady, Undisturbed
  <2> QED BY <1>2, <1>4, <2>1
<1> HIDE DEF n
<1>10. Undisturbed'
  BY <1>0, <1>2, <1>4, <1>8, <1>9 DEF Steady, Undisturbed
<1>11. OneUnderWay' /\ DataExact' /\ BlocksInOrder'
  <2>1. OneUnderWay'
    BY <1>0, <1>8, SteadyKept DEF Steady
  <2>2. DataExact' /\ BlocksInOrder'
    BY <1>0, <1>8, SteadyKept DEF Steady
  <2> QED BY <2>1, <2>2
<1>12. n \in Taken' /\ \A m : m \in Taken' <=> (m \in Taken \/ m = n)
  <2>1. n \in Taken'
    BY <1>2, <1>8, <1>9 DEF Taken, Period
  <2>2. ASSUME NEW m \in Taken' PROVE m \in Taken \/ m = n
    <3>1. m \in DOMAIN Stored /\ m \in Period(StartTime) /\ Stored[m].end <= Stored[n].end
      BY <1>8, <2>2 DEF Taken, Period
    <3>2. CASE m > n
      BY <1>2, <3>1, <3>2, StoredFacts
    <3>3. CASE m < n
      BY <1>4, <3>1, <3>3 DEF Taken
    <3> QED BY <1>2, <3>1, <3>2, <3>3, StoredFacts
  <2>3. ASSUME NEW m \in Taken PROVE m \in Taken'
    <3>1. m \in Period(StartTime) /\ m \in DOMAIN Stored /\ Stored[m].end <= curTime
      BY DEF Taken, Period
    <3>2. Stored[m].end <= Stored[n].end
      BY <1>2, <1>4, <3>1, StoredFacts
    <3> QED BY <1>8, <3>1, <3>2 DEF Taken, Period
  <2> QED BY <2>1, <2>2, <2>3
<1>13. OnlyTaken'
  <2>1. ToSet(sent)' = ToSet(sent)
    BY <1>8 DEF ToSet
  <2> QED BY <1>0, <1>8, <1>12, <2>1 DEF Steady, OnlyTaken
<1>14. AllTracked'
  <2>1. ToSet(sent)' = ToSet(sent)
    BY <1>8 DEF ToSet
  <2>2. ~UnderWay /\ UnderWay' /\ Fly' = n
    BY <1>0, <1>8 DEF Steady, OneUnderWay, UnderWay, Fly
  <2>3. AtHand' <=> AtHand
    BY <1>0, <1>8 DEF AtHand
  <2>4. /\ \A m \in Taken : m \in ToSet(sent) \union lost \/ (AtHand /\ m = curSeq)
        /\ AtHand => /\ curSeq \in Taken
                     /\ \A m \in ToSet(sent) \union lost : m < curSeq
    BY <1>0, <2>2 DEF Steady, AllTracked
  <2>5. \A m \in ToSet(sent) \union lost : m < n
    BY <1>0, <1>5 DEF Steady, OnlyTaken
  <2> QED BY <1>6, <1>8, <1>12, <2>1, <2>2, <2>3, <2>4, <2>5 DEF AllTracked
<1>15. EndReached'
  <2>1. Behind' = Behind
    BY <1>0, <1>8, GetterTakes DEF Behind
  <2> QED BY <1>0, <1>8, <2>1 DEF Steady, EndReached
<1> QED BY <1>10, <1>11, <1>13, <1>14, <1>15 DEF Steady

\* readNext meets an error or the end: nothing is under way any more.
LEMMA SteadyNextError ==
    ASSUME PlayInv, seeks = 0, NextError
    PROVE  Steady'
<1> USE DEF ivars, history, call, getter, chans, client
<1>0. Steady /\ pc = "next" /\ then \in {"first", "return"} /\ err \in {"eof", "fail"} /\ ~HasIndex
  BY SteadyState DEF NextError, HasError
<1>1. ~seekFlag /\ seekSignal = 0 /\ from = StartTime /\ curTime >= StartTime /\ ~eof
  BY <1>0, SteadyState DEF Steady, Undisturbed
<1>2. /\ UNCHANGED <<known, cache, cur, curTime, err, run>>
      /\ UNCHANGED <<curSeq, curBuf, blockBuf, data, seekFlag, want>>
      /\ UNCHANGED <<requests, responses, reader, seekSignal, seeks, from, sent, lost>>
      /\ indexErr' = err /\ blockReading' = FALSE /\ Resume(err)
  BY DEF NextError
<1>3. \/ pc' = "eof" /\ then = "first" /\ then' = then /\ err = "eof"
      \/ pc' = "next" /\ then = "first" /\ then' = "return" /\ failed' = TRUE /\ eof' = eof
      \/ pc' \in {"get", "stop"} /\ then = "return" /\ failed /\ then' = then /\ failed' = failed /\ eof' = eof
      \/ pc' = "play" /\ then = "return" /\ ~failed /\ then' = then /\ failed' = failed /\ eof' = eof
  <2>1. CASE then = "first" /\ err = "eof"
    BY <1>2, <2>1 DEF Resume, ReturnsEOF
  <2>2. CASE then = "first" /\ err = "fail"
    BY <1>2, <2>2 DEF Resume, Returns
  <2>3. CASE then = "return"
    <3>1. (IF failed THEN ReturnsError ELSE Returns("play")) /\ UNCHANGED <<then, failed, eof>>
      BY <1>2, <2>3 DEF Resume
    <3>2. CASE failed
      BY <2>3, <3>1, <3>2 DEF ReturnsError
    <3>3. CASE ~failed
      BY <2>3, <3>1, <3>3 DEF Returns
    <3> QED BY <3>2, <3>3
  <2> QED BY <1>0, <2>1, <2>2, <2>3
<1>4. requests = <<>> /\ reader.pc = "idle" /\ responses = <<>>
  BY <1>0 DEF Steady, OneUnderWay
<1>5. Undisturbed'
  BY <1>0, <1>1, <1>2, <1>3 DEF Undisturbed
<1>6. OneUnderWay'
  BY <1>2, <1>4 DEF OneUnderWay
<1>7. DataExact' /\ OnlyTaken' /\ BlocksInOrder'
  BY <1>0, <1>2, SteadyKept DEF Steady
<1>8. AllTracked'
  <2>1. ~UnderWay /\ ~UnderWay'
    BY <1>0, <1>2, <1>3, <1>4 DEF UnderWay
  <2>2. pc' = "stop" \/ (AtHand' <=> AtHand)
    BY <1>0, <1>3 DEF AtHand
  <2> QED BY <1>0, <1>2, <2>1, <2>2, TrackedStill DEF Steady
<1>9. EndReached'
  <2>1. err = "eof" => \A n \in DOMAIN Stored :
              (n <= Known0 /\ Stored[n].start < EndTime) => Stored[n].end <= Behind
    BY <1>0 DEF Steady, EndReached
  <2>2. HasIndex' = HasIndex /\ Behind' = Behind
    BY <1>2 DEF HasIndex, Behind
  <2> QED BY <1>0, <1>1, <1>2, <1>3, <2>1, <2>2 DEF EndReached
<1> QED BY <1>5, <1>6, <1>7, <1>8, <1>9 DEF Steady

\* readNext sends its request: the block is under way.
LEMMA SteadyNextSends ==
    ASSUME PlayInv, seeks = 0, NextSends
    PROVE  Steady'
<1> USE DEF ivars, history, call, getter, chans, client
<1>0. Steady /\ pc = "send" /\ then \in {"first", "return"} /\ PipeTypes
  BY SteadyState DEF NextSends
<1>1. ~seekFlag /\ seekSignal = 0 /\ from = StartTime /\ curTime >= StartTime /\ ~eof
  BY <1>0, SteadyState DEF Steady, Undisturbed
<1>2. /\ UNCHANGED <<known, cache, cur, curTime, err, run>>
      /\ UNCHANGED <<curSeq, curBuf, blockBuf, data, seekFlag, want, indexErr>>
      /\ UNCHANGED <<responses, reader, seekSignal, seeks, from, sent, lost>>
      /\ requests' = <<want>> /\ blockReading' = TRUE /\ Resume("none")
  BY DEF NextSends
<1>3. /\ then' = then /\ failed' = failed /\ eof' = eof
      /\ \/ pc' = "recv" /\ then = "first"
         \/ pc' \in {"get", "stop"} /\ then = "return" /\ failed
         \/ pc' = "play" /\ then = "return" /\ ~failed
  <2>1. CASE then = "first"
    BY <1>2, <2>1 DEF Resume, Returns
  <2>2. CASE then = "return"
    <3>1. (IF failed THEN ReturnsError ELSE Returns("play")) /\ UNCHANGED <<then, failed, eof>>
      BY <1>2, <2>2 DEF Resume
    <3>2. CASE failed
      BY <2>2, <3>1, <3>2 DEF ReturnsError
    <3>3. CASE ~failed
      BY <2>2, <3>1, <3>3 DEF Returns
    <3> QED BY <3>2, <3>3
  <2> QED BY <1>0, <2>1, <2>2
<1>4. reader.pc = "idle" /\ responses = <<>>
  BY <1>0 DEF Steady, OneUnderWay
<1>5. Undisturbed'
  BY <1>0, <1>1, <1>2, <1>3 DEF Undisturbed
<1>6. OneUnderWay'
  BY <1>2, <1>3, <1>4 DEF OneUnderWay
<1>7. DataExact' /\ OnlyTaken' /\ BlocksInOrder'
  BY <1>0, <1>2, SteadyKept DEF Steady
<1>8. AllTracked'
  <2>1. requests' # <<>> /\ requests'[1] = want
    BY <1>2
  <2>2. UnderWay /\ UnderWay' /\ Fly' = Fly
    BY <1>0, <1>2, <1>3, <2>1 DEF UnderWay, Fly
  <2>3. pc' = "stop" \/ (AtHand' <=> AtHand)
    BY <1>0, <1>3 DEF AtHand
  <2> QED BY <1>0, <1>2, <2>2, <2>3, TrackedStill DEF Steady
<1>9. EndReached'
  <2>1. HasIndex' = HasIndex /\ Behind' = Behind
    BY <1>2 DEF HasIndex, Behind
  <2> QED BY <1>0, <1>1, <1>2, <1>3, <2>1 DEF Steady, EndReached
<1> QED BY <1>5, <1>6, <1>7, <1>8, <1>9 DEF Steady

\* getAfterRead: the block that was read is the current one, or it is lost.
LEMMA SteadyReceive ==
    ASSUME PlayInv, seeks = 0, Receive
    PROVE  Steady'
<1> USE DEF ivars, history, call, getter, chans, client
<1> DEFINE s == Response.seq
<1>0. Steady /\ PipeTypes /\ pc = "recv" /\ responses # <<>>
  BY SteadyState DEF Receive, Steady, Undisturbed
<1>1. ~seekFlag /\ seekSignal = 0 /\ from = StartTime /\ curTime >= StartTime /\ ~eof
  BY <1>0, SteadyState DEF Steady, Undisturbed
<1>2. /\ UNCHANGED <<known, cache, cur, curTime, err, run>>
      /\ UNCHANGED <<data, eof, indexErr, seekFlag, blockReading, want>>
      /\ UNCHANGED <<requests, reader, seekSignal, seeks, from, sent>>
      /\ responses' = <<>> /\ UseResponse /\ failed' = ~Response.ok
      /\ pc' = "next" /\ then' = "return"
      /\ lost' = IF Response.ok THEN lost ELSE lost \union {s}
  BY DEF Receive, CallNext
<1>3. requests = <<>> /\ reader.pc = "idle"
  BY <1>0 DEF Steady, OneUnderWay
<1>4. /\ Response = responses[1] /\ s \in Nat /\ (Response.ok <=> Response.buf # 0)
      /\ Response.ok \in BOOLEAN
  <2>1. Response = responses[1] /\ 1 \in DOMAIN responses /\ Response \in Answer
    BY <1>0 DEF Response, PipeTypes
  <2> QED BY <1>0, <2>1 DEF PipeTypes, Answer
<1>5. UnderWay /\ Fly = s /\ ~AtHand
  BY <1>0, <1>3, <1>4 DEF UnderWay, Fly, AtHand
<1>6. /\ \A n \in Taken : n \in ToSet(sent) \union lost \/ n = s
      /\ s \in Taken /\ curSeq < s /\ \A n \in ToSet(sent) \union lost : n < s
  BY <1>0, <1>5 DEF Steady, AllTracked
<1>7. Taken' = Taken /\ ToSet(sent)' = ToSet(sent)
  BY <1>2 DEF Taken, ToSet
<1>8. ~UnderWay'
  BY <1>2, <1>3 DEF UnderWay
<1>9. Undisturbed' /\ OneUnderWay'
  BY <1>1, <1>2, <1>3 DEF Undisturbed, OneUnderWay
<1>10. EndReached'
  <2>1. HasIndex' = HasIndex /\ Behind' = Behind
    BY <1>2 DEF HasIndex, Behind
  <2> QED BY <1>0, <1>1, <1>2, <2>1 DEF Steady, EndReached
<1> HIDE DEF s
<1>11. CASE Response.ok
  <2>1. /\ curSeq' = s /\ curBuf' = Response.buf /\ blockBuf' = curBuf
        /\ lost' = lost /\ ~failed'
    BY <1>2, <1>11 DEF UseResponse, s
  <2>2. Response.buf = blockBuf /\ data[blockBuf] = s /\ curBuf # blockBuf
    BY <1>0, <1>4, <1>11 DEF Steady, DataExact, s
  <2>3. DataExact'
    BY <1>2, <1>3, <2>1, <2>2 DEF DataExact
  <2>4. OnlyTaken'
    BY <1>0, <1>6, <1>7, <2>1 DEF Steady, OnlyTaken
  <2>5. BlocksInOrder'
    BY <1>0, <1>2, <2>1, SteadyKept DEF Steady
  <2>6. AtHand'
    BY <1>2, <2>1 DEF AtHand
  <2>7. AllTracked'
    BY <1>6, <1>7, <1>8, <2>1, <2>6 DEF AllTracked
  <2> QED BY <1>9, <1>10, <2>3, <2>4, <2>5, <2>7 DEF Steady
<1>12. CASE ~Response.ok
  <2>1. UNCHANGED <<curSeq, curBuf, blockBuf>> /\ lost' = lost \union {s} /\ failed'
    BY <1>2, <1>12 DEF UseResponse
  <2>2. DataExact'
    BY <1>0, <1>2, <1>3, <2>1 DEF Steady, DataExact
  <2>3. OnlyTaken'
    BY <1>0, <1>6, <1>7, <2>1 DEF Steady, OnlyTaken
  <2>4. BlocksInOrder'
    <3>1. ASSUME NEW i \in DOMAIN sent PROVE sent[i] # s
      <4>1. sent[i] \in ToSet(sent)
        BY DEF ToSet
      <4>2. sent[i] < s
        BY <1>6, <4>1
      <4> QED BY <1>4, <4>2
    <3>2. sent' = sent /\ from' = from
      BY <1>2
    <3> QED BY <1>0, <1>7, <2>1, <3>1, <3>2 DEF Steady, BlocksInOrder, Period
  <2>5. ~AtHand'
    BY <1>2, <2>1 DEF AtHand
  <2>6. AllTracked'
    BY <1>6, <1>7, <1>8, <2>1, <2>5 DEF AllTracked
  <2> QED BY <1>9, <1>10, <2>2, <2>3, <2>4, <2>6 DEF Steady
<1> QED BY <1>11, <1>12

\* The reader of blocks: it writes only into the buffer that is not current.
LEMMA SteadyReading ==
    ASSUME PlayInv, seeks = 0, Reading
    PROVE  Steady'
<1> USE DEF ivars, history, call, getter, chans, client
<1>0. Steady /\ PipeTypes /\ pc \in Positions
  BY SteadyState
<1>1. /\ UNCHANGED <<known, cache, cur, curTime, err, run, pc, then, nested, want, failed>>
      /\ UNCHANGED <<eof, indexErr, seekFlag, blockReading, curSeq, curBuf, blockBuf>>
      /\ UNCHANGED <<seekSignal, seeks, from, sent, lost>>
  BY DEF Reading, ReadTake, ReadBlock, ReadReply
<1>2. Undisturbed'
  BY <1>0, <1>1 DEF Steady, Undisturbed
<1>3. OnlyTaken' /\ BlocksInOrder'
  BY <1>0, <1>1, SteadyKept DEF Steady
<1>4. EndReached'
  <2>1. HasIndex' = HasIndex /\ Behind' = Behind
    BY <1>1 DEF HasIndex, Behind
  <2> QED BY <1>0, <1>1, <2>1 DEF Steady, EndReached
<1>5. AtHand' <=> AtHand
  BY <1>1 DEF AtHand
<1>6. ASSUME OneUnderWay', DataExact', UnderWay' <=> UnderWay, UnderWay => Fly' = Fly
      PROVE  Steady'
  <2>1. AllTracked'
    <3>1. CASE pc \in {"stop", "stopped"}
      BY <1>1, <3>1 DEF AllTracked
    <3>2. CASE pc \notin {"stop", "stopped"}
      BY <1>0, <1>1, <1>5, <1>6, <3>2, TrackedStill DEF Steady
    <3> QED BY <3>1, <3>2
  <2> QED BY <1>2, <1>3, <1>4, <1>6, <2>1 DEF Steady
<1>7. CASE ReadTake
  <2>1. /\ requests # <<>> /\ requests' = <<>> /\ responses' = responses /\ data' = data
        /\ reader' = [pc |-> "read", seq |-> Head(requests), buf |-> blockBuf]
    BY <1>7 DEF ReadTake
  <2>2. /\ reader.pc = "idle" /\ responses = <<>> /\ pc \notin {"next", "await", "send"} /\ blockReading
    BY <1>0, <2>1 DEF Steady, OneUnderWay
  <2>3. Head(requests) = requests[1]
    BY <1>0, <2>1 DEF PipeTypes
  <2>4. reader'.pc = "read" /\ reader'.seq = requests[1] /\ reader'.buf = blockBuf
    BY <2>1, <2>3
  <2>5. OneUnderWay'
    BY <1>1, <2>1, <2>2, <2>4 DEF OneUnderWay
  <2>6. DataExact'
    BY <1>0, <1>1, <2>1, <2>2, <2>4 DEF Steady, DataExact
  <2>7. UnderWay /\ UnderWay' /\ Fly' = Fly
    BY <1>1, <2>1, <2>2, <2>4 DEF UnderWay, Fly
  <2> QED BY <1>6, <2>5, <2>6, <2>7
<1>8. CASE ReadBlock
  <2>1. /\ reader.pc = "read" /\ requests' = requests /\ responses' = responses
        /\ \/ data' = [data EXCEPT ![reader.buf] = reader.seq] /\ reader' = [reader EXCEPT !.pc = "reply"]
           \/ reader' = [reader EXCEPT !.pc = "reply", !.buf = 0] /\ data' = data
    BY <1>8 DEF ReadBlock
  <2>2. /\ requests = <<>> /\ responses = <<>> /\ pc \notin {"next", "await", "send"} /\ blockReading
    BY <1>0, <2>1 DEF Steady, OneUnderWay
  <2>3. /\ reader'.pc = "reply" /\ reader'.seq = reader.seq /\ reader'.buf \in {reader.buf, 0}
    BY <1>0, <2>1 DEF PipeTypes
  <2>4. OneUnderWay'
    BY <1>1, <2>1, <2>2, <2>3 DEF OneUnderWay
  <2>5. UnderWay /\ UnderWay' /\ Fly' = Fly
    BY <1>1, <2>1, <2>2, <2>3 DEF UnderWay, Fly
  <2>6. reader.buf = blockBuf /\ curBuf # blockBuf /\ data[curBuf] = curSeq
        /\ curBuf \in Bufs /\ blockBuf \in Bufs /\ data \in [Bufs -> Nat]
    BY <1>0, <2>1 DEF Steady, DataExact, PipeTypes
  <2>7. DataExact'
    <3>1. CASE data' = [data EXCEPT ![reader.buf] = reader.seq] /\ reader' = [reader EXCEPT !.pc = "reply"]
      <4>1. data'[curBuf] = curSeq /\ data'[blockBuf] = reader.seq
        BY <2>6, <3>1
      <4>2. reader'.buf = blockBuf
        BY <1>0, <2>6, <3>1 DEF PipeTypes
      <4> QED BY <1>1, <2>1, <2>2, <2>3, <2>6, <4>1, <4>2 DEF DataExact
    <3>2. CASE reader' = [reader EXCEPT !.pc = "reply", !.buf = 0] /\ data' = data
      <4>1. reader'.buf = 0
        BY <1>0, <3>2 DEF PipeTypes
      <4> QED BY <1>1, <2>1, <2>2, <2>3, <2>6, <3>2, <4>1 DEF DataExact
    <3> QED BY <2>1, <3>1, <3>2
  <2> QED BY <1>6, <2>4, <2>5, <2>7
<1>9. CASE ReadReply
  <2> DEFINE a == [seq |-> reader.seq, buf |-> reader.buf, ok |-> reader.buf # 0]
  <2>1. /\ reader.pc = "reply" /\ requests' = requests /\ data' = data
        /\ responses' = <<a>> /\ reader' = NoReader
    BY <1>9 DEF ReadReply
  <2>2. /\ requests = <<>> /\ responses = <<>> /\ pc \notin {"next", "await", "send"} /\ blockReading
    BY <1>0, <2>1 DEF Steady, OneUnderWay
  <2>3. a.seq = reader.seq /\ a.buf = reader.buf
    OBVIOUS
  <2> HIDE DEF a
  <2>4. responses' # <<>> /\ responses'[1] = a /\ reader'.pc = "idle"
    BY <2>1 DEF NoReader
  <2>5. OneUnderWay'
    BY <1>1, <2>1, <2>2, <2>4 DEF OneUnderWay
  <2>6. UnderWay /\ UnderWay' /\ Fly' = Fly
    BY <1>1, <2>1, <2>2, <2>3, <2>4 DEF UnderWay, Fly
  <2>7. DataExact'
    BY <1>0, <1>1, <2>1, <2>3, <2>4 DEF Steady, DataExact
  <2> QED BY <1>6, <2>5, <2>6, <2>7
<1> QED BY <1>7, <1>8, <1>9 DEF Reading

\* The goroutine that finds indexes: an end it reports is behind all indexes
\* that were there from the start.
LEMMA SteadyFinding ==
    ASSUME PlayInv, seeks = 0, Finding \/ Recording
    PROVE  Steady'
<1> USE DEF ivars, history, call, getter, chans, client
<1>0. Steady /\ GetterInv
  BY SteadyState
<1>1. /\ UNCHANGED <<pc, then, nested, want, failed, curSeq, curBuf, blockBuf, data, eof, indexErr>>
      /\ UNCHANGED <<seekFlag, blockReading, requests, responses, reader, seekSignal>>
      /\ UNCHANGED <<seeks, from, sent, lost, curTime, cur>>
  BY DEF Finding, Recording, Record, Running, RunTake, RunFind, RunFail, RunFailed, RunApply
<1>2. Undisturbed' /\ OneUnderWay' /\ DataExact' /\ OnlyTaken' /\ BlocksInOrder'
  <2>1. Undisturbed'
    BY <1>0, <1>1 DEF Steady, Undisturbed
  <2> QED BY <1>0, <1>1, <2>1, SteadyKept DEF Steady
<1>3. AllTracked'
  <2>1. (AtHand' <=> AtHand) /\ (UnderWay' <=> UnderWay) /\ Fly' = Fly
    BY <1>1 DEF AtHand, UnderWay, Fly
  <2>2. CASE pc \in {"stop", "stopped"}
    BY <1>1, <2>2 DEF AllTracked
  <2>3. CASE pc \notin {"stop", "stopped"}
    BY <1>0, <1>1, <2>1, <2>3, TrackedStill DEF Steady
  <2> QED BY <2>2, <2>3
<1>4. EndReached'
  <2>1. CASE cache' = cache /\ err' = err
    <3>1. HasIndex' = HasIndex /\ Behind' = Behind
      BY <1>1, <2>1 DEF HasIndex, Behind
    <3> QED BY <1>0, <1>1, <2>1, <3>1 DEF Steady, EndReached
  <2>2. CASE RunFail
    <3>1. run.pc = "find" /\ cache' = cache /\ err' \in {err, "fail"}
      BY <2>2 DEF RunFail
    <3>2. err = "none"
      BY <1>0, <3>1 DEF GetterInv, InFlight
    <3>3. indexErr # "eof" /\ pc # "eof"
      BY <1>0, <3>2 DEF Steady, EndReached
    <3> QED BY <1>0, <1>1, <3>1, <3>2, <3>3 DEF Steady, EndReached
  <2>3. CASE RunApply /\ InPlace
    <3> DEFINE rows == run.rows
    <3>1. /\ run.pc = "apply" /\ cache' = cache \o rows
          /\ err' = IF run.limit > Len(rows) THEN "eof" ELSE err
      BY <2>3 DEF RunApply
    <3>2. err = "none"
      BY <1>0, <3>1 DEF GetterInv, InFlight
    <3>3. indexErr # "eof" /\ pc # "eof"
      BY <1>0, <3>2 DEF Steady, EndReached
    <3>4. ASSUME run.limit > Len(rows), NEW n \in DOMAIN Stored, n <= Known0, Stored[n].start < EndTime
          PROVE  Stored[n].end <= Behind'
      <4>1. /\ rows \in Seq(Block) /\ Len(rows) \in Nat /\ cache \in Seq(Block) /\ Len(cache) \in Nat
            /\ run.start \in Nat /\ Stored[n].end \in Nat
        BY <1>0, GetterState, StoredFacts
      <4>2. /\ Chain(rows) /\ (rows # <<>> => FirstBehind(rows[1].seq, run.start))
            /\ \A m \in Period(run.start) : m <= Known0 => \E j \in DOMAIN rows : rows[j].seq = m
        BY <1>0, <3>1, <3>4 DEF GetterInv, FoundExact
      <4>3. Behind = run.start
        BY <2>3 DEF InPlace
      <4> HIDE DEF rows
      <4>4. CASE rows = <<>>
        <5>1. cache' = cache
          BY <3>1, <4>1, <4>4
        <5>2. Behind' = Behind
          BY <1>1, <5>1 DEF Behind
        <5>3. n \notin Period(run.start)
          BY <3>4, <4>2, <4>4
        <5>4. ~(Stored[n].end > run.start)
          BY <3>4, <5>3 DEF Period
        <5> QED BY <4>1, <4>3, <5>2, <5>4
      <4>5. CASE rows # <<>>
        <5>1. Len(rows) \in 1..Len(rows) /\ 1 \in 1..Len(rows) /\ DOMAIN rows = 1..Len(rows)
          BY <4>1, <4>5
        <5> DEFINE k == rows[Len(rows)].seq
        <5>2. cache' # <<>> /\ Last(cache') = rows[Len(rows)]
          <6>1. /\ Len(cache') = Len(cache) + Len(rows)
                /\ cache'[Len(cache) + Len(rows)] = rows[Len(rows)]
            BY <3>1, <4>1, <5>1
          <6> QED BY <4>1, <5>1, <6>1 DEF Last
        <5>3. k \in DOMAIN Stored /\ rows[Len(rows)] = Stored[k]
          BY <4>2, <5>1 DEF Chain
        <5>4. Behind' = Stored[k].end
          BY <5>2, <5>3 DEF Behind
        <5>5. \A j \in 1..Len(rows) : rows[j].seq <= k /\ rows[j].seq \in Nat
          <6> SUFFICES ASSUME NEW j \in 1..Len(rows) PROVE rows[j].seq <= k /\ rows[j].seq \in Nat
            OBVIOUS
          <6>1. rows[j].seq \in Nat /\ k = rows[j].seq + (Len(rows) - j)
            BY <4>1, <4>2, <5>1, ChainSteps
          <6> DEFINE b == rows[j].seq
          <6> HIDE DEF b, k
          <6>2. b \in Nat /\ k = b + (Len(rows) - j)
            BY <6>1 DEF b
          <6>3. b <= k
            BY <4>1, <6>2
          <6> QED BY <6>2, <6>3 DEF b
        <5> HIDE DEF k
        <5>6. CASE Stored[n].end > run.start
          <6>1. n \in Period(run.start)
            BY <3>4, <5>6 DEF Period
          <6>2. PICK j \in 1..Len(rows) : rows[j].seq = n
            BY <3>4, <4>2, <5>1, <6>1
          <6>3. n <= k /\ n \in Nat /\ k \in Nat
            BY <5>3, <5>5, <6>2, StoredFacts
          <6>4. n = k \/ n < k
            BY <6>3
          <6> QED BY <5>3, <5>4, <6>4, StoredFacts
        <5>7. CASE Stored[n].end <= run.start
          <6>1. rows[1].seq \in DOMAIN Stored /\ Stored[rows[1].seq].end > run.start
            BY <4>2, <4>5 DEF FirstBehind, Period
          <6>2. rows[1].seq <= k
            BY <5>1, <5>5
          <6> DEFINE f == rows[1].seq
          <6>3. f \in DOMAIN Stored /\ Stored[f].end > run.start /\ f <= k
            BY <6>1, <6>2
          <6> HIDE DEF f
          <6>4. Stored[f].end <= Stored[k].end
            <7>1. f \in Nat /\ k \in Nat /\ (f = k \/ f < k)
              BY <5>3, <6>3, StoredFacts
            <7> QED BY <5>3, <6>3, <7>1, StoredFacts
          <6>5. Stored[f].end \in Nat /\ Stored[k].end \in Nat
            BY <5>3, <6>3, StoredFacts
          <6> QED BY <4>1, <5>4, <5>7, <6>3, <6>4, <6>5
        <5> QED BY <4>1, <5>6, <5>7
      <4> QED BY <4>4, <4>5
    <3>5. err' = "eof" => run.limit > Len(rows)
      BY <3>1, <3>2
    <3> QED BY <1>0, <1>1, <3>3, <3>4, <3>5 DEF Steady, EndReached
  <2>4. \/ cache' = cache /\ err' = err
        \/ RunFail
        \/ RunApply /\ InPlace
    BY DEF Finding, Recording, Record, Running, RunTake, RunFind, RunFail, RunFailed, RunApply
  <2> QED BY <2>1, <2>2, <2>3, <2>4
<1> QED BY <1>2, <1>3, <1>4 DEF Steady

\* The play sends the current block, after all those before it.
LEMMA SteadySend ==
    ASSUME PlayInv, seeks = 0, PlaySend
    PROVE  Steady'
<1> USE DEF ivars, history, call, getter, chans, client
<1>0. Steady /\ PipeTypes /\ pc = "play" /\ ~eof
  BY SteadyState DEF PlaySend
<1>1. /\ UNCHANGED <<then, nested, want, failed, curSeq, curBuf, blockBuf, data, eof, indexErr>>
      /\ UNCHANGED <<seekFlag, blockReading, requests, responses, reader, seekSignal>>
      /\ UNCHANGED <<known, cache, err, run, seeks, from, lost, curTime, cur>>
      /\ sent' = Append(sent, data[curBuf]) /\ pc' = "get"
  BY DEF PlaySend
<1>2. data[curBuf] = curSeq /\ AtHand /\ sent \in Seq(Nat) /\ curSeq \in Nat /\ from = StartTime
  BY <1>0 DEF Steady, DataExact, AtHand, PipeTypes, Undisturbed
<1>3. /\ Len(sent') = Len(sent) + 1 /\ Len(sent) \in Nat /\ sent'[Len(sent) + 1] = curSeq
      /\ DOMAIN sent = 1..Len(sent) /\ DOMAIN sent' = 1..(Len(sent) + 1)
      /\ \A i \in 1..Len(sent) : sent'[i] = sent[i] /\ sent[i] \in Nat
  BY <1>1, <1>2
<1>4. \A n : n \in ToSet(sent)' <=> (n \in ToSet(sent) \/ n = curSeq)
  BY <1>3 DEF ToSet
<1>5. /\ \A n \in Taken : n \in ToSet(sent) \union lost \/ n = curSeq \/ (UnderWay /\ n = Fly)
      /\ curSeq \in Taken /\ \A n \in ToSet(sent) \union lost : n < curSeq
      /\ UnderWay => /\ Fly \in Taken /\ curSeq < Fly
                     /\ \A n \in ToSet(sent) \union lost : n < Fly
  BY <1>0, <1>2 DEF Steady, AllTracked
<1>6. Taken' = Taken
  BY <1>1 DEF Taken
<1>7. Undisturbed' /\ OneUnderWay' /\ DataExact'
  <2>1. Undisturbed'
    BY <1>0, <1>1 DEF Steady, Undisturbed
  <2> QED BY <1>0, <1>1, <2>1, SteadyKept DEF Steady
<1>8. OnlyTaken'
  BY <1>0, <1>1, <1>4, <1>5, <1>6 DEF Steady, OnlyTaken
<1>9. AllTracked'
  <2>1. ~AtHand' /\ (UnderWay' <=> UnderWay) /\ Fly' = Fly
    BY <1>0, <1>1 DEF AtHand, UnderWay, Fly
  <2> QED BY <1>1, <1>4, <1>5, <1>6, <2>1 DEF AllTracked
<1>10. BlocksInOrder'
  <2>1. /\ \A i, j \in 1..Len(sent) : i < j => sent[i] < sent[j]
        /\ \A i \in 1..Len(sent) :
              /\ sent[i] \in Period(StartTime) \ lost
              /\ \A n \in Period(StartTime) : n < sent[i] => n \in ToSet(sent) \union lost
    BY <1>0, <1>2, <1>3 DEF Steady, BlocksInOrder
  <2>2. \A i \in 1..Len(sent) : sent[i] \in ToSet(sent) /\ sent[i] < curSeq
    BY <1>3, <1>5 DEF ToSet
  <2>3. curSeq \in Period(StartTime) /\ Stored[curSeq].end <= curTime
    BY <1>5 DEF Taken
  <2>4. curSeq \notin lost
    BY <1>2, <1>5
  <2>5. ASSUME NEW n \in Period(StartTime), n < curSeq PROVE n \in ToSet(sent) \union lost
    <3>1. n \in DOMAIN Stored /\ curSeq \in DOMAIN Stored /\ n \in Nat
      BY <2>3, StoredFacts DEF Period
    <3>2. Stored[n].end <= curTime
      <4>1. curTime \in Nat
        BY GetterState DEF PlayInv
      <4>2. Stored[n].end < Stored[curSeq].end
        BY <2>5, <3>1, StoredFacts
      <4> QED BY <2>3, <3>1, <4>1, <4>2, StoredFacts
    <3>3. n \in Taken
      BY <3>2 DEF Taken
    <3>4. n # curSeq
      BY <1>2, <2>5, <3>1
    <3>5. ~(UnderWay /\ n = Fly)
      BY <1>2, <1>5, <2>5, <3>1
    <3> QED BY <1>5, <3>3, <3>4, <3>5
  <2>6. ASSUME NEW i \in 1..(Len(sent) + 1), NEW j \in 1..(Len(sent) + 1), i < j
        PROVE  sent'[i] < sent'[j]
    <3>1. i \in 1..Len(sent)
      BY <1>3, <2>6
    <3>2. CASE j = Len(sent) + 1
      BY <1>3, <2>2, <3>1, <3>2
    <3>3. CASE j # Len(sent) + 1
      <4>1. j \in 1..Len(sent)
        BY <1>3, <3>3
      <4> QED BY <1>3, <2>1, <2>6, <3>1, <4>1
    <3> QED BY <3>2, <3>3
  <2>7. ASSUME NEW i \in 1..(Len(sent) + 1)
        PROVE  /\ sent'[i] \in Period(StartTime) \ lost
               /\ \A n \in Period(StartTime) : n < sent'[i] => n \in ToSet(sent)' \union lost
    <3>1. CASE i = Len(sent) + 1
      BY <1>3, <1>4, <2>3, <2>4, <2>5, <3>1
    <3>2. CASE i # Len(sent) + 1
      <4>1. i \in 1..Len(sent)
        BY <1>3, <3>2
      <4> QED BY <1>3, <1>4, <2>1, <4>1
    <3> QED BY <3>1, <3>2
  <2>8. from' = StartTime /\ lost' = lost
    BY <1>1, <1>2
  <2> QED BY <1>3, <2>6, <2>7, <2>8 DEF BlocksInOrder, Period
<1>11. EndReached'
  <2>1. HasIndex' = HasIndex /\ Behind' = Behind
    BY <1>1 DEF HasIndex, Behind
  <2> QED BY <1>0, <1>1, <2>1 DEF Steady, EndReached
<1> QED BY <1>7, <1>8, <1>9, <1>10, <1>11 DEF Steady

\* Steps in which the pusher waits, is signalled, or stops.
LEMMA SteadyWaits ==
    ASSUME PlayInv, seeks = 0, pc # "stopped",
           \/ NextBlocks \/ NextAwaits \/ PlayFails \/ PlayPush \/ PlayPause \/ PlayInterrupted
           \/ Stop \/ StartPush \/ Pause \/ Close \/ UNCHANGED hvars
    PROVE  Steady'
<1> USE DEF ivars, history, call, getter, chans, client
<1>0. Steady /\ pc \in Positions
  BY SteadyState
<1>1. /\ UNCHANGED <<then, nested, want, failed, curSeq, curBuf, blockBuf, data, eof, indexErr>>
      /\ UNCHANGED <<seekFlag, blockReading, requests, responses, reader, seekSignal>>
      /\ UNCHANGED <<known, cache, err, run, seeks, from, sent, lost, curTime, cur>>
      /\ \/ pc' = pc
         \/ pc \in {"next", "await"} /\ pc' \in {"next", "await"}
         \/ pc \in {"play", "paused"} /\ pc' \in {"play", "paused"}
         \/ pc' \in {"stop", "stopped"}
  <2>1. CASE NextBlocks \/ NextAwaits
    BY <2>1 DEF NextBlocks, NextAwaits, AwaitAccess
  <2>2. CASE PlayFails \/ PlayPush \/ PlayPause \/ PlayInterrupted \/ Stop
    BY <2>2 DEF PlayFails, PlayPush, PlayPause, PlayInterrupted, Stop
  <2>3. CASE StartPush \/ Pause \/ Close
    BY <2>3 DEF StartPush, Pause, Close
  <2>4. CASE UNCHANGED hvars
    BY <2>4 DEF hvars
  <2> QED BY <2>1, <2>2, <2>3, <2>4
<1>2. Undisturbed'
  BY <1>0, <1>1 DEF Steady, Undisturbed
<1>3. OneUnderWay' /\ DataExact' /\ OnlyTaken' /\ BlocksInOrder'
  BY <1>0, <1>1, SteadyKept DEF Steady
<1>4. AllTracked'
  <2>1. CASE pc' \in {"stop", "stopped"}
    BY <2>1 DEF AllTracked
  <2>2. CASE pc' \notin {"stop", "stopped"}
    <3>1. (AtHand' <=> AtHand) /\ (UnderWay' <=> UnderWay) /\ Fly' = Fly /\ pc \notin {"stop", "stopped"}
      BY <1>1, <2>2 DEF AtHand, UnderWay, Fly
    <3> QED BY <1>0, <1>1, <3>1, TrackedStill DEF Steady
  <2> QED BY <2>1, <2>2
<1>5. EndReached'
  <2>1. HasIndex' = HasIndex /\ Behind' = Behind
    BY <1>1 DEF HasIndex, Behind
  <2> QED BY <1>0, <1>1, <2>1 DEF Steady, EndReached
<1> QED BY <1>2, <1>3, <1>4, <1>5 DEF Steady

\* A step counts at most one seek.
LEMMA SeeksGrow ==
    ASSUME HNext
    PROVE  seeks' = seeks \/ \E t \in Seeks : SeekTo(t) /\ seeks' = seeks + 1
<1> USE DEF history
<1>1. CASE Getting
  <2>1. CASE Get \/ NextError \/ NextSends
    BY <2>1, Zenon DEF Get, NextError, NextSends
  <2>2. CASE NextGot \/ NextBlocks \/ NextAwaits
    BY <2>2, Zenon DEF NextGot, NextBlocks, NextAwaits
  <2>3. CASE Receive \/ ReceiveOld \/ Resend
    BY <2>3, Zenon DEF Receive, ReceiveOld, Resend
  <2> QED BY <1>1, <2>1, <2>2, <2>3, Zenon DEF Getting
<1>2. CASE Reading
  BY <1>2, Zenon DEF Reading, ReadTake, ReadBlock, ReadReply
<1>3. CASE Finding \/ Recording
  BY <1>3, Zenon DEF Finding, Recording
<1>4. CASE Playing
  <2>1. CASE PlaySend \/ PlayFails \/ PlayPush \/ PlayPause
    BY <2>1, Zenon DEF PlaySend, PlayFails, PlayPush, PlayPause
  <2>2. CASE PlaySeek \/ PlayInterrupted \/ Stop
    BY <2>2, Zenon DEF PlaySeek, PlayInterrupted, Stop
  <2> QED BY <1>4, <2>1, <2>2, Zenon DEF Playing
<1>5. CASE StartPush \/ Pause \/ Close
  BY <1>5, Zenon DEF StartPush, Pause, Close
<1>6. CASE \E t \in Seeks : SeekTo(t)
  BY <1>6, Zenon DEF SeekTo
<1> QED BY <1>1, <1>2, <1>3, <1>4, <1>5, <1>6, Zenon DEF HNext, Client

\* Every step keeps the invariant of the play.
LEMMA PlayNext == ASSUME PlayInv, [HNext]_hvars PROVE PlayInv'
<1>0. ToldInv /\ GetterInv /\ PipeInv /\ PipeTypes
  BY DEF PlayInv, PipeInv
<1>1. ToldInv'
  BY <1>0, ToldNext
<1>2. GetterInv'
  <2>1. seeks \in Nat /\ seekSignal \in Nat
    BY <1>0 DEF PipeTypes
  <2>2. seeks = 0 => seekSignal = 0
    BY <1>0 DEF PipeInv, Steady, Undisturbed
  <2> QED BY <1>0, <2>1, <2>2, GetterNext
<1>3. PipeTypes'
  <2>1. CASE HNext
    BY <2>1, TypesGetting, TypesAround DEF HNext
  <2>2. CASE UNCHANGED hvars
    BY <1>0, <2>2 DEF hvars, ivars, call, getter, chans, client, history, PipeTypes
  <2> QED BY <2>1, <2>2
<1>4. ASSUME seeks' = 0 PROVE Steady'
  <2>1. seeks = 0
    <3>1. seeks \in Nat
      BY <1>0 DEF PipeTypes
    <3>2. seeks' = seeks \/ seeks' = seeks + 1
      <4>1. CASE HNext
        BY <4>1, SeeksGrow
      <4>2. CASE UNCHANGED hvars
        BY <4>2 DEF hvars, history
      <4> QED BY <4>1, <4>2
    <3> QED BY <1>4, <3>1, <3>2
  <2>2. CASE HNext
    <3>1. pc # "stopped"
      BY <2>2 DEF HNext, Alive
    <3>2. ~PlaySeek /\ ~ReceiveOld /\ ~Resend
      BY <1>0, <2>1 DEF PipeInv, Steady, Undisturbed, PlaySeek, ReceiveOld, Resend
    <3>3. ~\E t \in Seeks : SeekTo(t)
      BY <1>4, <2>1 DEF SeekTo
    <3>4. CASE Getting
      BY <2>1, <3>1, <3>2, <3>4, SteadyGet, SteadyNextGot, SteadyNextError, SteadyNextSends,
         SteadyReceive, SteadyWaits DEF Getting
    <3>5. CASE Reading \/ Finding \/ Recording
      BY <2>1, <3>5, SteadyReading, SteadyFinding
    <3>6. CASE Playing
      BY <2>1, <3>1, <3>2, <3>6, SteadySend, SteadyWaits DEF Playing
    <3>7. CASE Client
      BY <2>1, <3>1, <3>3, <3>7, SteadyWaits DEF Client
    <3> QED BY <2>2, <3>4, <3>5, <3>6, <3>7 DEF HNext
  <2>3. CASE UNCHANGED hvars
    <3>1. Steady
      BY <1>0, <2>1 DEF PipeInv
    <3>2. /\ UNCHANGED <<known, cache, cur, curTime, err, pc, then, failed, want, curSeq, curBuf>>
          /\ UNCHANGED <<blockBuf, data, eof, indexErr, seekFlag, blockReading, requests, responses>>
          /\ UNCHANGED <<reader, seekSignal, from, sent, lost>>
      BY <2>3 DEF hvars, ivars, call, getter, chans, client, history
    <3>3. HasIndex' = HasIndex /\ Behind' = Behind /\ Taken' = Taken /\ Fly' = Fly
          /\ AtHand' = AtHand /\ UnderWay' = UnderWay
      BY <3>2 DEF HasIndex, Behind, Taken, Fly, AtHand, UnderWay
    <3>4. Undisturbed' /\ OneUnderWay' /\ DataExact'
      BY <3>1, <3>2 DEF Steady, Undisturbed, OneUnderWay, DataExact
    <3>5. OnlyTaken' /\ AllTracked'
      BY <3>1, <3>2, <3>3 DEF Steady, OnlyTaken, AllTracked
    <3>6. BlocksInOrder' /\ EndReached'
      BY <3>1, <3>2, <3>3 DEF Steady, BlocksInOrder, EndReached
    <3> QED BY <3>4, <3>5, <3>6 DEF Steady
  <2> QED BY <2>2, <2>3
<1> QED BY <1>1, <1>2, <1>3, <1>4 DEF PlayInv, PipeInv

\* The invariant of the play holds at its start.
LEMMA PlayStarts == ASSUME HInit PROVE PlayInv
<1>1. ToldInv
  <2>1. CallTypes
    BY DEF HInit, GetterInit, CallTypes, Positions
  <2>2. FlagSet /\ CallsCounted
    BY DEF HInit, FlagSet, CallsCounted
  <2> QED BY <2>1, <2>2 DEF ToldInv
<1>2. GetterInv
  BY GetterStarts
<1>3. /\ requests = <<>> /\ responses = <<>> /\ reader = NoReader /\ reader.pc = "idle"
      /\ sent = <<>> /\ lost = {} /\ from = StartTime /\ seekSignal = 0
      /\ curSeq = 0 /\ want = 0 /\ curBuf = 1 /\ blockBuf = 2 /\ data = [b \in Bufs |-> 0]
      /\ pc = "get" /\ then = "first" /\ indexErr = "none" /\ seeks = 0 /\ pauses = 0
      /\ curTime = StartTime /\ err = "none" /\ cache = <<>>
  BY DEF HInit, GetterInit, NoReader
<1>4. failed = FALSE /\ eof = FALSE /\ seekFlag = FALSE /\ blockReading = FALSE
  BY DEF HInit
<1>5. PipeTypes
  <2>1. requests \in Seq(Nat) /\ Len(requests) <= 1 /\ responses \in Seq(Answer) /\ Len(responses) <= 1
        /\ sent \in Seq(Nat) /\ DOMAIN responses = {}
    BY <1>3
  <2>2. reader \in [pc : {"idle", "read", "reply"}, seq : Nat, buf : {0, 1, 2}]
    BY <1>3 DEF NoReader
  <2>3. /\ curSeq \in Nat /\ want \in Nat /\ data \in [Bufs -> Nat]
        /\ curBuf \in Bufs /\ blockBuf \in Bufs
    BY <1>3 DEF Bufs
  <2>4. /\ failed \in BOOLEAN /\ blockReading \in BOOLEAN /\ eof \in BOOLEAN
        /\ seekFlag \in BOOLEAN
    BY <1>4
  <2>5. /\ indexErr \in {"none", "eof", "fail"} /\ lost \in SUBSET Nat /\ seeks \in Nat
        /\ pauses \in Nat /\ seekSignal \in Nat /\ from \in Nat
    BY <1>3, GetterAssumption
  <2> QED BY <2>1, <2>2, <2>3, <2>4, <2>5 DEF PipeTypes
<1>6. Taken = {}
  <2> SUFFICES ASSUME NEW n \in Taken PROVE FALSE
    OBVIOUS
  <2>1. n \in DOMAIN Stored /\ Stored[n].end > StartTime /\ Stored[n].end <= StartTime
    BY <1>3 DEF Taken, Period
  <2> QED BY <2>1, StoredFacts, GetterAssumption
<1>7. ToSet(sent) \union lost = {}
  BY <1>3 DEF ToSet
<1>8. ~AtHand /\ ~UnderWay
  BY <1>3 DEF AtHand, UnderWay
<1>9. Undisturbed /\ OneUnderWay /\ DataExact
  <2>1. Undisturbed
    BY <1>3, <1>4, GetterAssumption DEF Undisturbed
  <2>2. OneUnderWay
    BY <1>3 DEF OneUnderWay
  <2>3. DataExact
    BY <1>3 DEF DataExact, Bufs
  <2> QED BY <2>1, <2>2, <2>3
<1>10. OnlyTaken /\ AllTracked
  BY <1>3, <1>6, <1>7, <1>8 DEF OnlyTaken, AllTracked
<1>11. BlocksInOrder /\ EndReached
  <2>1. DOMAIN sent = {}
    BY <1>3
  <2> QED BY <1>3, <1>4, <2>1 DEF BlocksInOrder, EndReached
<1> QED BY <1>1, <1>2, <1>5, <1>9, <1>10, <1>11 DEF PlayInv, PipeInv, Steady

\* The inductive invariant holds in every state of a play.
THEOREM PlayInvariant == HSpec => []PlayInv
<1>1. HInit => PlayInv
  BY PlayStarts
<1>2. PlayInv /\ [HNext]_hvars => PlayInv'
  BY PlayNext
<1> QED BY <1>1, <1>2, PTL DEF HSpec

\* CachedIndexGetter.Get skips and repeats nothing, however the client seeks
\* while the goroutine looks for indexes; and a play that is not sought in
\* reports io.EOF only behind all blocks that were there from the start.
THEOREM CursorIsExact == HSpec => []CursorExact
<1>1. ASSUME PlayInv PROVE CursorExact
  <2>0. GetterInv /\ PipeInv
    BY <1>1 DEF PlayInv
  <2>1. ASSUME HasIndex
        PROVE  /\ NextIndex.seq \in Period(curTime) /\ NextIndex = Stored[NextIndex.seq]
               /\ \A n \in Period(curTime) : NextIndex.seq <= n
    <3>1. FirstBehind(NextIndex.seq, curTime) /\ Chain(cache)
      BY <2>0, <2>1 DEF GetterInv, CacheExact
    <3>2. cur + 1 \in DOMAIN cache
      BY <2>0, <2>1, GetterState DEF HasIndex, GetterTypes, GetterInv
    <3>3. NextIndex = Stored[NextIndex.seq]
      BY <3>1, <3>2 DEF Chain, NextIndex
    <3>4. ASSUME NEW n \in Period(curTime) PROVE NextIndex.seq <= n
      <4> DEFINE f == NextIndex.seq
      <4>1. f \in DOMAIN Stored /\ (n < f => Stored[n].end <= curTime) /\ n \in DOMAIN Stored
            /\ Stored[n].end > curTime
        BY <3>1 DEF FirstBehind, Period
      <4> HIDE DEF f
      <4>2. f \in Nat /\ n \in Nat /\ Stored[n].end \in Nat /\ curTime \in Nat
        BY <2>0, <4>1, StoredFacts, GetterState
      <4>3. f <= n
        BY <4>1, <4>2
      <4> QED BY <4>3 DEF f
    <3> QED BY <3>1, <3>3, <3>4 DEF FirstBehind
  <2>2. ASSUME seeks = 0, pc = "eof", NEW n \in Period(from), n <= Known0
        PROVE  n \in ToSet(sent) \union lost
    <3>1. Steady
      BY <2>0, <2>2 DEF PipeInv
    <3>2. from = StartTime /\ ~blockReading /\ err = "eof" /\ ~HasIndex
      BY <2>2, <3>1 DEF Steady, Undisturbed, EndReached
    <3>3. n \in DOMAIN Stored /\ Stored[n].start < EndTime
      BY <2>2 DEF Period
    <3>4. Stored[n].end <= Behind
      BY <2>2, <3>1, <3>2, <3>3 DEF Steady, EndReached
    <3>5. Behind = curTime
      BY <2>0, <2>2, <3>2 DEF Behind, GetterInv, CacheExact
    <3>6. n \in Taken
      BY <2>2, <3>2, <3>4, <3>5 DEF Taken
    <3>7. ~AtHand /\ ~UnderWay
      BY <2>2, <3>1, <3>2 DEF AtHand, UnderWay, Steady, OneUnderWay
    <3> QED BY <2>2, <3>1, <3>6, <3>7 DEF Steady, AllTracked
  <2> QED BY <2>1, <2>2 DEF CursorExact
<1> QED BY <1>1, PlayInvariant, PTL

\* Until the client seeks, blockGetter and the play send every block of the
\* period that can be read exactly once, in order and with its own data,
\* although the next block is read ahead into the other buffer meanwhile.
THEOREM UndisturbedInOrder == HSpec => []InOrderUntilSeek
<1>1. PlayInv => InOrderUntilSeek
  BY DEF PlayInv, PipeInv, Steady, InOrderUntilSeek
<1> QED BY <1>1, PlayInvariant, PTL

=============================================================================
