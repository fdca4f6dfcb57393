----------------------------- MODULE FramePath -----------------------------
(***************************************************************************)
(* The way of a received frame through a media channel (media/channel):    *)
(* FrameHandler queues it, psFrameHandler parses it, gathers it in a GOP   *)
(* for the storage and gives it to the channel's pushers, each of which    *)
(* queues it and sends it to its streams on a goroutine of its own.        *)
(* Clients open, start, pause and close pushers and add and remove streams *)
(* meanwhile, and the player may shut the handler down.                    *)
(*                                                                         *)
(* Frames are pooled and counted by reference.  There are three objects to *)
(* a frame: the RTP frame received, the PS frame parsed from it, and the   *)
(* H.264 RTP frame packed from that, which keeps a reference to the other  *)
(* two.  A frame without a reference goes back to its pool.                *)
(***************************************************************************)
EXTENDS Naturals, Integers, Sequences, FiniteSets, SequencesExt

CONSTANTS
    Pushers,        \* the pushers that clients open
    InputCap,       \* capacity of FrameHandler.frameChannel
    MaxCached,      \* capacity of RtpPusher.frameChannel
    WriteBufferSize,\* the storage channel's, in frames
    Times,          \* the times <<start, end>> of the received frames
    ParseMayStop,   \* may the keepChooser give up?
    MaxFrames,      \* bound: received frames
    MaxStreams      \* bound: streams added to one pusher

ASSUME FrameAssumption ==
    /\ {InputCap, MaxCached, WriteBufferSize} \subseteq Nat \ {0}
    /\ MaxFrames \in Nat /\ MaxStreams \in Nat /\ ParseMayStop \in BOOLEAN
    /\ IsFiniteSet(Pushers)
    /\ \A i \in 1..MaxFrames : Times[i] \in (Nat \ {0}) \X (Nat \ {0}) /\ Times[i][1] <= Times[i][2]

VARIABLES
    received,       \* the number of frames received
    refs,           \* the reference count of each object
    input,          \* FrameHandler.frameChannel
    handler,        \* its goroutine: [pc, frame, left, targets]
    gop,            \* PsGOP: [frames, start, end]
    sinceKey,       \* history: the frames parsed since the last key frame
    recording,      \* enableRecord, with a storage channel
    pusher          \* the state of each pusher, see NewPusher

channel == <<received, input, gop, sinceKey, recording>>
pvars   == <<channel, refs, handler, pusher>>

Rtp(f) == <<"rtp", f>>
Ps(f)  == <<"ps", f>>
Out(f) == <<"out", f>>
Objects == {"rtp", "ps", "out"} \X (1..MaxFrames)

Idle   == [pc |-> "run", frame |-> 0, left |-> {}, targets |-> {}]
NoGop  == [frames |-> <<>>, start |-> 0, end |-> 0]

\* A queue entry of a pusher is [object, stream].  closeFlag is set from pc =
\* "drain" on; asked is the interrupter with the state that makes Running() false,
\* emptied a RemoveStream that took the last stream and has yet to call Close.
NewPusher ==
    [pc |-> "new", streams |-> {}, ids |-> 0, queue |-> <<>>, canPush |-> FALSE,
     push |-> FALSE, pause |-> TRUE, sending |-> <<>>, asked |-> FALSE, emptied |-> FALSE]

-----------------------------------------------------------------------------
(* Reference counts.                                                       *)

Use(r, o) == [r EXCEPT ![o] = @ + 1]

\* How often an object occurs in a sequence of objects.
CountOf(o, objects) == Cardinality({i \in DOMAIN objects : objects[i] = o})

\* Every object of the sequence is released.  The last Release of a packed frame
\* releases the frames it relates to.
ReleaseAll(r, objects) ==
    LET Left(o)  == r[o] - CountOf(o, objects)
        Ended(f) == r[Out(f)] > 0 /\ Left(Out(f)) = 0
    IN  [o \in Objects |-> IF o[1] # "out" /\ Ended(o[2]) THEN Left(o) - 1 ELSE Left(o)]

Release(r, o) == ReleaseAll(r, <<o>>)

\* The objects of one kind of some frames, and those of the entries of a queue.
Each(kind, frames) == [i \in DOMAIN frames |-> <<kind, frames[i]>>]
ObjectsOf(queue)   == [i \in DOMAIN queue |-> queue[i].object]

-----------------------------------------------------------------------------
(* Receiving: FrameHandler.Push.                                           *)

\* A frame is dropped when the queue is full or already closed.
Receive ==
    LET f    == received + 1
        room == handler.pc \notin {"closed", "ended"} /\ Len(input) < InputCap
    IN  /\ f <= MaxFrames
        /\ received' = f
        /\ input' = IF room THEN Append(input, f) ELSE input
        /\ refs' = IF room THEN Use(refs, Rtp(f)) ELSE refs
        /\ UNCHANGED <<handler, gop, sinceKey, recording, pusher>>

-----------------------------------------------------------------------------
(* The GOP.                                                                *)

\* PsGOP.Clear.
Cleared(r, g) ==
    ReleaseAll(ReleaseAll(r, Each("ps", g.frames)), Each("rtp", g.frames))

\* The range [start, end] of a GOP after its n-th frame [s, e].  A frame that
\* starts before the end moves the start back instead of the end.
TimeRangeExpandRange(g, s, e, n) ==
    LET guess == IF n > 2 THEN (g.end - g.start) \div (n - 2)
                 ELSE IF n = 2 THEN e - s ELSE 0
    IN  IF g.start = 0 THEN <<s, e>>
        ELSE <<IF s < g.end THEN g.start + (s - g.end) - guess ELSE g.start, e>>

\* Plausible bug: the GOP keeps the RTP frame without a reference of its own.
UsedPs(r, f) == Use(r, Ps(f))

\* psFrame.Use() and UseFrame(rtpFrame).
Used(r, f) == Use(Use(r, Ps(f)), Rtp(f))

\* appendGOP: a GOP that outgrows the write buffer is given up.
AppendGOP(r, g, f) ==
    LET range == TimeRangeExpandRange(g, Times[f][1], Times[f][2], Len(g.frames) + 1)
        grown == [frames |-> Append(g.frames, f), start |-> range[1], end |-> range[2]]
    IN  IF Len(grown.frames) > WriteBufferSize
        THEN gop' = NoGop /\ refs' = Cleared(Used(r, f), grown)
        ELSE gop' = grown /\ refs' = Used(r, f)

\* Plausible bug: frames that come while nothing is recorded stay out of the
\* GOP, but the GOP is kept.
NotRecordedKeeping(r) == gop' = gop /\ refs' = r

NotRecorded(r) == gop' = NoGop /\ refs' = Cleared(r, gop)

\* A key frame ends the GOP, which is written and cleared, and begins the next
\* one; without a key frame no GOP begins.
Store(r, f, key) ==
    \/ /\ recording
       /\ \/ gop.frames = <<>> /\ ~key /\ gop' = gop /\ refs' = r
          \/ gop.frames # <<>> /\ ~key /\ AppendGOP(r, gop, f)
          \/ key /\ AppendGOP(Cleared(r, gop), NoGop, f)
    \/ ~recording /\ NotRecorded(r)

-----------------------------------------------------------------------------
(* The handler's goroutine.                                                *)

f0 == handler.frame

\* The pushers of the channel: RtpPushers().
Open == {p \in Pushers : pusher[p].pc \notin {"new", "closed"}}

\* The channel is closed and drained, and the GOP is freed.
HandleClosed(r, queue) ==
    /\ refs' = ReleaseAll(Cleared(r, gop), Each("rtp", queue))
    /\ input' = <<>> /\ gop' = NoGop
    /\ handler' = [Idle EXCEPT !.pc = "closed"]

\* RtpPlayer.run shuts its handler down when it is interrupted itself.
HandleInterrupted ==
    /\ handler.pc = "run"
    /\ HandleClosed(refs, input)
    /\ UNCHANGED <<received, sinceKey, recording, pusher>>

\* The next frame is parsed and stored; nothing comes of it (another media type,
\* an incomplete frame, no packet, no key frame yet); or the keepChooser gives up.
HandleFrame ==
    LET f == Head(input)
    IN  /\ handler.pc = "run" /\ input # <<>>
        /\ \/ \E key \in BOOLEAN :
                /\ Store(Use(refs, Ps(f)), f, key)
                /\ sinceKey' = CASE key -> <<f>> [] ~key /\ sinceKey = <<>> -> <<>> [] OTHER -> Append(sinceKey, f)
                /\ handler' = [pc |-> "pushers", frame |-> f, left |-> Open, targets |-> {}]
                /\ input' = Tail(input)
           \/ /\ refs' = Release(refs, Rtp(f))
              /\ input' = Tail(input)
              /\ UNCHANGED <<gop, sinceKey, handler>>
           \/ /\ ParseMayStop
              /\ HandleClosed(Release(refs, Rtp(f)), Tail(input))
              /\ UNCHANGED sinceKey
        /\ UNCHANGED <<received, recording, pusher>>

-----------------------------------------------------------------------------
(* Handing a frame to the pushers.                                         *)

CanPush(p) == pusher[p].canPush /\ pusher[p].pc \notin {"drain", "streams", "closed"}

\* RtpPusher.push, given a reference of its own: the frame is queued, or it is
\* released because the pusher is paused, closed or full.
Push(p, stream, o) ==
    LET room == CanPush(p) /\ Len(pusher[p].queue) < MaxCached
    IN  /\ refs' = IF room THEN Use(refs, o) ELSE refs
        /\ pusher' = IF room THEN [pusher EXCEPT ![p].queue = Append(@, [object |-> o, stream |-> stream])]
                     ELSE pusher

StreamsOf(p, kind) == {s \in pusher[p].streams : s.kind = kind}

\* A pusher with a PS stream gets the frame as it was received, any other one
\* what will be packed for its streams.
HandlePusher(p) ==
    /\ handler.pc = "pushers" /\ p \in handler.left
    /\ \/ /\ CanPush(p)
          /\ \E s \in StreamsOf(p, "ps") : Push(p, s.id, Rtp(f0))
          /\ handler' = [handler EXCEPT !.left = @ \ {p}]
       \/ /\ CanPush(p) => StreamsOf(p, "ps") = {}
          /\ handler' = [handler EXCEPT
                !.left = @ \ {p},
                !.targets = IF CanPush(p)
                            THEN @ \union {<<p, s.id>> : s \in StreamsOf(p, "h264")} ELSE @]
          /\ UNCHANGED <<refs, pusher>>
    /\ UNCHANGED <<received, input, gop, sinceKey, recording>>

\* No stream wants a packed frame, or nothing could be packed.
HandleNothing ==
    /\ handler.pc = "pushers" /\ handler.left = {}
    /\ refs' = Release(Release(refs, Ps(f0)), Rtp(f0))
    /\ handler' = Idle
    /\ UNCHANGED <<received, input, gop, sinceKey, recording, pusher>>

\* The H.264 frame is packed and related to the frames its data lies in.
HandlePack ==
    /\ handler.pc = "pushers" /\ handler.left = {} /\ handler.targets # {}
    /\ \/ /\ refs' = Use(Use(Use(refs, Out(f0)), Ps(f0)), Rtp(f0))
          /\ handler' = [handler EXCEPT !.pc = "output"]
          /\ UNCHANGED <<input, gop>>
       \/ /\ ParseMayStop
          /\ HandleClosed(Release(Release(refs, Ps(f0)), Rtp(f0)), input)
    /\ UNCHANGED <<received, sinceKey, recording, pusher>>

HandleOutput ==
    /\ handler.pc = "output"
    /\ \E t \in handler.targets :
        /\ Push(t[1], t[2], Out(f0))
        /\ handler' = [handler EXCEPT !.targets = @ \ {t}]
    /\ UNCHANGED <<received, input, gop, sinceKey, recording>>

HandleDone ==
    /\ handler.pc = "output" /\ handler.targets = {}
    /\ refs' = Release(Release(Release(refs, Out(f0)), Ps(f0)), Rtp(f0))
    /\ handler' = Idle
    /\ UNCHANGED <<received, input, gop, sinceKey, recording, pusher>>

-----------------------------------------------------------------------------
(* A pusher: its goroutine.                                                *)

With(p, q)  == pusher' = [pusher EXCEPT ![p] = q] /\ UNCHANGED <<channel, handler>>
Waiting(p)  == pusher[p].pc \in {"select", "paused"}
Has(q, id)  == \E s \in q.streams : s.id = id

PusherTakePush(p) ==
    /\ Waiting(p) /\ pusher[p].push
    /\ With(p, [pusher[p] EXCEPT !.push = FALSE, !.pc = "select"])
    /\ UNCHANGED refs

PusherTakePause(p) ==
    /\ Waiting(p) /\ pusher[p].pause
    /\ With(p, [pusher[p] EXCEPT !.pause = FALSE, !.pc = "paused"])
    /\ UNCHANGED refs

\* The next frame is for a stream that is still there, or it is released.
PusherTake(p) ==
    LET q == pusher[p]
        e == Head(q.queue)
    IN  /\ q.pc = "select" /\ q.queue # <<>>
        /\ \/ /\ Has(q, e.stream)
              /\ With(p, [q EXCEPT !.pc = "send", !.queue = Tail(@), !.sending = <<e>>])
              /\ UNCHANGED refs
           \/ /\ ~Has(q, e.stream)
              /\ With(p, [q EXCEPT !.queue = Tail(@)])
              /\ refs' = Release(refs, e.object)

\* RemoveStream under streamPusherLock; the caller closes the pusher afterwards
\* if this was its last stream.
Without(q, id) == [q EXCEPT !.streams = {s \in @ : s.id # id}]
Emptied(q, id) == q.streams # {} /\ Without(q, id).streams = {}

\* send releases the frame; when it fails, the stream is removed.
PusherSend(p) ==
    LET q == [pusher[p] EXCEPT !.pc = "select", !.sending = <<>>]
        e == pusher[p].sending[1]
    IN  /\ pusher[p].pc = "send"
        /\ refs' = Release(refs, e.object)
        /\ \/ With(p, q)
           \/ With(p, [Without(q, e.stream) EXCEPT
                         !.pc = IF Emptied(q, e.stream) THEN "empty" ELSE "select"])

PusherEmpty(p) ==
    /\ pusher[p].pc = "empty"
    /\ With(p, [pusher[p] EXCEPT !.pc = "select", !.asked = TRUE])
    /\ UNCHANGED refs

\* From here on closeFlag is set and the channel is closed.
PusherInterrupted(p) ==
    /\ Waiting(p) /\ pusher[p].asked
    /\ With(p, [pusher[p] EXCEPT !.pc = "drain"])
    /\ UNCHANGED refs

PusherDrain(p) ==
    LET queue == pusher[p].queue
    IN  /\ pusher[p].pc = "drain"
        /\ With(p, [pusher[p] EXCEPT !.pc = "streams", !.queue = <<>>])
        /\ refs' = ReleaseAll(refs, ObjectsOf(queue))

\* Every stream is removed, and the pusher from the channel.
PusherClosed(p) ==
    /\ pusher[p].pc = "streams"
    /\ With(p, [pusher[p] EXCEPT !.pc = "closed", !.streams = {}])
    /\ UNCHANGED refs

-----------------------------------------------------------------------------
(* What clients call.                                                      *)

OpenRtpPusher(p) ==
    /\ pusher[p].pc = "new"
    /\ With(p, [pusher[p] EXCEPT !.pc = "select"])

Added(q, kind) ==
    [q EXCEPT !.ids = @ + 1, !.streams = @ \union {[id |-> q.ids + 1, kind |-> kind]}]

\* AddStream holds the lifecycle's lock, so that Close comes before or after it.
\* Its caller may have looked the pusher up long ago.
AddStream(p, kind) ==
    /\ pusher[p].pc # "new" /\ ~pusher[p].asked /\ pusher[p].ids < MaxStreams
    /\ With(p, Added(pusher[p], kind))

RemoveStream(p, id) ==
    /\ p \in Open /\ Has(pusher[p], id)
    /\ With(p, [Without(pusher[p], id) EXCEPT !.emptied = @ \/ Emptied(pusher[p], id)])

\* The end of a RemoveStream that removed the last stream.
RemoveCloses(p) ==
    /\ pusher[p].emptied
    /\ With(p, [pusher[p] EXCEPT !.asked = TRUE, !.emptied = FALSE])

CloseRtpPusher(p) ==
    /\ p \in Open /\ ~pusher[p].asked
    /\ With(p, [pusher[p] EXCEPT !.asked = TRUE])

StartPush(p) ==
    /\ p \in Open /\ ~pusher[p].push
    /\ With(p, [pusher[p] EXCEPT !.push = TRUE, !.canPush = TRUE])

Pause(p) ==
    /\ p \in Open /\ ~pusher[p].pause
    /\ With(p, [pusher[p] EXCEPT !.pause = TRUE, !.canPush = FALSE])

\* RtpPlayer.run, once its handler is closed, closes every pusher of that time.
PlayerClosesPushers ==
    /\ handler.pc = "closed"
    /\ handler' = [handler EXCEPT !.pc = "ended"]
    /\ pusher' = [p \in Pushers |-> [pusher[p] EXCEPT !.asked = @ \/ p \in Open]]
    /\ UNCHANGED channel

\* StartRecord, StopRecord, SetupStorage, StopStorage.
Record ==
    /\ recording' = ~recording
    /\ UNCHANGED <<received, input, gop, sinceKey, handler, pusher>>

-----------------------------------------------------------------------------
PInit ==
    /\ received = 0 /\ input = <<>> /\ sinceKey = <<>>
    /\ refs = [o \in Objects |-> 0]
    /\ handler = Idle
    /\ gop = NoGop /\ recording = TRUE
    /\ pusher = [p \in Pushers |-> NewPusher]

Handling ==
    \/ HandleFrame \/ HandleNothing \/ HandlePack
    \/ HandleOutput \/ HandleDone \/ \E p \in Pushers : HandlePusher(p)

Pushing(p) ==
    \/ PusherTakePush(p) \/ PusherTakePause(p) \/ PusherTake(p) \/ PusherSend(p)
    \/ PusherEmpty(p) \/ PusherDrain(p) \/ PusherClosed(p)

Client(p) ==
    \/ OpenRtpPusher(p) \/ CloseRtpPusher(p) \/ StartPush(p) \/ Pause(p)
    \/ \E kind \in {"ps", "h264"} : AddStream(p, kind)
    \/ \E id \in 1..MaxStreams : RemoveStream(p, id)

PNext ==
    \/ Receive \/ Handling \/ HandleInterrupted
    \/ \E p \in Pushers : Pushing(p) \/ PusherInterrupted(p) \/ ((Client(p) \/ RemoveCloses(p)) /\ UNCHANGED refs)
    \/ (PlayerClosesPushers \/ Record) /\ UNCHANGED refs

PSpec == PInit /\ [][PNext]_pvars

-----------------------------------------------------------------------------
(* Properties.                                                             *)

\* The places that hold a reference to an object: the queue of the handler, the
\* handler itself, the GOP, the pushers, and a packed frame that is still alive.
InHand ==
    CASE handler.pc \in {"run", "closed", "ended"} -> {}
      [] handler.pc = "output" -> {Rtp(f0), Ps(f0), Out(f0)}
      [] OTHER -> {Rtp(f0), Ps(f0)}

InQueues(o) == {x \in Pushers \X (1..MaxCached) :
                  x[2] <= Len(pusher[x[1]].queue) /\ pusher[x[1]].queue[x[2]].object = o}
Sending(o)  == {p \in Pushers : pusher[p].sending # <<>> /\ pusher[p].sending[1].object = o}
Related(r, o) == o[1] # "out" /\ r[Out(o[2])] > 0

\* The number of these places.
Places(o) ==
    CountOf(o, Each("rtp", input)) + CountOf(o, Each("ps", gop.frames)) + CountOf(o, Each("rtp", gop.frames))
    + Cardinality(InQueues(o)) + Cardinality(Sending(o))
    + (IF o \in InHand THEN 1 ELSE 0) + (IF Related(refs, o) THEN 1 ELSE 0)

\* Whatever the handler, the pushers and the clients do, the count of a pooled
\* frame is exactly the number of places that still hold it: no path (a full or
\* closed queue, a paused pusher, a removed stream, an oversized GOP, a parser
\* that gives up, closing) forgets a Release, which would leak the frame, or
\* makes one too many, which would hand a frame in use back to its pool.
RefsExact == \A o \in Objects : refs[o] = Places(o)

\* A GOP is whole: it is a key frame with every frame parsed since, also when
\* recording was off for a while or an oversized GOP was given up; and its range
\* is one the storage can take, that ends with its last frame and does not start
\* after it, though frames overlap.
GopsWhole ==
    gop.frames # <<>> =>
        /\ gop.frames = sinceKey
        /\ gop.start <= gop.end /\ gop.end = Times[Last(gop.frames)][2]
=============================================================================
