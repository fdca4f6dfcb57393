---------------------------- MODULE MediaChannel ----------------------------
(***************************************************************************)
(* Media channels and the requests of the HTTP API about them              *)
(* (media/channel: manager.go, channel.go, rtp-player.go;                  *)
(* api/media-channal.go).                                                  *)
(*                                                                         *)
(* A channel owns an RTP player with its streams, a storage session, RTP   *)
(* pushers and history pushers.  Each is a lifecycle of its own: Close     *)
(* only asks it to end, its run does the rest in its own goroutine, and    *)
(* its OnClosed callback takes it out of the channel.  Close takes the     *)
(* lock of the lifecycle, so that it comes before or after a call that     *)
(* holds that lock for reading.                                            *)
(*                                                                         *)
(* There is one channel id.  What the frame handler and the pushers do     *)
(* with the frames is in FramePath, the playing of stored periods in       *)
(* HistoryPusher, the storage session in the modules of the storage.       *)
(* Objects are numbered; a number is used again once its object is closed  *)
(* and nobody refers to it.                                                *)
(***************************************************************************)
EXTENDS Naturals, FiniteSets, FiniteSetsExt

CONSTANTS
    Clients,        \* how many requests the API serves at the same time
    Channels,       \* numbers of media channels
    Players,        \* numbers of RTP players
    Streams,        \* numbers of streams of RTP players
    Storages,       \* numbers of storage sessions
    Pushers,        \* numbers of RTP pushers and history pushers
    Ports,          \* how many UDP servers rtp.Manager has
    Scenes          \* bounds, a record for each kind of behaviour looked at:
                    \*   clients:  who makes requests    kinds:  groups of requests made
                    \*   requests: how many              faults: how often something fails
                    \*   changes:  how often the device goes online or offline
                    \*   restarts: how often the application is restarted

ASSUME ChannelAssumption ==
    /\ \A S \in {Clients, Channels, Players, Streams, Storages, Pushers} : S \subseteq Nat \ {0}
    /\ IsFiniteSet(Streams) /\ Ports \in Nat
    /\ Scenes \subseteq [clients : SUBSET Clients, requests : Nat, faults : Nat, changes : Nat, restarts : Nat,
                         kinds : SUBSET {"channel", "player", "storage", "pusher", "history", "sync"}]

VARIABLES
    mgr,            \* the life of the manager
    channels,       \* the manager's channels: the channel of the id, or 0
    chan,           \* [life, run, by, record, player, storage, next, map, twice]
    player,         \* [life, chan, run, todo, empty, api]
    stream,         \* [state, chan, player, udp, late]
    storage,        \* [life, chan]
    pusher,         \* [life, chan, kind, id]
    ports,          \* how many UDP servers are free
    req,            \* what a request is doing: [pc, chan, kind, val]
    waits,          \* whom a thread waits for
    kept,           \* the objects another component has a pointer to
    scene,          \* the bounds of this behaviour
    requests,       \* how many requests have been made
    faults          \* how many times something failed

objects == <<chan, player, stream, storage, pusher, ports>>
cvars   == <<mgr, channels, objects, req, waits, kept, scene, requests, faults>>

\* A thread or an object: a client's request, a channel, a player...
Ref(kind, n) == <<kind, n>>
Manager == Ref("manager", 0)
Threads == {Manager, Ref("zongheng", 0)}
           \union {Ref("client", c) : c \in Clients} \union {Ref("channel", i) : i \in Channels}
           \union {Ref("player", p) : p \in Players}

Life(o) == CASE o[1] = "channel" -> chan[o[2]].life
             [] o[1] = "player"  -> player[o[2]].life
             [] o[1] = "storage" -> storage[o[2]].life
             [] o[1] = "pusher"  -> pusher[o[2]].life

Kinds == {"rtp", "history"}

\* A number without its object.
NoPlayer  == [life |-> "closed", chan |-> 0, run |-> "idle", todo |-> {}, empty |-> FALSE, api |-> FALSE]
NoStream  == [state |-> "none", chan |-> 0, player |-> 0, udp |-> FALSE, late |-> FALSE]
NoStorage == [life |-> "closed", chan |-> 0]
NoPusher  == [life |-> "closed", chan |-> 0, kind |-> "rtp", id |-> 0]

NoReq == [pc |-> "idle", chan |-> 0, kind |-> "rtp", val |-> 0]

\* Nobody has the object, and its number is free: it is closed, and nobody
\* waits for it.
Unused(kind, n) ==
    /\ Life(Ref(kind, n)) = "closed" /\ Ref(kind, n) \notin kept
    /\ \A t \in Threads : Ref(kind, n) \notin waits[t]

Owned(i) == \/ \E p \in Players : player[p].life # "closed" /\ player[p].chan = i
            \/ \E s \in Storages : storage[s].life # "closed" /\ storage[s].chan = i
            \/ \E u \in Pushers : pusher[u].life # "closed" /\ pusher[u].chan = i
            \/ \E s \in Streams : stream[s].state # "none" /\ stream[s].chan = i

FreeChannels == {i \in Channels : Unused("channel", i) /\ ~Owned(i)}
FreePlayers  == {p \in Players : /\ Unused("player", p)
                                 /\ \A s \in Streams : stream[s].state # "none" => stream[s].player # p}
FreeStorages == {s \in Storages : Unused("storage", s)}
FreePushers  == {u \in Pushers : Unused("pusher", u)}
FreeStreams  == {s \in Streams : /\ stream[s].state = "none" /\ Ref("stream", s) \notin kept
                                 /\ \A p \in Players : s \notin player[p].todo}

\* Close of a lifecycle.  It waits while a call holds its lock: opening a
\* pusher is the only one that takes more than a step.
Closing(life) == IF life \in {"starting", "running"} THEN "closing" ELSE life
Locked(i) == \E c \in Clients : req[c].pc = "opening" /\ req[c].chan = i

-----------------------------------------------------------------------------
(* Manager.                                                                *)

\* Create: the new channel is started at once.
NewChannel(by) ==
    [life |-> "running", run |-> "idle", by |-> by, record |-> FALSE, player |-> 0, storage |-> 0,
     next |-> [k \in Kinds |-> 0], map |-> [k \in Kinds |-> {}], twice |-> FALSE]

Create(by) ==
    /\ mgr = "running" /\ channels = 0 /\ FreeChannels # {}
    /\ channels' = Min(FreeChannels)
    /\ chan' = [chan EXCEPT ![channels'] = NewChannel(by)]
    /\ UNCHANGED <<mgr, player, stream, storage, pusher, ports>>

\* run: closes the channel and waits for it.
ManagerRun ==
    /\ mgr = "closing"
    /\ IF channels = 0 THEN mgr' = "closed" /\ UNCHANGED <<chan, waits>>
       ELSE /\ waits[Manager] = {} /\ ~Locked(channels)
            /\ chan' = [chan EXCEPT ![channels].life = Closing(@)]
            /\ waits' = [waits EXCEPT ![Manager] = {Ref("channel", channels)}]
            /\ UNCHANGED mgr
    /\ UNCHANGED <<channels, player, stream, storage, pusher, ports, req, kept, requests, faults>>

\* A thread has waited long enough: everything it waited for is closed.
Woken(t) == waits[t] # {} /\ \A o \in waits[t] : Life(o) = "closed"
Wake(t)  == Woken(t) /\ waits' = [waits EXCEPT ![t] = {}]

ManagerWake == Wake(Manager) /\ UNCHANGED <<mgr, channels, objects, req, kept, requests, faults>>

-----------------------------------------------------------------------------
(* Channel.run.                                                            *)

Mapped(i, kind) == {e[2] : e \in chan[i].map[kind]}
ClosePushers(us) == [u \in Pushers |-> IF u \in us THEN [pusher[u] EXCEPT !.life = Closing(@)] ELSE pusher[u]]

\* Interrupted: it asks every RTP pusher to close (not the history pushers)...
RunPushers(i) ==
    /\ chan[i].life = "closing" /\ chan[i].run = "idle"
    /\ pusher' = ClosePushers(Mapped(i, "rtp"))
    /\ chan' = [chan EXCEPT ![i].run = "pushers"]
    /\ waits' = [waits EXCEPT ![Ref("channel", i)] = {Ref("pusher", u) : u \in Mapped(i, "rtp")}]

\* Plausible bug: waits for the player without asking it to close.
RunPlayerOnlyWait(i) ==
    LET p == chan[i].player
    IN  /\ chan[i].run = "pushers" /\ waits[Ref("channel", i)] = {}
        /\ chan' = [chan EXCEPT ![i].run = "player"]
        /\ waits' = [waits EXCEPT ![Ref("channel", i)] = IF p = 0 THEN {} ELSE {Ref("player", p)}]
        /\ UNCHANGED player

\* ... waits for them, then does the same with the player...
RunPlayer(i) ==
    LET p == chan[i].player
    IN  /\ chan[i].run = "pushers" /\ waits[Ref("channel", i)] = {}
        /\ chan' = [chan EXCEPT ![i].run = "player"]
        /\ IF p = 0 THEN UNCHANGED <<player, waits>>
           ELSE /\ player' = [player EXCEPT ![p].life = Closing(@)]
                /\ waits' = [waits EXCEPT ![Ref("channel", i)] = {Ref("player", p)}]

\* ... and with the storage session.
RunStorage(i) ==
    LET s == chan[i].storage
    IN  /\ chan[i].run = "player" /\ waits[Ref("channel", i)] = {}
        /\ chan' = [chan EXCEPT ![i].run = "storage"]
        /\ IF s = 0 THEN UNCHANGED <<storage, waits>>
           ELSE /\ storage' = [storage EXCEPT ![s].life = Closing(@)]
                /\ waits' = [waits EXCEPT ![Ref("channel", i)] = {Ref("storage", s)}]

\* run returns; OnClosed takes the channel out of the manager.
RunEnd(i) ==
    /\ chan[i].run = "storage" /\ waits[Ref("channel", i)] = {}
    /\ chan' = [chan EXCEPT ![i].life = "closed", ![i].run = "idle"]
    /\ channels' = 0

ChannelStep(i) ==
    /\ \/ RunPushers(i) /\ UNCHANGED <<channels, player, storage>>
       \/ RunPlayer(i)  /\ UNCHANGED <<channels, pusher, storage>>
       \/ RunStorage(i) /\ UNCHANGED <<channels, pusher, player>>
       \/ RunEnd(i)     /\ UNCHANGED <<pusher, player, storage, waits>>
       \/ Wake(Ref("channel", i)) /\ UNCHANGED <<channels, chan, pusher, player, storage>>
    /\ UNCHANGED <<mgr, stream, ports, req, kept, requests, faults>>

-----------------------------------------------------------------------------
(* RtpPlayer and its streams.                                              *)

StreamsOf(p) == {s \in Streams : stream[s].state # "none" /\ stream[s].player = p}

\* Plausible bug: it is not looked whether there is a player.
OpenPlayerAlways(i, api) ==
    /\ chan[i].life = "running" /\ FreePlayers # {}
    /\ LET p == Min(FreePlayers)
       IN  /\ player' = [player EXCEPT ![p] = [life |-> "running", chan |-> i, run |-> "idle",
                                               todo |-> {}, empty |-> FALSE, api |-> api]]
           /\ chan' = [chan EXCEPT ![i].player = p]

\* OpenRtpPlayer under rtpPlayerLock, once there is none.
OpenPlayer(i, api) ==
    /\ chan[i].life = "running" /\ chan[i].player = 0 /\ FreePlayers # {}
    /\ LET p == Min(FreePlayers)
       IN  /\ player' = [player EXCEPT ![p] = [life |-> "running", chan |-> i, run |-> "idle",
                                               todo |-> {}, empty |-> FALSE, api |-> api]]
           /\ chan' = [chan EXCEPT ![i].player = p]

\* AddStream: newRtpStreamPlayer takes a UDP server, or the TCP server all share.
AddStream(p, udp) ==
    /\ player[p].life = "running"
    /\ udp => ports > 0
    /\ FreeStreams # {}
    /\ stream' = [stream EXCEPT ![Min(FreeStreams)] =
                     [state |-> "added", chan |-> player[p].chan, player |-> p, udp |-> udp,
                      late |-> player[p].run = "streams"]]
    /\ ports' = IF udp THEN ports - 1 ELSE ports

\* Setup: the RTP server gives it a stream (or has none: nothing changes).
SetupStream(s) ==
    /\ stream[s].state = "added" /\ player[stream[s].player].life = "running"
    /\ stream' = [stream EXCEPT ![s].state = "up"]

\* Plausible bug: only a stream that was set up gives its UDP server back.
PortsAfterUp(s) == IF stream[s].udp /\ stream[s].state = "up" THEN ports + 1 ELSE ports

\* close of a stream player frees its UDP server.
PortsAfter(s) == IF stream[s].udp THEN ports + 1 ELSE ports

\* removeStream: out of the map, closed, and when it was the last one its
\* player is asked to close too, after the locks are given back.
RemoveStream(s) ==
    /\ stream' = [stream EXCEPT ![s] = NoStream]
    /\ ports' = PortsAfter(s)
    /\ player' = IF StreamsOf(stream[s].player) = {s}
                 THEN [player EXCEPT ![stream[s].player].empty = TRUE] ELSE player

\* The RTP stream has timed out, failed or was closed: onRtpStreamClosed.
StreamLost(s) ==
    /\ stream[s].state = "up"
    /\ RemoveStream(s)
    /\ UNCHANGED <<chan, storage, pusher>>

PlayerEmpty(p) ==
    /\ player[p].empty
    /\ player' = [player EXCEPT ![p].empty = FALSE, ![p].life = Closing(@)]
    /\ UNCHANGED <<chan, stream, storage, pusher, ports>>

\* The frame handler ended by itself: it could not parse on.
HandlerEnds(p) ==
    /\ player[p].life = "running" /\ player[p].run = "idle"
    /\ player' = [player EXCEPT ![p].run = "ended"]
    /\ UNCHANGED <<chan, stream, storage, pusher, ports>>

\* run: interrupted, or the frame handler has ended.  The RTP pushers of the
\* channel are closed...
PlayerPushers(p) ==
    /\ player[p].run = "ended" \/ (player[p].run = "idle" /\ player[p].life = "closing")
    /\ player' = [player EXCEPT ![p].run = "pushers"]
    /\ pusher' = ClosePushers(Mapped(player[p].chan, "rtp"))
    /\ waits' = [waits EXCEPT ![Ref("player", p)] =
                    {Ref("pusher", u) : u \in Mapped(player[p].chan, "rtp")}]
    /\ UNCHANGED <<chan, stream, ports>>

\* ... then the streams it has now are removed, one after the other.
PlayerStreams(p) ==
    /\ player[p].run = "pushers" /\ waits[Ref("player", p)] = {}
    /\ player' = [player EXCEPT ![p].run = "streams", ![p].todo = StreamsOf(p)]
    /\ UNCHANGED <<chan, stream, pusher, ports, waits>>

PlayerRemove(p) ==
    /\ player[p].run = "streams"
    /\ \E s \in player[p].todo :
          IF stream[s].player # p
          THEN player' = [player EXCEPT ![p].todo = @ \ {s}] /\ UNCHANGED <<stream, ports>>
          ELSE /\ stream' = [stream EXCEPT ![s] = NoStream] /\ ports' = PortsAfter(s)
               /\ player' = [player EXCEPT ![p].todo = @ \ {s}, ![p].empty = @ \/ StreamsOf(p) = {s}]
    /\ UNCHANGED <<chan, pusher, waits>>

\* Closed; OnClosed makes room for another player.
PlayerEnd(p) ==
    /\ player[p].run = "streams" /\ player[p].todo = {} /\ ~player[p].empty
    /\ player' = [player EXCEPT ![p] = NoPlayer]
    /\ chan' = [chan EXCEPT ![player[p].chan].player = 0]
    /\ UNCHANGED <<stream, pusher, ports, waits>>

PlayerStep(p) ==
    /\ \/ PlayerPushers(p) \/ PlayerStreams(p) \/ PlayerRemove(p) \/ PlayerEnd(p)
       \/ Wake(Ref("player", p)) /\ UNCHANGED <<chan, player, stream, pusher, ports>>
    /\ UNCHANGED <<mgr, channels, storage, req, kept, requests, faults>>

-----------------------------------------------------------------------------
(* Storage and pushers.                                                    *)

\* SetupStorage under storageChannelLock: a session is created and started in
\* the background, or the one there is, closing or not, gets another period.
SetupStorage(i) ==
    /\ chan[i].life = "running"
    /\ IF chan[i].storage # 0 THEN UNCHANGED <<storage, chan>>
       ELSE /\ FreeStorages # {}
            /\ LET s == Min(FreeStorages)
               IN  /\ storage' = [storage EXCEPT ![s] = [life |-> "starting", chan |-> i]]
                   /\ chan' = [chan EXCEPT ![i].storage = s]

StorageStarted(s) ==
    /\ storage[s].life = "starting"
    /\ storage' = [storage EXCEPT ![s].life = "running"]
    /\ UNCHANGED <<chan, player, stream, pusher, ports>>

\* OnStarted with an error (StorageFails), and OnClosed: the channel forgets
\* the session.
ForgetStorage(s) ==
    /\ storage' = [storage EXCEPT ![s] = NoStorage]
    /\ chan' = [chan EXCEPT ![storage[s].chan].storage = 0]
    /\ UNCHANGED <<player, stream, pusher, ports>>

StorageFails(s) == storage[s].life = "starting" /\ ForgetStorage(s)
StorageEnd(s)   == storage[s].life = "closing" /\ ForgetStorage(s)

\* A pusher ends by itself: its last stream has failed.
PusherEnds(u) ==
    /\ pusher[u].life = "running"
    /\ pusher' = [pusher EXCEPT ![u].life = "closing"]
    /\ UNCHANGED <<chan, player, stream, storage, ports>>

\* OnClosed: what has its number leaves the channel's map.
PusherEnd(u) ==
    LET i == pusher[u].chan  k == pusher[u].kind
    IN  /\ pusher[u].life = "closing"
        /\ pusher' = [pusher EXCEPT ![u] = NoPusher]
        /\ chan' = [chan EXCEPT ![i].map[k] = {e \in @ : e[1] # pusher[u].id}]
        /\ UNCHANGED <<player, stream, storage, ports>>

-----------------------------------------------------------------------------
(* The requests.  A handler that finds its arguments missing or invalid,   *)
(* the channel or the pusher not there or not running, or no UDP server,   *)
(* answers with an error and changes nothing: such a request does not      *)
(* appear.  Neither do those that only read.                               *)

Idle(c) == c \in scene.clients /\ req[c].pc = "idle" /\ waits[Ref("client", c)] = {} /\ requests < scene.requests
Done    == requests' = requests + 1 /\ UNCHANGED <<mgr, channels, req, waits, kept, faults>>

\* The handler of a closing request: <-waiter, then the answer.
CloseAndWait(c, o) ==
    /\ waits' = [waits EXCEPT ![Ref("client", c)] = {o}]
    /\ requests' = requests + 1
    /\ UNCHANGED <<mgr, channels, req, kept, faults>>

CreateRequest(c) ==
    Idle(c) /\ Create("api") /\ requests' = requests + 1 /\ UNCHANGED <<req, waits, kept, faults>>

\* Delete of the manager: Close and ClosedWaiter.
DeleteRequest(c) ==
    /\ Idle(c) /\ channels # 0 /\ ~Locked(channels)
    /\ chan' = [chan EXCEPT ![channels].life = Closing(@)]
    /\ CloseAndWait(c, Ref("channel", channels))
    /\ UNCHANGED <<player, stream, storage, pusher, ports>>

ChannelRequest(c) == "channel" \in scene.kinds /\ (CreateRequest(c) \/ DeleteRequest(c))

\* The manager hands a request on to the channel, if it has it.
Found(c) == Idle(c) /\ channels # 0

\* The player the channel has at this moment; Done or CloseAndWait.
ThePlayer == chan[channels].player

OpenRtpPlayerRequest(c) ==
    Found(c) /\ OpenPlayer(channels, TRUE) /\ Done /\ UNCHANGED <<stream, storage, pusher, ports>>

AddStreamRequest(c) ==
    /\ Found(c) /\ ThePlayer # 0 /\ \E udp \in BOOLEAN : AddStream(ThePlayer, udp)
    /\ player' = [player EXCEPT ![ThePlayer].api = TRUE]
    /\ Done /\ UNCHANGED <<chan, storage, pusher>>

SetupStreamRequest(c) ==
    /\ Found(c) /\ ThePlayer # 0 /\ \E s \in StreamsOf(ThePlayer) : SetupStream(s)
    /\ Done /\ UNCHANGED <<chan, player, storage, pusher, ports>>

RemoveStreamRequest(c) ==
    /\ Found(c) /\ ThePlayer # 0 /\ \E s \in StreamsOf(ThePlayer) : RemoveStream(s)
    /\ Done /\ UNCHANGED <<chan, storage, pusher>>

CloseRtpPlayerRequest(c) ==
    /\ Found(c) /\ ThePlayer # 0
    /\ player' = [player EXCEPT ![ThePlayer].life = Closing(@)]
    /\ CloseAndWait(c, Ref("player", ThePlayer))
    /\ UNCHANGED <<chan, stream, storage, pusher, ports>>

PlayerRequest(c) ==
    /\ "player" \in scene.kinds
    /\ \/ OpenRtpPlayerRequest(c) \/ AddStreamRequest(c) \/ SetupStreamRequest(c)
       \/ RemoveStreamRequest(c) \/ CloseRtpPlayerRequest(c)

\* StartRecord (refused by a channel that is not running) and StopRecord.
Record(i, on) ==
    /\ on => chan[i].life = "running"
    /\ chan' = [chan EXCEPT ![i].record = on]

SetupStorageRequest(c) ==
    Found(c) /\ SetupStorage(channels) /\ Done /\ UNCHANGED <<player, stream, pusher, ports>>

StopStorageRequest(c) ==
    LET s == chan[channels].storage
    IN  /\ Found(c) /\ s # 0
        /\ storage' = [storage EXCEPT ![s].life = Closing(@)]
        /\ CloseAndWait(c, Ref("storage", s))
        /\ UNCHANGED <<chan, player, stream, pusher, ports>>

RecordRequest(c) ==
    /\ Found(c) /\ \E on \in BOOLEAN : Record(channels, on)
    /\ Done /\ UNCHANGED <<player, stream, storage, pusher, ports>>

StorageRequest(c) ==
    "storage" \in scene.kinds /\ (SetupStorageRequest(c) \/ StopStorageRequest(c) \/ RecordRequest(c))

\* allocRtpPusherId: the number is read and counted up without a lock, under
\* a lock that others may hold at the same time.
OpenPusher(c, kind) ==
    /\ Found(c) /\ chan[channels].life = "running"
    /\ req' = [req EXCEPT ![c] = [pc |-> "opening", chan |-> channels, kind |-> kind,
                                  val |-> chan[channels].next[kind]]]
    /\ requests' = requests + 1
    /\ UNCHANGED <<mgr, channels, objects, waits, kept, faults>>

\* The rest of OpenRtpPusher: started and stored under its number, which may
\* be that of another one.
StorePusher(c) ==
    LET i == req[c].chan  k == req[c].kind  id == req[c].val + 1
    IN  /\ req[c].pc = "opening" /\ FreePushers # {}
        /\ LET u == Min(FreePushers)
           IN  /\ pusher' = [pusher EXCEPT ![u] = [life |-> "running", chan |-> i, kind |-> k, id |-> id]]
               /\ chan' = [chan EXCEPT ![i].next[k] = id, ![i].twice = @ \/ chan[i].next[k] # req[c].val,
                                       ![i].map[k] = {e \in @ : e[1] # id} \union {<<id, u>>}]
        /\ req' = [req EXCEPT ![c] = NoReq]
        /\ UNCHANGED <<mgr, channels, player, stream, storage, ports, waits, kept, requests, faults>>

\* The history pusher found nothing to play; its number is used up.
OpenHistoryFails(c) ==
    LET i == req[c].chan
    IN  /\ req[c].pc = "opening" /\ req[c].kind = "history"
        /\ chan' = [chan EXCEPT ![i].next["history"] = req[c].val + 1,
                                ![i].twice = @ \/ chan[i].next["history"] # req[c].val]
        /\ req' = [req EXCEPT ![c] = NoReq]
        /\ UNCHANGED <<mgr, channels, player, stream, storage, pusher, ports, waits, kept, requests, faults>>

\* A pusher of the channel is closed, by a request that waits for it or by one
\* that removes its last stream and does not.  (What the other requests to a
\* pusher do is in FramePath and HistoryPusher.)
ClosePusher(c, kind) ==
    /\ Found(c)
    /\ \E u \in Mapped(channels, kind) :
          /\ pusher' = [pusher EXCEPT ![u].life = Closing(@)]
          /\ CloseAndWait(c, Ref("pusher", u))
    /\ UNCHANGED <<chan, player, stream, storage, ports>>

RemoveLastStream(c, kind) ==
    /\ Found(c)
    /\ \E u \in Mapped(channels, kind) : pusher' = [pusher EXCEPT ![u].life = Closing(@)]
    /\ Done /\ UNCHANGED <<chan, player, stream, storage, ports>>

PusherRequest(c) ==
    "pusher" \in scene.kinds /\ (OpenPusher(c, "rtp") \/ ClosePusher(c, "rtp") \/ RemoveLastStream(c, "rtp"))

HistoryRequest(c) ==
    /\ "history" \in scene.kinds
    /\ OpenPusher(c, "history") \/ ClosePusher(c, "history") \/ RemoveLastStream(c, "history")

\* The answer to a request that waited.
Answer(c) == Wake(Ref("client", c)) /\ UNCHANGED <<mgr, channels, objects, req, kept, requests, faults>>

-----------------------------------------------------------------------------
CInit ==
    /\ mgr = "running" /\ channels = 0
    /\ chan = [i \in Channels |-> [NewChannel("api") EXCEPT !.life = "closed"]]
    /\ player = [p \in Players |-> NoPlayer] /\ stream = [s \in Streams |-> NoStream]
    /\ storage = [s \in Storages |-> NoStorage] /\ pusher = [u \in Pushers |-> NoPusher]
    /\ ports = Ports
    /\ req = [c \in Clients |-> NoReq] /\ waits = [t \in Threads |-> {}] /\ kept = {}
    /\ scene \in Scenes /\ requests = 0 /\ faults = 0

Request(c) == /\ UNCHANGED scene
              /\ \/ ChannelRequest(c) \/ PlayerRequest(c) \/ StorageRequest(c)
                 \/ PusherRequest(c) \/ HistoryRequest(c)

\* What the objects do by themselves.
Events ==
    /\ faults < scene.faults /\ faults' = faults + 1
    /\ \/ \E s \in Streams : StreamLost(s)
       \/ \E p \in Players : HandlerEnds(p)
       \/ \E s \in Storages : StorageFails(s)
       \/ \E u \in Pushers : PusherEnds(u)
    /\ UNCHANGED <<mgr, channels, req, waits, kept, scene, requests>>

Ending ==
    /\ \/ \E p \in Players : PlayerEmpty(p)
       \/ \E s \in Storages : StorageStarted(s) \/ StorageEnd(s)
       \/ \E u \in Pushers : PusherEnd(u)
    /\ UNCHANGED <<mgr, channels, req, waits, kept, requests, faults>>

Serving == /\ UNCHANGED scene
           /\ \/ \E c \in Clients : Answer(c) \/ StorePusher(c) \/ OpenHistoryFails(c)
              \/ \E i \in Channels : ChannelStep(i)
              \/ \E p \in Players : PlayerStep(p)
              \/ ManagerRun \/ ManagerWake \/ Ending
=============================================================================
