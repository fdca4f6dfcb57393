---------------------------- MODULE MediaServer ----------------------------
(***************************************************************************)
(* The media channels together with the Zongheng integration               *)
(* (zongheng/channel-manager.go) and the application (app/app.go).         *)
(*                                                                         *)
(* The Zongheng channel manager reads the devices' channels from a         *)
(* database, makes a media channel for each, sees to it that it is stored, *)
(* recorded and played, and looks again whenever its timer fires or a      *)
(* synchronisation is asked for.  The HTTP API works on the same media     *)
(* channels at the same time.  The application stops and starts them all.  *)
(* There is one device channel, and its id is that of the media channel.   *)
(***************************************************************************)
EXTENDS MediaChannel

VARIABLES
    table,          \* is the device's channel in the tables, and online?
    changes,        \* how often that has changed
    zh,             \* the manager: [pc, task, timed, want, mine, remove, player, stream]
    signal,         \* syncSignal
    app,            \* what the application is doing
    restarts        \* how often it was restarted

svars == <<cvars, table, changes, zh, signal, app, restarts>>

Zh == Ref("zongheng", 0)
outer == <<scene, table, changes, app, restarts>>

\* What the manager has a pointer to.
Kept(z) == {Ref("channel", i) : i \in ({z.mine} \union z.remove) \ {0}}
           \union (IF z.pc = "stream" THEN {Ref("player", z.player)} ELSE {})
           \union (IF z.pc \in {"start", "setup"} THEN {Ref("stream", z.stream)} ELSE {})

-----------------------------------------------------------------------------
(* syncChannels.                                                           *)

Goto(pc) == zh' = [zh EXCEPT !.pc = pc]

\* The tables are read and joined: is there a channel to have?
SyncLoad ==
    /\ zh.pc = "load"
    /\ zh' = [zh EXCEPT !.pc = "compare", !.want = table]
    /\ UNCHANGED <<mgr, channels, objects, req, waits, requests, faults, signal, outer>>

\* A query fails.  When the application starts, that ends it.
SyncLoadFails ==
    /\ zh.pc = "load"
    /\ faults < scene.faults /\ faults' = faults + 1
    /\ IF zh.task = "start" THEN app' = "exited" /\ UNCHANGED zh ELSE Goto("run") /\ UNCHANGED app
    /\ UNCHANGED <<mgr, channels, objects, req, waits, requests, signal, scene, table, changes, restarts>>

Keep(mine, remove) ==
    zh' = [zh EXCEPT !.pc = IF mine = 0 THEN "close" ELSE "storage", !.mine = mine, !.remove = remove]

\* Plausible bug: the channel that Create found is taken over.
SyncTakeAny ==
    /\ zh.mine = 0 /\ channels # 0
    /\ Keep(channels, {})
    /\ UNCHANGED <<mgr, channels, objects>>

\* Create finds a channel it has not made: the device is left alone.
SyncTake ==
    /\ zh.mine = 0 /\ channels # 0
    /\ Keep(0, {})
    /\ UNCHANGED <<mgr, channels, objects>>

\* The channels that are there and those that should be: Create is called for
\* every one.  It may find the channel, make it, or make another one for a
\* channel that has been deleted: then the old one is removed and the new one
\* left alone.
SyncCompare ==
    /\ zh.pc = "compare"
    /\ \/ /\ zh.want /\ zh.mine # 0 /\ zh.mine = channels
          /\ Keep(zh.mine, {}) /\ UNCHANGED <<mgr, channels, objects>>
       \/ /\ zh.want /\ zh.mine # 0 /\ channels = 0 /\ Create("zongheng") /\ Keep(0, {zh.mine})
       \/ /\ zh.want /\ zh.mine # 0 /\ channels \notin {0, zh.mine}
          /\ Keep(0, {zh.mine}) /\ UNCHANGED <<mgr, channels, objects>>
       \/ zh.want /\ SyncTake
       \/ zh.want /\ zh.mine = 0 /\ channels = 0 /\ Create("zongheng") /\ Keep(channels', {})
       \/ ~zh.want /\ Keep(0, {zh.mine} \ {0}) /\ UNCHANGED <<mgr, channels, objects>>
    /\ UNCHANGED <<req, waits, requests, faults, signal, outer>>

\* closeChannels: StopStream and Close, then the wait.
SyncClose ==
    /\ zh.pc = "close"
    /\ \A i \in zh.remove : ~Locked(i)
    /\ chan' = [i \in Channels |-> IF i \in zh.remove THEN [chan[i] EXCEPT !.life = Closing(@)] ELSE chan[i]]
    /\ waits' = [waits EXCEPT ![Zh] = {Ref("channel", i) : i \in zh.remove}]
    /\ Goto("closed")
    /\ UNCHANGED <<mgr, channels, player, stream, storage, pusher, ports, req, requests, faults,
                   signal, outer>>

\* At the end of syncChannels the signal is taken, whoever gave it meanwhile.
SyncEnd ==
    /\ zh.pc = "closed" /\ waits[Zh] = {}
    /\ zh' = [zh EXCEPT !.pc = IF zh.task = "stop" THEN "ended" ELSE "run", !.remove = {}]
    /\ signal' = IF zh.task = "stop" THEN signal ELSE FALSE
    /\ UNCHANGED <<mgr, channels, objects, req, waits, requests, faults, outer>>

-----------------------------------------------------------------------------
(* checkChannel.                                                           *)

CheckDone == zh' = [zh EXCEPT !.pc = IF zh.task = "check" THEN "run" ELSE "close", !.player = 0, !.stream = 0]

CheckStorage ==
    /\ zh.pc = "storage"
    /\ \/ chan[zh.mine].life # "running" /\ CheckDone /\ UNCHANGED <<chan, storage>>
       \/ SetupStorage(zh.mine) /\ Goto("record")
    /\ UNCHANGED <<mgr, channels, player, stream, pusher, ports, req, waits, requests, faults, signal, outer>>

CheckRecord ==
    /\ zh.pc = "record"
    /\ \/ chan[zh.mine].life # "running" /\ CheckDone /\ UNCHANGED chan
       \/ Record(zh.mine, TRUE) /\ Goto("open")
    /\ UNCHANGED <<mgr, channels, player, stream, storage, pusher, ports, req, waits, requests, faults,
                   signal, outer>>

\* A player that exists already is left as it is.
CheckOpen ==
    /\ zh.pc = "open"
    /\ \/ /\ chan[zh.mine].life # "running" \/ chan[zh.mine].player # 0
          /\ CheckDone /\ UNCHANGED <<chan, player>>
       \/ OpenPlayer(zh.mine, FALSE) /\ zh' = [zh EXCEPT !.pc = "stream", !.player = chan'[zh.mine].player]
    /\ UNCHANGED <<mgr, channels, stream, storage, pusher, ports, req, waits, requests, faults, signal, outer>>

CheckStream ==
    /\ zh.pc = "stream"
    /\ \/ player[zh.player].life # "running" /\ Goto("failed") /\ UNCHANGED <<stream, ports>>
       \/ AddStream(zh.player, FALSE) /\ zh' = [zh EXCEPT !.pc = "start", !.stream = Min(FreeStreams)]
    /\ UNCHANGED <<mgr, channels, chan, player, storage, pusher, req, waits, requests, faults, signal, outer>>

\* The goroutine: StartStream of the endpoint, which may fail, and Setup, which
\* fails when the stream has been removed.
CheckStart ==
    /\ zh.pc = "start"
    /\ \/ Goto("setup") /\ UNCHANGED faults
       \/ faults < scene.faults /\ faults' = faults + 1 /\ Goto("failed")
    /\ UNCHANGED <<mgr, channels, objects, req, waits, requests, signal, outer>>

CheckSetup ==
    /\ zh.pc = "setup"
    /\ IF stream[zh.stream].state = "added"
       THEN stream' = [stream EXCEPT ![zh.stream].state = "up"] /\ CheckDone
       ELSE Goto("failed") /\ UNCHANGED stream
    /\ UNCHANGED <<mgr, channels, chan, player, storage, pusher, ports, req, waits, requests, faults,
                   signal, outer>>

\* Plausible bug: the deferred CloseRtpPlayer is missing.
CheckFailedKeep ==
    /\ zh.pc = "failed" /\ Goto("failing")
    /\ UNCHANGED <<mgr, channels, objects, req, waits, requests, faults, signal, outer>>

\* CloseRtpPlayer of whatever player the channel has now, and the wait.
CheckFailed ==
    LET p == chan[zh.mine].player
    IN  /\ zh.pc = "failed"
        /\ IF p = 0 THEN UNCHANGED <<player, waits>>
           ELSE /\ player' = [player EXCEPT ![p].life = Closing(@)]
                /\ waits' = [waits EXCEPT ![Zh] = {Ref("player", p)}]
        /\ Goto("failing")
        /\ UNCHANGED <<mgr, channels, chan, stream, storage, pusher, ports, req, requests, faults, signal, outer>>

CheckFailing ==
    /\ zh.pc = "failing" /\ waits[Zh] = {}
    /\ CheckDone
    /\ UNCHANGED <<mgr, channels, objects, req, waits, requests, faults, signal, outer>>

-----------------------------------------------------------------------------
(* run, Sync, and the application.                                         *)

\* The timer fires, or a synchronisation is asked for.
Timer ==
    /\ zh.pc = "run" /\ app \in {"up", "api"}
    /\ zh' = IF zh.timed THEN [zh EXCEPT !.pc = "load", !.task = "sync"]
             ELSE [zh EXCEPT !.pc = IF zh.mine = 0 THEN "run" ELSE "storage", !.task = "check"]
    /\ UNCHANGED <<cvars, signal, table, changes, app, restarts>>

Signalled ==
    /\ zh.pc = "run" /\ signal
    /\ zh' = [zh EXCEPT !.pc = "load", !.task = "sync"]
    /\ signal' = FALSE
    /\ UNCHANGED <<cvars, table, changes, app, restarts>>

\* Interrupted: its channels are closed, but stay in its map.
Interrupted ==
    /\ zh.pc = "run" /\ app = "zongheng"
    /\ zh' = [zh EXCEPT !.pc = "close", !.task = "stop", !.remove = {zh.mine} \ {0}]
    /\ UNCHANGED <<cvars, signal, table, changes, app, restarts>>

ZhWake == Wake(Zh) /\ UNCHANGED <<mgr, channels, objects, req, kept, requests, faults, zh, signal, outer>>

\* The API's request for a synchronisation, refused while one waits.
SyncRequest ==
    /\ app = "up" /\ requests < scene.requests /\ "sync" \in scene.kinds /\ ~signal
    /\ signal' = TRUE /\ requests' = requests + 1
    /\ UNCHANGED <<mgr, channels, objects, req, waits, kept, faults, zh, outer>>

ApiRequest(c) == app = "up" /\ Request(c) /\ UNCHANGED <<zh, signal, outer>>

\* The device goes online or offline.
TableChange ==
    /\ changes < scene.changes /\ app # "exited"
    /\ table' = ~table /\ changes' = changes + 1
    /\ UNCHANGED <<cvars, zh, signal, app, restarts>>

\* The list of components is started: the Zongheng manager has synchronised
\* once.  run goes on; but the waiter it took before a restart has been given
\* the end of the list then, and now makes it return.
Started ==
    /\ app = "starting" /\ zh.pc = "run"
    /\ app' = IF restarts = 0 THEN "up" ELSE "exited"
    /\ UNCHANGED <<cvars, zh, signal, table, changes, restarts>>

\* A restart or a stop: the components are closed in the reverse of the order
\* they were started in, each once the one before is closed; the API server
\* first lets its requests end.
Restart ==
    /\ app = "up" /\ restarts < scene.restarts
    /\ app' = "api" /\ restarts' = restarts + 1
    /\ UNCHANGED <<cvars, zh, signal, table, changes>>

ApiClosed ==
    /\ app = "api" /\ \A c \in Clients : req[c].pc = "idle" /\ waits[Ref("client", c)] = {}
    /\ app' = "zongheng"
    /\ UNCHANGED <<cvars, zh, signal, table, changes, restarts>>

ZonghengClosed ==
    /\ app = "zongheng" /\ zh.pc = "ended"
    /\ app' = "media" /\ mgr' = "closing"
    /\ UNCHANGED <<channels, objects, req, waits, kept, scene, requests, faults, zh, signal, table, changes, restarts>>

\* Everything is closed: the process exits, or starts everything again.
MediaClosed ==
    /\ app = "media" /\ mgr = "closed"
    /\ \/ app' = "exited" /\ UNCHANGED <<mgr, zh>>
       \/ app' = "starting" /\ mgr' = "running" /\ zh' = [zh EXCEPT !.pc = "load", !.task = "start"]
    /\ UNCHANGED <<channels, objects, req, waits, kept, scene, requests, faults, signal, table, changes, restarts>>

-----------------------------------------------------------------------------
SInit ==
    /\ CInit
    /\ table = TRUE /\ changes = 0 /\ signal = FALSE /\ app = "starting" /\ restarts = 0
    /\ \E timed \in BOOLEAN :
          zh = [pc |-> "load", task |-> "start", timed |-> timed, want |-> FALSE,
                mine |-> 0, remove |-> {}, player |-> 0, stream |-> 0]

Working  == \/ SyncLoad \/ SyncLoadFails \/ SyncCompare \/ SyncClose \/ SyncEnd
            \/ CheckStorage \/ CheckRecord \/ CheckOpen \/ CheckStream
            \/ CheckStart \/ CheckSetup \/ CheckFailed \/ CheckFailing

Zongheng == app # "exited" /\ ((Working /\ kept' = Kept(zh')) \/ Signalled \/ Interrupted \/ ZhWake)

Application == Started \/ ApiClosed \/ ZonghengClosed \/ MediaClosed

Media == app # "exited" /\ Serving /\ UNCHANGED <<zh, signal, table, changes, app, restarts>>

SNext == \/ Zongheng \/ Timer \/ Application \/ Media
         \/ app # "exited" /\ Events /\ UNCHANGED <<zh, signal, outer>>
         \/ \E c \in Clients : ApiRequest(c)
         \/ SyncRequest \/ TableChange \/ Restart

SSpec == SInit /\ [][SNext]_svars

\* Goroutines run, and the timer is set again after each look.
SFairSpec == SSpec /\ WF_svars(Media) /\ WF_svars(Zongheng) /\ WF_svars(Timer) /\ WF_svars(Application)

-----------------------------------------------------------------------------
(* Properties.                                                             *)

\* Whatever runs can be reached, and so be closed: the manager knows the
\* channel, the channel its player, its storage session and, as long as
\* allocRtpPusherId has not given one number twice ("twice"), its pushers.
Reachable ==
    /\ \A i \in Channels : chan[i].life # "closed" => channels = i
    /\ \A p \in Players : player[p].life # "closed" => chan[player[p].chan].player = p
    /\ \A s \in Storages : storage[s].life # "closed" => chan[storage[s].chan].storage = s
    /\ \A u \in Pushers : (pusher[u].life # "closed" /\ ~chan[pusher[u].chan].twice)
          => u \in Mapped(pusher[u].chan, pusher[u].kind)

\* Channel.run and RtpPlayer.run leave nothing behind: a closed channel has no
\* player, storage session or RTP pusher, a closed player has no stream but one
\* that was added while it was ending by itself, and every UDP server is free
\* or has a stream.
ClosedClean ==
    /\ \A i \in Channels : chan[i].life = "closed" =>
          /\ \A p \in Players : player[p].life # "closed" => player[p].chan # i
          /\ \A s \in Storages : storage[s].life # "closed" => storage[s].chan # i
          /\ \A u \in Pushers : (pusher[u].life # "closed" /\ pusher[u].kind = "rtp" /\ ~chan[i].twice)
                => pusher[u].chan # i
    /\ \A s \in Streams : (stream[s].state # "none" /\ ~stream[s].late)
          => player[stream[s].player].life # "closed"
    /\ ports + Cardinality({s \in Streams : stream[s].udp}) = Ports

\* The Zongheng manager only works on media channels it has made itself.
NotTakenOver == \A i \in {zh.mine} \union zh.remove : i # 0 => chan[i].by = "zongheng"

\* Nobody waits for ever, although lifecycles end each other: every request is
\* answered, and a restart or stop gets through.  (There are only so many requests, so
\* that again and again none waits.)
WaitsEnd == []<>(app = "exited" \/ (app = "up" /\ \A c \in Clients : waits[Ref("client", c)] = {}))

Has == /\ app = "up" /\ zh.mine # 0 /\ zh.mine = channels /\ chan[zh.mine].life = "running"
       /\ chan[zh.mine].player # 0 => ~player[chan[zh.mine].player].api

Recording ==
    LET k == chan[zh.mine]
    IN  /\ k.record /\ k.storage # 0 /\ k.player # 0
        /\ \E s \in StreamsOf(k.player) : stream[s].state = "up"

\* Whatever the API stopped and whatever failed: as long as the Zongheng
\* manager has its media channel, and the API does not work on the channel's
\* player, the device is recorded again.
Recovers == Has ~> (~Has \/ Recording)
=============================================================================
