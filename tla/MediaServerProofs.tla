-------------------------- MODULE MediaServerProofs --------------------------
(***************************************************************************)
(* Proofs about MediaServer: whatever runs can be reached, nothing is left *)
(* behind by what is closed, and the Zongheng manager works on its own     *)
(* channels only, for any number of clients, channels and faults.          *)
(***************************************************************************)
EXTENDS MediaServer, OrderLemmas

-----------------------------------------------------------------------------
(* Types.                                                                  *)

Zero(S) == S \union {0}

ChanRec    == [life : {"running", "closing", "closed"}, run : {"idle", "pushers", "player", "storage"},
               by : {"api", "zongheng"}, record : BOOLEAN, player : Zero(Players), storage : Zero(Storages),
               next : [Kinds -> Nat], map : [Kinds -> SUBSET (Nat \X Pushers)], twice : BOOLEAN]
PlayerRec  == [life : {"running", "closing", "closed"}, chan : Zero(Channels),
               run : {"idle", "ended", "pushers", "streams"}, todo : SUBSET Streams,
               empty : BOOLEAN, api : BOOLEAN]
StreamRec  == [state : {"none", "added", "up"}, chan : Zero(Channels), player : Zero(Players),
               udp : BOOLEAN, late : BOOLEAN]
StorageRec == [life : {"starting", "running", "closing", "closed"}, chan : Zero(Channels)]
PusherRec  == [life : {"running", "closing", "closed"}, chan : Zero(Channels), kind : Kinds, id : Nat]
ReqRec     == [pc : {"idle", "opening"}, chan : Zero(Channels), kind : Kinds, val : Nat]

ChanT    == channels \in Zero(Channels) /\ chan \in [Channels -> ChanRec]
PlayerT  == player \in [Players -> PlayerRec]
StreamT  == stream \in [Streams -> StreamRec]
StorageT == storage \in [Storages -> StorageRec]
PusherT  == pusher \in [Pushers -> PusherRec]
ReqT     == req \in [Clients -> ReqRec]
WaitT    == waits = [t \in Threads |-> waits[t]]

ObjTypes == ChanT /\ PlayerT /\ StreamT /\ StorageT /\ PusherT /\ ReqT /\ WaitT

-----------------------------------------------------------------------------
(* The invariant.                                                          *)

\* What a channel waits for while it is closed.
ChanWaits(i) == waits[Ref("channel", i)]

\* The manager has the channel that is not closed, and a channel whose run is
\* at work is being closed.
LivesOK ==
    \A i \in Channels : /\ chan[i].life # "closed" => channels = i
                        /\ chan[i].run # "idle" => chan[i].life = "closing"

\* A player is its channel's; once the channel's run has come to the player it
\* waits for it, so that the channel is not closed before.
PlayerOK(p) ==
    LET i == player[p].chan
    IN  /\ i \in Channels /\ chan[i].player = p
        /\ chan[i].life # "closed" /\ chan[i].run # "storage"
        /\ chan[i].run = "player" => Ref("player", p) \in ChanWaits(i)

PlayersOK ==
    \A p \in Players : /\ player[p].life # "closed" => PlayerOK(p)
                       /\ player[p].run # "idle" => player[p].life # "closed"

\* The same for a storage session.
StorageOK(s) ==
    LET i == storage[s].chan
    IN  /\ i \in Channels /\ chan[i].storage = s
        /\ chan[i].life # "closed"
        /\ chan[i].run = "storage" => Ref("storage", s) \in ChanWaits(i)

StoragesOK == \A s \in Storages : storage[s].life # "closed" => StorageOK(s)

\* A pusher is in its channel's map under its number, and an RTP pusher is
\* waited for, as long as no number was given twice.
PusherOK(u) ==
    LET i == pusher[u].chan
    IN  /\ i \in Channels
        /\ ~chan[i].twice =>
              /\ <<pusher[u].id, u>> \in chan[i].map[pusher[u].kind]
              /\ pusher[u].kind = "rtp" =>
                    /\ chan[i].life # "closed" /\ chan[i].run \in {"idle", "pushers"}
                    /\ chan[i].run = "pushers" => Ref("pusher", u) \in ChanWaits(i)

PushersOK == \A u \in Pushers : pusher[u].life # "closed" => PusherOK(u)

\* A number is in the map once, and none is larger than the last one given.
MapsOK ==
    \A i \in Channels : \A k \in Kinds :
        /\ \A e, f \in chan[i].map[k] : e[1] = f[1] => e = f
        /\ ~chan[i].twice => \A e \in chan[i].map[k] : e[1] <= chan[i].next[k]

\* A request that opens a pusher keeps its channel from being closed.
ReqsOK ==
    \A c \in Clients : req[c].pc = "opening" =>
        /\ req[c].chan \in Channels /\ chan[req[c].chan].life = "running"
        /\ ~chan[req[c].chan].twice => req[c].val <= chan[req[c].chan].next[req[c].kind]

\* A stream has a player, and one that is ending has still to remove it; only
\* a stream that was added too late is left over.
StreamOK(s) ==
    LET p == stream[s].player
    IN  /\ p \in Players /\ player[p].life # "closed"
        /\ player[p].run = "streams" => s \in player[p].todo

StreamsOK ==
    \A s \in Streams : /\ (stream[s].state # "none" /\ ~stream[s].late) => StreamOK(s)
                       /\ stream[s].state = "none" => ~stream[s].udp

Udp == {s \in Streams : stream[s].udp}
PortsOK == ports \in Nat /\ ports + Cardinality(Udp) = Ports

ObjInv == /\ ObjTypes /\ LivesOK /\ PlayersOK /\ StoragesOK /\ PushersOK /\ MapsOK /\ ReqsOK
          /\ StreamsOK /\ PortsOK

\* The Zongheng manager: what it works on is there, and the channels it knows
\* are its own and kept for it.
ZhRec == [pc : {"load", "compare", "close", "closed", "run", "ended", "storage", "record", "open",
                "stream", "start", "setup", "failed", "failing"},
          task : {"start", "sync", "check", "stop"}, timed : BOOLEAN, want : BOOLEAN,
          mine : Zero(Channels), remove : SUBSET Channels, player : Zero(Players), stream : Zero(Streams)]

ZhT == zh \in ZhRec /\ table \in BOOLEAN

ZhMine == ({zh.mine} \union zh.remove) \ {0}

ZhOK ==
    /\ zh.pc \in {"storage", "record", "open", "stream", "start", "setup", "failed", "failing"} => zh.mine # 0
    /\ zh.pc = "stream" => zh.player # 0
    /\ zh.pc \in {"start", "setup"} => zh.stream # 0
    /\ \A i \in ZhMine : Ref("channel", i) \in kept /\ chan[i].by = "zongheng"

ServerInv == ObjInv /\ ZhT /\ ZhOK

-----------------------------------------------------------------------------
(* Steps that do not matter to a part of the invariant.                    *)

WaitsKept == \A i \in Channels : ChanWaits(i)' = ChanWaits(i)
LivesKept == \A i \in Channels : chan'[i].life = chan[i].life /\ chan'[i].run = chan[i].run
MapsKept  == \A i \in Channels : chan'[i].map = chan[i].map /\ chan'[i].next = chan[i].next
                                 /\ chan'[i].twice = chan[i].twice

\* The numbers of the objects.
LEMMA Numbers ==
    /\ 0 \notin Channels /\ 0 \notin Players /\ 0 \notin Streams /\ 0 \notin Storages /\ 0 \notin Pushers
    /\ Channels \subseteq Nat /\ Players \subseteq Nat /\ Streams \subseteq Nat
    /\ Storages \subseteq Nat /\ Pushers \subseteq Nat /\ Clients \subseteq Nat
    BY ChannelAssumption

\* A free number is chosen.
LEMMA MinFacts ==
    ASSUME NEW S, S \subseteq Nat, S # {}
    PROVE  Min(S) \in S
<1>1. \E m \in S : \A n \in S : m <= n
    BY LeastNat
<1> QED BY <1>1 DEF Min

\* One object of many is changed.
LEMMA SetOne ==
    ASSUME NEW S, NEW R, NEW f \in [S -> R], NEW i \in S, NEW r \in R
    PROVE  /\ [f EXCEPT ![i] = r] \in [S -> R] /\ [f EXCEPT ![i] = r][i] = r
           /\ \A j \in S : j # i => [f EXCEPT ![i] = r][j] = f[j]
    OBVIOUS

\* Channels whose lives are as before.
LEMMA LivesSame ==
    ASSUME LivesOK, LivesKept, channels' = channels
    PROVE  LivesOK'
    BY DEF LivesOK, LivesKept

\* Players, when nothing of theirs or their channels changes but lives that go
\* on or end.
LEMMA PlayersSame ==
    ASSUME PlayersOK, LivesKept, WaitsKept, \A i \in Channels : chan'[i].player = chan[i].player,
           \A p \in Players : /\ player'[p].life = "closed" <=> player[p].life = "closed"
                              /\ player'[p].chan = player[p].chan
                              /\ player'[p].run = player[p].run \/ player[p].life # "closed"
    PROVE  PlayersOK'
    BY DEF PlayersOK, PlayerOK, LivesKept, WaitsKept

\* Storage sessions.
LEMMA StoragesSame ==
    ASSUME StoragesOK, LivesKept, WaitsKept, \A i \in Channels : chan'[i].storage = chan[i].storage,
           \A s \in Storages : /\ storage'[s].life # "closed" => storage[s].life # "closed"
                               /\ storage'[s].chan = storage[s].chan
    PROVE  StoragesOK'
    BY DEF StoragesOK, StorageOK, LivesKept, WaitsKept

\* Pushers.
LEMMA PushersSame ==
    ASSUME PushersOK, LivesKept, WaitsKept, MapsKept,
           \A u \in Pushers : /\ pusher'[u].life # "closed" => pusher[u].life # "closed"
                              /\ pusher'[u].chan = pusher[u].chan /\ pusher'[u].kind = pusher[u].kind
                              /\ pusher'[u].id = pusher[u].id
    PROVE  PushersOK'
    BY DEF PushersOK, PusherOK, LivesKept, WaitsKept, MapsKept

\* Maps and the requests that are about to change them.
LEMMA MapsSame ==
    ASSUME MapsOK, MapsKept
    PROVE  MapsOK'
    BY DEF MapsOK, MapsKept

\* Requests that open a pusher, when no channel stops running.
LEMMA ReqsSame ==
    ASSUME ReqsOK, MapsKept, req' = req, \A i \in Channels : chan[i].life = "running" => chan'[i].life = "running"
    PROVE  ReqsOK'
    BY DEF ReqsOK, MapsKept

\* Streams, when their players go on and none of them comes to its streams.
LEMMA StreamsSame ==
    ASSUME StreamsOK, stream' = stream,
           \A p \in Players : /\ player[p].life # "closed" => player'[p].life # "closed"
                              /\ player'[p].run = "streams" =>
                                    player[p].run = "streams" /\ player[p].todo \subseteq player'[p].todo
    PROVE  StreamsOK'
    BY DEF StreamsOK, StreamOK

\* UDP servers.
LEMMA PortsSame ==
    ASSUME PortsOK, \A s \in Streams : stream'[s].udp = stream[s].udp, ports' = ports
    PROVE  PortsOK'
<1>1. Udp' = Udp
    BY DEF Udp
<1> QED BY <1>1 DEF PortsOK

-----------------------------------------------------------------------------
(* The steps of the objects.                                               *)

\* The types that the proofs below need.
LEMMA ChanTypes ==
    ASSUME ObjInv
    PROVE  /\ channels \in Zero(Channels) /\ chan \in [Channels -> ChanRec] /\ player \in [Players -> PlayerRec]
           /\ stream \in [Streams -> StreamRec] /\ storage \in [Storages -> StorageRec]
           /\ pusher \in [Pushers -> PusherRec] /\ req \in [Clients -> ReqRec]
           /\ waits = [t \in Threads |-> waits[t]]
    BY DEF ObjInv, ObjTypes, ChanT, PlayerT, StreamT, StorageT, PusherT, ReqT, WaitT

\* Close of a lifecycle.
LEMMA ClosingFacts ==
    ASSUME NEW x
    PROVE  /\ Closing(x) = "closed" <=> x = "closed"
           /\ Closing(x) # "running" /\ Closing(x) # "starting"
           /\ x = "closing" => Closing(x) = "closing"
           /\ x \in {"running", "closing", "closed"} => Closing(x) \in {"closing", "closed"}
           /\ x \in {"starting", "running", "closing", "closed"} => Closing(x) \in {"closing", "closed"}
    BY DEF Closing

\* A thread that is no channel's begins or ends to wait.
LEMMA WaitsOfOther ==
    ASSUME WaitT, NEW t \in Threads, \A i \in Channels : t # Ref("channel", i), NEW w,
           waits' = [waits EXCEPT ![t] = w]
    PROVE  WaitT' /\ WaitsKept
<1>1. /\ waits' = [u \in Threads |-> waits'[u]]
      /\ \A u \in Threads : u # t => waits'[u] = waits[u]
    BY DEF WaitT
<1>2. \A i \in Channels : Ref("channel", i) \in Threads
    BY DEF Threads
<1> QED BY <1>1, <1>2 DEF WaitT, WaitsKept, ChanWaits

\* The threads of clients, players and managers are no channel's.
LEMMA OtherThreads ==
    /\ \A c \in Clients : Ref("client", c) \in Threads /\ \A i : Ref("client", c) # Ref("channel", i)
    /\ \A p \in Players : Ref("player", p) \in Threads /\ \A i : Ref("player", p) # Ref("channel", i)
    /\ Manager \in Threads /\ \A i : Manager # Ref("channel", i)
    /\ Zh \in Threads /\ \A i : Zh # Ref("channel", i)
    /\ \A i \in Channels : Ref("channel", i) \in Threads /\ \A j : Ref("channel", i) = Ref("channel", j) => i = j
    BY DEF Threads, Ref, Manager, Zh

\* Nothing happens to the objects.
LEMMA QuietStep ==
    ASSUME ObjInv, UNCHANGED <<channels, objects, req>>, WaitT', WaitsKept
    PROVE  ObjInv'
<1>1. UNCHANGED <<channels, chan, player, stream, storage, pusher, ports, req>>
    BY DEF objects
<1>2. ObjTypes'
    BY <1>1 DEF ObjInv, ObjTypes, ChanT, PlayerT, StreamT, StorageT, PusherT, ReqT
<1>3. LivesKept /\ MapsKept
    BY <1>1 DEF LivesKept, MapsKept
<1>4. LivesOK' /\ MapsOK' /\ ReqsOK'
    BY <1>1, <1>3, LivesSame, MapsSame, ReqsSame DEF ObjInv
<1>5. PlayersOK' /\ StoragesOK'
    BY <1>1, <1>3, PlayersSame, StoragesSame DEF ObjInv
<1>6. PushersOK'
    BY <1>1, <1>3, PushersSame DEF ObjInv
<1>7. StreamsOK' /\ PortsOK'
    BY <1>1, StreamsSame, PortsSame DEF ObjInv
<1> QED BY <1>2, <1>4, <1>5, <1>6, <1>7 DEF ObjInv

\* Create: no object is left that calls the number of the new channel its own.
LEMMA CreateStep ==
    ASSUME ObjInv, NEW by \in {"api", "zongheng"}, Create(by), req' = req, WaitT', WaitsKept
    PROVE  /\ ObjInv'
           /\ channels' \in Channels /\ chan'[channels'].by = by /\ Ref("channel", channels') \notin kept
           /\ \A i \in Channels : i # channels' => chan'[i] = chan[i]
<1> DEFINE n == channels'
<1>0. /\ channels = 0 /\ n = Min(FreeChannels) /\ FreeChannels # {}
      /\ chan' = [chan EXCEPT ![n] = NewChannel(by)]
      /\ UNCHANGED <<player, stream, storage, pusher, ports>>
    BY DEF Create
<1>t. chan \in [Channels -> ChanRec] /\ player \in [Players -> PlayerRec] /\ storage \in [Storages -> StorageRec]
      /\ pusher \in [Pushers -> PusherRec]
    BY ChanTypes
<1>1. n \in FreeChannels
    <2>1. FreeChannels \subseteq Nat
        BY Numbers DEF FreeChannels
    <2> QED BY <1>0, <2>1, MinFacts
<1> HIDE DEF n
<1>2. n \in Channels /\ chan[n].life = "closed" /\ Ref("channel", n) \notin kept /\ ~Owned(n)
    BY <1>1 DEF FreeChannels, Unused, Life, Ref
<1>3. /\ NewChannel(by) \in ChanRec /\ NewChannel(by).life = "running" /\ NewChannel(by).run = "idle"
      /\ NewChannel(by).by = by /\ NewChannel(by).player = 0 /\ NewChannel(by).storage = 0
      /\ NewChannel(by).twice = FALSE /\ \A k \in Kinds : NewChannel(by).map[k] = {}
    BY DEF NewChannel, ChanRec, Zero
<1>4. /\ chan' \in [Channels -> ChanRec] /\ chan'[n] = NewChannel(by)
      /\ \A i \in Channels : i # n => chan'[i] = chan[i]
    BY <1>0, <1>2, <1>3, <1>t, SetOne
<1>5. \A i \in Channels : chan[i].life = "closed"
    BY <1>0, Numbers DEF ObjInv, LivesOK
<1>6. /\ \A p \in Players : player[p].life # "closed" => player[p].chan # n
      /\ \A s \in Storages : storage[s].life # "closed" => storage[s].chan # n
      /\ \A u \in Pushers : pusher[u].life # "closed" => pusher[u].chan # n
    BY <1>2 DEF Owned
<1>7. ObjTypes'
    BY <1>0, <1>2, <1>4 DEF ObjInv, ObjTypes, ChanT, PlayerT, StreamT, StorageT, PusherT, ReqT, Zero, n
<1>8. LivesOK'
    <2> SUFFICES ASSUME NEW i \in Channels
                 PROVE  /\ chan'[i].life # "closed" => n = i
                        /\ chan'[i].run # "idle" => chan'[i].life = "closing"
        BY DEF LivesOK, n
    <2> QED BY <1>3, <1>4, <1>5 DEF ObjInv, LivesOK
<1>9. PlayersOK'
    BY <1>0, <1>4, <1>6 DEF ObjInv, PlayersOK, PlayerOK, WaitsKept
<1>10. StoragesOK'
    BY <1>0, <1>4, <1>6 DEF ObjInv, StoragesOK, StorageOK, WaitsKept
<1>11. PushersOK'
    BY <1>0, <1>4, <1>6 DEF ObjInv, PushersOK, PusherOK, WaitsKept
<1>12. MapsOK'
    <2> SUFFICES ASSUME NEW i \in Channels, NEW k \in Kinds
                 PROVE  /\ \A e, f \in chan'[i].map[k] : e[1] = f[1] => e = f
                        /\ ~chan'[i].twice => \A e \in chan'[i].map[k] : e[1] <= chan'[i].next[k]
        BY DEF MapsOK
    <2>1. CASE i = n
        BY <1>3, <1>4, <2>1
    <2>2. CASE i # n
        BY <1>4, <2>2 DEF ObjInv, MapsOK
    <2> QED BY <2>1, <2>2
<1>13. ReqsOK'
    <2>1. \A c \in Clients : req[c].pc # "opening"
        BY <1>5 DEF ObjInv, ReqsOK
    <2> QED BY <2>1 DEF ReqsOK
<1>14. StreamsOK' /\ PortsOK'
    BY <1>0, StreamsSame, PortsSame DEF ObjInv
<1> QED BY <1>2, <1>3, <1>4, <1>7, <1>8, <1>9, <1>10, <1>11, <1>12, <1>13, <1>14 DEF ObjInv, n

\* Close of channels that no request holds.
LEMMA CloseChannels ==
    ASSUME ObjInv, NEW R, \A i \in R \intersect Channels : ~Locked(i),
           chan' = [i \in Channels |-> IF i \in R THEN [chan[i] EXCEPT !.life = Closing(@)] ELSE chan[i]],
           UNCHANGED <<channels, player, stream, storage, pusher, ports, req>>, WaitT', WaitsKept
    PROVE  ObjInv' /\ \A i \in Channels : chan'[i].by = chan[i].by
<1>t. chan \in [Channels -> ChanRec]
    BY ChanTypes
<1>1. ASSUME NEW i \in Channels
      PROVE  /\ chan'[i] \in ChanRec /\ chan'[i].run = chan[i].run /\ chan'[i].by = chan[i].by
             /\ chan'[i].player = chan[i].player /\ chan'[i].storage = chan[i].storage
             /\ chan'[i].map = chan[i].map /\ chan'[i].next = chan[i].next /\ chan'[i].twice = chan[i].twice
             /\ i \in R => chan'[i].life = Closing(chan[i].life)
             /\ i \notin R => chan'[i].life = chan[i].life
             /\ chan'[i].life = "closed" <=> chan[i].life = "closed"
             /\ chan[i].life = "closing" => chan'[i].life = "closing"
    <2>1. chan[i] \in ChanRec
        BY <1>t
    <2>2. CASE i \in R
        <3>1. chan'[i] = [chan[i] EXCEPT !.life = Closing(chan[i].life)]
            BY <2>2
        <3>2. Closing(chan[i].life) \in {"running", "closing", "closed"}
            BY <2>1, ClosingFacts DEF ChanRec
        <3>3. /\ chan'[i] \in ChanRec /\ chan'[i].run = chan[i].run /\ chan'[i].by = chan[i].by
              /\ chan'[i].player = chan[i].player /\ chan'[i].storage = chan[i].storage
              /\ chan'[i].map = chan[i].map /\ chan'[i].next = chan[i].next /\ chan'[i].twice = chan[i].twice
              /\ chan'[i].life = Closing(chan[i].life)
            BY <2>1, <3>1, <3>2 DEF ChanRec
        <3> QED BY <2>2, <3>3, ClosingFacts
    <2>3. CASE i \notin R
        BY <2>1, <2>3
    <2> QED BY <2>2, <2>3
<1>2. chan' \in [Channels -> ChanRec]
    BY <1>1
<1>3. ObjTypes'
    BY <1>2 DEF ObjInv, ObjTypes, ChanT, PlayerT, StreamT, StorageT, PusherT, ReqT
<1>4. LivesOK'
    BY <1>1 DEF ObjInv, LivesOK
<1>5. PlayersOK' /\ StoragesOK'
    BY <1>1 DEF ObjInv, PlayersOK, PlayerOK, StoragesOK, StorageOK, WaitsKept
<1>6. PushersOK'
    BY <1>1 DEF ObjInv, PushersOK, PusherOK, WaitsKept
<1>7. MapsOK'
    BY <1>1, MapsSame DEF ObjInv, MapsKept
<1>8. ReqsOK'
    <2> SUFFICES ASSUME NEW c \in Clients, req[c].pc = "opening"
                 PROVE  /\ req[c].chan \in Channels /\ chan'[req[c].chan].life = "running"
                        /\ ~chan'[req[c].chan].twice => req[c].val <= chan'[req[c].chan].next[req[c].kind]
        BY DEF ReqsOK
    <2>1. /\ req[c].chan \in Channels /\ chan[req[c].chan].life = "running"
          /\ ~chan[req[c].chan].twice => req[c].val <= chan[req[c].chan].next[req[c].kind]
        BY DEF ObjInv, ReqsOK
    <2>2. req[c].chan \notin R
        BY <2>1 DEF Locked
    <2> QED BY <1>1, <2>1, <2>2
<1>9. StreamsOK' /\ PortsOK'
    BY StreamsSame, PortsSame DEF ObjInv
<1> QED BY <1>1, <1>3, <1>4, <1>5, <1>6, <1>7, <1>8, <1>9 DEF ObjInv

\* Channel.run goes on.
LEMMA SetRun ==
    ASSUME chan \in [Channels -> ChanRec], NEW i \in Channels,
           NEW x \in {"idle", "pushers", "player", "storage"}, NEW y \in {"running", "closing", "closed"},
           chan' = [chan EXCEPT ![i].life = y, ![i].run = x]
    PROVE  /\ chan' \in [Channels -> ChanRec] /\ chan'[i].run = x /\ chan'[i].life = y
           /\ \A j \in Channels : j # i => chan'[j] = chan[j]
           /\ \A j \in Channels : /\ chan'[j].by = chan[j].by
                                  /\ chan'[j].player = chan[j].player /\ chan'[j].storage = chan[j].storage
                                  /\ chan'[j].map = chan[j].map /\ chan'[j].next = chan[j].next
                                  /\ chan'[j].twice = chan[j].twice
<1> DEFINE r == [chan[i] EXCEPT !.life = y, !.run = x]
<1>1. chan' = [chan EXCEPT ![i] = r]
    OBVIOUS
<1>2. chan[i] \in ChanRec
    OBVIOUS
<1>3. /\ r \in ChanRec /\ r.run = x /\ r.life = y /\ r.by = chan[i].by
      /\ r.player = chan[i].player /\ r.storage = chan[i].storage
      /\ r.map = chan[i].map /\ r.next = chan[i].next /\ r.twice = chan[i].twice
    BY <1>2 DEF ChanRec
<1>4. chan \in [Channels -> ChanRec]
    OBVIOUS
<1> HIDE DEF r
<1>5. /\ chan' \in [Channels -> ChanRec] /\ chan'[i] = r
      /\ \A j \in Channels : j # i => chan'[j] = chan[j]
    BY ONLY <1>1, <1>3, <1>4, i \in Channels
<1> QED BY <1>3, <1>5

\* A channel begins to wait, or its wait ends.
LEMMA WaitsOfChannel ==
    ASSUME WaitT, NEW i \in Channels, NEW w, waits' = [waits EXCEPT ![Ref("channel", i)] = w]
    PROVE  WaitT' /\ ChanWaits(i)' = w /\ \A j \in Channels : j # i => ChanWaits(j)' = ChanWaits(j)
<1>1. \A j \in Channels : Ref("channel", j) \in Threads /\ (j # i => Ref("channel", j) # Ref("channel", i))
    BY OtherThreads
<1>2. /\ waits' = [u \in Threads |-> waits'[u]] /\ waits'[Ref("channel", i)] = w
      /\ \A u \in Threads : u # Ref("channel", i) => waits'[u] = waits[u]
    BY <1>1 DEF WaitT
<1> QED BY <1>1, <1>2 DEF WaitT, ChanWaits

\* Pushers are asked to close.
LEMMA ClosePushersFacts ==
    ASSUME PusherT, NEW us, pusher' = ClosePushers(us)
    PROVE  /\ PusherT'
           /\ \A u \in Pushers : /\ pusher'[u].life = "closed" <=> pusher[u].life = "closed"
                                 /\ pusher'[u].chan = pusher[u].chan /\ pusher'[u].kind = pusher[u].kind
                                 /\ pusher'[u].id = pusher[u].id
<1>1. ASSUME NEW u \in Pushers
      PROVE  /\ pusher'[u] \in PusherRec
             /\ pusher'[u].life = "closed" <=> pusher[u].life = "closed"
             /\ pusher'[u].chan = pusher[u].chan /\ pusher'[u].kind = pusher[u].kind
             /\ pusher'[u].id = pusher[u].id
    <2>1. pusher[u] \in PusherRec
        BY DEF PusherT
    <2>2. pusher'[u] = IF u \in us THEN [pusher[u] EXCEPT !.life = Closing(pusher[u].life)] ELSE pusher[u]
        BY DEF ClosePushers
    <2>3. Closing(pusher[u].life) \in {"running", "closing", "closed"}
          /\ (Closing(pusher[u].life) = "closed" <=> pusher[u].life = "closed")
        BY <2>1, ClosingFacts DEF PusherRec
    <2> QED BY <2>1, <2>2, <2>3 DEF PusherRec
<1>2. pusher' \in [Pushers -> PusherRec]
    BY <1>1 DEF ClosePushers
<1> QED BY <1>1, <1>2 DEF PusherT

\* The pushers of a channel that has given no number twice are in its map.
LEMMA PusherMapped ==
    ASSUME PushersOK, NEW u \in Pushers, pusher[u].life # "closed", ~chan[pusher[u].chan].twice
    PROVE  u \in Mapped(pusher[u].chan, pusher[u].kind)
<1>1. <<pusher[u].id, u>> \in chan[pusher[u].chan].map[pusher[u].kind]
    BY DEF PushersOK, PusherOK
<1> QED BY <1>1 DEF Mapped

\* Channel.run asks the RTP pushers to close.
LEMMA RunPushersStep ==
    ASSUME ObjInv, NEW i \in Channels, RunPushers(i), UNCHANGED <<channels, player, storage, stream, ports, req>>
    PROVE  ObjInv' /\ \A j \in Channels : chan'[j].by = chan[j].by
<1> DEFINE w == {Ref("pusher", u) : u \in Mapped(i, "rtp")}
<1>t. chan \in [Channels -> ChanRec] /\ WaitT /\ PusherT /\ pusher \in [Pushers -> PusherRec]
    BY ChanTypes DEF ObjInv, ObjTypes
<1>0. /\ chan[i].life = "closing" /\ chan[i].run = "idle" /\ pusher' = ClosePushers(Mapped(i, "rtp"))
      /\ chan' = [chan EXCEPT ![i].life = "closing", ![i].run = "pushers"]
      /\ waits' = [waits EXCEPT ![Ref("channel", i)] = w]
    <2>1. chan[i].life = "closing" /\ chan[i] \in ChanRec
        BY <1>t DEF RunPushers
    <2>2. [chan EXCEPT ![i].run = "pushers"] = [chan EXCEPT ![i].life = "closing", ![i].run = "pushers"]
        BY <1>t, <2>1 DEF ChanRec
    <2> QED BY <2>1, <2>2 DEF RunPushers
<1>1. /\ chan' \in [Channels -> ChanRec] /\ chan'[i].run = "pushers" /\ chan'[i].life = "closing"
      /\ \A j \in Channels : j # i => chan'[j] = chan[j]
      /\ \A j \in Channels : /\ chan'[j].by = chan[j].by
                             /\ chan'[j].player = chan[j].player /\ chan'[j].storage = chan[j].storage
                             /\ chan'[j].map = chan[j].map /\ chan'[j].next = chan[j].next
                             /\ chan'[j].twice = chan[j].twice
    BY <1>0, <1>t, SetRun
<1>2. WaitT' /\ ChanWaits(i)' = w /\ \A j \in Channels : j # i => ChanWaits(j)' = ChanWaits(j)
    BY <1>0, <1>t, WaitsOfChannel
<1>3. /\ PusherT'
      /\ \A u \in Pushers : /\ pusher'[u].life = "closed" <=> pusher[u].life = "closed"
                            /\ pusher'[u].chan = pusher[u].chan /\ pusher'[u].kind = pusher[u].kind
                            /\ pusher'[u].id = pusher[u].id
    BY <1>0, <1>t, ClosePushersFacts
<1>4. ObjTypes'
    BY <1>1, <1>2, <1>3 DEF ObjInv, ObjTypes, ChanT, PlayerT, StreamT, StorageT, ReqT
<1>5. LivesOK'
    BY <1>0, <1>1 DEF ObjInv, LivesOK
<1>6. PlayersOK' /\ StoragesOK'
    BY <1>0, <1>1, <1>2 DEF ObjInv, PlayersOK, PlayerOK, StoragesOK, StorageOK
<1>7. PushersOK'
    <2> SUFFICES ASSUME NEW u \in Pushers, pusher[u].life # "closed" PROVE PusherOK(u)'
        BY <1>3 DEF PushersOK
    <2>1. PusherOK(u)
        BY DEF ObjInv, PushersOK
    <2>2. CASE pusher[u].chan # i
        BY <1>1, <1>2, <1>3, <2>1, <2>2 DEF PusherOK
    <2>3. CASE pusher[u].chan = i
        <3>1. (~chan[i].twice /\ pusher[u].kind = "rtp") => Ref("pusher", u) \in w
            BY <2>3, PusherMapped DEF ObjInv
        <3> QED BY <1>0, <1>1, <1>2, <1>3, <2>1, <2>3, <3>1 DEF PusherOK
    <2> QED BY <2>2, <2>3
<1>8. MapsOK' /\ ReqsOK'
    <2>1. \A j \in Channels : chan[j].life = "running" => chan'[j].life = "running"
        BY <1>0, <1>1
    <2> QED BY <1>1, <2>1, MapsSame, ReqsSame DEF ObjInv, MapsKept
<1>9. StreamsOK' /\ PortsOK'
    BY StreamsSame, PortsSame DEF ObjInv
<1> QED BY <1>1, <1>4, <1>5, <1>6, <1>7, <1>8, <1>9 DEF ObjInv

\* One player is asked to close.
LEMMA ClosePlayer ==
    ASSUME PlayerT, NEW p \in Players, player' = [player EXCEPT ![p].life = Closing(@)]
    PROVE  /\ PlayerT'
           /\ \A q \in Players : /\ player'[q].life = "closed" <=> player[q].life = "closed"
                                 /\ player'[q].chan = player[q].chan /\ player'[q].run = player[q].run
                                 /\ player'[q].todo = player[q].todo
<1> DEFINE r == [player[p] EXCEPT !.life = Closing(player[p].life)]
<1>1. player' = [player EXCEPT ![p] = r] /\ player[p] \in PlayerRec /\ player \in [Players -> PlayerRec]
    BY DEF PlayerT
<1>2. Closing(player[p].life) \in {"running", "closing", "closed"}
      /\ (Closing(player[p].life) = "closed" <=> player[p].life = "closed")
    BY <1>1, ClosingFacts DEF PlayerRec
<1>3. /\ r \in PlayerRec /\ (r.life = "closed" <=> player[p].life = "closed")
      /\ r.chan = player[p].chan /\ r.run = player[p].run /\ r.todo = player[p].todo
    BY <1>1, <1>2 DEF PlayerRec
<1> HIDE DEF r
<1>4. /\ player' \in [Players -> PlayerRec] /\ player'[p] = r
      /\ \A q \in Players : q # p => player'[q] = player[q]
    BY <1>1, <1>3, SetOne
<1> QED BY <1>3, <1>4 DEF PlayerT

\* Channel.run has seen the last of the RTP pushers and comes to the player.
LEMMA RunPlayerStep ==
    ASSUME ObjInv, NEW i \in Channels, RunPlayer(i), UNCHANGED <<channels, pusher, storage, stream, ports, req>>
    PROVE  ObjInv' /\ \A j \in Channels : chan'[j].by = chan[j].by
<1> DEFINE p == chan[i].player
           w == IF p = 0 THEN {} ELSE {Ref("player", p)}
<1>t. chan \in [Channels -> ChanRec] /\ WaitT /\ PlayerT /\ chan[i] \in ChanRec
    BY ChanTypes DEF ObjInv, ObjTypes
<1>0. /\ chan[i].life = "closing" /\ chan[i].run = "pushers" /\ ChanWaits(i) = {}
      /\ chan' = [chan EXCEPT ![i].life = "closing", ![i].run = "player"]
      /\ waits' = [waits EXCEPT ![Ref("channel", i)] = w]
    <2>1. chan[i].run = "pushers" /\ chan[i].life = "closing" /\ waits[Ref("channel", i)] = {}
        BY DEF RunPlayer, ObjInv, LivesOK
    <2>2. [chan EXCEPT ![i].run = "player"] = [chan EXCEPT ![i].life = "closing", ![i].run = "player"]
        BY <1>t, <2>1 DEF ChanRec
    <2>3. waits' = [waits EXCEPT ![Ref("channel", i)] = w]
        <3>1. CASE p = 0
            <4>1. waits' = waits /\ w = {}
                BY <3>1 DEF RunPlayer
            <4>2. waits = [waits EXCEPT ![Ref("channel", i)] = {}]
                BY <1>t, <2>1 DEF WaitT
            <4> QED BY <4>1, <4>2
        <3>2. CASE p # 0
            BY <3>2 DEF RunPlayer
        <3> QED BY <3>1, <3>2
    <2> QED BY <2>1, <2>2, <2>3 DEF RunPlayer, ChanWaits
<1>1. /\ chan' \in [Channels -> ChanRec] /\ chan'[i].run = "player" /\ chan'[i].life = "closing"
      /\ \A j \in Channels : j # i => chan'[j] = chan[j]
      /\ \A j \in Channels : /\ chan'[j].by = chan[j].by
                             /\ chan'[j].player = chan[j].player /\ chan'[j].storage = chan[j].storage
                             /\ chan'[j].map = chan[j].map /\ chan'[j].next = chan[j].next
                             /\ chan'[j].twice = chan[j].twice
    BY <1>0, <1>t, SetRun
<1>2. WaitT' /\ ChanWaits(i)' = w /\ \A j \in Channels : j # i => ChanWaits(j)' = ChanWaits(j)
    BY <1>0, <1>t, WaitsOfChannel
<1>3. /\ PlayerT'
      /\ \A q \in Players : /\ player'[q].life = "closed" <=> player[q].life = "closed"
                            /\ player'[q].chan = player[q].chan /\ player'[q].run = player[q].run
                            /\ player'[q].todo = player[q].todo
    <2>1. CASE p = 0
        BY <1>t, <2>1 DEF RunPlayer, PlayerT
    <2>2. CASE p # 0
        <3>1. p \in Players /\ player' = [player EXCEPT ![p].life = Closing(@)]
            BY <1>t, <2>2 DEF RunPlayer, ChanRec, Zero
        <3> HIDE DEF p
        <3> QED BY <1>t, <3>1, ClosePlayer
    <2> QED BY <2>1, <2>2
<1>4. ObjTypes'
    BY <1>1, <1>2, <1>3 DEF ObjInv, ObjTypes, ChanT, PusherT, StreamT, StorageT, ReqT
<1>5. LivesOK'
    BY <1>0, <1>1 DEF ObjInv, LivesOK
<1>6. PlayersOK'
    <2>1. \A q \in Players : player'[q].run # "idle" => player'[q].life # "closed"
        BY <1>3 DEF ObjInv, PlayersOK
    <2>2. ASSUME NEW q \in Players, player'[q].life # "closed" PROVE PlayerOK(q)'
        <3>1. PlayerOK(q)
            BY <1>3, <2>2 DEF ObjInv, PlayersOK
        <3>2. CASE player[q].chan # i
            BY <1>1, <1>2, <1>3, <3>1, <3>2 DEF PlayerOK
        <3>3. CASE player[q].chan = i
            <4>1. p = q /\ q # 0
                BY <3>1, <3>3, Numbers DEF PlayerOK
            <4>2. Ref("player", q) \in w
                BY <4>1
            <4> HIDE DEF p, w
            <4> QED BY <1>1, <1>2, <1>3, <3>1, <3>3, <4>2 DEF PlayerOK
        <3> QED BY <3>2, <3>3
    <2> QED BY <2>1, <2>2 DEF PlayersOK
<1>7. StoragesOK'
    BY <1>0, <1>1, <1>2 DEF ObjInv, StoragesOK, StorageOK
<1>8. PushersOK'
    <2> SUFFICES ASSUME NEW u \in Pushers, pusher[u].life # "closed" PROVE PusherOK(u)'
        BY DEF PushersOK
    <2>1. PusherOK(u)
        BY DEF ObjInv, PushersOK
    <2>2. CASE pusher[u].chan # i
        BY <1>1, <1>2, <2>1, <2>2 DEF PusherOK
    <2>3. CASE pusher[u].chan = i
        <3>1. chan[i].twice \/ pusher[u].kind # "rtp"
            BY <1>0, <2>1, <2>3 DEF PusherOK
        <3> QED BY <1>1, <2>1, <2>3, <3>1 DEF PusherOK
    <2> QED BY <2>2, <2>3
<1>9. MapsOK' /\ ReqsOK'
    <2>1. \A j \in Channels : chan[j].life = "running" => chan'[j].life = "running"
        BY <1>0, <1>1
    <2> QED BY <1>1, <2>1, MapsSame, ReqsSame DEF ObjInv, MapsKept
<1>10. StreamsOK' /\ PortsOK'
    BY <1>3, StreamsSame, PortsSame DEF ObjInv
<1> QED BY <1>1, <1>4, <1>5, <1>6, <1>7, <1>8, <1>9, <1>10 DEF ObjInv

\* One storage session is asked to close.
LEMMA CloseStorage ==
    ASSUME StorageT, NEW s \in Storages, NEW x \in {"starting", "running", "closing", "closed"},
           x = "closed" <=> storage[s].life = "closed", storage' = [storage EXCEPT ![s].life = x]
    PROVE  /\ StorageT'
           /\ \A q \in Storages : /\ storage'[q].life = "closed" <=> storage[q].life = "closed"
                                  /\ storage'[q].chan = storage[q].chan
<1> DEFINE r == [storage[s] EXCEPT !.life = x]
<1>1. storage' = [storage EXCEPT ![s] = r] /\ storage[s] \in StorageRec /\ storage \in [Storages -> StorageRec]
    BY DEF StorageT
<1>2. r \in StorageRec /\ (r.life = "closed" <=> storage[s].life = "closed") /\ r.chan = storage[s].chan
    BY <1>1 DEF StorageRec
<1> HIDE DEF r
<1>3. /\ storage' \in [Storages -> StorageRec] /\ storage'[s] = r
      /\ \A q \in Storages : q # s => storage'[q] = storage[q]
    BY ONLY <1>1, <1>2, s \in Storages
<1> QED BY <1>2, <1>3 DEF StorageT

\* Channel.run has seen the last of the player and comes to the storage.
LEMMA RunStorageStep ==
    ASSUME ObjInv, NEW i \in Channels, RunStorage(i), UNCHANGED <<channels, pusher, player, stream, ports, req>>
    PROVE  ObjInv' /\ \A j \in Channels : chan'[j].by = chan[j].by
<1> DEFINE s == chan[i].storage
           w == IF s = 0 THEN {} ELSE {Ref("storage", s)}
<1>t. chan \in [Channels -> ChanRec] /\ WaitT /\ StorageT /\ chan[i] \in ChanRec
    BY ChanTypes DEF ObjInv, ObjTypes
<1>0. /\ chan[i].life = "closing" /\ chan[i].run = "player" /\ ChanWaits(i) = {}
      /\ chan' = [chan EXCEPT ![i].life = "closing", ![i].run = "storage"]
      /\ waits' = [waits EXCEPT ![Ref("channel", i)] = w]
    <2>1. chan[i].run = "player" /\ chan[i].life = "closing" /\ waits[Ref("channel", i)] = {}
        BY DEF RunStorage, ObjInv, LivesOK
    <2>2. [chan EXCEPT ![i].run = "storage"] = [chan EXCEPT ![i].life = "closing", ![i].run = "storage"]
        BY <1>t, <2>1 DEF ChanRec
    <2>3. waits' = [waits EXCEPT ![Ref("channel", i)] = w]
        <3>1. CASE s = 0
            <4>1. waits' = waits /\ w = {}
                BY <3>1 DEF RunStorage
            <4>2. waits = [waits EXCEPT ![Ref("channel", i)] = {}]
                BY <1>t, <2>1 DEF WaitT
            <4> QED BY <4>1, <4>2
        <3>2. CASE s # 0
            BY <3>2 DEF RunStorage
        <3> QED BY <3>1, <3>2
    <2> QED BY <2>1, <2>2, <2>3 DEF RunStorage, ChanWaits
<1>1. /\ chan' \in [Channels -> ChanRec] /\ chan'[i].run = "storage" /\ chan'[i].life = "closing"
      /\ \A j \in Channels : j # i => chan'[j] = chan[j]
      /\ \A j \in Channels : /\ chan'[j].by = chan[j].by
                             /\ chan'[j].player = chan[j].player /\ chan'[j].storage = chan[j].storage
                             /\ chan'[j].map = chan[j].map /\ chan'[j].next = chan[j].next
                             /\ chan'[j].twice = chan[j].twice
    BY <1>0, <1>t, SetRun
<1>2. WaitT' /\ ChanWaits(i)' = w /\ \A j \in Channels : j # i => ChanWaits(j)' = ChanWaits(j)
    BY <1>0, <1>t, WaitsOfChannel
<1>3. /\ StorageT'
      /\ \A q \in Storages : /\ storage'[q].life = "closed" <=> storage[q].life = "closed"
                             /\ storage'[q].chan = storage[q].chan
    <2>1. CASE s = 0
        BY <1>t, <2>1 DEF RunStorage, StorageT
    <2>2. CASE s # 0
        <3>1. s \in Storages /\ storage' = [storage EXCEPT ![s].life = Closing(storage[s].life)]
            BY <1>t, <2>2 DEF RunStorage, ChanRec, Zero
        <3> HIDE DEF s
        <3>2. /\ Closing(storage[s].life) \in {"starting", "running", "closing", "closed"}
              /\ Closing(storage[s].life) = "closed" <=> storage[s].life = "closed"
            BY <1>t, <3>1, ClosingFacts DEF StorageT, StorageRec
        <3> QED BY <1>t, <3>1, <3>2, CloseStorage
    <2> QED BY <2>1, <2>2
<1>4. ObjTypes'
    BY <1>1, <1>2, <1>3 DEF ObjInv, ObjTypes, ChanT, PusherT, StreamT, PlayerT, ReqT
<1>5. LivesOK'
    BY <1>0, <1>1 DEF ObjInv, LivesOK
<1>6. PlayersOK'
    <2>1. ASSUME NEW q \in Players, player[q].life # "closed" PROVE PlayerOK(q)'
        <3>1. PlayerOK(q)
            BY <2>1 DEF ObjInv, PlayersOK
        <3>2. player[q].chan # i
            BY <1>0, <3>1 DEF PlayerOK
        <3> QED BY <1>1, <1>2, <3>1, <3>2 DEF PlayerOK
    <2> QED BY <2>1 DEF ObjInv, PlayersOK
<1>7. StoragesOK'
    <2> SUFFICES ASSUME NEW q \in Storages, storage[q].life # "closed" PROVE StorageOK(q)'
        BY <1>3 DEF StoragesOK
    <2>1. StorageOK(q)
        BY DEF ObjInv, StoragesOK
    <2>2. CASE storage[q].chan # i
        BY <1>1, <1>2, <1>3, <2>1, <2>2 DEF StorageOK
    <2>3. CASE storage[q].chan = i
        <3>1. s = q /\ q # 0
            BY <2>1, <2>3, Numbers DEF StorageOK
        <3>2. Ref("storage", q) \in w
            BY <3>1
        <3> HIDE DEF s, w
        <3> QED BY <1>1, <1>2, <1>3, <2>1, <2>3, <3>2 DEF StorageOK
    <2> QED BY <2>2, <2>3
<1>8. PushersOK'
    <2> SUFFICES ASSUME NEW u \in Pushers, pusher[u].life # "closed" PROVE PusherOK(u)'
        BY DEF PushersOK
    <2>1. PusherOK(u)
        BY DEF ObjInv, PushersOK
    <2>2. CASE pusher[u].chan # i
        BY <1>1, <1>2, <2>1, <2>2 DEF PusherOK
    <2>3. CASE pusher[u].chan = i
        <3>1. chan[i].twice \/ pusher[u].kind # "rtp"
            BY <1>0, <2>1, <2>3 DEF PusherOK
        <3> QED BY <1>1, <2>1, <2>3, <3>1 DEF PusherOK
    <2> QED BY <2>2, <2>3
<1>9. MapsOK' /\ ReqsOK'
    <2>1. \A j \in Channels : chan[j].life = "running" => chan'[j].life = "running"
        BY <1>0, <1>1
    <2> QED BY <1>1, <2>1, MapsSame, ReqsSame DEF ObjInv, MapsKept
<1>10. StreamsOK' /\ PortsOK'
    BY StreamsSame, PortsSame DEF ObjInv
<1> QED BY <1>1, <1>4, <1>5, <1>6, <1>7, <1>8, <1>9, <1>10 DEF ObjInv

\* Channel.run returns: everything it waited for is closed.
LEMMA RunEndStep ==
    ASSUME ObjInv, NEW i \in Channels, RunEnd(i), UNCHANGED <<pusher, player, storage, stream, ports, req, waits>>
    PROVE  ObjInv' /\ \A j \in Channels : chan'[j].by = chan[j].by
<1>t. chan \in [Channels -> ChanRec] /\ WaitT
    BY ChanTypes DEF ObjInv, ObjTypes
<1>0. /\ chan[i].life = "closing" /\ chan[i].run = "storage" /\ ChanWaits(i) = {} /\ channels = i /\ channels' = 0
      /\ chan' = [chan EXCEPT ![i].life = "closed", ![i].run = "idle"]
    BY DEF RunEnd, ObjInv, LivesOK, ChanWaits
<1>1. /\ chan' \in [Channels -> ChanRec] /\ chan'[i].run = "idle" /\ chan'[i].life = "closed"
      /\ \A j \in Channels : j # i => chan'[j] = chan[j]
      /\ \A j \in Channels : /\ chan'[j].by = chan[j].by
                             /\ chan'[j].player = chan[j].player /\ chan'[j].storage = chan[j].storage
                             /\ chan'[j].map = chan[j].map /\ chan'[j].next = chan[j].next
                             /\ chan'[j].twice = chan[j].twice
    BY <1>0, <1>t, SetRun
<1>2. WaitT' /\ \A j \in Channels : ChanWaits(j)' = ChanWaits(j)
    BY <1>t DEF WaitT, ChanWaits
<1>3. ObjTypes'
    BY <1>0, <1>1, <1>2 DEF ObjInv, ObjTypes, ChanT, PusherT, StreamT, PlayerT, StorageT, ReqT, Zero
<1>4. LivesOK'
    BY <1>0, <1>1 DEF ObjInv, LivesOK
<1>5. PlayersOK'
    BY <1>0, <1>1, <1>2 DEF ObjInv, PlayersOK, PlayerOK
<1>6. StoragesOK'
    BY <1>0, <1>1, <1>2 DEF ObjInv, StoragesOK, StorageOK
<1>7. PushersOK'
    BY <1>0, <1>1, <1>2 DEF ObjInv, PushersOK, PusherOK
<1>8. MapsOK' /\ ReqsOK'
    <2>1. \A j \in Channels : chan[j].life = "running" => chan'[j].life = "running"
        BY <1>0, <1>1
    <2> QED BY <1>1, <2>1, MapsSame, ReqsSame DEF ObjInv, MapsKept
<1>9. StreamsOK' /\ PortsOK'
    BY StreamsSame, PortsSame DEF ObjInv
<1> QED BY <1>1, <1>3, <1>4, <1>5, <1>6, <1>7, <1>8, <1>9 DEF ObjInv

\* What Channel.run waits for has closed.
LEMMA ChannelWakes ==
    ASSUME ObjInv, NEW i \in Channels, Wake(Ref("channel", i)), UNCHANGED <<channels, objects, req>>
    PROVE  ObjInv'
<1>0. /\ \A o \in ChanWaits(i) : Life(o) = "closed"
      /\ waits' = [waits EXCEPT ![Ref("channel", i)] = {}]
    BY DEF Wake, Woken, ChanWaits
<1>1. UNCHANGED <<channels, chan, player, stream, storage, pusher, ports, req>>
    BY DEF objects
<1>2. WaitT' /\ ChanWaits(i)' = {} /\ \A j \in Channels : j # i => ChanWaits(j)' = ChanWaits(j)
    BY <1>0, WaitsOfChannel DEF ObjInv, ObjTypes
<1>3. /\ \A p \in Players : player[p].life # "closed" => Ref("player", p) \notin ChanWaits(i)
      /\ \A s \in Storages : storage[s].life # "closed" => Ref("storage", s) \notin ChanWaits(i)
      /\ \A u \in Pushers : pusher[u].life # "closed" => Ref("pusher", u) \notin ChanWaits(i)
    <2>1. /\ \A p : Life(Ref("player", p)) = player[p].life
          /\ \A s : Life(Ref("storage", s)) = storage[s].life
          /\ \A u : Life(Ref("pusher", u)) = pusher[u].life
        BY DEF Life, Ref
    <2> QED BY <1>0, <2>1
<1>4. ObjTypes'
    BY <1>1, <1>2 DEF ObjInv, ObjTypes, ChanT, PlayerT, StreamT, StorageT, PusherT, ReqT
<1>5. LivesKept /\ MapsKept
    BY <1>1 DEF LivesKept, MapsKept
<1>6. LivesOK' /\ MapsOK' /\ ReqsOK'
    BY <1>1, <1>5, LivesSame, MapsSame, ReqsSame DEF ObjInv
<1>7. PlayersOK'
    BY <1>1, <1>2, <1>3 DEF ObjInv, PlayersOK, PlayerOK
<1>8. StoragesOK'
    BY <1>1, <1>2, <1>3 DEF ObjInv, StoragesOK, StorageOK
<1>9. PushersOK'
    BY <1>1, <1>2, <1>3 DEF ObjInv, PushersOK, PusherOK
<1>10. StreamsOK' /\ PortsOK'
    BY <1>1, StreamsSame, PortsSame DEF ObjInv
<1> QED BY <1>4, <1>6, <1>7, <1>8, <1>9, <1>10 DEF ObjInv

\* Channel.run.
LEMMA ChannelStepKeeps ==
    ASSUME ObjInv, NEW i \in Channels, ChannelStep(i)
    PROVE  ObjInv' /\ \A j \in Channels : chan'[j].by = chan[j].by
<1>1. CASE RunPushers(i) /\ UNCHANGED <<channels, player, storage>>
    BY <1>1, RunPushersStep DEF ChannelStep
<1>2. CASE RunPlayer(i) /\ UNCHANGED <<channels, pusher, storage>>
    BY <1>2, RunPlayerStep DEF ChannelStep
<1>3. CASE RunStorage(i) /\ UNCHANGED <<channels, pusher, player>>
    BY <1>3, RunStorageStep DEF ChannelStep
<1>4. CASE RunEnd(i) /\ UNCHANGED <<pusher, player, storage, waits>>
    BY <1>4, RunEndStep DEF ChannelStep
<1>5. CASE Wake(Ref("channel", i)) /\ UNCHANGED <<channels, chan, pusher, player, storage>>
    BY <1>5, ChannelWakes DEF ChannelStep, objects
<1> QED BY <1>1, <1>2, <1>3, <1>4, <1>5 DEF ChannelStep

\* Objects go on or are asked to close; none comes or goes.
LEMMA CalmStep ==
    ASSUME ObjInv, ChanT', PlayerT', StreamT', StorageT', PusherT', req' = req, channels' = channels,
           WaitT', WaitsKept, LivesKept, MapsKept,
           \A i \in Channels : chan'[i].player = chan[i].player /\ chan'[i].storage = chan[i].storage,
           \A p \in Players : /\ player'[p].life = "closed" <=> player[p].life = "closed"
                              /\ player'[p].chan = player[p].chan
                              /\ player'[p].run = player[p].run \/ player[p].life # "closed",
           \A s \in Storages : /\ storage'[s].life # "closed" => storage[s].life # "closed"
                               /\ storage'[s].chan = storage[s].chan,
           \A u \in Pushers : /\ pusher'[u].life # "closed" => pusher[u].life # "closed"
                              /\ pusher'[u].chan = pusher[u].chan /\ pusher'[u].kind = pusher[u].kind
                              /\ pusher'[u].id = pusher[u].id,
           StreamsOK', PortsOK'
    PROVE  ObjInv'
<1>1. ObjTypes'
    BY DEF ObjInv, ObjTypes, ReqT
<1>2. LivesOK' /\ MapsOK'
    BY LivesSame, MapsSame DEF ObjInv
<1>3. ReqsOK'
    BY ReqsSame DEF ObjInv, LivesKept
<1>4. PlayersOK'
    BY PlayersSame DEF ObjInv
<1>5. StoragesOK'
    BY StoragesSame DEF ObjInv
<1>6. PushersOK'
    BY PushersSame DEF ObjInv
<1> QED BY <1>1, <1>2, <1>3, <1>4, <1>5, <1>6 DEF ObjInv

\* What a step has to leave alone of the objects other than the players.
Aside == UNCHANGED <<channels, chan, storage, req>>

\* The same, when the channels and storage sessions stay as they are.
LEMMA PlayersGoOn ==
    ASSUME ObjInv, Aside, PlayerT', StreamT', PusherT', WaitT', WaitsKept,
           \A p \in Players : /\ player'[p].life = "closed" <=> player[p].life = "closed"
                              /\ player'[p].chan = player[p].chan
                              /\ player'[p].run = player[p].run \/ player[p].life # "closed",
           \A u \in Pushers : /\ pusher'[u].life # "closed" => pusher[u].life # "closed"
                              /\ pusher'[u].chan = pusher[u].chan /\ pusher'[u].kind = pusher[u].kind
                              /\ pusher'[u].id = pusher[u].id,
           StreamsOK', PortsOK'
    PROVE  ObjInv'
<1>1. ChanT' /\ StorageT'
    BY DEF ObjInv, ObjTypes, ChanT, StorageT, Aside
<1>2. LivesKept /\ MapsKept
    BY DEF LivesKept, MapsKept, Aside
<1>3. /\ req' = req /\ channels' = channels
      /\ \A i \in Channels : chan'[i].player = chan[i].player /\ chan'[i].storage = chan[i].storage
      /\ \A s \in Storages : /\ storage'[s].life # "closed" => storage[s].life # "closed"
                             /\ storage'[s].chan = storage[s].chan
    BY DEF Aside
<1> QED BY <1>1, <1>2, <1>3, CalmStep

\* A step of one player that goes on.
LEMMA PlayerGoesOn ==
    ASSUME ObjInv, Aside, UNCHANGED <<pusher, stream, ports>>, WaitT', WaitsKept,
           NEW p \in Players, NEW r \in PlayerRec, player' = [player EXCEPT ![p] = r],
           r.life = "closed" <=> player[p].life = "closed", r.chan = player[p].chan,
           r.run = player[p].run \/ player[p].life # "closed",
           r.run = "streams" => player[p].run = "streams" /\ player[p].todo \subseteq r.todo
    PROVE  ObjInv'
<1>1. player \in [Players -> PlayerRec]
    BY ChanTypes
<1>2. /\ player' \in [Players -> PlayerRec] /\ player'[p] = r
      /\ \A q \in Players : q # p => player'[q] = player[q]
    BY <1>1, SetOne
<1>3. \A q \in Players : /\ player'[q].life = "closed" <=> player[q].life = "closed"
                         /\ player'[q].chan = player[q].chan
                         /\ player'[q].run = player[q].run \/ player[q].life # "closed"
                         /\ player'[q].run = "streams" =>
                               player[q].run = "streams" /\ player[q].todo \subseteq player'[q].todo
    BY <1>2
<1>4. StreamsOK'
    BY <1>3, StreamsSame DEF ObjInv
<1>5. PortsOK'
    BY PortsSame DEF ObjInv
<1>6. StreamT' /\ PusherT' /\ PlayerT'
    BY <1>2 DEF ObjInv, ObjTypes, StreamT, PusherT, PlayerT
<1> QED BY <1>3, <1>4, <1>5, <1>6, PlayersGoOn

\* CloseRtpPlayer, from wherever it is called.
LEMMA ClosePlayerStep ==
    ASSUME ObjInv, Aside, UNCHANGED <<pusher, stream, ports>>, WaitT', WaitsKept,
           NEW p \in Players, player' = [player EXCEPT ![p].life = Closing(@)]
    PROVE  ObjInv'
<1>1. PlayerT
    BY DEF ObjInv, ObjTypes
<1>2. /\ PlayerT'
      /\ \A q \in Players : /\ player'[q].life = "closed" <=> player[q].life = "closed"
                            /\ player'[q].chan = player[q].chan /\ player'[q].run = player[q].run
                            /\ player'[q].todo = player[q].todo
    BY <1>1, ClosePlayer
<1>3. StreamsOK' /\ PortsOK'
    BY <1>2, StreamsSame, PortsSame DEF ObjInv
<1>4. StreamT' /\ PusherT'
    BY DEF ObjInv, ObjTypes, StreamT, PusherT
<1> QED BY <1>2, <1>3, <1>4, PlayersGoOn

\* A player without streams is asked to close, and a frame handler ends.
LEMMA PlayerEmptyStep ==
    ASSUME ObjInv, NEW p \in Players, PlayerEmpty(p) \/ HandlerEnds(p), UNCHANGED <<channels, req, waits>>
    PROVE  ObjInv' /\ \A j \in Channels : chan'[j].by = chan[j].by
<1>1. player \in [Players -> PlayerRec] /\ player[p] \in PlayerRec
    BY ChanTypes
<1>2. WaitT' /\ WaitsKept
    BY DEF ObjInv, ObjTypes, WaitT, WaitsKept, ChanWaits
<1>3. Aside /\ UNCHANGED <<pusher, stream, ports>>
    BY DEF Aside, PlayerEmpty, HandlerEnds
<1>4. CASE PlayerEmpty(p)
    <2> DEFINE r == [player[p] EXCEPT !.empty = FALSE, !.life = Closing(player[p].life)]
    <2>1. player' = [player EXCEPT ![p] = r]
        BY <1>1, <1>4 DEF PlayerEmpty
    <2>2. Closing(player[p].life) \in {"running", "closing", "closed"}
          /\ (Closing(player[p].life) = "closed" <=> player[p].life = "closed")
        BY <1>1, ClosingFacts DEF PlayerRec
    <2>3. /\ r \in PlayerRec /\ (r.life = "closed" <=> player[p].life = "closed")
          /\ r.chan = player[p].chan /\ r.run = player[p].run /\ r.todo = player[p].todo
        BY <1>1, <2>2 DEF PlayerRec
    <2> HIDE DEF r
    <2>4. ObjInv'
        BY <1>2, <1>3, <2>1, <2>3, PlayerGoesOn
    <2> QED BY <1>3, <2>4 DEF Aside
<1>5. CASE HandlerEnds(p)
    <2> DEFINE r == [player[p] EXCEPT !.run = "ended"]
    <2>1. player' = [player EXCEPT ![p] = r] /\ player[p].life = "running"
        BY <1>1, <1>5 DEF HandlerEnds
    <2>2. /\ r \in PlayerRec /\ r.life = player[p].life /\ r.chan = player[p].chan /\ r.run = "ended"
        BY <1>1 DEF PlayerRec
    <2> HIDE DEF r
    <2>3. ObjInv'
        BY <1>2, <1>3, <2>1, <2>2, PlayerGoesOn
    <2> QED BY <1>3, <2>3 DEF Aside
<1> QED BY <1>4, <1>5

\* RtpPlayer.run: the pushers are asked to close.
LEMMA PlayerPushersStep ==
    ASSUME ObjInv, NEW p \in Players, PlayerPushers(p), UNCHANGED <<channels, storage, req>>
    PROVE  ObjInv'
<1> DEFINE r == [player[p] EXCEPT !.run = "pushers"]
           w == {Ref("pusher", u) : u \in Mapped(player[p].chan, "rtp")}
<1>1. player \in [Players -> PlayerRec] /\ player[p] \in PlayerRec /\ PusherT /\ WaitT
    BY ChanTypes DEF ObjInv, ObjTypes
<1>2. /\ player' = [player EXCEPT ![p] = r] /\ waits' = [waits EXCEPT ![Ref("player", p)] = w]
      /\ pusher' = ClosePushers(Mapped(player[p].chan, "rtp"))
      /\ player[p].run = "ended" \/ (player[p].run = "idle" /\ player[p].life = "closing")
      /\ UNCHANGED <<stream, ports>> /\ Aside
    BY <1>1 DEF PlayerPushers, Aside
<1>3. /\ r \in PlayerRec /\ r.life = player[p].life /\ r.chan = player[p].chan /\ r.run = "pushers"
    BY <1>1 DEF PlayerRec
<1> HIDE DEF r, w
<1>4. WaitT' /\ WaitsKept
    BY <1>1, <1>2, OtherThreads, WaitsOfOther
<1>5. /\ PusherT'
      /\ \A u \in Pushers : /\ pusher'[u].life = "closed" <=> pusher[u].life = "closed"
                            /\ pusher'[u].chan = pusher[u].chan /\ pusher'[u].kind = pusher[u].kind
                            /\ pusher'[u].id = pusher[u].id
    BY <1>1, <1>2, ClosePushersFacts
<1>6. player[p].life # "closed"
    BY <1>2 DEF ObjInv, PlayersOK
<1>7. /\ player' \in [Players -> PlayerRec] /\ player'[p] = r
      /\ \A q \in Players : q # p => player'[q] = player[q]
    BY <1>1, <1>2, <1>3, SetOne
<1>8. StreamsOK'
    <2>1. \A q \in Players : /\ player[q].life # "closed" => player'[q].life # "closed"
                             /\ player'[q].run = "streams" =>
                                   player[q].run = "streams" /\ player[q].todo \subseteq player'[q].todo
        BY <1>3, <1>7
    <2> QED BY <1>2, <2>1, StreamsSame DEF ObjInv
<1>9. PortsOK' /\ StreamT' /\ PlayerT'
    BY <1>2, <1>7, PortsSame DEF ObjInv, ObjTypes, StreamT, PlayerT
<1>10. \A q \in Players : /\ player'[q].life = "closed" <=> player[q].life = "closed"
                          /\ player'[q].chan = player[q].chan
                          /\ player'[q].run = player[q].run \/ player[q].life # "closed"
    BY <1>3, <1>6, <1>7
<1> QED BY <1>2, <1>4, <1>5, <1>8, <1>9, <1>10, PlayersGoOn

\* RtpPlayer.run: it comes to the streams it has.
LEMMA PlayerStreamsStep ==
    ASSUME ObjInv, NEW p \in Players, PlayerStreams(p), UNCHANGED <<channels, storage, req>>
    PROVE  ObjInv'
<1> DEFINE r == [player[p] EXCEPT !.run = "streams", !.todo = StreamsOf(p)]
<1>1. player \in [Players -> PlayerRec] /\ player[p] \in PlayerRec /\ PusherT /\ WaitT
    BY ChanTypes DEF ObjInv, ObjTypes
<1>2. player' = [player EXCEPT ![p] = r] /\ player[p].run = "pushers" /\ UNCHANGED <<stream, ports, pusher, waits>> /\ Aside
    BY <1>1 DEF PlayerStreams, Aside
<1>3. StreamsOf(p) \in SUBSET Streams
    BY DEF StreamsOf
<1>4. /\ r \in PlayerRec /\ r.life = player[p].life /\ r.chan = player[p].chan /\ r.run = "streams"
      /\ r.todo = StreamsOf(p)
    BY <1>1, <1>3 DEF PlayerRec
<1> HIDE DEF r
<1>5. WaitT' /\ WaitsKept /\ PusherT'
    BY <1>1, <1>2 DEF WaitT, WaitsKept, ChanWaits, PusherT
<1>6. player[p].life # "closed"
    BY <1>2 DEF ObjInv, PlayersOK
<1>7. /\ player' \in [Players -> PlayerRec] /\ player'[p] = r
      /\ \A q \in Players : q # p => player'[q] = player[q]
    BY <1>1, <1>2, <1>4, SetOne
<1>8. StreamsOK'
    <2> SUFFICES ASSUME NEW s \in Streams, stream[s].state # "none", ~stream[s].late PROVE StreamOK(s)'
        BY <1>2 DEF ObjInv, StreamsOK
    <2>1. StreamOK(s)
        BY DEF ObjInv, StreamsOK
    <2>2. CASE stream[s].player = p
        <3>1. s \in r.todo
            BY <1>4, <2>2 DEF StreamsOf
        <3> QED BY <1>2, <1>4, <1>6, <1>7, <2>2, <3>1 DEF StreamOK
    <2>3. CASE stream[s].player # p
        BY <1>2, <1>7, <2>1, <2>3 DEF StreamOK
    <2> QED BY <2>2, <2>3
<1>9. PortsOK' /\ StreamT' /\ PlayerT'
    BY <1>2, <1>7, PortsSame DEF ObjInv, ObjTypes, StreamT, PlayerT
<1>10. \A q \in Players : /\ player'[q].life = "closed" <=> player[q].life = "closed"
                          /\ player'[q].chan = player[q].chan
                          /\ player'[q].run = player[q].run \/ player[q].life # "closed"
    BY <1>4, <1>6, <1>7
<1> QED BY <1>2, <1>5, <1>8, <1>9, <1>10, PlayersGoOn

\* The UDP servers in use are finitely many.
LEMMA UdpFinite == IsFiniteSet(Udp)
<1>1. Udp \subseteq Streams /\ IsFiniteSet(Streams)
    BY ChannelAssumption DEF Udp
<1> QED BY <1>1, FS_Subset

\* A stream that goes gives its UDP server back.
LEMMA StreamGone ==
    ASSUME ObjInv, NEW s \in Streams, stream' = [stream EXCEPT ![s] = NoStream], ports' = PortsAfter(s)
    PROVE  /\ StreamT' /\ PortsOK' /\ stream'[s] = NoStream
           /\ \A q \in Streams : q # s => stream'[q] = stream[q]
<1>1. stream \in [Streams -> StreamRec]
    BY ChanTypes
<1>2. NoStream \in StreamRec /\ NoStream.udp = FALSE
    BY DEF NoStream, StreamRec, Zero
<1>3. /\ stream' \in [Streams -> StreamRec] /\ stream'[s] = NoStream
      /\ \A q \in Streams : q # s => stream'[q] = stream[q]
    BY <1>1, <1>2, SetOne
<1>4. Udp' = Udp \ {s}
    <2>1. Udp' = {q \in Streams : stream'[q].udp}
        BY DEF Udp
    <2> QED BY <1>2, <1>3, <2>1 DEF Udp
<1>5. ports \in Nat /\ ports + Cardinality(Udp) = Ports /\ Ports \in Nat
    BY ChannelAssumption DEF ObjInv, PortsOK
<1>6. CASE stream[s].udp
    <2>1. s \in Udp
        BY <1>6 DEF Udp
    <2>2. Cardinality(Udp \ {s}) = Cardinality(Udp) - 1 /\ Cardinality(Udp) \in Nat
        BY <2>1, UdpFinite, FS_RemoveElement, FS_CardinalityType
    <2>3. ports' = ports + 1
        BY <1>6 DEF PortsAfter
    <2>4. ports' \in Nat /\ ports' + Cardinality(Udp') = Ports
        BY <1>4, <1>5, <2>2, <2>3
    <2> QED BY <1>3, <2>4 DEF StreamT, PortsOK
<1>7. CASE ~stream[s].udp
    <2>1. Udp' = Udp /\ ports' = ports
        BY <1>4, <1>7 DEF Udp, PortsAfter
    <2> QED BY <1>3, <1>5, <2>1 DEF StreamT, PortsOK
<1> QED BY <1>6, <1>7

\* removeStream, from a request or when the RTP stream is lost.
LEMMA RemoveStreamStep ==
    ASSUME ObjInv, Aside, UNCHANGED pusher, WaitT', WaitsKept, NEW s \in Streams, RemoveStream(s)
    PROVE  ObjInv'
<1> DEFINE p == stream[s].player
           r == [player[p] EXCEPT !.empty = TRUE]
<1>1. player \in [Players -> PlayerRec] /\ stream \in [Streams -> StreamRec] /\ stream[s] \in StreamRec
    BY ChanTypes
<1>2. /\ StreamT' /\ PortsOK' /\ stream'[s] = NoStream
      /\ \A q \in Streams : q # s => stream'[q] = stream[q]
    BY StreamGone DEF RemoveStream
<1>3. /\ player' \in [Players -> PlayerRec]
      /\ \A q \in Players : /\ player'[q].life = player[q].life /\ player'[q].chan = player[q].chan
                            /\ player'[q].run = player[q].run /\ player'[q].todo = player[q].todo
    <2>1. player' = player \/ player' = [player EXCEPT ![p].empty = TRUE]
        BY DEF RemoveStream
    <2>2. CASE player' = player
        BY <1>1, <2>2
    <2>3. CASE player' = [player EXCEPT ![p].empty = TRUE] /\ p \in Players
        <3>1. player' = [player EXCEPT ![p] = r] /\ player[p] \in PlayerRec /\ p \in Players
            BY <1>1, <2>3
        <3>2. /\ r \in PlayerRec /\ r.life = player[p].life /\ r.chan = player[p].chan
              /\ r.run = player[p].run /\ r.todo = player[p].todo
            BY <3>1 DEF PlayerRec
        <3> HIDE DEF r, p
        <3>3. /\ player' \in [Players -> PlayerRec] /\ player'[p] = r
              /\ \A q \in Players : q # p => player'[q] = player[q]
            BY <1>1, <3>1, <3>2, SetOne
        <3> QED BY <3>2, <3>3
    <2>4. CASE player' = [player EXCEPT ![p].empty = TRUE] /\ p \notin Players
        <3> HIDE DEF p
        <3>1. player' = player
            BY <1>1, <2>4
        <3> QED BY <1>1, <3>1
    <2> QED BY <2>1, <2>2, <2>3, <2>4
<1> HIDE DEF p, r
<1>4. StreamsOK'
    <2> SUFFICES ASSUME NEW q \in Streams
                 PROVE  /\ (stream'[q].state # "none" /\ ~stream'[q].late) => StreamOK(q)'
                        /\ stream'[q].state = "none" => ~stream'[q].udp
        BY DEF StreamsOK
    <2>1. CASE q = s
        BY <1>2, <2>1 DEF NoStream
    <2>2. CASE q # s
        <3>1. stream'[q] = stream[q]
            BY <1>2, <2>2
        <3>2. (stream[q].state # "none" /\ ~stream[q].late) => StreamOK(q)
            BY DEF ObjInv, StreamsOK
        <3>3. StreamOK(q) => StreamOK(q)'
            BY <1>3, <3>1 DEF StreamOK
        <3>4. stream[q].state = "none" => ~stream[q].udp
            BY DEF ObjInv, StreamsOK
        <3> QED BY <3>1, <3>2, <3>3, <3>4
    <2> QED BY <2>1, <2>2
<1>5. PlayerT' /\ PusherT'
    BY <1>3 DEF ObjInv, ObjTypes, PlayerT, PusherT
<1> QED BY <1>2, <1>3, <1>4, <1>5, PlayersGoOn

\* RtpPlayer.run: a stream of its list is removed.
LEMMA PlayerRemoveStep ==
    ASSUME ObjInv, NEW p \in Players, PlayerRemove(p), UNCHANGED <<channels, storage, req>>
    PROVE  ObjInv'
<1>1. player \in [Players -> PlayerRec] /\ player[p] \in PlayerRec
    BY ChanTypes
<1>2. Aside /\ UNCHANGED <<pusher, waits>> /\ player[p].run = "streams"
    BY DEF PlayerRemove, Aside
<1>3. WaitT' /\ WaitsKept /\ PusherT'
    BY <1>2 DEF ObjInv, ObjTypes, WaitT, WaitsKept, ChanWaits, PusherT
<1>4. PICK s \in player[p].todo :
          IF stream[s].player # p
          THEN player' = [player EXCEPT ![p].todo = @ \ {s}] /\ UNCHANGED <<stream, ports>>
          ELSE /\ stream' = [stream EXCEPT ![s] = NoStream] /\ ports' = PortsAfter(s)
               /\ player' = [player EXCEPT ![p].todo = @ \ {s}, ![p].empty = @ \/ StreamsOf(p) = {s}]
    BY DEF PlayerRemove
<1>5. s \in Streams
    BY <1>1, <1>4 DEF PlayerRec
<1> DEFINE r(e) == [player[p] EXCEPT !.todo = player[p].todo \ {s}, !.empty = e]
<1>6. ASSUME NEW e \in BOOLEAN
      PROVE  /\ r(e) \in PlayerRec /\ r(e).life = player[p].life /\ r(e).chan = player[p].chan
             /\ r(e).run = player[p].run /\ r(e).todo = player[p].todo \ {s}
    BY <1>1 DEF PlayerRec
<1>7. \E e \in BOOLEAN : player' = [player EXCEPT ![p] = r(e)]
    <2>1. CASE stream[s].player # p
        <3>1. player[p].empty \in BOOLEAN
            BY <1>1 DEF PlayerRec
        <3>2. player' = [player EXCEPT ![p] = [player[p] EXCEPT !.todo = player[p].todo \ {s}]]
            BY <1>1, <1>4, <2>1
        <3>3. [player[p] EXCEPT !.todo = player[p].todo \ {s}] = r(player[p].empty)
            BY <1>1 DEF PlayerRec
        <3> QED BY <3>1, <3>2, <3>3
    <2>2. CASE stream[s].player = p
        <3>1. (player[p].empty \/ StreamsOf(p) = {s}) \in BOOLEAN
            BY Zenon
        <3>2. player' = [player EXCEPT ![p] = r(player[p].empty \/ StreamsOf(p) = {s})]
            BY <1>1, <1>4, <2>2
        <3> QED BY <3>1, <3>2
    <2> QED BY <2>1, <2>2
<1>8. PICK e \in BOOLEAN : player' = [player EXCEPT ![p] = r(e)]
    BY <1>7
<1>9. /\ r(e) \in PlayerRec /\ r(e).life = player[p].life /\ r(e).chan = player[p].chan
      /\ r(e).run = player[p].run /\ r(e).todo = player[p].todo \ {s}
    BY <1>6
<1> HIDE DEF r
<1>10. /\ player' \in [Players -> PlayerRec] /\ player'[p] = r(e)
       /\ \A q \in Players : q # p => player'[q] = player[q]
    BY <1>1, <1>8, <1>9, SetOne
<1>11. /\ StreamT' /\ PortsOK'
       /\ \A q \in Streams : q # s => stream'[q] = stream[q]
       /\ stream'[s] = NoStream \/ (stream'[s] = stream[s] /\ stream[s].player # p)
    <2>1. CASE stream[s].player # p
        BY <1>4, <2>1, PortsSame DEF ObjInv, ObjTypes, StreamT
    <2>2. CASE stream[s].player = p
        BY <1>4, <1>5, <2>2, StreamGone
    <2> QED BY <2>1, <2>2
<1>12. StreamsOK'
    <2> SUFFICES ASSUME NEW q \in Streams
                 PROVE  /\ (stream'[q].state # "none" /\ ~stream'[q].late) => StreamOK(q)'
                        /\ stream'[q].state = "none" => ~stream'[q].udp
        BY DEF StreamsOK
    <2>1. CASE q = s /\ stream'[s] = NoStream
        BY <2>1 DEF NoStream
    <2>2. CASE ~(q = s /\ stream'[s] = NoStream)
        <3>1. stream'[q] = stream[q] /\ (q = s => stream[q].player # p)
            BY <1>11, <2>2
        <3>2. (stream[q].state # "none" /\ ~stream[q].late) => StreamOK(q)
            BY DEF ObjInv, StreamsOK
        <3>3. StreamOK(q) => StreamOK(q)'
            BY <1>9, <1>10, <3>1 DEF StreamOK
        <3>4. stream[q].state = "none" => ~stream[q].udp
            BY DEF ObjInv, StreamsOK
        <3> QED BY <3>1, <3>2, <3>3, <3>4
    <2> QED BY <2>1, <2>2
<1>13. \A q \in Players : /\ player'[q].life = "closed" <=> player[q].life = "closed"
                          /\ player'[q].chan = player[q].chan
                          /\ player'[q].run = player[q].run \/ player[q].life # "closed"
    BY <1>9, <1>10
<1>14. PlayerT'
    BY <1>10 DEF PlayerT
<1> QED BY <1>2, <1>3, <1>11, <1>12, <1>13, <1>14, PlayersGoOn

\* OnClosed of a player: its streams are gone, but those added too late.
LEMMA PlayerEndStep ==
    ASSUME ObjInv, NEW p \in Players, PlayerEnd(p), UNCHANGED <<channels, storage, req>>
    PROVE  ObjInv' /\ \A j \in Channels : chan'[j].by = chan[j].by
<1> DEFINE i == player[p].chan
           r == [chan[i] EXCEPT !.player = 0]
<1>0. /\ player[p].run = "streams" /\ player[p].todo = {} /\ player' = [player EXCEPT ![p] = NoPlayer]
      /\ chan' = [chan EXCEPT ![i].player = 0] /\ UNCHANGED <<channels, storage, req, stream, pusher, ports, waits>>
    BY DEF PlayerEnd
<1>1. PlayerOK(p) /\ i \in Channels /\ chan[i].player = p
    BY <1>0 DEF ObjInv, PlayersOK, PlayerOK
<1>t. chan \in [Channels -> ChanRec] /\ player \in [Players -> PlayerRec] /\ chan[i] \in ChanRec
    BY <1>1, ChanTypes
<1>2. chan' = [chan EXCEPT ![i] = r]
    BY <1>0, <1>1, <1>t
<1>3. /\ r \in ChanRec /\ r.player = 0 /\ r.life = chan[i].life /\ r.run = chan[i].run /\ r.by = chan[i].by
      /\ r.storage = chan[i].storage /\ r.map = chan[i].map /\ r.next = chan[i].next /\ r.twice = chan[i].twice
    BY <1>t DEF ChanRec, Zero
<1> HIDE DEF r, i
<1>4. /\ chan' \in [Channels -> ChanRec] /\ chan'[i] = r
      /\ \A j \in Channels : j # i => chan'[j] = chan[j]
    BY <1>1, <1>2, <1>3, <1>t, SetOne
<1>5. NoPlayer \in PlayerRec /\ NoPlayer.life = "closed" /\ NoPlayer.run = "idle"
    BY DEF NoPlayer, PlayerRec, Zero
<1>6. /\ player' \in [Players -> PlayerRec] /\ player'[p] = NoPlayer
      /\ \A q \in Players : q # p => player'[q] = player[q]
    BY <1>0, <1>5, <1>t, SetOne
<1>7. WaitT' /\ WaitsKept /\ LivesKept /\ MapsKept
    BY <1>0, <1>3, <1>4 DEF ObjInv, ObjTypes, WaitT, WaitsKept, ChanWaits, LivesKept, MapsKept
<1>8. ObjTypes'
    BY <1>0, <1>4, <1>6, <1>7 DEF ObjInv, ObjTypes, ChanT, PlayerT, StreamT, StorageT, PusherT, ReqT
<1>9. LivesOK' /\ MapsOK'
    BY <1>0, <1>7, LivesSame, MapsSame DEF ObjInv
<1>10. ReqsOK'
    BY <1>0, <1>7, ReqsSame DEF ObjInv, LivesKept
<1>11. StoragesOK'
    BY <1>0, <1>3, <1>4, <1>7, StoragesSame DEF ObjInv
<1>12. PushersOK'
    BY <1>0, <1>7, PushersSame DEF ObjInv
<1>13. PlayersOK'
    <2>1. \A q \in Players : player'[q].run # "idle" => player'[q].life # "closed"
        BY <1>5, <1>6 DEF ObjInv, PlayersOK
    <2>2. ASSUME NEW q \in Players, player'[q].life # "closed" PROVE PlayerOK(q)'
        <3>1. q # p /\ player'[q] = player[q]
            BY <1>5, <1>6, <2>2
        <3>2. PlayerOK(q)
            BY <2>2, <3>1 DEF ObjInv, PlayersOK
        <3>3. player[q].chan # i
            BY <1>1, <3>1, <3>2 DEF PlayerOK
        <3> QED BY <1>4, <1>7, <3>1, <3>2, <3>3 DEF PlayerOK, WaitsKept
    <2> QED BY <2>1, <2>2 DEF PlayersOK
<1>14. StreamsOK'
    <2> SUFFICES ASSUME NEW s \in Streams, stream[s].state # "none", ~stream[s].late PROVE StreamOK(s)'
        BY <1>0 DEF ObjInv, StreamsOK
    <2>1. StreamOK(s)
        BY DEF ObjInv, StreamsOK
    <2>2. stream[s].player # p
        BY <1>0, <2>1 DEF StreamOK
    <2> QED BY <1>0, <1>6, <2>1, <2>2 DEF StreamOK
<1>15. PortsOK'
    BY <1>0, PortsSame DEF ObjInv
<1> QED BY <1>3, <1>4, <1>8, <1>9, <1>10, <1>11, <1>12, <1>13, <1>14, <1>15 DEF ObjInv

\* OpenRtpPlayer: no stream is left that calls the number of the new player its own.
LEMMA OpenPlayerStep ==
    ASSUME ObjInv, NEW i \in Channels, NEW api \in BOOLEAN, OpenPlayer(i, api),
           UNCHANGED <<channels, storage, req, stream, pusher, ports, waits>>
    PROVE  /\ ObjInv' /\ chan'[i].player \in Players
           /\ \A j \in Channels : chan'[j].by = chan[j].by
<1> DEFINE p == Min(FreePlayers)
           r == [chan[i] EXCEPT !.player = p]
           n == [life |-> "running", chan |-> i, run |-> "idle", todo |-> {}, empty |-> FALSE, api |-> api]
<1>0. /\ chan[i].life = "running" /\ chan[i].player = 0 /\ FreePlayers # {}
      /\ player' = [player EXCEPT ![p] = n]
      /\ chan' = [chan EXCEPT ![i].player = p]
    BY DEF OpenPlayer
<1>1. p \in Players /\ player[p].life = "closed" /\ \A s \in Streams : stream[s].state # "none" => stream[s].player # p
    <2>1. FreePlayers \subseteq Nat
        BY Numbers DEF FreePlayers
    <2>2. p \in FreePlayers
        BY <1>0, <2>1, MinFacts
    <2> HIDE DEF p
    <2> QED BY <2>2 DEF FreePlayers, Unused, Life, Ref
<1> HIDE DEF p
<1>t. chan \in [Channels -> ChanRec] /\ player \in [Players -> PlayerRec] /\ chan[i] \in ChanRec
    BY ChanTypes
<1>2. chan' = [chan EXCEPT ![i] = r]
    BY <1>0, <1>t
<1>3. /\ r \in ChanRec /\ r.player = p /\ r.life = chan[i].life /\ r.run = chan[i].run /\ r.by = chan[i].by
      /\ r.storage = chan[i].storage /\ r.map = chan[i].map /\ r.next = chan[i].next /\ r.twice = chan[i].twice
    BY <1>1, <1>t DEF ChanRec, Zero
<1>5. n \in PlayerRec /\ n.life = "running" /\ n.run = "idle" /\ n.chan = i
    BY DEF PlayerRec, Zero
<1>r. chan[i].run = "idle"
    BY <1>0 DEF ObjInv, LivesOK
<1> HIDE DEF r, n
<1>4. /\ chan' \in [Channels -> ChanRec] /\ chan'[i] = r
      /\ \A j \in Channels : j # i => chan'[j] = chan[j]
    BY <1>2, <1>3, <1>t, SetOne
<1>6. /\ player' \in [Players -> PlayerRec] /\ player'[p] = n
      /\ \A q \in Players : q # p => player'[q] = player[q]
    BY <1>0, <1>1, <1>5, <1>t, SetOne
<1>7. WaitT' /\ WaitsKept /\ LivesKept /\ MapsKept
    BY <1>3, <1>4 DEF ObjInv, ObjTypes, WaitT, WaitsKept, ChanWaits, LivesKept, MapsKept
<1>8. ObjTypes'
    BY <1>4, <1>6, <1>7 DEF ObjInv, ObjTypes, ChanT, PlayerT, StreamT, StorageT, PusherT, ReqT
<1>9. LivesOK' /\ MapsOK'
    BY <1>7, LivesSame, MapsSame DEF ObjInv
<1>10. ReqsOK'
    BY <1>7, ReqsSame DEF ObjInv, LivesKept
<1>11. StoragesOK'
    BY <1>3, <1>4, <1>7, StoragesSame DEF ObjInv
<1>12. PushersOK'
    BY <1>7, PushersSame DEF ObjInv
<1>13. PlayersOK'
    <2>1. \A q \in Players : player'[q].run # "idle" => player'[q].life # "closed"
        BY <1>5, <1>6 DEF ObjInv, PlayersOK
    <2>2. ASSUME NEW q \in Players, player'[q].life # "closed" PROVE PlayerOK(q)'
        <3>1. CASE q = p
            BY <1>0, <1>3, <1>4, <1>5, <1>6, <1>r, <3>1 DEF PlayerOK
        <3>2. CASE q # p
            <4>1. player'[q] = player[q]
                BY <1>6, <3>2
            <4>2. PlayerOK(q)
                BY <2>2, <4>1 DEF ObjInv, PlayersOK
            <4>3. player[q].chan # i
                BY <1>0, <4>2, Numbers DEF PlayerOK
            <4> QED BY <1>4, <1>7, <4>1, <4>2, <4>3 DEF PlayerOK, WaitsKept
        <3> QED BY <3>1, <3>2
    <2> QED BY <2>1, <2>2 DEF PlayersOK
<1>14. StreamsOK'
    <2> SUFFICES ASSUME NEW s \in Streams, stream[s].state # "none", ~stream[s].late PROVE StreamOK(s)'
        BY DEF ObjInv, StreamsOK
    <2>1. StreamOK(s) /\ stream[s].player # p
        BY <1>1 DEF ObjInv, StreamsOK
    <2> QED BY <1>6, <2>1 DEF StreamOK
<1>15. PortsOK'
    BY PortsSame DEF ObjInv
<1> QED BY <1>1, <1>3, <1>4, <1>8, <1>9, <1>10, <1>11, <1>12, <1>13, <1>14, <1>15 DEF ObjInv

\* AddStream: a UDP server is taken.  One that is added while its player goes
\* through its list is late.
LEMMA AddStreamStep ==
    ASSUME ObjInv, Aside, UNCHANGED <<pusher, waits>>, NEW p \in Players, NEW udp \in BOOLEAN, AddStream(p, udp),
           PlayerT', \A q \in Players : /\ player'[q].life = player[q].life /\ player'[q].chan = player[q].chan
                                        /\ player'[q].run = player[q].run /\ player'[q].todo = player[q].todo
    PROVE  ObjInv' /\ Min(FreeStreams) \in Streams
<1> DEFINE s == Min(FreeStreams)
           n == [state |-> "added", chan |-> player[p].chan, player |-> p, udp |-> udp,
                 late |-> player[p].run = "streams"]
<1>0. /\ player[p].life = "running" /\ (udp => ports > 0) /\ FreeStreams # {}
      /\ stream' = [stream EXCEPT ![s] = n] /\ ports' = IF udp THEN ports - 1 ELSE ports
    BY DEF AddStream
<1>1. s \in Streams /\ stream[s].state = "none"
    <2>1. FreeStreams \subseteq Nat
        BY Numbers DEF FreeStreams
    <2>2. s \in FreeStreams
        BY <1>0, <2>1, MinFacts
    <2> HIDE DEF s
    <2> QED BY <2>2 DEF FreeStreams
<1> HIDE DEF s
<1>t. stream \in [Streams -> StreamRec] /\ player \in [Players -> PlayerRec] /\ player[p] \in PlayerRec
    BY ChanTypes
<1>2. n \in StreamRec /\ n.state = "added" /\ n.player = p /\ n.udp = udp /\ (n.late = (player[p].run = "streams"))
    <2>1. (player[p].run = "streams") \in BOOLEAN
        BY Zenon
    <2>2. player[p].chan \in Zero(Channels) /\ p \in Zero(Players)
        BY <1>t DEF PlayerRec, Zero
    <2> QED BY <2>1, <2>2 DEF StreamRec
<1> HIDE DEF n
<1>3. /\ stream' \in [Streams -> StreamRec] /\ stream'[s] = n
      /\ \A q \in Streams : q # s => stream'[q] = stream[q]
    BY <1>0, <1>1, <1>2, <1>t, SetOne
<1>4. s \notin Udp
    BY <1>1 DEF ObjInv, StreamsOK, Udp
<1>5. Udp' = IF udp THEN Udp \union {s} ELSE Udp
    <2>1. Udp' = {q \in Streams : stream'[q].udp}
        BY DEF Udp
    <2>2. CASE udp
        BY <1>1, <1>2, <1>3, <2>1, <2>2 DEF Udp
    <2>3. CASE ~udp
        BY <1>1, <1>2, <1>3, <1>4, <2>1, <2>3 DEF Udp
    <2> QED BY <2>2, <2>3
<1>6. PortsOK'
    <2>1. ports \in Nat /\ ports + Cardinality(Udp) = Ports /\ Cardinality(Udp) \in Nat
        BY UdpFinite, FS_CardinalityType DEF ObjInv, PortsOK
    <2>2. CASE udp
        <3>1. Cardinality(Udp') = Cardinality(Udp) + 1
            BY <1>4, <1>5, <2>2, UdpFinite, FS_AddElement
        <3>2. ports' = ports - 1 /\ ports > 0
            BY <1>0, <2>2
        <3>3. ports' \in Nat /\ ports' + Cardinality(Udp') = Ports
            BY <2>1, <3>1, <3>2
        <3> QED BY <3>3 DEF PortsOK
    <2>3. CASE ~udp
        BY <1>0, <1>5, <2>1, <2>3 DEF PortsOK
    <2> QED BY <2>2, <2>3
<1>7. StreamsOK'
    <2> SUFFICES ASSUME NEW q \in Streams
                 PROVE  /\ (stream'[q].state # "none" /\ ~stream'[q].late) => StreamOK(q)'
                        /\ stream'[q].state = "none" => ~stream'[q].udp
        BY DEF StreamsOK
    <2>1. CASE q = s
        <3>1. stream'[q].state = "added" /\ stream'[q].player = p
              /\ (~stream'[q].late => player[p].run # "streams")
            BY <1>2, <1>3, <2>1
        <3> QED BY <1>0, <3>1 DEF StreamOK
    <2>2. CASE q # s
        <3>1. stream'[q] = stream[q]
            BY <1>3, <2>2
        <3>2. (stream[q].state # "none" /\ ~stream[q].late) => StreamOK(q)
            BY DEF ObjInv, StreamsOK
        <3>3. StreamOK(q) => StreamOK(q)'
            BY <3>1 DEF StreamOK
        <3>4. stream[q].state = "none" => ~stream[q].udp
            BY DEF ObjInv, StreamsOK
        <3> QED BY <3>1, <3>2, <3>3, <3>4
    <2> QED BY <2>1, <2>2
<1>8. WaitT' /\ WaitsKept /\ PusherT' /\ StreamT'
    BY <1>3 DEF ObjInv, ObjTypes, WaitT, WaitsKept, ChanWaits, PusherT, StreamT
<1>9. ObjInv'
    BY <1>6, <1>7, <1>8, PlayersGoOn
<1> QED BY <1>1, <1>9 DEF s

\* Setup of a stream.
LEMMA StreamUpStep ==
    ASSUME ObjInv, Aside, UNCHANGED <<pusher, waits, player, ports>>, NEW s \in Streams, stream[s].state = "added",
           stream' = [stream EXCEPT ![s].state = "up"]
    PROVE  ObjInv'
<1> DEFINE r == [stream[s] EXCEPT !.state = "up"]
<1>t. stream \in [Streams -> StreamRec] /\ stream[s] \in StreamRec
    BY ChanTypes
<1>1. stream' = [stream EXCEPT ![s] = r]
    BY <1>t
<1>2. /\ r \in StreamRec /\ r.state = "up" /\ r.player = stream[s].player /\ r.udp = stream[s].udp
      /\ r.late = stream[s].late
    BY <1>t DEF StreamRec
<1> HIDE DEF r
<1>3. /\ stream' \in [Streams -> StreamRec] /\ stream'[s] = r
      /\ \A q \in Streams : q # s => stream'[q] = stream[q]
    BY ONLY <1>1, <1>2, <1>t, s \in Streams
<1>4. \A q \in Streams : /\ stream'[q].player = stream[q].player /\ stream'[q].udp = stream[q].udp
                         /\ stream'[q].late = stream[q].late
                         /\ (stream'[q].state = "none" <=> stream[q].state = "none")
    BY <1>2, <1>3
<1>5. StreamsOK'
    BY <1>4 DEF ObjInv, StreamsOK, StreamOK
<1>6. PortsOK'
    BY <1>4, PortsSame DEF ObjInv
<1>7. WaitT' /\ WaitsKept /\ PusherT' /\ StreamT' /\ PlayerT'
    BY <1>3 DEF ObjInv, ObjTypes, WaitT, WaitsKept, ChanWaits, PusherT, StreamT, PlayerT
<1> QED BY <1>5, <1>6, <1>7, PlayersGoOn

\* RtpPlayer.run.
LEMMA PlayerStepKeeps ==
    ASSUME ObjInv, NEW p \in Players, PlayerStep(p)
    PROVE  ObjInv' /\ \A j \in Channels : chan'[j].by = chan[j].by
<1>0. UNCHANGED <<channels, storage, req>>
    BY DEF PlayerStep
<1>1. CASE PlayerPushers(p)
    BY <1>0, <1>1, PlayerPushersStep DEF PlayerPushers
<1>2. CASE PlayerStreams(p)
    BY <1>0, <1>2, PlayerStreamsStep DEF PlayerStreams
<1>3. CASE PlayerRemove(p)
    BY <1>0, <1>3, PlayerRemoveStep DEF PlayerRemove
<1>4. CASE PlayerEnd(p)
    BY <1>0, <1>4, PlayerEndStep
<1>5. CASE Wake(Ref("player", p)) /\ UNCHANGED <<chan, player, stream, pusher, ports>>
    <2>1. WaitT' /\ WaitsKept
        BY <1>5, OtherThreads, WaitsOfOther DEF Wake, ObjInv, ObjTypes
    <2> QED BY <1>0, <1>5, <2>1, QuietStep DEF objects
<1> QED BY <1>1, <1>2, <1>3, <1>4, <1>5 DEF PlayerStep

-----------------------------------------------------------------------------
(* Storage sessions and pushers.                                           *)

\* A storage session starts, or is asked to close.
LEMMA StorageGoesOn ==
    ASSUME ObjInv, UNCHANGED <<channels, chan, player, stream, pusher, ports, req>>, WaitT', WaitsKept,
           NEW s \in Storages, NEW x \in {"starting", "running", "closing", "closed"},
           x = "closed" <=> storage[s].life = "closed", storage' = [storage EXCEPT ![s].life = x]
    PROVE  ObjInv'
<1>1. StorageT
    BY DEF ObjInv, ObjTypes
<1>2. /\ StorageT'
      /\ \A q \in Storages : /\ storage'[q].life = "closed" <=> storage[q].life = "closed"
                             /\ storage'[q].chan = storage[q].chan
    BY <1>1, CloseStorage
<1>3. StreamsOK' /\ PortsOK'
    BY StreamsSame, PortsSame DEF ObjInv
<1>4. LivesKept /\ MapsKept
    BY DEF LivesKept, MapsKept
<1>5. ChanT' /\ PlayerT' /\ StreamT' /\ PusherT'
    BY DEF ObjInv, ObjTypes, ChanT, PlayerT, StreamT, PusherT
<1> QED BY <1>2, <1>3, <1>4, <1>5, CalmStep

\* SetupStorage makes a session, or finds one.
LEMMA SetupStorageStep ==
    ASSUME ObjInv, NEW i \in Channels, SetupStorage(i), UNCHANGED <<channels, player, stream, pusher, ports, req, waits>>
    PROVE  ObjInv' /\ \A j \in Channels : chan'[j].by = chan[j].by
<1>w. WaitT' /\ WaitsKept
    BY DEF ObjInv, ObjTypes, WaitT, WaitsKept, ChanWaits
<1>c. CASE chan[i].storage # 0
    BY <1>c, <1>w, QuietStep DEF SetupStorage, objects
<1>n. CASE chan[i].storage = 0
    <2> DEFINE s == Min(FreeStorages)
               r == [chan[i] EXCEPT !.storage = s]
               n == [life |-> "starting", chan |-> i]
    <2>0. /\ chan[i].life = "running" /\ FreeStorages # {}
          /\ storage' = [storage EXCEPT ![s] = n] /\ chan' = [chan EXCEPT ![i].storage = s]
        BY <1>n DEF SetupStorage
    <2>1. s \in Storages
        <3>1. FreeStorages \subseteq Nat
            BY Numbers DEF FreeStorages
        <3>2. s \in FreeStorages
            BY <2>0, <3>1, MinFacts
        <3> HIDE DEF s
        <3> QED BY <3>2 DEF FreeStorages
    <2> HIDE DEF s
    <2>t. chan \in [Channels -> ChanRec] /\ storage \in [Storages -> StorageRec] /\ chan[i] \in ChanRec
        BY ChanTypes
    <2>2. chan' = [chan EXCEPT ![i] = r]
        BY <2>0, <2>t
    <2>3. /\ r \in ChanRec /\ r.player = chan[i].player /\ r.life = chan[i].life /\ r.run = chan[i].run
          /\ r.by = chan[i].by /\ r.storage = s /\ r.map = chan[i].map /\ r.next = chan[i].next
          /\ r.twice = chan[i].twice
        BY <2>1, <2>t DEF ChanRec, Zero
    <2>4. n \in StorageRec /\ n.life = "starting" /\ n.chan = i
        BY DEF StorageRec, Zero
    <2>r. chan[i].run = "idle"
        BY <2>0 DEF ObjInv, LivesOK
    <2> HIDE DEF r, n
    <2>5. /\ chan' \in [Channels -> ChanRec] /\ chan'[i] = r
          /\ \A j \in Channels : j # i => chan'[j] = chan[j]
        BY <2>2, <2>3, <2>t, SetOne
    <2>6. /\ storage' \in [Storages -> StorageRec] /\ storage'[s] = n
          /\ \A q \in Storages : q # s => storage'[q] = storage[q]
        BY <2>0, <2>1, <2>4, <2>t, SetOne
    <2>7. LivesKept /\ MapsKept
        BY <2>3, <2>5 DEF LivesKept, MapsKept
    <2>8. ObjTypes'
        BY <1>w, <2>5, <2>6 DEF ObjInv, ObjTypes, ChanT, PlayerT, StreamT, StorageT, PusherT, ReqT
    <2>9. LivesOK' /\ MapsOK'
        BY <2>7, LivesSame, MapsSame DEF ObjInv
    <2>10. ReqsOK'
        BY <2>7, ReqsSame DEF ObjInv, LivesKept
    <2>11. PlayersOK'
        BY <1>w, <2>3, <2>5, <2>7, PlayersSame DEF ObjInv
    <2>12. PushersOK'
        BY <1>w, <2>7, PushersSame DEF ObjInv
    <2>13. StoragesOK'
        <3> SUFFICES ASSUME NEW q \in Storages, storage'[q].life # "closed" PROVE StorageOK(q)'
            BY DEF StoragesOK
        <3>1. CASE q = s
            BY <2>0, <2>3, <2>4, <2>5, <2>6, <2>r, <3>1 DEF StorageOK
        <3>2. CASE q # s
            <4>1. storage'[q] = storage[q]
                BY <2>6, <3>2
            <4>2. StorageOK(q)
                BY <4>1 DEF ObjInv, StoragesOK
            <4>3. storage[q].chan # i
                BY <1>n, <4>2, Numbers DEF StorageOK
            <4> QED BY <1>w, <2>5, <4>1, <4>2, <4>3 DEF StorageOK, WaitsKept
        <3> QED BY <3>1, <3>2
    <2>14. StreamsOK' /\ PortsOK'
        BY StreamsSame, PortsSame DEF ObjInv
    <2> QED BY <2>3, <2>5, <2>8, <2>9, <2>10, <2>11, <2>12, <2>13, <2>14 DEF ObjInv
<1> QED BY <1>c, <1>n

\* A session has ended, or could not be started.
LEMMA ForgetStorageStep ==
    ASSUME ObjInv, NEW s \in Storages, storage[s].life # "closed", ForgetStorage(s), UNCHANGED <<channels, req, waits>>
    PROVE  ObjInv' /\ \A j \in Channels : chan'[j].by = chan[j].by
<1> DEFINE i == storage[s].chan
           r == [chan[i] EXCEPT !.storage = 0]
<1>0. /\ storage' = [storage EXCEPT ![s] = NoStorage] /\ chan' = [chan EXCEPT ![i].storage = 0]
      /\ UNCHANGED <<channels, player, req, stream, pusher, ports, waits>>
    BY DEF ForgetStorage
<1>1. StorageOK(s) /\ i \in Channels /\ chan[i].storage = s
    BY DEF ObjInv, StoragesOK, StorageOK
<1>t. chan \in [Channels -> ChanRec] /\ storage \in [Storages -> StorageRec] /\ chan[i] \in ChanRec
    BY <1>1, ChanTypes
<1>2. chan' = [chan EXCEPT ![i] = r]
    BY <1>0, <1>1, <1>t
<1>3. /\ r \in ChanRec /\ r.player = chan[i].player /\ r.life = chan[i].life /\ r.run = chan[i].run
      /\ r.by = chan[i].by /\ r.map = chan[i].map /\ r.next = chan[i].next /\ r.twice = chan[i].twice
    BY <1>t DEF ChanRec, Zero
<1> HIDE DEF r, i
<1>4. /\ chan' \in [Channels -> ChanRec] /\ chan'[i] = r
      /\ \A j \in Channels : j # i => chan'[j] = chan[j]
    BY <1>1, <1>2, <1>3, <1>t, SetOne
<1>5. NoStorage \in StorageRec /\ NoStorage.life = "closed"
    BY DEF NoStorage, StorageRec, Zero
<1>6. /\ storage' \in [Storages -> StorageRec] /\ storage'[s] = NoStorage
      /\ \A q \in Storages : q # s => storage'[q] = storage[q]
    BY <1>0, <1>5, <1>t, SetOne
<1>7. WaitT' /\ WaitsKept /\ LivesKept /\ MapsKept
    BY <1>0, <1>3, <1>4 DEF ObjInv, ObjTypes, WaitT, WaitsKept, ChanWaits, LivesKept, MapsKept
<1>8. ObjTypes'
    BY <1>0, <1>4, <1>6, <1>7 DEF ObjInv, ObjTypes, ChanT, PlayerT, StreamT, StorageT, PusherT, ReqT
<1>9. LivesOK' /\ MapsOK'
    BY <1>0, <1>7, LivesSame, MapsSame DEF ObjInv
<1>10. ReqsOK'
    BY <1>0, <1>7, ReqsSame DEF ObjInv, LivesKept
<1>11. PlayersOK'
    BY <1>0, <1>3, <1>4, <1>7, PlayersSame DEF ObjInv
<1>12. PushersOK'
    BY <1>0, <1>7, PushersSame DEF ObjInv
<1>13. StoragesOK'
    <2> SUFFICES ASSUME NEW q \in Storages, storage'[q].life # "closed" PROVE StorageOK(q)'
        BY DEF StoragesOK
    <2>1. q # s /\ storage'[q] = storage[q]
        BY <1>5, <1>6
    <2>2. StorageOK(q)
        BY <2>1 DEF ObjInv, StoragesOK
    <2>3. storage[q].chan # i
        BY <1>1, <2>1, <2>2 DEF StorageOK
    <2> QED BY <1>4, <1>7, <2>1, <2>2, <2>3 DEF StorageOK, WaitsKept
<1>14. StreamsOK' /\ PortsOK'
    BY <1>0, StreamsSame, PortsSame DEF ObjInv
<1> QED BY <1>3, <1>4, <1>8, <1>9, <1>10, <1>11, <1>12, <1>13, <1>14 DEF ObjInv

\* A pusher ends, or is asked to close.
LEMMA PusherGoesOn ==
    ASSUME ObjInv, UNCHANGED <<channels, chan, player, stream, storage, ports, req>>, WaitT', WaitsKept,
           NEW u \in Pushers, NEW x \in {"running", "closing", "closed"},
           x = "closed" <=> pusher[u].life = "closed", pusher' = [pusher EXCEPT ![u].life = x]
    PROVE  ObjInv'
<1> DEFINE r == [pusher[u] EXCEPT !.life = x]
<1>t. pusher \in [Pushers -> PusherRec] /\ pusher[u] \in PusherRec
    BY ChanTypes
<1>1. pusher' = [pusher EXCEPT ![u] = r]
    BY <1>t
<1>2. /\ r \in PusherRec /\ r.life = x /\ r.chan = pusher[u].chan /\ r.kind = pusher[u].kind /\ r.id = pusher[u].id
    BY <1>t DEF PusherRec
<1> HIDE DEF r
<1>3. /\ pusher' \in [Pushers -> PusherRec] /\ pusher'[u] = r
      /\ \A q \in Pushers : q # u => pusher'[q] = pusher[q]
    BY ONLY <1>1, <1>2, <1>t, u \in Pushers
<1>4. \A q \in Pushers : /\ pusher'[q].life # "closed" => pusher[q].life # "closed"
                         /\ pusher'[q].chan = pusher[q].chan /\ pusher'[q].kind = pusher[q].kind
                         /\ pusher'[q].id = pusher[q].id
    BY <1>2, <1>3
<1>5. StreamsOK' /\ PortsOK'
    BY StreamsSame, PortsSame DEF ObjInv
<1>6. ChanT' /\ PlayerT' /\ StreamT' /\ StorageT' /\ PusherT'
    BY <1>3 DEF ObjInv, ObjTypes, ChanT, PlayerT, StreamT, PusherT, StorageT
<1>7. Aside
    BY DEF Aside
<1> QED BY <1>4, <1>5, <1>6, <1>7, PlayersGoOn

\* What a channel's map holds are pushers.
LEMMA MappedPushers ==
    ASSUME ObjInv, NEW i \in Channels, NEW k \in Kinds
    PROVE  Mapped(i, k) \subseteq Pushers
<1>1. chan[i] \in ChanRec
    BY ChanTypes
<1>2. chan[i].map[k] \in SUBSET (Nat \X Pushers)
    BY <1>1 DEF ChanRec
<1> QED BY <1>2 DEF Mapped

\* A pusher of the channel is asked to close by a request.
LEMMA ClosePusherStep ==
    ASSUME ObjInv, UNCHANGED <<channels, chan, player, stream, storage, ports, req>>, WaitT', WaitsKept,
           NEW i \in Channels, NEW k \in Kinds, NEW u \in Mapped(i, k), pusher' = [pusher EXCEPT ![u].life = Closing(@)]
    PROVE  ObjInv'
<1>1. u \in Pushers
    BY MappedPushers
<1>2. pusher[u] \in PusherRec
    BY <1>1, ChanTypes
<1>3. /\ Closing(pusher[u].life) \in {"running", "closing", "closed"}
      /\ (Closing(pusher[u].life) = "closed" <=> pusher[u].life = "closed")
    BY <1>2, ClosingFacts DEF PusherRec
<1>4. pusher' = [pusher EXCEPT ![u].life = Closing(pusher[u].life)]
    OBVIOUS
<1> QED BY <1>1, <1>3, <1>4, PusherGoesOn

\* OnClosed of a pusher: no other one has its number, unless one was given twice.
LEMMA PusherEndStep ==
    ASSUME ObjInv, NEW u \in Pushers, PusherEnd(u), UNCHANGED <<channels, req, waits>>
    PROVE  ObjInv' /\ \A j \in Channels : chan'[j].by = chan[j].by
<1> DEFINE i == pusher[u].chan
           k == pusher[u].kind
           id == pusher[u].id
           m == [chan[i].map EXCEPT ![k] = {e \in chan[i].map[k] : e[1] # id}]
           r == [chan[i] EXCEPT !.map = m]
<1>0. /\ pusher[u].life = "closing" /\ pusher' = [pusher EXCEPT ![u] = NoPusher]
      /\ chan' = [chan EXCEPT ![i].map[k] = {e \in @ : e[1] # id}]
      /\ UNCHANGED <<channels, player, req, stream, storage, ports, waits>>
    BY DEF PusherEnd
<1>1. PusherOK(u) /\ i \in Channels
    BY <1>0 DEF ObjInv, PushersOK, PusherOK
<1>t. chan \in [Channels -> ChanRec] /\ pusher \in [Pushers -> PusherRec] /\ chan[i] \in ChanRec /\ k \in Kinds
    BY <1>1, ChanTypes DEF PusherRec
<1>2. chan' = [chan EXCEPT ![i] = r]
    BY <1>0, <1>1, <1>t
<1>m. /\ chan[i].map \in [Kinds -> SUBSET (Nat \X Pushers)]
      /\ m \in [Kinds -> SUBSET (Nat \X Pushers)]
      /\ \A l \in Kinds : m[l] = IF l = k THEN {e \in chan[i].map[k] : e[1] # id} ELSE chan[i].map[l]
    BY <1>t DEF ChanRec
<1> HIDE DEF m
<1>3. /\ r \in ChanRec /\ r.player = chan[i].player /\ r.life = chan[i].life /\ r.run = chan[i].run
      /\ r.by = chan[i].by /\ r.map = m /\ r.next = chan[i].next /\ r.twice = chan[i].twice
      /\ r.storage = chan[i].storage
    BY <1>t, <1>m DEF ChanRec
<1> HIDE DEF r, i, k, id
<1>4. /\ chan' \in [Channels -> ChanRec] /\ chan'[i] = r
      /\ \A j \in Channels : j # i => chan'[j] = chan[j]
    BY <1>1, <1>2, <1>3, <1>t, SetOne
<1>5. NoPusher \in PusherRec /\ NoPusher.life = "closed"
    BY DEF NoPusher, PusherRec, Zero, Kinds
<1>6. /\ pusher' \in [Pushers -> PusherRec] /\ pusher'[u] = NoPusher
      /\ \A q \in Pushers : q # u => pusher'[q] = pusher[q]
    BY <1>0, <1>5, <1>t, SetOne
<1>7. WaitT' /\ WaitsKept /\ LivesKept
    BY <1>0, <1>3, <1>4 DEF ObjInv, ObjTypes, WaitT, WaitsKept, ChanWaits, LivesKept
<1>8. ObjTypes'
    BY <1>0, <1>4, <1>6, <1>7 DEF ObjInv, ObjTypes, ChanT, PlayerT, StreamT, StorageT, PusherT, ReqT
<1>9. LivesOK'
    BY <1>0, <1>7, LivesSame DEF ObjInv
<1>10. ReqsOK'
    <2>1. \A j \in Channels : chan'[j].life = chan[j].life /\ chan'[j].twice = chan[j].twice /\ chan'[j].next = chan[j].next
        BY <1>3, <1>4
    <2> QED BY <1>0, <2>1 DEF ObjInv, ReqsOK
<1>11. PlayersOK' /\ StoragesOK'
    BY <1>0, <1>3, <1>4, <1>7, PlayersSame, StoragesSame DEF ObjInv
<1>12. MapsOK'
    <2> SUFFICES ASSUME NEW j \in Channels, NEW l \in Kinds
                 PROVE  /\ \A e, f \in chan'[j].map[l] : e[1] = f[1] => e = f
                        /\ ~chan'[j].twice => \A e \in chan'[j].map[l] : e[1] <= chan'[j].next[l]
        BY DEF MapsOK
    <2>1. /\ \A e, f \in chan[j].map[l] : e[1] = f[1] => e = f
          /\ ~chan[j].twice => \A e \in chan[j].map[l] : e[1] <= chan[j].next[l]
        BY DEF ObjInv, MapsOK
    <2>2. chan'[j].map[l] \subseteq chan[j].map[l] /\ chan'[j].twice = chan[j].twice /\ chan'[j].next = chan[j].next
        BY <1>3, <1>4, <1>m
    <2> QED BY <2>1, <2>2
<1>13. PushersOK'
    <2> SUFFICES ASSUME NEW q \in Pushers, pusher'[q].life # "closed" PROVE PusherOK(q)'
        BY DEF PushersOK
    <2>1. q # u /\ pusher'[q] = pusher[q]
        BY <1>5, <1>6
    <2>2. PusherOK(q)
        BY <2>1 DEF ObjInv, PushersOK
    <2>3. CASE pusher[q].chan # i
        BY <1>4, <1>7, <2>1, <2>2, <2>3 DEF PusherOK, WaitsKept
    <2>4. CASE pusher[q].chan = i
        <3>1. pusher[q].kind \in Kinds
            BY <1>t DEF PusherRec
        <3>2. ~chan[i].twice => <<pusher[q].id, q>> \in chan[i].map[pusher[q].kind]
            BY <2>2, <2>4 DEF PusherOK
        <3>3. ~chan[i].twice => <<pusher[q].id, q>> \in m[pusher[q].kind]
            <4>1. CASE pusher[q].kind # k
                BY <1>m, <3>1, <3>2, <4>1
            <4>2. CASE pusher[q].kind = k /\ ~chan[i].twice
                <5>1. <<id, u>> \in chan[i].map[k]
                    BY <1>1, <4>2 DEF PusherOK, i, k, id
                <5>2. <<pusher[q].id, q>> \in chan[i].map[k]
                    BY <3>2, <4>2
                <5>3. \A e, f \in chan[i].map[k] : e[1] = f[1] => e = f
                    BY <1>1, <1>t DEF ObjInv, MapsOK
                <5>4. pusher[q].id # id
                    BY <2>1, <5>1, <5>2, <5>3
                <5> QED BY <1>m, <1>t, <4>2, <5>2, <5>4
            <4> QED BY <4>1, <4>2
        <3>4. /\ pusher'[q].chan = i /\ pusher'[q].kind = pusher[q].kind /\ pusher'[q].id = pusher[q].id
              /\ chan'[i].map = m /\ chan'[i].twice = chan[i].twice /\ chan'[i].life = chan[i].life
              /\ chan'[i].run = chan[i].run /\ waits' = waits
            BY <1>0, <1>1, <1>3, <1>4, <2>1, <2>4
        <3> QED BY <1>1, <2>2, <2>4, <3>3, <3>4 DEF PusherOK, ChanWaits
    <2> QED BY <2>3, <2>4
<1>14. StreamsOK' /\ PortsOK'
    BY <1>0, StreamsSame, PortsSame DEF ObjInv
<1> QED BY <1>3, <1>4, <1>8, <1>9, <1>10, <1>11, <1>12, <1>13, <1>14 DEF ObjInv

\* A request takes its number.
LEMMA OpenPusherStep ==
    ASSUME ObjInv, NEW c \in Clients, NEW k \in Kinds, OpenPusher(c, k)
    PROVE  ObjInv' /\ chan' = chan
<1> DEFINE n == [pc |-> "opening", chan |-> channels, kind |-> k, val |-> chan[channels].next[k]]
<1>0. /\ channels # 0 /\ chan[channels].life = "running" /\ req' = [req EXCEPT ![c] = n]
      /\ UNCHANGED <<channels, chan, player, stream, storage, pusher, ports, waits>>
    BY DEF OpenPusher, Found, objects
<1>t. /\ channels \in Channels /\ chan \in [Channels -> ChanRec] /\ chan[channels] \in ChanRec
      /\ req \in [Clients -> ReqRec]
    BY <1>0, ChanTypes DEF Zero
<1>1. chan[channels].next[k] \in Nat
    BY <1>t DEF ChanRec
<1>2. n \in ReqRec /\ n.chan = channels /\ n.kind = k /\ n.val = chan[channels].next[k]
    BY <1>t, <1>1 DEF ReqRec, Zero
<1> HIDE DEF n
<1>3. /\ req' \in [Clients -> ReqRec] /\ req'[c] = n
      /\ \A d \in Clients : d # c => req'[d] = req[d]
    BY <1>0, <1>2, <1>t, SetOne
<1>4. WaitT' /\ WaitsKept /\ LivesKept /\ MapsKept
    BY <1>0 DEF ObjInv, ObjTypes, WaitT, WaitsKept, ChanWaits, LivesKept, MapsKept
<1>5. ObjTypes'
    BY <1>0, <1>3, <1>4 DEF ObjInv, ObjTypes, ChanT, PlayerT, StreamT, StorageT, PusherT, ReqT
<1>6. LivesOK' /\ MapsOK' /\ StreamsOK' /\ PortsOK'
    BY <1>0, <1>4, LivesSame, MapsSame, StreamsSame, PortsSame DEF ObjInv
<1>7. PlayersOK' /\ StoragesOK' /\ PushersOK'
    BY <1>0, <1>4, PlayersSame, StoragesSame, PushersSame DEF ObjInv
<1>8. ReqsOK'
    <2> SUFFICES ASSUME NEW d \in Clients, req'[d].pc = "opening"
                 PROVE  /\ req'[d].chan \in Channels /\ chan[req'[d].chan].life = "running"
                        /\ ~chan[req'[d].chan].twice => req'[d].val <= chan[req'[d].chan].next[req'[d].kind]
        BY <1>0 DEF ReqsOK
    <2>1. CASE d = c
        BY <1>0, <1>1, <1>2, <1>3, <1>t, <2>1
    <2>2. CASE d # c
        BY <1>3, <2>2 DEF ObjInv, ReqsOK
    <2> QED BY <2>1, <2>2
<1> QED BY <1>0, <1>5, <1>6, <1>7, <1>8 DEF ObjInv

\* A channel gives out the number a request has read, and marks whether another
\* request gave one out meanwhile; the map may get the new pusher.
LEMMA CountUp ==
    ASSUME ObjInv, NEW c \in Clients, req[c].pc = "opening", NEW m \in [Kinds -> SUBSET (Nat \X Pushers)],
           NEW r \in ChanRec, chan' = [chan EXCEPT ![req[c].chan] = r], req' = [req EXCEPT ![c] = NoReq],
           r.life = chan[req[c].chan].life, r.run = chan[req[c].chan].run, r.by = chan[req[c].chan].by,
           r.player = chan[req[c].chan].player, r.storage = chan[req[c].chan].storage, r.map = m,
           r.next = [chan[req[c].chan].next EXCEPT ![req[c].kind] = req[c].val + 1],
           ~r.twice => ~chan[req[c].chan].twice /\ chan[req[c].chan].next[req[c].kind] = req[c].val,
           PusherT', PushersOK',
           \A l \in Kinds : \A e, f \in m[l] : e[1] = f[1] => e = f,
           \A l \in Kinds : \A e \in m[l] :
                \/ e \in chan[req[c].chan].map[l]
                \/ l = req[c].kind /\ e[1] = req[c].val + 1,
           UNCHANGED <<channels, player, stream, storage, ports, waits>>
    PROVE  ObjInv' /\ \A j \in Channels : chan'[j].by = chan[j].by
<1> DEFINE i == req[c].chan
           k == req[c].kind
           v == req[c].val
<1>t. /\ chan \in [Channels -> ChanRec] /\ req \in [Clients -> ReqRec] /\ req[c] \in ReqRec
      /\ k \in Kinds /\ v \in Nat
    BY ChanTypes DEF ReqRec
<1>1. i \in Channels /\ chan[i].life = "running" /\ chan[i] \in ChanRec
    BY <1>t DEF ObjInv, ReqsOK
<1>n. /\ chan[i].next \in [Kinds -> Nat]
      /\ \A l \in Kinds : r.next[l] = IF l = k THEN v + 1 ELSE chan[i].next[l]
    BY <1>1, <1>t DEF ChanRec
<1>2. r.map = m /\ (~r.twice => ~chan[i].twice /\ chan[i].next[k] = v)
      /\ \A l \in Kinds : \A e \in m[l] : e \in chan[i].map[l] \/ (l = k /\ e[1] = v + 1)
    OBVIOUS
<1>3. /\ r.life = chan[i].life /\ r.run = chan[i].run /\ r.by = chan[i].by
      /\ r.player = chan[i].player /\ r.storage = chan[i].storage
    OBVIOUS
<1>4. chan' = [chan EXCEPT ![i] = r]
    OBVIOUS
<1> HIDE DEF i, k, v
<1>5. /\ chan' \in [Channels -> ChanRec] /\ chan'[i] = r
      /\ \A j \in Channels : j # i => chan'[j] = chan[j]
    BY ONLY <1>1, <1>4, <1>t, r \in ChanRec
<1>6. NoReq \in ReqRec /\ NoReq.pc = "idle"
    BY DEF NoReq, ReqRec, Zero, Kinds
<1>7. /\ req' \in [Clients -> ReqRec] /\ req'[c] = NoReq
      /\ \A d \in Clients : d # c => req'[d] = req[d]
    BY <1>6, <1>t, SetOne
<1>8. WaitT' /\ WaitsKept /\ LivesKept
    BY <1>3, <1>5 DEF ObjInv, ObjTypes, WaitT, WaitsKept, ChanWaits, LivesKept
<1>9. ObjTypes'
    BY <1>5, <1>7, <1>8 DEF ObjInv, ObjTypes, ChanT, PlayerT, StreamT, StorageT, ReqT
<1>10. LivesOK' /\ StreamsOK' /\ PortsOK'
    BY <1>8, LivesSame, StreamsSame, PortsSame DEF ObjInv
<1>11. PlayersOK' /\ StoragesOK'
    BY <1>3, <1>5, <1>8, PlayersSame, StoragesSame DEF ObjInv
<1>12. MapsOK'
    <2> SUFFICES ASSUME NEW j \in Channels, NEW l \in Kinds
                 PROVE  /\ \A e, f \in chan'[j].map[l] : e[1] = f[1] => e = f
                        /\ ~chan'[j].twice => \A e \in chan'[j].map[l] : e[1] <= chan'[j].next[l]
        BY DEF MapsOK
    <2>1. /\ \A e, f \in chan[j].map[l] : e[1] = f[1] => e = f
          /\ ~chan[j].twice => \A e \in chan[j].map[l] : e[1] <= chan[j].next[l]
        BY DEF ObjInv, MapsOK
    <2>2. CASE j # i
        BY <1>5, <2>1, <2>2
    <2>3. CASE j = i
        <3>1. chan'[j] = r
            BY <1>5, <2>3
        <3>2. ASSUME ~r.twice, NEW e \in m[l] PROVE e[1] <= r.next[l]
            <4>1. e \in chan[i].map[l] => e[1] <= chan[i].next[l]
                BY <1>2, <2>1, <2>3, <3>2
            <4>2. e[1] \in Nat
                BY <3>2
            <4>3. chan[i].next[l] \in Nat /\ (l = k => chan[i].next[l] = v)
                BY <1>2, <1>n, <3>2
            <4> QED BY <1>2, <1>n, <1>t, <4>1, <4>2, <4>3
        <3> QED BY <1>2, <3>1, <3>2
    <2> QED BY <2>2, <2>3
<1>13. ReqsOK'
    <2> SUFFICES ASSUME NEW d \in Clients, req'[d].pc = "opening"
                 PROVE  /\ req'[d].chan \in Channels /\ chan'[req'[d].chan].life = "running"
                        /\ ~chan'[req'[d].chan].twice => req'[d].val <= chan'[req'[d].chan].next[req'[d].kind]
        BY DEF ReqsOK
    <2>1. d # c /\ req'[d] = req[d] /\ req[d] \in ReqRec
        BY <1>6, <1>7, <1>t
    <2>2. /\ req[d].chan \in Channels /\ chan[req[d].chan].life = "running"
          /\ ~chan[req[d].chan].twice => req[d].val <= chan[req[d].chan].next[req[d].kind]
        BY <2>1 DEF ObjInv, ReqsOK
    <2>3. CASE req[d].chan # i
        BY <1>5, <2>1, <2>2, <2>3
    <2>4. CASE req[d].chan = i
        <3>1. chan'[req'[d].chan] = r /\ req[d].val \in Nat /\ req[d].kind \in Kinds
            BY <1>5, <2>1, <2>4 DEF ReqRec
        <3>2. ASSUME ~r.twice PROVE req[d].val <= r.next[req[d].kind]
            <4>1. req[d].val <= chan[i].next[req[d].kind]
                BY <1>2, <2>2, <2>4, <3>2
            <4>2. chan[i].next[req[d].kind] \in Nat /\ (req[d].kind = k => chan[i].next[req[d].kind] = v)
                BY <1>2, <1>n, <3>1, <3>2
            <4> QED BY <1>n, <1>t, <3>1, <4>1, <4>2
        <3> QED BY <1>1, <1>3, <2>1, <2>2, <2>4, <3>1, <3>2
    <2> QED BY <2>3, <2>4
<1> QED BY <1>3, <1>5, <1>9, <1>10, <1>11, <1>12, <1>13 DEF ObjInv

\* The pusher is started and stored under its number.
LEMMA StorePusherStep ==
    ASSUME ObjInv, NEW c \in Clients, StorePusher(c)
    PROVE  ObjInv' /\ \A j \in Channels : chan'[j].by = chan[j].by
<1> DEFINE i == req[c].chan
           k == req[c].kind
           v == req[c].val
           u == Min(FreePushers)
           n == [life |-> "running", chan |-> i, kind |-> k, id |-> v + 1]
           m == [chan[i].map EXCEPT ![k] = {e \in chan[i].map[k] : e[1] # v + 1} \union {<<v + 1, u>>}]
           t == chan[i].twice \/ chan[i].next[k] # v
           r == [chan[i] EXCEPT !.next = [chan[i].next EXCEPT ![k] = v + 1], !.twice = t, !.map = m]
<1>0. /\ req[c].pc = "opening" /\ FreePushers # {} /\ pusher' = [pusher EXCEPT ![u] = n]
      /\ req' = [req EXCEPT ![c] = NoReq]
      /\ UNCHANGED <<channels, player, stream, storage, ports, waits>>
    BY DEF StorePusher
<1>c. chan' = [chan EXCEPT ![i].next[k] = v + 1, ![i].twice = @ \/ chan[i].next[k] # v,
                           ![i].map[k] = {e \in @ : e[1] # v + 1} \union {<<v + 1, u>>}]
    BY DEF StorePusher
<1>1. u \in Pushers /\ pusher[u].life = "closed"
    <2>1. FreePushers \subseteq Nat
        BY Numbers DEF FreePushers
    <2>2. u \in FreePushers
        BY <1>0, <2>1, MinFacts
    <2> HIDE DEF u
    <2> QED BY <2>2 DEF FreePushers, Unused, Life, Ref
<1> HIDE DEF u
<1>t. /\ chan \in [Channels -> ChanRec] /\ pusher \in [Pushers -> PusherRec] /\ req[c] \in ReqRec
      /\ k \in Kinds /\ v \in Nat
    BY ChanTypes DEF ReqRec
<1>2. i \in Channels /\ chan[i].life = "running" /\ chan[i] \in ChanRec /\ chan[i].run = "idle"
    BY <1>0, <1>t DEF ObjInv, ReqsOK, LivesOK
<1>f. chan[i].map \in [Kinds -> SUBSET (Nat \X Pushers)] /\ chan[i].next \in [Kinds -> Nat]
    BY <1>2 DEF ChanRec
<1>3. chan' = [chan EXCEPT ![i] = r]
    BY <1>2, <1>c, <1>t
<1>b. t \in BOOLEAN
    BY Zenon
<1>4. /\ m \in [Kinds -> SUBSET (Nat \X Pushers)]
      /\ m[k] = {e \in chan[i].map[k] : e[1] # v + 1} \union {<<v + 1, u>>}
      /\ \A l \in Kinds : l # k => m[l] = chan[i].map[l]
    BY <1>1, <1>f, <1>t
<1>5. n \in PusherRec /\ n.life = "running" /\ n.chan = i /\ n.kind = k /\ n.id = v + 1
    BY <1>2, <1>t DEF PusherRec, Zero
<1>6. (~t => ~chan[i].twice /\ chan[i].next[k] = v)
    OBVIOUS
<1>x. [chan[i].next EXCEPT ![k] = v + 1] \in [Kinds -> Nat]
    BY <1>f, <1>t
<1> HIDE DEF m, t, n
<1>7. /\ r \in ChanRec /\ r.life = chan[i].life /\ r.run = chan[i].run /\ r.by = chan[i].by
      /\ r.player = chan[i].player /\ r.storage = chan[i].storage /\ r.map = m
      /\ r.next = [chan[i].next EXCEPT ![k] = v + 1] /\ r.twice = t
    BY <1>2, <1>4, <1>b, <1>x DEF ChanRec
<1> HIDE DEF r
<1>8. /\ pusher' \in [Pushers -> PusherRec] /\ pusher'[u] = n
      /\ \A q \in Pushers : q # u => pusher'[q] = pusher[q]
    BY <1>0, <1>1, <1>5, <1>t, SetOne
<1>9. chan'[i] = r /\ \A j \in Channels : j # i => chan'[j] = chan[j]
    BY ONLY <1>2, <1>3, <1>7, <1>t
<1>10. \A l \in Kinds : \A e \in m[l] : e \in chan[i].map[l] \/ (l = k /\ e[1] = v + 1)
    BY <1>4
<1>11. \A l \in Kinds : \A e, f \in m[l] : e[1] = f[1] => e = f
    <2> SUFFICES ASSUME NEW l \in Kinds, NEW e \in m[l], NEW f \in m[l], e[1] = f[1] PROVE e = f
        OBVIOUS
    <2>1. \A x, y \in chan[i].map[l] : x[1] = y[1] => x = y
        BY <1>2 DEF ObjInv, MapsOK
    <2>2. CASE l # k
        BY <1>4, <2>1, <2>2
    <2>3. CASE l = k
        <3>1. \A x \in m[k] : (x \in chan[i].map[k] /\ x[1] # v + 1) \/ (x = <<v + 1, u>> /\ x[1] = v + 1)
            BY <1>4
        <3> QED BY <2>1, <2>3, <3>1
    <2> QED BY <2>2, <2>3
<1>12. PushersOK'
    <2> SUFFICES ASSUME NEW q \in Pushers, pusher'[q].life # "closed" PROVE PusherOK(q)'
        BY DEF PushersOK
    <2>1. CASE q = u
        <3>1. pusher'[q].chan = i /\ pusher'[q].kind = k /\ pusher'[q].id = v + 1
            BY <1>5, <1>8, <2>1
        <3>2. <<v + 1, u>> \in chan'[i].map[k] /\ chan'[i].life = "running" /\ chan'[i].run = "idle"
            BY <1>2, <1>4, <1>7, <1>9
        <3> QED BY <1>2, <2>1, <3>1, <3>2 DEF PusherOK
    <2>2. CASE q # u
        <3>1. pusher'[q] = pusher[q]
            BY <1>8, <2>2
        <3>2. PusherOK(q)
            BY <3>1 DEF ObjInv, PushersOK
        <3>3. CASE pusher[q].chan # i
            BY <1>0, <1>9, <3>1, <3>2, <3>3 DEF PusherOK, ChanWaits
        <3>4. CASE pusher[q].chan = i
            <4>1. chan'[i].life = chan[i].life /\ chan'[i].run = chan[i].run /\ chan'[i].map = m /\ chan'[i].twice = t
                BY <1>7, <1>9
            <4>2. ASSUME ~t PROVE <<pusher[q].id, q>> \in m[pusher[q].kind]
                <5>1. <<pusher[q].id, q>> \in chan[i].map[pusher[q].kind]
                    BY <1>6, <3>2, <3>4, <4>2 DEF PusherOK
                <5>2. pusher[q].kind \in Kinds /\ pusher[q].id \in Nat
                    BY <1>t DEF PusherRec
                <5>3. CASE pusher[q].kind # k
                    BY <1>4, <5>1, <5>2, <5>3
                <5>4. CASE pusher[q].kind = k
                    <6>1. \A e \in chan[i].map[k] : e[1] <= v
                        BY <1>2, <1>6, <1>t, <4>2 DEF ObjInv, MapsOK
                    <6>2. <<pusher[q].id, q>>[1] <= v
                        BY <5>1, <5>4, <6>1
                    <6>3. <<pusher[q].id, q>>[1] # v + 1
                        BY <1>t, <5>2, <6>2
                    <6> QED BY <1>4, <5>1, <5>4, <6>3
                <5> QED BY <5>3, <5>4
            <4> QED BY <1>0, <1>6, <3>1, <3>2, <3>4, <4>1, <4>2 DEF PusherOK, ChanWaits
        <3> QED BY <3>3, <3>4
    <2> QED BY <2>1, <2>2
<1>13. PusherT'
    BY <1>8 DEF PusherT
<1>14. ~r.twice => ~chan[req[c].chan].twice /\ chan[req[c].chan].next[req[c].kind] = req[c].val
    BY <1>6, <1>7
<1>15. /\ m \in [Kinds -> SUBSET (Nat \X Pushers)] /\ req[c].pc = "opening" /\ req' = [req EXCEPT ![c] = NoReq]
       /\ UNCHANGED <<channels, player, stream, storage, ports, waits>>
    BY <1>0, <1>4
<1> QED BY ONLY ObjInv, c \in Clients, <1>3, <1>7, <1>10, <1>11, <1>12, <1>13, <1>14, <1>15, CountUp, ZenonT(60)

\* OpenHistoryRtpPusher fails once it has its number.
LEMMA OpenHistoryFailsStep ==
    ASSUME ObjInv, NEW c \in Clients, OpenHistoryFails(c)
    PROVE  ObjInv' /\ \A j \in Channels : chan'[j].by = chan[j].by
<1> DEFINE i == req[c].chan
           v == req[c].val
           t == chan[i].twice \/ chan[i].next["history"] # v
           r == [chan[i] EXCEPT !.next = [chan[i].next EXCEPT !["history"] = v + 1], !.twice = t]
<1>0. /\ req[c].pc = "opening" /\ req[c].kind = "history" /\ req' = [req EXCEPT ![c] = NoReq]
      /\ UNCHANGED <<channels, player, stream, storage, pusher, ports, waits>>
    BY DEF OpenHistoryFails
<1>c. chan' = [chan EXCEPT ![i].next["history"] = v + 1, ![i].twice = @ \/ chan[i].next["history"] # v]
    BY DEF OpenHistoryFails
<1>t. /\ chan \in [Channels -> ChanRec] /\ req[c] \in ReqRec /\ "history" \in Kinds /\ v \in Nat
    BY ChanTypes DEF ReqRec, Kinds
<1>2. i \in Channels /\ chan[i] \in ChanRec
    BY <1>0, <1>t DEF ObjInv, ReqsOK
<1>f. chan[i].map \in [Kinds -> SUBSET (Nat \X Pushers)] /\ chan[i].next \in [Kinds -> Nat]
    BY <1>2 DEF ChanRec
<1>3. chan' = [chan EXCEPT ![i] = r]
    BY <1>2, <1>c, <1>t
<1>b. t \in BOOLEAN
    BY Zenon
<1>6. (~t => ~chan[i].twice /\ chan[i].next["history"] = v)
    OBVIOUS
<1>x. [chan[i].next EXCEPT !["history"] = v + 1] \in [Kinds -> Nat]
    BY <1>f, <1>t
<1> HIDE DEF t
<1>7. /\ r \in ChanRec /\ r.life = chan[i].life /\ r.run = chan[i].run /\ r.by = chan[i].by
      /\ r.player = chan[i].player /\ r.storage = chan[i].storage /\ r.map = chan[i].map
      /\ r.next = [chan[i].next EXCEPT !["history"] = v + 1] /\ r.twice = t
    BY <1>2, <1>b, <1>x DEF ChanRec
<1> HIDE DEF r
<1>9. chan'[i] = r /\ \A j \in Channels : j # i => chan'[j] = chan[j]
    BY ONLY <1>2, <1>3, <1>7, <1>t
<1>10. \A l \in Kinds : \A e, f \in chan[i].map[l] : e[1] = f[1] => e = f
    BY <1>2 DEF ObjInv, MapsOK
<1>11. PusherT'
    BY <1>0 DEF ObjInv, ObjTypes, PusherT
<1>12. PushersOK'
    <2>1. \A j \in Channels : /\ chan'[j].map = chan[j].map /\ chan'[j].life = chan[j].life /\ chan'[j].run = chan[j].run
                              /\ chan[j].twice => chan'[j].twice
        BY <1>6, <1>7, <1>9
    <2> QED BY <1>0, <2>1 DEF ObjInv, PushersOK, PusherOK, ChanWaits
<1>13. ~r.twice => ~chan[req[c].chan].twice /\ chan[req[c].chan].next[req[c].kind] = req[c].val
    BY <1>0, <1>6, <1>7
<1>14. r.next = [chan[req[c].chan].next EXCEPT ![req[c].kind] = req[c].val + 1]
    BY <1>0, <1>7
<1> QED BY <1>0, <1>3, <1>7, <1>f, <1>10, <1>11, <1>12, <1>13, <1>14, CountUp

\* StartRecord and StopRecord.
LEMMA RecordStep ==
    ASSUME ObjInv, NEW i \in Channels, NEW on \in BOOLEAN, Record(i, on),
           UNCHANGED <<channels, player, stream, storage, pusher, ports, req, waits>>
    PROVE  ObjInv' /\ \A j \in Channels : chan'[j].by = chan[j].by
<1> DEFINE r == [chan[i] EXCEPT !.record = on]
<1>t. chan \in [Channels -> ChanRec] /\ chan[i] \in ChanRec
    BY ChanTypes
<1>1. chan' = [chan EXCEPT ![i] = r]
    BY <1>t DEF Record
<1>2. /\ r \in ChanRec /\ r.player = chan[i].player /\ r.life = chan[i].life /\ r.run = chan[i].run
      /\ r.by = chan[i].by /\ r.map = chan[i].map /\ r.next = chan[i].next /\ r.twice = chan[i].twice
      /\ r.storage = chan[i].storage
    BY <1>t DEF ChanRec
<1> HIDE DEF r
<1>3. /\ chan' \in [Channels -> ChanRec] /\ chan'[i] = r
      /\ \A j \in Channels : j # i => chan'[j] = chan[j]
    BY <1>1, <1>2, <1>t, SetOne
<1>4. /\ WaitT' /\ WaitsKept /\ LivesKept /\ MapsKept
      /\ \A j \in Channels : /\ chan'[j].player = chan[j].player /\ chan'[j].storage = chan[j].storage
                             /\ chan'[j].by = chan[j].by
    BY <1>2, <1>3 DEF ObjInv, ObjTypes, WaitT, WaitsKept, ChanWaits, LivesKept, MapsKept
<1>5. ChanT' /\ PlayerT' /\ StreamT' /\ StorageT' /\ PusherT'
    BY <1>3 DEF ObjInv, ObjTypes, ChanT, PlayerT, StreamT, PusherT, StorageT
<1>6. StreamsOK' /\ PortsOK'
    BY StreamsSame, PortsSame DEF ObjInv
<1> QED BY <1>4, <1>5, <1>6, CalmStep

-----------------------------------------------------------------------------
(* Requests, events and what the objects do by themselves.                 *)

\* Who has made a channel does not change as long as a component has it.
MakersKept == \A i \in Channels : Ref("channel", i) \in kept => chan'[i].by = chan[i].by

\* The objects stay as they should be.
Keeps == ObjInv' /\ MakersKept

\* The manager or a request closes the channel of the id.
LEMMA CloseTheChannel ==
    ASSUME ObjInv, channels # 0, ~Locked(channels), chan' = [chan EXCEPT ![channels].life = Closing(@)],
           UNCHANGED <<channels, player, stream, storage, pusher, ports, req>>, WaitT', WaitsKept
    PROVE  Keeps
<1>1. channels \in Channels /\ chan \in [Channels -> ChanRec]
    BY ChanTypes DEF Zero
<1>2. chan' = [i \in Channels |-> IF i \in {channels} THEN [chan[i] EXCEPT !.life = Closing(@)] ELSE chan[i]]
    BY <1>1
<1>3. ObjInv' /\ \A i \in Channels : chan'[i].by = chan[i].by
    BY <1>2, CloseChannels
<1> QED BY <1>3 DEF Keeps, MakersKept

\* A request begins to wait.
LEMMA ClientWaits ==
    ASSUME ObjInv, NEW c \in Clients, NEW o, CloseAndWait(c, o)
    PROVE  WaitT' /\ WaitsKept /\ UNCHANGED <<mgr, channels, req, kept>>
    BY OtherThreads, WaitsOfOther DEF CloseAndWait, ObjInv, ObjTypes

\* Nobody begins or ends to wait.
LEMMA WaitsStay ==
    ASSUME ObjInv, waits' = waits
    PROVE  WaitT' /\ WaitsKept
    BY DEF ObjInv, ObjTypes, WaitT, WaitsKept, ChanWaits

\* The channel that a request finds.
LEMMA FoundFacts ==
    ASSUME ObjInv, NEW c \in Clients, Found(c)
    PROVE  /\ channels \in Channels /\ channels # 0
           /\ ThePlayer \in Zero(Players) /\ chan[channels].storage \in Zero(Storages)
<1>1. channels \in Channels /\ channels # 0
    BY ChanTypes DEF Found, Zero
<1>2. chan[channels] \in ChanRec
    BY <1>1, ChanTypes
<1> QED BY <1>1, <1>2 DEF ThePlayer, ChanRec

\* Creating and deleting the channel.
LEMMA ChannelRequestKeeps ==
    ASSUME ObjInv, NEW c \in Clients, ChannelRequest(c)
    PROVE  Keeps
<1>1. CASE CreateRequest(c)
    <2>1. Create("api") /\ UNCHANGED <<req, waits, kept>>
        BY <1>1 DEF CreateRequest
    <2>2. WaitT' /\ WaitsKept
        BY <2>1, WaitsStay
    <2>3. /\ ObjInv' /\ Ref("channel", channels') \notin kept
          /\ \A i \in Channels : i # channels' => chan'[i] = chan[i]
        BY <2>1, <2>2, CreateStep
    <2>4. MakersKept
        BY <2>3 DEF MakersKept
    <2> QED BY <2>3, <2>4 DEF Keeps
<1>2. CASE DeleteRequest(c)
    <2>1. /\ channels # 0 /\ ~Locked(channels) /\ chan' = [chan EXCEPT ![channels].life = Closing(@)]
          /\ CloseAndWait(c, Ref("channel", channels)) /\ UNCHANGED <<player, stream, storage, pusher, ports>>
        BY <1>2 DEF DeleteRequest
    <2>2. WaitT' /\ WaitsKept /\ UNCHANGED <<channels, req>>
        BY <2>1, ClientWaits
    <2> QED BY <2>1, <2>2, CloseTheChannel
<1> QED BY <1>1, <1>2 DEF ChannelRequest

\* Requests about the player.
LEMMA PlayerRequestKeeps ==
    ASSUME ObjInv, NEW c \in Clients, PlayerRequest(c)
    PROVE  Keeps
<1>1. CASE OpenRtpPlayerRequest(c)
    <2>1. /\ channels \in Channels /\ OpenPlayer(channels, TRUE)
          /\ UNCHANGED <<channels, storage, req, stream, pusher, ports, waits>>
        BY <1>1, FoundFacts DEF OpenRtpPlayerRequest, Done
    <2> QED BY <2>1, OpenPlayerStep DEF Keeps, MakersKept
<1>2. CASE AddStreamRequest(c)
    <2> DEFINE p == ThePlayer
               r == [player[p] EXCEPT !.api = TRUE]
    <2>1. p \in Players
        BY <1>2, FoundFacts DEF AddStreamRequest, Zero
    <2>2. /\ player' = [player EXCEPT ![p].api = TRUE] /\ Aside /\ UNCHANGED <<pusher, waits>>
          /\ \E udp \in BOOLEAN : AddStream(p, udp)
        BY <1>2 DEF AddStreamRequest, Done, Aside
    <2> HIDE DEF p
    <2>3. player \in [Players -> PlayerRec] /\ player[p] \in PlayerRec
        BY <2>1, ChanTypes
    <2>4. player' = [player EXCEPT ![p] = r]
        BY <2>1, <2>2, <2>3
    <2>5. /\ r \in PlayerRec /\ r.life = player[p].life /\ r.chan = player[p].chan /\ r.run = player[p].run
          /\ r.todo = player[p].todo
        BY <2>3 DEF PlayerRec
    <2> HIDE DEF r
    <2>6. /\ player' \in [Players -> PlayerRec] /\ player'[p] = r
          /\ \A q \in Players : q # p => player'[q] = player[q]
        BY <2>1, <2>3, <2>4, <2>5, SetOne
    <2>7. /\ PlayerT'
          /\ \A q \in Players : /\ player'[q].life = player[q].life /\ player'[q].chan = player[q].chan
                                /\ player'[q].run = player[q].run /\ player'[q].todo = player[q].todo
        BY <2>5, <2>6 DEF PlayerT
    <2>8. PICK udp \in BOOLEAN : AddStream(p, udp)
        BY <2>2
    <2>9. Aside /\ UNCHANGED <<pusher, waits>>
        BY <2>2
    <2>10. ObjInv'
        BY ONLY ObjInv, <2>1, <2>7, <2>8, <2>9, AddStreamStep
    <2> QED BY <2>2, <2>10 DEF Keeps, MakersKept, Aside
<1>3. CASE SetupStreamRequest(c)
    <2>1. /\ Aside /\ UNCHANGED <<pusher, waits, player, ports>>
          /\ \E s \in StreamsOf(ThePlayer) : SetupStream(s)
        BY <1>3 DEF SetupStreamRequest, Done, Aside
    <2>2. PICK s \in Streams : stream[s].state = "added" /\ stream' = [stream EXCEPT ![s].state = "up"]
        BY <2>1 DEF StreamsOf, SetupStream
    <2>3. ObjInv'
        BY <2>1, <2>2, StreamUpStep
    <2> QED BY <2>1, <2>3 DEF Keeps, MakersKept, Aside
<1>4. CASE RemoveStreamRequest(c)
    <2>1. /\ Aside /\ UNCHANGED <<pusher, waits>>
          /\ \E s \in StreamsOf(ThePlayer) : RemoveStream(s)
        BY <1>4 DEF RemoveStreamRequest, Done, Aside
    <2>2. PICK s \in Streams : RemoveStream(s)
        BY <2>1 DEF StreamsOf
    <2>3. WaitT' /\ WaitsKept
        BY <2>1, WaitsStay
    <2>4. ObjInv'
        BY <2>1, <2>2, <2>3, RemoveStreamStep
    <2> QED BY <2>1, <2>4 DEF Keeps, MakersKept, Aside
<1>5. CASE CloseRtpPlayerRequest(c)
    <2> DEFINE p == ThePlayer
    <2>1. p \in Players
        BY <1>5, FoundFacts DEF CloseRtpPlayerRequest, Zero
    <2>2. /\ player' = [player EXCEPT ![p].life = Closing(@)] /\ UNCHANGED <<chan, storage, pusher, stream, ports>>
          /\ CloseAndWait(c, Ref("player", p))
        BY <1>5 DEF CloseRtpPlayerRequest
    <2> HIDE DEF p
    <2>3. WaitT' /\ WaitsKept /\ UNCHANGED <<channels, req>>
        BY <2>2, ClientWaits
    <2>4. ObjInv'
        BY <2>1, <2>2, <2>3, ClosePlayerStep DEF Aside
    <2> QED BY <2>2, <2>4 DEF Keeps, MakersKept
<1> QED BY <1>1, <1>2, <1>3, <1>4, <1>5 DEF PlayerRequest

\* Requests about the storage.
LEMMA StorageRequestKeeps ==
    ASSUME ObjInv, NEW c \in Clients, StorageRequest(c)
    PROVE  Keeps
<1>1. CASE SetupStorageRequest(c)
    <2>1. channels \in Channels /\ SetupStorage(channels) /\ UNCHANGED <<channels, player, stream, pusher, ports, req, waits>>
        BY <1>1, FoundFacts DEF SetupStorageRequest, Done
    <2> QED BY <2>1, SetupStorageStep DEF Keeps, MakersKept
<1>2. CASE StopStorageRequest(c)
    <2> DEFINE s == chan[channels].storage
    <2>1. s \in Storages
        BY <1>2, FoundFacts DEF StopStorageRequest, Zero
    <2>2. /\ storage' = [storage EXCEPT ![s].life = Closing(storage[s].life)] /\ CloseAndWait(c, Ref("storage", s))
          /\ UNCHANGED <<chan, player, stream, pusher, ports>>
        BY <1>2 DEF StopStorageRequest
    <2> HIDE DEF s
    <2>3. WaitT' /\ WaitsKept /\ UNCHANGED <<channels, req>>
        BY <2>2, ClientWaits
    <2>4. storage[s] \in StorageRec
        BY <2>1, ChanTypes
    <2>5. /\ Closing(storage[s].life) \in {"starting", "running", "closing", "closed"}
          /\ Closing(storage[s].life) = "closed" <=> storage[s].life = "closed"
        BY <2>4, ClosingFacts DEF StorageRec
    <2>6. ObjInv'
        BY <2>1, <2>2, <2>3, <2>5, StorageGoesOn
    <2> QED BY <2>2, <2>6 DEF Keeps, MakersKept
<1>3. CASE RecordRequest(c)
    <2>1. /\ channels \in Channels /\ \E on \in BOOLEAN : Record(channels, on)
          /\ UNCHANGED <<channels, player, stream, storage, pusher, ports, req, waits>>
        BY <1>3, FoundFacts DEF RecordRequest, Done
    <2>2. ObjInv' /\ \A j \in Channels : chan'[j].by = chan[j].by
        BY <2>1, RecordStep
    <2> QED BY <2>2 DEF Keeps, MakersKept
<1> QED BY <1>1, <1>2, <1>3 DEF StorageRequest

\* Requests about pushers of either kind.
LEMMA PusherRequestKeeps ==
    ASSUME ObjInv, NEW c \in Clients, NEW k \in Kinds, OpenPusher(c, k) \/ ClosePusher(c, k) \/ RemoveLastStream(c, k)
    PROVE  Keeps
<1>1. CASE OpenPusher(c, k)
    BY <1>1, OpenPusherStep DEF Keeps, MakersKept
<1>2. CASE ClosePusher(c, k)
    <2>1. channels \in Channels /\ UNCHANGED <<chan, player, stream, storage, ports>>
        BY <1>2, FoundFacts DEF ClosePusher
    <2>2. PICK u \in Mapped(channels, k) : /\ pusher' = [pusher EXCEPT ![u].life = Closing(@)]
                                           /\ CloseAndWait(c, Ref("pusher", u))
        BY <1>2 DEF ClosePusher
    <2>3. WaitT' /\ WaitsKept /\ UNCHANGED <<channels, req>>
        BY <2>2, ClientWaits
    <2>4. ObjInv'
        BY <2>1, <2>2, <2>3, ClosePusherStep
    <2> QED BY <2>1, <2>4 DEF Keeps, MakersKept
<1>3. CASE RemoveLastStream(c, k)
    <2>1. channels \in Channels /\ UNCHANGED <<chan, player, stream, storage, ports, channels, req, waits>>
        BY <1>3, FoundFacts DEF RemoveLastStream, Done
    <2>2. PICK u \in Mapped(channels, k) : pusher' = [pusher EXCEPT ![u].life = Closing(@)]
        BY <1>3 DEF RemoveLastStream
    <2>3. WaitT' /\ WaitsKept
        BY <2>1, WaitsStay
    <2>4. ObjInv'
        BY <2>1, <2>2, <2>3, ClosePusherStep
    <2> QED BY <2>1, <2>4 DEF Keeps, MakersKept
<1> QED BY <1>1, <1>2, <1>3

\* The requests of the API.
LEMMA RequestKeeps ==
    ASSUME ObjInv, NEW c \in Clients, Request(c)
    PROVE  Keeps
<1>1. "rtp" \in Kinds /\ "history" \in Kinds
    BY DEF Kinds
<1>2. CASE PusherRequest(c) \/ HistoryRequest(c)
    BY <1>1, <1>2, PusherRequestKeeps DEF PusherRequest, HistoryRequest
<1> QED BY <1>2, ChannelRequestKeeps, PlayerRequestKeeps, StorageRequestKeeps DEF Request

\* Something fails or ends by itself.
LEMMA EventsKeep ==
    ASSUME ObjInv, Events
    PROVE  Keeps
<1>0. UNCHANGED <<channels, req, waits>>
    BY DEF Events
<1>w. WaitT' /\ WaitsKept
    BY <1>0, WaitsStay
<1>1. ASSUME NEW s \in Streams, StreamLost(s) PROVE Keeps
    <2>1. RemoveStream(s) /\ Aside /\ UNCHANGED pusher
        BY <1>0, <1>1 DEF StreamLost, Aside
    <2>2. ObjInv'
        BY <1>w, <2>1, RemoveStreamStep
    <2> QED BY <2>1, <2>2 DEF Keeps, MakersKept, Aside
<1>2. ASSUME NEW p \in Players, HandlerEnds(p) PROVE Keeps
    BY <1>0, <1>2, PlayerEmptyStep DEF Keeps, MakersKept
<1>3. ASSUME NEW s \in Storages, StorageFails(s) PROVE Keeps
    BY <1>0, <1>3, ForgetStorageStep DEF Keeps, MakersKept, StorageFails
<1>4. ASSUME NEW u \in Pushers, PusherEnds(u) PROVE Keeps
    <2>1. ObjInv'
        BY <1>0, <1>4, <1>w, PusherGoesOn DEF PusherEnds
    <2> QED BY <1>4, <2>1 DEF Keeps, MakersKept, PusherEnds
<1> QED BY <1>1, <1>2, <1>3, <1>4 DEF Events

\* A thread that is no channel's wakes.
LEMMA WakeKeeps ==
    ASSUME ObjInv, NEW t \in Threads, \A i \in Channels : t # Ref("channel", i), Wake(t),
           UNCHANGED <<channels, objects, req>>
    PROVE  Keeps
<1>1. WaitT' /\ WaitsKept
    BY WaitsOfOther DEF Wake, ObjInv, ObjTypes
<1> QED BY <1>1, QuietStep DEF Keeps, MakersKept, objects

\* The objects go on.
LEMMA ServingKeeps ==
    ASSUME ObjInv, Serving
    PROVE  Keeps
<1>1. ASSUME NEW c \in Clients, Answer(c) \/ StorePusher(c) \/ OpenHistoryFails(c) PROVE Keeps
    <2>1. CASE Answer(c)
        BY <2>1, OtherThreads, WakeKeeps DEF Answer
    <2>2. CASE StorePusher(c)
        BY <2>2, StorePusherStep DEF Keeps, MakersKept
    <2>3. CASE OpenHistoryFails(c)
        BY <2>3, OpenHistoryFailsStep DEF Keeps, MakersKept
    <2> QED BY <1>1, <2>1, <2>2, <2>3
<1>2. ASSUME NEW i \in Channels, ChannelStep(i) PROVE Keeps
    BY <1>2, ChannelStepKeeps DEF Keeps, MakersKept
<1>3. ASSUME NEW p \in Players, PlayerStep(p) PROVE Keeps
    BY <1>3, PlayerStepKeeps DEF Keeps, MakersKept
<1>4. CASE ManagerRun
    <2>1. UNCHANGED <<channels, player, stream, storage, pusher, ports, req>>
        BY <1>4 DEF ManagerRun
    <2>2. CASE channels = 0
        <3>1. UNCHANGED <<chan, waits>>
            BY <1>4, <2>2 DEF ManagerRun
        <3> QED BY <2>1, <3>1, WaitsStay, QuietStep DEF Keeps, MakersKept, objects
    <2>3. CASE channels # 0
        <3>1. /\ ~Locked(channels) /\ chan' = [chan EXCEPT ![channels].life = Closing(@)]
              /\ waits' = [waits EXCEPT ![Manager] = {Ref("channel", channels)}]
            BY <1>4, <2>3 DEF ManagerRun
        <3>2. WaitT' /\ WaitsKept
            BY <3>1, OtherThreads, WaitsOfOther DEF ObjInv, ObjTypes
        <3> QED BY <2>1, <2>3, <3>1, <3>2, CloseTheChannel
    <2> QED BY <2>2, <2>3
<1>5. CASE ManagerWake
    BY <1>5, OtherThreads, WakeKeeps DEF ManagerWake
<1>6. CASE Ending
    <2>0. UNCHANGED <<channels, req, waits>>
        BY <1>6 DEF Ending
    <2>w. WaitT' /\ WaitsKept
        BY <2>0, WaitsStay
    <2>1. ASSUME NEW p \in Players, PlayerEmpty(p) PROVE Keeps
        BY <2>0, <2>1, PlayerEmptyStep DEF Keeps, MakersKept
    <2>2. ASSUME NEW s \in Storages, StorageStarted(s) PROVE Keeps
        <3>1. ObjInv'
            BY <2>0, <2>2, <2>w, StorageGoesOn DEF StorageStarted
        <3> QED BY <2>2, <3>1 DEF Keeps, MakersKept, StorageStarted
    <2>3. ASSUME NEW s \in Storages, StorageEnd(s) PROVE Keeps
        BY <2>0, <2>3, ForgetStorageStep DEF Keeps, MakersKept, StorageEnd
    <2>4. ASSUME NEW u \in Pushers, PusherEnd(u) PROVE Keeps
        BY <2>0, <2>4, PusherEndStep DEF Keeps, MakersKept
    <2> QED BY <1>6, <2>1, <2>2, <2>3, <2>4 DEF Ending
<1> QED BY <1>1, <1>2, <1>3, <1>4, <1>5, <1>6 DEF Serving

-----------------------------------------------------------------------------
(* The Zongheng manager.                                                   *)

\* The manager refers to what it works on by what it keeps: its invariant
\* follows from who made the channels it has now.
LEMMA ZhHas ==
    ASSUME ZhT', kept' = Kept(zh'),
           zh'.pc \in {"storage", "record", "open", "stream", "start", "setup", "failed", "failing"} => zh'.mine # 0,
           zh'.pc = "stream" => zh'.player # 0, zh'.pc \in {"start", "setup"} => zh'.stream # 0,
           \A i \in ({zh'.mine} \union zh'.remove) \ {0} : chan'[i].by = "zongheng"
    PROVE  ZhOK'
    BY DEF ZhOK, ZhMine, Kept

\* A step in which it keeps its channels, and one in which it only gives some up.
LEMMA ZhGoesOn ==
    ASSUME ZhT, ZhT', ZhOK, MakersKept, kept' = Kept(zh'),
           ({zh'.mine} \union zh'.remove) \subseteq {zh.mine, 0} \union zh.remove,
           zh'.pc \in {"storage", "record", "open", "stream", "start", "setup", "failed", "failing"} => zh'.mine # 0,
           zh'.pc = "stream" => zh'.player # 0, zh'.pc \in {"start", "setup"} => zh'.stream # 0
    PROVE  ZhOK'
<1>1. \A i \in ({zh'.mine} \union zh'.remove) \ {0} : i \in Channels /\ i \in ZhMine
    BY DEF ZhT, ZhRec, ZhMine, Zero
<1>2. \A i \in ({zh'.mine} \union zh'.remove) \ {0} : chan'[i].by = "zongheng"
    BY <1>1 DEF ZhOK, MakersKept
<1> QED BY <1>2, ZhHas

\* syncChannels reads the tables, closes channels and ends.
LEMMA SyncKeeps ==
    ASSUME ObjInv, ZhT, ZhOK, kept' = Kept(zh'), SyncLoad \/ SyncLoadFails \/ SyncClose \/ SyncEnd
    PROVE  Keeps /\ ZhT' /\ ZhOK'
<1>t. /\ zh \in ZhRec /\ table \in BOOLEAN /\ table' = table
      /\ zh.mine \in Zero(Channels) /\ zh.remove \in SUBSET Channels
    BY DEF ZhT, ZhRec, SyncLoad, SyncLoadFails, SyncClose, SyncEnd, outer
<1>1. CASE SyncLoad \/ SyncLoadFails \/ SyncEnd
    <2>1. UNCHANGED <<channels, objects, req, waits>>
        BY <1>1 DEF SyncLoad, SyncLoadFails, SyncEnd
    <2>2. Keeps
        BY <2>1, WaitsStay, QuietStep DEF Keeps, MakersKept, objects
    <2>3. /\ zh' \in ZhRec /\ zh'.mine = zh.mine /\ zh'.remove \in {zh.remove, {}}
          /\ zh'.pc \in {"compare", "load", "run", "ended"}
        <3>1. CASE SyncLoad
            BY <1>t, <3>1 DEF SyncLoad, ZhRec
        <3>2. CASE SyncLoadFails
            BY <1>t, <3>2 DEF SyncLoadFails, Goto, ZhRec
        <3>3. CASE SyncEnd
            BY <1>t, <3>3 DEF SyncEnd, ZhRec
        <3> QED BY <1>1, <3>1, <3>2, <3>3
    <2>4. ZhT'
        BY <1>t, <2>3 DEF ZhT
    <2>5. ZhOK'
        BY <2>2, <2>3, <2>4, ZhGoesOn DEF Keeps
    <2> QED BY <2>2, <2>4, <2>5
<1>2. CASE SyncClose
    <2>1. /\ \A i \in zh.remove : ~Locked(i)
          /\ chan' = [i \in Channels |-> IF i \in zh.remove THEN [chan[i] EXCEPT !.life = Closing(@)] ELSE chan[i]]
          /\ waits' = [waits EXCEPT ![Zh] = {Ref("channel", i) : i \in zh.remove}]
          /\ UNCHANGED <<channels, player, stream, storage, pusher, ports, req>>
        BY <1>2 DEF SyncClose
    <2>2. WaitT' /\ WaitsKept
        BY <2>1, OtherThreads, WaitsOfOther DEF ObjInv, ObjTypes
    <2>3. ObjInv' /\ \A i \in Channels : chan'[i].by = chan[i].by
        BY <2>1, <2>2, CloseChannels
    <2>4. zh' \in ZhRec /\ zh'.mine = zh.mine /\ zh'.remove = zh.remove /\ zh'.pc = "closed"
        BY <1>2, <1>t DEF SyncClose, Goto, ZhRec
    <2>5. ZhT' /\ Keeps
        BY <1>t, <2>3, <2>4 DEF ZhT, Keeps, MakersKept
    <2>6. ZhOK'
        BY <2>4, <2>5, ZhGoesOn DEF Keeps
    <2> QED BY <2>5, <2>6
<1> QED BY <1>1, <1>2

\* What Keep does to the record.
LEMMA KeepFacts ==
    ASSUME zh \in ZhRec, NEW m \in Zero(Channels), NEW R \in SUBSET Channels, Keep(m, R)
    PROVE  /\ zh' \in ZhRec /\ zh'.mine = m /\ zh'.remove = R
           /\ zh'.pc = IF m = 0 THEN "close" ELSE "storage"
<1>1. (IF m = 0 THEN "close" ELSE "storage") \in {"close", "storage"}
    OBVIOUS
<1> DEFINE x == IF m = 0 THEN "close" ELSE "storage"
<1>2. x \in {"close", "storage"} /\ zh' = [zh EXCEPT !.pc = x, !.mine = m, !.remove = R]
    BY DEF Keep
<1> HIDE DEF x
<1>3. zh' \in ZhRec /\ zh'.mine = m /\ zh'.remove = R /\ zh'.pc = x
    BY <1>2 DEF ZhRec
<1> QED BY <1>3 DEF x

\* syncChannels compares: it makes channels and gives them up, and takes over none.
LEMMA CompareKeeps ==
    ASSUME ObjInv, ZhT, ZhOK, kept' = Kept(zh'), SyncCompare
    PROVE  Keeps /\ ZhT' /\ ZhOK'
<1>t. /\ zh \in ZhRec /\ table \in BOOLEAN /\ table' = table /\ zh.mine \in Zero(Channels)
      /\ UNCHANGED <<req, waits>>
    BY DEF ZhT, ZhRec, SyncCompare, outer
<1>w. WaitT' /\ WaitsKept
    BY <1>t, WaitsStay
<1>0. 0 \in Zero(Channels) /\ {} \in SUBSET Channels /\ (zh.mine # 0 => {zh.mine} \in SUBSET Channels)
      /\ {zh.mine} \ {0} \in SUBSET Channels
    BY <1>t DEF Zero
<1>q. ASSUME UNCHANGED <<mgr, channels, objects>> PROVE Keeps
    BY <1>q, <1>t, <1>w, QuietStep DEF Keeps, MakersKept, objects
<1>c. ASSUME Create("zongheng")
      PROVE  /\ Keeps /\ channels' \in Channels /\ chan'[channels'].by = "zongheng"
    <2>1. /\ ObjInv' /\ channels' \in Channels /\ chan'[channels'].by = "zongheng"
          /\ Ref("channel", channels') \notin kept /\ \A i \in Channels : i # channels' => chan'[i] = chan[i]
        BY <1>c, <1>t, <1>w, CreateStep
    <2> QED BY <2>1 DEF Keeps, MakersKept
<1>k. ASSUME Keeps, NEW m \in {zh.mine, 0}, NEW R \in {{}, {zh.mine} \ {0}}, Keep(m, R) PROVE ZhT' /\ ZhOK'
    <2>1. m \in Zero(Channels) /\ R \in SUBSET Channels
        BY <1>0, <1>t
    <2>2. /\ zh' \in ZhRec /\ zh'.mine = m /\ zh'.remove = R
          /\ zh'.pc = IF m = 0 THEN "close" ELSE "storage"
        BY <1>k, <1>t, <2>1, KeepFacts
    <2>3. ZhT'
        BY <1>t, <2>2 DEF ZhT
    <2>4. zh'.pc \in {"close", "storage"} /\ (zh'.pc = "storage" => zh'.mine # 0)
        BY <2>2
    <2>5. ({zh'.mine} \union zh'.remove) \subseteq {zh.mine, 0} \union zh.remove
        BY <2>2
    <2>6. ZhOK'
        BY <1>k, <2>3, <2>4, <2>5, ZhGoesOn DEF Keeps
    <2> QED BY <2>3, <2>6
<1>1. CASE zh.want /\ zh.mine # 0 /\ zh.mine = channels /\ Keep(zh.mine, {}) /\ UNCHANGED <<mgr, channels, objects>>
    BY <1>1, <1>k, <1>q
<1>2. CASE zh.want /\ zh.mine # 0 /\ channels = 0 /\ Create("zongheng") /\ Keep(0, {zh.mine})
    <2>1. {zh.mine} = {zh.mine} \ {0}
        BY <1>2
    <2>2. Keep(0, {zh.mine} \ {0})
        BY <1>2, <2>1
    <2> QED BY <1>2, <1>c, <1>k, <2>2
<1>3. CASE zh.want /\ zh.mine # 0 /\ channels \notin {0, zh.mine} /\ Keep(0, {zh.mine}) /\ UNCHANGED <<mgr, channels, objects>>
    <2>1. {zh.mine} = {zh.mine} \ {0}
        BY <1>3
    <2>2. Keep(0, {zh.mine} \ {0})
        BY <1>3, <2>1
    <2> QED BY <1>3, <1>q, <1>k, <2>2
<1>4. CASE zh.want /\ SyncTake
    BY <1>4, <1>k, <1>q DEF SyncTake
<1>5. CASE zh.want /\ zh.mine = 0 /\ channels = 0 /\ Create("zongheng") /\ Keep(channels', {})
    <2>1. Keeps /\ channels' \in Channels /\ chan'[channels'].by = "zongheng"
        BY <1>5, <1>c
    <2>2. channels' \in Zero(Channels) /\ channels' # 0
        BY <2>1, Numbers DEF Zero
    <2>3. /\ zh' \in ZhRec /\ zh'.mine = channels' /\ zh'.remove = {} /\ zh'.pc = "storage"
        BY <1>0, <1>5, <1>t, <2>2, KeepFacts
    <2>4. ZhT'
        BY <1>t, <2>3 DEF ZhT
    <2>5. ZhOK'
        BY <2>1, <2>2, <2>3, <2>4, ZhHas
    <2> QED BY <2>1, <2>4, <2>5
<1>6. CASE ~zh.want /\ Keep(0, {zh.mine} \ {0}) /\ UNCHANGED <<mgr, channels, objects>>
    BY <1>6, <1>q, <1>k
<1> QED BY <1>1, <1>2, <1>3, <1>4, <1>5, <1>6 DEF SyncCompare

\* The record after a step of checkChannel.
LEMMA CheckRecs ==
    ASSUME zh \in ZhRec
    PROVE  /\ \A x \in {"storage", "record", "open", "stream", "start", "setup", "failed", "failing"} :
                 Goto(x) => zh' \in ZhRec /\ zh'.mine = zh.mine /\ zh'.remove = zh.remove /\ zh'.pc = x
                            /\ zh'.player = zh.player /\ zh'.stream = zh.stream
           /\ CheckDone => zh' \in ZhRec /\ zh'.mine = zh.mine /\ zh'.remove = zh.remove /\ zh'.pc \in {"run", "close"}
<1>1. ASSUME NEW x \in {"storage", "record", "open", "stream", "start", "setup", "failed", "failing"}, Goto(x)
      PROVE  zh' \in ZhRec /\ zh'.mine = zh.mine /\ zh'.remove = zh.remove /\ zh'.pc = x
             /\ zh'.player = zh.player /\ zh'.stream = zh.stream
    BY <1>1 DEF Goto, ZhRec
<1>2. ASSUME CheckDone
      PROVE  zh' \in ZhRec /\ zh'.mine = zh.mine /\ zh'.remove = zh.remove /\ zh'.pc \in {"run", "close"}
    <2> DEFINE x == IF zh.task = "check" THEN "run" ELSE "close"
    <2>1. x \in {"run", "close"} /\ zh' = [zh EXCEPT !.pc = x, !.player = 0, !.stream = 0]
        BY <1>2 DEF CheckDone
    <2> HIDE DEF x
    <2> QED BY <2>1 DEF ZhRec, Zero
<1> QED BY <1>1, <1>2

\* checkChannel.
LEMMA CheckKeeps ==
    ASSUME ObjInv, ZhT, ZhOK, kept' = Kept(zh'),
           \/ CheckStorage \/ CheckRecord \/ CheckOpen \/ CheckStream
           \/ CheckStart \/ CheckSetup \/ CheckFailed \/ CheckFailing
    PROVE  Keeps /\ ZhT' /\ ZhOK'
<1>t. /\ zh \in ZhRec /\ table \in BOOLEAN /\ zh.remove \in SUBSET Channels
      /\ zh.mine \in Zero(Channels) /\ zh.player \in Zero(Players) /\ zh.stream \in Zero(Streams)
    BY DEF ZhT, ZhRec
<1>u. table' = table /\ UNCHANGED <<channels, req>>
    BY DEF CheckStorage, CheckRecord, CheckOpen, CheckStream, CheckStart, CheckSetup, CheckFailed, CheckFailing, outer
<1>m. zh.mine \in Channels /\ zh.mine # 0
    BY <1>t DEF ZhOK, Zero, CheckStorage, CheckRecord, CheckOpen, CheckStream, CheckStart, CheckSetup, CheckFailed, CheckFailing
<1>d. ASSUME Keeps, CheckDone PROVE ZhT' /\ ZhOK'
    <2>1. zh' \in ZhRec /\ zh'.mine = zh.mine /\ zh'.remove = zh.remove /\ zh'.pc \in {"run", "close"}
        BY <1>d, <1>t, CheckRecs
    <2>2. ZhT'
        BY <1>t, <1>u, <2>1 DEF ZhT
    <2> QED BY <1>d, <2>1, <2>2, ZhGoesOn DEF Keeps
<1>g. ASSUME Keeps, NEW x \in {"storage", "record", "open", "setup", "failed", "failing"}, Goto(x),
             x = "setup" => zh.stream # 0
      PROVE  ZhT' /\ ZhOK'
    <2>1. zh' \in ZhRec /\ zh'.mine = zh.mine /\ zh'.remove = zh.remove /\ zh'.pc = x /\ zh'.stream = zh.stream
        BY <1>g, <1>t, CheckRecs
    <2>2. ZhT'
        BY <1>t, <1>u, <2>1 DEF ZhT
    <2> QED BY <1>g, <1>m, <2>1, <2>2, ZhGoesOn DEF Keeps
<1>q. ASSUME UNCHANGED <<chan, player, stream, storage, pusher, ports, waits>> PROVE Keeps
    BY <1>q, <1>u, WaitsStay, QuietStep DEF Keeps, MakersKept, objects
<1>1. CASE CheckStorage
    <2>1. UNCHANGED <<player, stream, pusher, ports, waits>>
        BY <1>1 DEF CheckStorage
    <2>2. CASE CheckDone /\ UNCHANGED <<chan, storage>>
        BY <1>d, <1>q, <2>1, <2>2
    <2>3. CASE SetupStorage(zh.mine) /\ Goto("record")
        <3>1. Keeps
            BY <1>m, <1>u, <2>1, <2>3, SetupStorageStep DEF Keeps, MakersKept
        <3> QED BY <1>g, <2>3, <3>1
    <2> QED BY <1>1, <2>2, <2>3 DEF CheckStorage
<1>2. CASE CheckRecord
    <2>1. UNCHANGED <<player, stream, storage, pusher, ports, waits>>
        BY <1>2 DEF CheckRecord
    <2>2. CASE CheckDone /\ UNCHANGED chan
        BY <1>d, <1>q, <2>1, <2>2
    <2>3. CASE Record(zh.mine, TRUE) /\ Goto("open")
        <3>1. Keeps
            BY <1>m, <1>u, <2>1, <2>3, RecordStep DEF Keeps, MakersKept
        <3> QED BY <1>g, <2>3, <3>1
    <2> QED BY <1>2, <2>2, <2>3 DEF CheckRecord
<1>3. CASE CheckOpen
    <2>1. UNCHANGED <<stream, storage, pusher, ports, waits>>
        BY <1>3 DEF CheckOpen
    <2>2. CASE CheckDone /\ UNCHANGED <<chan, player>>
        BY <1>d, <1>q, <2>1, <2>2
    <2>3. CASE OpenPlayer(zh.mine, FALSE) /\ zh' = [zh EXCEPT !.pc = "stream", !.player = chan'[zh.mine].player]
        <3>1. /\ ObjInv' /\ chan'[zh.mine].player \in Players
              /\ \A j \in Channels : chan'[j].by = chan[j].by
            BY <1>m, <1>u, <2>1, <2>3, OpenPlayerStep
        <3>2. chan'[zh.mine].player \in Zero(Players) /\ chan'[zh.mine].player # 0
            BY <3>1, Numbers DEF Zero
        <3>3. /\ zh' \in ZhRec /\ zh'.mine = zh.mine /\ zh'.remove = zh.remove /\ zh'.pc = "stream"
              /\ zh'.player = chan'[zh.mine].player
            BY <1>t, <2>3, <3>2 DEF ZhRec
        <3>4. ZhT' /\ Keeps
            BY <1>t, <1>u, <3>1, <3>3 DEF ZhT, Keeps, MakersKept
        <3>5. ZhOK'
            BY <1>m, <3>2, <3>3, <3>4, ZhGoesOn DEF Keeps
        <3> QED BY <3>4, <3>5
    <2> QED BY <1>3, <2>2, <2>3 DEF CheckOpen
<1>4. CASE CheckStream
    <2>1. UNCHANGED <<chan, player, storage, pusher, waits>> /\ zh.player \in Players
        BY <1>4, <1>t DEF CheckStream, ZhOK, Zero
    <2>2. CASE Goto("failed") /\ UNCHANGED <<stream, ports>>
        BY <1>g, <1>q, <2>1, <2>2
    <2>3. CASE AddStream(zh.player, FALSE) /\ zh' = [zh EXCEPT !.pc = "start", !.stream = Min(FreeStreams)]
        <3>1. Aside /\ PlayerT' /\ UNCHANGED <<pusher, waits>>
              /\ \A q \in Players : /\ player'[q].life = player[q].life /\ player'[q].chan = player[q].chan
                                    /\ player'[q].run = player[q].run /\ player'[q].todo = player[q].todo
            BY <1>u, <2>1 DEF Aside, ObjInv, ObjTypes, PlayerT
        <3>2. ObjInv' /\ Min(FreeStreams) \in Streams
            BY <2>1, <2>3, <3>1, AddStreamStep
        <3>3. Min(FreeStreams) \in Zero(Streams) /\ Min(FreeStreams) # 0
            BY <3>2, Numbers DEF Zero
        <3>4. /\ zh' \in ZhRec /\ zh'.mine = zh.mine /\ zh'.remove = zh.remove /\ zh'.pc = "start"
              /\ zh'.stream = Min(FreeStreams)
            BY <1>t, <2>3, <3>3 DEF ZhRec
        <3>5. ZhT' /\ Keeps
            BY <1>t, <1>u, <2>1, <3>2, <3>4 DEF ZhT, Keeps, MakersKept
        <3>6. ZhOK'
            BY <1>m, <3>3, <3>4, <3>5, ZhGoesOn DEF Keeps
        <3> QED BY <3>5, <3>6
    <2> QED BY <1>4, <2>2, <2>3 DEF CheckStream
<1>5. CASE CheckStart
    <2>1. UNCHANGED <<chan, player, stream, storage, pusher, ports, waits>> /\ zh.stream # 0
        BY <1>5 DEF CheckStart, objects, ZhOK
    <2>2. Keeps
        BY <1>q, <2>1
    <2>3. Goto("setup") \/ Goto("failed")
        BY <1>5 DEF CheckStart
    <2> QED BY <1>g, <2>1, <2>2, <2>3
<1>6. CASE CheckSetup
    <2>1. UNCHANGED <<chan, player, storage, pusher, ports, waits>> /\ zh.stream \in Streams
        BY <1>6, <1>t DEF CheckSetup, ZhOK, Zero
    <2>2. CASE stream[zh.stream].state = "added"
        <3>1. stream' = [stream EXCEPT ![zh.stream].state = "up"] /\ CheckDone
            BY <1>6, <2>2 DEF CheckSetup
        <3>2. Aside
            BY <1>u, <2>1 DEF Aside
        <3>3. ObjInv'
            BY <2>1, <2>2, <3>1, <3>2, StreamUpStep
        <3>4. Keeps
            BY <2>1, <3>3 DEF Keeps, MakersKept
        <3> QED BY <1>d, <3>1, <3>4
    <2>3. CASE stream[zh.stream].state # "added"
        <3>1. UNCHANGED stream /\ Goto("failed")
            BY <1>6, <2>3 DEF CheckSetup
        <3> QED BY <1>g, <1>q, <2>1, <3>1
    <2> QED BY <2>2, <2>3
<1>7. CASE CheckFailed
    <2> DEFINE p == chan[zh.mine].player
    <2>1. UNCHANGED <<chan, stream, storage, pusher, ports>> /\ Goto("failing")
        BY <1>7 DEF CheckFailed
    <2>2. CASE p = 0
        <3>1. UNCHANGED <<player, waits>>
            BY <1>7, <2>2 DEF CheckFailed
        <3> QED BY <1>g, <1>q, <2>1, <3>1
    <2>3. CASE p # 0
        <3>1. chan[zh.mine] \in ChanRec
            BY <1>m, ChanTypes
        <3>2. p \in Players
            BY <2>3, <3>1 DEF ChanRec, Zero
        <3>3. /\ player' = [player EXCEPT ![p].life = Closing(@)]
              /\ waits' = [waits EXCEPT ![Zh] = {Ref("player", p)}]
            BY <1>7, <2>3 DEF CheckFailed
        <3> HIDE DEF p
        <3>4. WaitT' /\ WaitsKept
            BY <3>3, OtherThreads, WaitsOfOther DEF ObjInv, ObjTypes
        <3>5. Aside
            BY <1>u, <2>1 DEF Aside
        <3>6. ObjInv'
            BY <2>1, <3>2, <3>3, <3>4, <3>5, ClosePlayerStep
        <3>7. Keeps
            BY <2>1, <3>6 DEF Keeps, MakersKept
        <3> QED BY <1>g, <2>1, <3>7
    <2> QED BY <2>2, <2>3
<1>8. CASE CheckFailing
    <2>1. UNCHANGED <<chan, player, stream, storage, pusher, ports, waits>> /\ CheckDone
        BY <1>8 DEF CheckFailing, objects
    <2> QED BY <1>d, <1>q, <2>1
<1> QED BY <1>1, <1>2, <1>3, <1>4, <1>5, <1>6, <1>7, <1>8

-----------------------------------------------------------------------------
(* The invariant holds, and what follows from it.                          *)

\* At the beginning there is nothing but the components.
LEMMA ServerInit == SInit => ServerInv
<1> SUFFICES ASSUME SInit PROVE ServerInv
    OBVIOUS
<1>0. /\ channels = 0 /\ chan = [i \in Channels |-> [NewChannel("api") EXCEPT !.life = "closed"]]
      /\ player = [p \in Players |-> NoPlayer] /\ stream = [s \in Streams |-> NoStream]
      /\ storage = [s \in Storages |-> NoStorage] /\ pusher = [u \in Pushers |-> NoPusher]
      /\ ports = Ports /\ req = [c \in Clients |-> NoReq] /\ waits = [t \in Threads |-> {}] /\ table = TRUE
    BY DEF SInit, CInit
<1>1. /\ NoPlayer \in PlayerRec /\ NoStream \in StreamRec /\ NoStorage \in StorageRec /\ NoPusher \in PusherRec
      /\ NoReq \in ReqRec /\ NoPlayer.life = "closed" /\ NoPlayer.run = "idle" /\ NoStream.state = "none"
      /\ NoStream.udp = FALSE /\ NoStorage.life = "closed" /\ NoPusher.life = "closed" /\ NoReq.pc = "idle"
    BY DEF NoPlayer, NoStream, NoStorage, NoPusher, NoReq, PlayerRec, StreamRec, StorageRec, PusherRec, ReqRec,
           Zero, Kinds
<1>2. \A i \in Channels : /\ chan[i] \in ChanRec /\ chan[i].life = "closed" /\ chan[i].run = "idle"
                          /\ \A k \in Kinds : chan[i].map[k] = {}
    BY <1>0 DEF NewChannel, ChanRec, Zero
<1>3. ObjTypes
    BY <1>0, <1>1, <1>2 DEF ObjTypes, ChanT, PlayerT, StreamT, StorageT, PusherT, ReqT, WaitT, Zero
<1>4. LivesOK /\ MapsOK
    BY <1>2 DEF LivesOK, MapsOK
<1>5. PlayersOK /\ StoragesOK /\ PushersOK /\ ReqsOK /\ StreamsOK
    BY <1>0, <1>1 DEF PlayersOK, StoragesOK, PushersOK, ReqsOK, StreamsOK
<1>6. PortsOK
    <2>1. Udp = {}
        BY <1>0, <1>1 DEF Udp
    <2>2. Cardinality({}) = 0
        BY FS_EmptySet
    <2> QED BY <1>0, <2>1, <2>2, ChannelAssumption DEF PortsOK
<1>7. PICK timed \in BOOLEAN :
          zh = [pc |-> "load", task |-> "start", timed |-> timed, want |-> FALSE,
                mine |-> 0, remove |-> {}, player |-> 0, stream |-> 0]
    BY DEF SInit
<1>8. ZhT
    BY <1>0, <1>7 DEF ZhT, ZhRec, Zero
<1>9. ZhOK
    BY <1>7 DEF ZhOK, ZhMine
<1> QED BY <1>3, <1>4, <1>5, <1>6, <1>8, <1>9 DEF ServerInv, ObjInv

\* The Zongheng manager is not concerned.
LEMMA ZhAside ==
    ASSUME ZhT, ZhOK, Keeps, UNCHANGED <<kept, zh>>, table' \in BOOLEAN
    PROVE  ServerInv'
<1>1. ZhT'
    BY DEF ZhT
<1>2. \A i \in ZhMine : i \in Channels
    BY DEF ZhT, ZhRec, ZhMine, Zero
<1>3. ZhMine' = ZhMine
    BY DEF ZhMine
<1>4. \A i \in ZhMine : Ref("channel", i) \in kept' /\ chan'[i].by = "zongheng"
    BY <1>2 DEF ZhOK, Keeps, MakersKept
<1>5. ZhOK'
    BY <1>3, <1>4 DEF ZhOK
<1> QED BY <1>1, <1>5 DEF ServerInv, Keeps

\* It begins something: nothing but its own record changes.
LEMMA ZhBegins ==
    ASSUME ZhT, ZhOK, ObjInv, UNCHANGED <<channels, objects, req, waits, kept, table>>, zh' \in ZhRec,
           ({zh'.mine} \union zh'.remove) \subseteq {zh.mine, 0} \union zh.remove,
           zh'.pc \in {"load", "close", "run", "storage"}, zh'.pc = "storage" => zh'.mine # 0
    PROVE  ServerInv'
<1>1. ObjInv' /\ chan' = chan
    BY WaitsStay, QuietStep DEF objects
<1>2. ZhT'
    BY DEF ZhT
<1>3. \A i \in ZhMine' : i \in ZhMine
    BY DEF ZhMine
<1>4. ZhOK'
    BY <1>1, <1>3 DEF ZhOK
<1> QED BY <1>1, <1>2, <1>4 DEF ServerInv

\* Every step keeps the invariant.
LEMMA ServerStep == ServerInv /\ [SNext]_svars => ServerInv'
<1> SUFFICES ASSUME ServerInv, [SNext]_svars PROVE ServerInv'
    OBVIOUS
<1>0. ObjInv /\ ZhT /\ ZhOK /\ zh \in ZhRec /\ table \in BOOLEAN
    BY DEF ServerInv, ZhT
<1>q. ASSUME UNCHANGED <<channels, objects, req, waits>> PROVE Keeps
    BY <1>0, <1>q, WaitsStay, QuietStep DEF Keeps, MakersKept, objects
<1>1. CASE Zongheng
    <2>1. CASE Working /\ kept' = Kept(zh')
        BY <1>0, <2>1, SyncKeeps, CompareKeeps, CheckKeeps DEF Working, ServerInv, Keeps
    <2>2. CASE Signalled
        <3>1. UNCHANGED <<channels, objects, req, waits, kept, table>>
              /\ zh' = [zh EXCEPT !.pc = "load", !.task = "sync"]
            BY <2>2 DEF Signalled, cvars
        <3>2. zh' \in ZhRec /\ zh'.pc = "load" /\ zh'.mine = zh.mine /\ zh'.remove = zh.remove
            BY <1>0, <3>1 DEF ZhRec
        <3> QED BY <1>0, <3>1, <3>2, ZhBegins
    <2>3. CASE Interrupted
        <3>1. UNCHANGED <<channels, objects, req, waits, kept, table>>
              /\ zh' = [zh EXCEPT !.pc = "close", !.task = "stop", !.remove = {zh.mine} \ {0}]
            BY <2>3 DEF Interrupted, cvars
        <3>2. {zh.mine} \ {0} \in SUBSET Channels
            BY <1>0 DEF ZhRec, Zero
        <3>3. zh' \in ZhRec /\ zh'.pc = "close" /\ zh'.mine = zh.mine /\ zh'.remove = {zh.mine} \ {0}
            BY <1>0, <3>1, <3>2 DEF ZhRec
        <3> QED BY <1>0, <3>1, <3>3, ZhBegins
    <2>4. CASE ZhWake
        <3>1. Wake(Zh) /\ UNCHANGED <<channels, objects, req, kept, zh, table>>
            BY <2>4 DEF ZhWake, outer
        <3>2. Keeps
            BY <1>0, <3>1, OtherThreads, WakeKeeps
        <3> QED BY <1>0, <3>1, <3>2, ZhAside
    <2> QED BY <1>1, <2>1, <2>2, <2>3, <2>4 DEF Zongheng
<1>2. CASE Timer
    <2> DEFINE x == IF zh.mine = 0 THEN "run" ELSE "storage"
    <2>1. UNCHANGED <<channels, objects, req, waits, kept, table>>
        BY <1>2 DEF Timer, cvars
    <2>2. zh' \in {[zh EXCEPT !.pc = "load", !.task = "sync"], [zh EXCEPT !.pc = x, !.task = "check"]}
        BY <1>2 DEF Timer
    <2>3. x \in {"run", "storage"} /\ (x = "storage" => zh.mine # 0)
        OBVIOUS
    <2> HIDE DEF x
    <2>4. /\ zh' \in ZhRec /\ zh'.pc \in {"load", x} /\ zh'.mine = zh.mine /\ zh'.remove = zh.remove
        BY <1>0, <2>2, <2>3 DEF ZhRec
    <2> QED BY <1>0, <2>1, <2>3, <2>4, ZhBegins
<1>3. CASE Application
    <2>1. UNCHANGED <<channels, objects, req, waits, kept, table>>
        BY <1>3 DEF Application, Started, ApiClosed, ZonghengClosed, MediaClosed, cvars
    <2>2. zh' = zh \/ zh' = [zh EXCEPT !.pc = "load", !.task = "start"]
        BY <1>3 DEF Application, Started, ApiClosed, ZonghengClosed, MediaClosed
    <2>3. CASE zh' = zh
        BY <1>0, <1>q, <2>1, <2>3, ZhAside
    <2>4. CASE zh' = [zh EXCEPT !.pc = "load", !.task = "start"]
        <3>1. zh' \in ZhRec /\ zh'.pc = "load" /\ zh'.mine = zh.mine /\ zh'.remove = zh.remove
            BY <1>0, <2>4 DEF ZhRec
        <3> QED BY <1>0, <2>1, <3>1, ZhBegins
    <2> QED BY <2>2, <2>3, <2>4
<1>4. CASE Media
    <2>1. Serving /\ UNCHANGED <<zh, table>>
        BY <1>4 DEF Media
    <2>2. kept' = kept
        BY <2>1 DEF Serving, Answer, StorePusher, OpenHistoryFails, ChannelStep, PlayerStep, ManagerRun, ManagerWake, Ending
    <2> QED BY <1>0, <2>1, <2>2, ServingKeeps, ZhAside
<1>5. CASE Events /\ UNCHANGED <<zh, signal, outer>>
    <2>1. UNCHANGED <<kept, zh, table>>
        BY <1>5 DEF Events, outer
    <2> QED BY <1>0, <1>5, <2>1, EventsKeep, ZhAside
<1>6. ASSUME NEW c \in Clients, ApiRequest(c) PROVE ServerInv'
    <2>1. Request(c) /\ UNCHANGED <<zh, table>>
        BY <1>6 DEF ApiRequest, outer
    <2>2. kept' = kept
        BY <2>1 DEF Request, ChannelRequest, CreateRequest, DeleteRequest, PlayerRequest, OpenRtpPlayerRequest,
           AddStreamRequest, SetupStreamRequest, RemoveStreamRequest, CloseRtpPlayerRequest, StorageRequest,
           SetupStorageRequest, StopStorageRequest, RecordRequest, PusherRequest, HistoryRequest, OpenPusher,
           ClosePusher, RemoveLastStream, Done, CloseAndWait
    <2> QED BY <1>0, <2>1, <2>2, RequestKeeps, ZhAside
<1>7. CASE SyncRequest \/ Restart
    <2>1. UNCHANGED <<channels, objects, req, waits, kept, zh, table>>
        BY <1>7 DEF SyncRequest, Restart, cvars, outer
    <2> QED BY <1>0, <1>q, <2>1, ZhAside
<1>8. CASE TableChange
    <2>1. UNCHANGED <<channels, objects, req, waits, kept, zh>>
        BY <1>8 DEF TableChange, cvars
    <2>2. table' \in BOOLEAN
        BY <1>0, <1>8, Zenon DEF TableChange
    <2> QED BY <1>0, <1>q, <2>1, <2>2, ZhAside
<1>9. CASE UNCHANGED svars
    <2>1. UNCHANGED <<channels, objects, req, waits, kept, zh, table>>
        BY <1>9 DEF svars, cvars
    <2> QED BY <1>0, <1>q, <2>1, ZhAside
<1> QED BY <1>1, <1>2, <1>3, <1>4, <1>5, <1>6, <1>7, <1>8, <1>9 DEF SNext

\* Whatever runs can be reached.
LEMMA ServerReachable == ServerInv => Reachable
<1> SUFFICES ASSUME ServerInv PROVE Reachable
    OBVIOUS
<1>1. \A i \in Channels : chan[i].life # "closed" => channels = i
    BY DEF ServerInv, ObjInv, LivesOK
<1>2. \A p \in Players : player[p].life # "closed" => chan[player[p].chan].player = p
    BY DEF ServerInv, ObjInv, PlayersOK, PlayerOK
<1>3. \A s \in Storages : storage[s].life # "closed" => chan[storage[s].chan].storage = s
    BY DEF ServerInv, ObjInv, StoragesOK, StorageOK
<1>4. \A u \in Pushers : (pusher[u].life # "closed" /\ ~chan[pusher[u].chan].twice)
          => u \in Mapped(pusher[u].chan, pusher[u].kind)
    BY PusherMapped DEF ServerInv, ObjInv
<1> QED BY <1>1, <1>2, <1>3, <1>4 DEF Reachable

\* What is closed has left nothing behind.
LEMMA ServerClean == ServerInv => ClosedClean
<1> SUFFICES ASSUME ServerInv PROVE ClosedClean
    OBVIOUS
<1>1. ASSUME NEW i \in Channels, chan[i].life = "closed"
      PROVE  /\ \A p \in Players : player[p].life # "closed" => player[p].chan # i
             /\ \A s \in Storages : storage[s].life # "closed" => storage[s].chan # i
             /\ \A u \in Pushers : (pusher[u].life # "closed" /\ pusher[u].kind = "rtp" /\ ~chan[i].twice)
                   => pusher[u].chan # i
    BY <1>1 DEF ServerInv, ObjInv, PlayersOK, PlayerOK, StoragesOK, StorageOK, PushersOK, PusherOK
<1>2. \A s \in Streams : (stream[s].state # "none" /\ ~stream[s].late) => player[stream[s].player].life # "closed"
    BY DEF ServerInv, ObjInv, StreamsOK, StreamOK
<1>3. ports + Cardinality({s \in Streams : stream[s].udp}) = Ports
    BY DEF ServerInv, ObjInv, PortsOK, Udp
<1> QED BY <1>1, <1>2, <1>3 DEF ClosedClean

\* The invariant of the media channels, the API and the Zongheng manager.
THEOREM ServerInvariant == SSpec => []ServerInv
    BY ServerInit, ServerStep, PTL DEF SSpec

\* For any number of clients, channels, players, streams, sessions and pushers:
\* whatever is running can be reached from the manager (Reachable), so that
\* closing the manager closes everything; pushers as long as no number of
\* allocRtpPusherId was given twice.
THEOREM AllReachable == SSpec => []Reachable
    BY ServerInvariant, ServerReachable, PTL

\* Channel.run and RtpPlayer.run leave nothing behind, and no UDP server is
\* lost (ClosedClean), in whatever order requests, failures and ends come.
THEOREM AllClean == SSpec => []ClosedClean
    BY ServerInvariant, ServerClean, PTL

\* The Zongheng manager works on channels it has made itself (NotTakenOver),
\* although numbers of channels are used again and the API makes channels of
\* the same id.
THEOREM NoneTakenOver == SSpec => []NotTakenOver
<1>1. ServerInv => NotTakenOver
    BY DEF ServerInv, ZhOK, ZhMine, NotTakenOver
<1> QED BY <1>1, ServerInvariant, PTL
=============================================================================
