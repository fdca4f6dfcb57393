----------------------------- MODULE RtspServer -----------------------------
(***************************************************************************)
(* The RTSP server and its connections (media/rtsp2/server.go, channel.go, *)
(* session.go), with the parser of RtspParser.                             *)
(*                                                                         *)
(* A connection's goroutine reads and parses; each request it finds gets a *)
(* goroutine of its own, so that the requests of one connection run at the *)
(* same time, and on after the connection has ended.  The pushers that     *)
(* SETUP opens belong to the media channel (external here): a pusher is    *)
(* named by the SETUP that opened it.                                      *)
(***************************************************************************)
EXTENDS RtspParser, FiniteSets

CONSTANTS
  Conns,      \* the TCP connections
  MaxRequests,\* the most requests a client sends
  Ids,        \* the random session ids
  Scenes      \* what happens outside: [stream, messages, addr, sizes, events]

VARIABLES
  scene,      \* stream[k] is what k's client sends, messages[k] what it means,
              \* addr[k] its address; sizes: a read takes so many bytes, or, if
              \* empty, ends where a message ends; events: "paths" are edited,
              \* pushers "end" by themselves
  server,     \* [life, channels]: the listener, and the address -> connection map
  paths,      \* the paths that have a media channel (pathChannels)
  conn,       \* conn[k]: [life, sock, read, chunk, parser]
  sessions,   \* sessions[k]: the set of [id, setup, late]
  todo,       \* todo[k]: the sessions the ending connection still closes
  reqs        \* reqs[k]: its request goroutines in the order they were started

vars == <<scene, server, paths, conn, sessions, todo, reqs>>

None == "none"

\* None stands for "no session yet" and is no session id.
ASSUME RtspAssumption ==
  /\ None \notin Ids
  /\ \A sc \in Scenes : DOMAIN sc.addr \subseteq Conns

Known == Methods \ {"RECORD"}

-----------------------------------------------------------------------------
(* What the handlers take from a request.                                  *)

PathOf(uri) == IF uri \in OtherUris THEN "other" ELSE "cam"

\* DESCRIBE resolves the host of the URI, which must have a port.  SETUP needs
\* a track, a client_port that is a number but zero, and times it can read.
BadDescribe(msg) == msg.uri = "rtsp://h/cam"
BadSetup(msg) == \/ msg.uri \notin TrackUris \ BadTimeUris
                 \/ "client_port=5" \notin Range(msg.transport)

\* pc is where its goroutine stands, status its answer, pusher the life of the
\* pusher a SETUP opened and id the session it got, target the SETUP whose
\* session the request names.
NewRequest(msg) ==
  [msg |-> msg, pc |-> "begin", status |-> None, pusher |-> None, push |-> FALSE,
   id |-> None, target |-> 0]

-----------------------------------------------------------------------------
Clients == DOMAIN scene.addr

Init ==
  /\ scene \in Scenes
  /\ server = [life |-> "running", channels |-> [a \in Range(scene.addr) |-> None]]
  /\ paths = {"cam"}
  /\ conn = [k \in Conns |-> [life |-> "off", sock |-> None, read |-> 0, chunk |-> <<>>, parser |-> New]]
  /\ sessions = [k \in Conns |-> {}]
  /\ todo = [k \in Conns |-> {}]
  /\ reqs = [k \in Conns |-> <<>>]

-----------------------------------------------------------------------------
(* The server.                                                             *)

\* Server.run: a client has connected.  A client uses an address again only
\* when its connection from there is closed.
Accept(k) ==
  /\ server.life = "running" /\ conn[k].life = "off"
  /\ \A c \in Clients : scene.addr[c] = scene.addr[k] => conn[c].sock # "open"
  /\ server' = [server EXCEPT !.channels[scene.addr[k]] = k]
  /\ conn' = [conn EXCEPT ![k].life = "running", ![k].sock = "open"]
  /\ UNCHANGED <<scene, paths, sessions, todo, reqs>>

\* Close: the listener is closed, accept fails, and run's deferred function
\* closes the connections of the map, with the mutex held throughout.
CloseServer ==
  /\ server.life = "running"
  /\ server' = [server EXCEPT !.life = "closed"]
  /\ conn' = [k \in Conns |-> IF k \in Range(server.channels) /\ conn[k].life = "running"
                              THEN [conn[k] EXCEPT !.sock = "closed"] ELSE conn[k]]
  /\ UNCHANGED <<scene, paths, sessions, todo, reqs>>

\* The HTTP API maps and unmaps paths.
AddChannel(path) ==
  /\ "paths" \in scene.events /\ path \notin paths
  /\ paths' = paths \cup {path}
  /\ UNCHANGED <<scene, server, conn, sessions, todo, reqs>>

DeleteChannel(path) ==
  /\ "paths" \in scene.events /\ path \in paths
  /\ paths' = paths \ {path}
  /\ UNCHANGED <<scene, server, conn, sessions, todo, reqs>>

-----------------------------------------------------------------------------
(* A connection: read, parse, and the end of run.                          *)

Stops(k) ==
  IF scene.sizes = {} THEN {m.end : m \in Range(scene.messages[k])}
  ELSE {conn[k].read + n : n \in scene.sizes} \cap 1..Len(scene.stream[k])

\* read: data that has come, up to some stop.
ReadChunk(k) ==
  /\ conn[k].life = "running" /\ conn[k].sock = "open" /\ conn[k].chunk = <<>>
  /\ \E stop \in {s \in Stops(k) : s > conn[k].read} :
       conn' = [conn EXCEPT ![k].read = stop, ![k].chunk = SubSeq(scene.stream[k], conn[k].read + 1, stop)]
  /\ UNCHANGED <<scene, server, paths, sessions, todo, reqs>>

\* One turn of the parser.  A request gets its goroutine, a response is
\* ignored, an error makes run return.
ParseChunk(k) ==
  /\ conn[k].life = "running" /\ conn[k].chunk # <<>>
  /\ \E r \in {Parse(conn[k].parser, conn[k].chunk)} :
     LET found == r.outcome = "message" /\ r.p.message.type = "request"
     IN /\ conn' = [conn EXCEPT ![k].parser = r.p, ![k].chunk = r.remain,
                                ![k].life = IF r.outcome = "error" THEN "sweeping" ELSE "running"]
        /\ todo' = [todo EXCEPT ![k] = IF r.outcome = "error" THEN sessions[k] ELSE @]
        /\ reqs' = [reqs EXCEPT ![k] = IF found THEN Append(@, NewRequest(r.p.message)) ELSE @]
  /\ UNCHANGED <<scene, server, paths, sessions>>

\* The client closes the connection, whatever it has sent.
ClientCloses(k) ==
  /\ conn[k].sock = "open"
  /\ conn' = [conn EXCEPT ![k].sock = "eof"]
  /\ UNCHANGED <<scene, server, paths, sessions, todo, reqs>>

\* read fails: the end of the stream, or the server has closed the socket.
ReadClosed(k) ==
  /\ conn[k].life = "running" /\ conn[k].sock # "open" /\ conn[k].chunk = <<>>
  /\ conn' = [conn EXCEPT ![k].life = "sweeping"]
  /\ todo' = [todo EXCEPT ![k] = sessions[k]]
  /\ UNCHANGED <<scene, server, paths, sessions, reqs>>

\* Session.close of the pusher that request i of the connection opened.
ClosePusher(rs, i) == [rs EXCEPT ![i].pusher = "closed", ![i].push = FALSE]

\* The deferred function of run closes and deletes one session.
Sweep(k) ==
  /\ conn[k].life = "sweeping"
  /\ \E s \in todo[k] :
       /\ todo' = [todo EXCEPT ![k] = @ \ {s}]
       /\ reqs' = [reqs EXCEPT ![k] = ClosePusher(@, s.setup)]
       /\ sessions' = [sessions EXCEPT ![k] = {t \in @ : t.id # s.id}]
  /\ UNCHANGED <<scene, server, paths, conn>>

\* Plausible bug: whatever connection has the address is deleted.
OnClosedAny(k) ==
  /\ conn[k].life = "sweeping" /\ todo[k] = {}
  /\ conn' = [conn EXCEPT ![k].life = "closed"]
  /\ server' = [server EXCEPT !.channels[scene.addr[k]] = None]
  /\ UNCHANGED <<scene, paths, sessions, todo, reqs>>

\* The connection is closed, and no longer known to the server.
OnClosed(k) ==
  /\ conn[k].life = "sweeping" /\ todo[k] = {}
  /\ conn' = [conn EXCEPT ![k].life = "closed"]
  /\ server' = [server EXCEPT !.channels[scene.addr[k]] = IF @ = k THEN None ELSE @]
  /\ UNCHANGED <<scene, paths, sessions, todo, reqs>>

-----------------------------------------------------------------------------
(* A request.  An answer that cannot be written is only logged.            *)

At(k, i, pc, methods) == reqs[k][i].pc = pc /\ reqs[k][i].msg.method \in methods

Answered(r, status) == [r EXCEPT !.pc = "done", !.status = status]

Changed(k, i, r) == reqs' = [reqs EXCEPT ![k][i] = r]

Options(k, i) ==
  /\ At(k, i, "begin", {"OPTIONS"})
  /\ Changed(k, i, Answered(reqs[k][i], "200"))
  /\ UNCHANGED <<scene, server, paths, conn, sessions, todo>>

\* A method the switch does not name gets no answer.
Ignore(k, i) ==
  /\ At(k, i, "begin", Methods \ Known)
  /\ Changed(k, i, [reqs[k][i] EXCEPT !.pc = "done"])
  /\ UNCHANGED <<scene, server, paths, conn, sessions, todo>>

\* With the path mapped, the channel may have no player or no streams (404).
Describe(k, i) ==
  /\ At(k, i, "begin", {"DESCRIBE"})
  /\ \E status \in IF BadDescribe(reqs[k][i].msg) THEN {"400"}
                   ELSE IF PathOf(reqs[k][i].msg.uri) \notin paths THEN {"404"} ELSE {"200", "404"} :
       Changed(k, i, Answered(reqs[k][i], status))
  /\ UNCHANGED <<scene, server, paths, conn, sessions, todo>>

\* SETUP up to the lookup of the path.
SetupBegin(k, i) ==
  LET msg == reqs[k][i].msg IN
  /\ At(k, i, "begin", {"SETUP"})
  /\ Changed(k, i, CASE msg.session # ""                                  -> Answered(reqs[k][i], "404")
                     [] msg.session = "" /\ BadSetup(msg)                 -> Answered(reqs[k][i], "400")
                     [] OTHER -> IF PathOf(msg.uri) \in paths
                                 THEN [reqs[k][i] EXCEPT !.pc = "open"] ELSE Answered(reqs[k][i], "404"))
  /\ UNCHANGED <<scene, server, paths, conn, sessions, todo>>

\* The pusher is opened; a live one needs a player first.
SetupOpen(k, i) ==
  /\ At(k, i, "open", {"SETUP"})
  /\ \/ Changed(k, i, [reqs[k][i] EXCEPT !.pc = "opened", !.pusher = "running"])
     \/ Changed(k, i, Answered(reqs[k][i], "500"))
     \/ reqs[k][i].msg.uri \notin HistoryUris /\ Changed(k, i, Answered(reqs[k][i], "404"))
  /\ UNCHANGED <<scene, server, paths, conn, sessions, todo>>

\* Plausible bug: the pusher is not closed when it takes no stream.
SetupAddLeaking(k, i) ==
  /\ At(k, i, "opened", {"SETUP"})
  /\ \/ reqs[k][i].pusher = "running" /\ Changed(k, i, [reqs[k][i] EXCEPT !.pc = "added"])
     \/ Changed(k, i, Answered(reqs[k][i], "500"))
  /\ UNCHANGED <<scene, server, paths, conn, sessions, todo>>

\* AddStream, which a pusher that has ended refuses.  After the answer the
\* deferred function closes the pusher.
SetupAdd(k, i) ==
  /\ At(k, i, "opened", {"SETUP"})
  /\ \/ reqs[k][i].pusher = "running" /\ Changed(k, i, [reqs[k][i] EXCEPT !.pc = "added"])
     \/ Changed(k, i, [reqs[k][i] EXCEPT !.pc = "failed", !.status = "500"])
  /\ UNCHANGED <<scene, server, paths, conn, sessions, todo>>

SetupUndo(k, i) ==
  /\ At(k, i, "failed", {"SETUP"})
  /\ Changed(k, i, [reqs[k][i] EXCEPT !.pc = "done", !.pusher = "closed"])
  /\ UNCHANGED <<scene, server, paths, conn, sessions, todo>>

\* A random id of 64 bits, drawn again while it is taken: no id comes twice.
\* A session stored when run has returned is late: nobody closes it.
SetupStore(k, i) ==
  /\ At(k, i, "added", {"SETUP"})
  /\ \E id \in Ids \ {reqs[k][j].id : j \in DOMAIN reqs[k]} :
       /\ sessions' = [sessions EXCEPT ![k] = @ \cup {[id |-> id, setup |-> i, late |-> conn[k].life # "running"]}]
       /\ Changed(k, i, [reqs[k][i] EXCEPT !.pc = "acted", !.id = id])
  /\ UNCHANGED <<scene, server, paths, conn, todo>>

\* PLAY, PAUSE and TEARDOWN load the session they name.
Load(k, i) ==
  LET named == {s \in sessions[k] : s.id = reqs[k][i].msg.session} IN
  /\ At(k, i, "begin", {"PLAY", "PAUSE", "TEARDOWN"})
  /\ Changed(k, i, IF named = {} THEN Answered(reqs[k][i], "404")
                   ELSE [reqs[k][i] EXCEPT !.pc = "loaded", !.target = (CHOOSE s \in named : TRUE).setup])
  /\ UNCHANGED <<scene, server, paths, conn, sessions, todo>>

\* Session.play and Session.pause: of a pusher that still runs.
PlayPause(k, i) ==
  LET to == reqs[k][i].target
      pushing == reqs[k][i].msg.method = "PLAY" /\ reqs[k][to].pusher = "running"
  IN /\ At(k, i, "loaded", {"PLAY", "PAUSE"})
     /\ reqs' = [reqs EXCEPT ![k][to].push = pushing, ![k][i].pc = "acted"]
     /\ UNCHANGED <<scene, server, paths, conn, sessions, todo>>

Teardown(k, i) ==
  /\ At(k, i, "loaded", {"TEARDOWN"})
  /\ reqs' = [reqs EXCEPT ![k] = [ClosePusher(@, @[i].target) EXCEPT ![i].pc = "torn"]]
  /\ UNCHANGED <<scene, server, paths, conn, sessions, todo>>

TeardownDelete(k, i) ==
  /\ At(k, i, "torn", {"TEARDOWN"})
  /\ sessions' = [sessions EXCEPT ![k] = {s \in @ : s.id # reqs[k][i].msg.session}]
  /\ Changed(k, i, [reqs[k][i] EXCEPT !.pc = "acted"])
  /\ UNCHANGED <<scene, server, paths, conn, todo>>

Answer(k, i) ==
  /\ At(k, i, "acted", {"SETUP", "PLAY", "PAUSE", "TEARDOWN"})
  /\ Changed(k, i, Answered(reqs[k][i], "200"))
  /\ UNCHANGED <<scene, server, paths, conn, sessions, todo>>

\* The media channel ends a pusher by itself (external).
PusherEnds(k, i) ==
  /\ "end" \in scene.events /\ reqs[k][i].pusher = "running"
  /\ reqs' = [reqs EXCEPT ![k] = ClosePusher(@, i)]
  /\ UNCHANGED <<scene, server, paths, conn, sessions, todo>>

Handle(k, i) ==
  \/ Options(k, i) \/ Ignore(k, i) \/ Describe(k, i)
  \/ SetupBegin(k, i) \/ SetupOpen(k, i) \/ SetupAdd(k, i) \/ SetupUndo(k, i) \/ SetupStore(k, i)
  \/ Load(k, i) \/ PlayPause(k, i) \/ Teardown(k, i) \/ TeardownDelete(k, i) \/ Answer(k, i)

Parsing(k) == conn[k].life = "running" /\ conn[k].chunk # <<>>
End(k) == ReadClosed(k) \/ Sweep(k) \/ OnClosed(k)

Next ==
  \/ CloseServer
  \/ \E path \in {"cam", "other"} : AddChannel(path) \/ DeleteChannel(path)
  \/ \E k \in Clients : \/ Accept(k) \/ ClientCloses(k)
                        \/ ReadChunk(k) \/ ParseChunk(k) \/ End(k)
                        \/ \E i \in DOMAIN reqs[k] : Handle(k, i) \/ PusherEnds(k, i)

Spec == Init /\ [][Next]_vars

\* Every goroutine goes on.  A turn of the parser is never refused and takes
\* bytes or the next state, so that going on is getting through the chunk;
\* nothing makes a client send or close, or the server be closed.
Fairness ==
  \A k \in Conns :
    /\ []<>(~Parsing(k))
    /\ WF_vars(k \in Clients /\ End(k))
    /\ \A i \in 1..MaxRequests : WF_vars(i \in DOMAIN reqs[k] /\ Handle(k, i))

FairSpec == Spec /\ Fairness

-----------------------------------------------------------------------------
(* Properties.                                                             *)

\* The requests of the messages read to their end; one with a
\* Content-Length is found with the byte after it.
Due(k) ==
  LET ms == scene.messages[k]
      Whole(i) == ms[i].end + (IF ms[i].kind = "bodied" THEN 1 ELSE 0) <= conn[k].read
      due == {i \in DOMAIN ms : /\ ms[i].kind \in {"request", "bodied"} /\ Whole(i)
                                /\ \A j \in 1..i : ms[j].kind # "broken"}
  IN [n \in 1..Cardinality(due) |-> ms[CHOOSE i \in due : Cardinality({j \in due : j <= i}) = n]]

\* However the stream is cut, the requests handed to their goroutines are
\* those the client has sent, each once, in order, complete, and with its own
\* CSeq and session: interleaved RTP packets are skipped whatever bytes they
\* have, responses are ignored, and the first broken or over-long message
\* ends the connection (Parser.Parse in Channel.run).
RequestsExact ==
  \A k \in Clients :
    /\ Len(reqs[k]) <= Len(Due(k)) /\ (conn[k].chunk = <<>> => Len(reqs[k]) = Len(Due(k)))
    /\ \A i \in DOMAIN reqs[k] : /\ reqs[k][i].msg.method = Due(k)[i].method
                                 /\ reqs[k][i].msg.cseq = Due(k)[i].cseq
                                 /\ reqs[k][i].msg.session = Due(k)[i].session
    /\ conn[k].life = "running" /\ conn[k].chunk = <<>> =>
         \A i \in DOMAIN scene.messages[k] : scene.messages[k][i].kind = "broken" => conn[k].read < scene.messages[k][i].end

\* A pusher that runs is still in the hands of its SETUP or can be reached by
\* a session; when a connection has ended, what is left of its sessions came
\* late; and a connection that is open is known to the running server, so
\* that closing the server closes it (the deferred functions of SETUP and of
\* Channel.run, and Server.run, where a client may use an address again).
NothingForgotten ==
  \A k \in Clients :
    /\ \A i \in DOMAIN reqs[k] :
         reqs[k][i].pusher = "running" =>
           \/ reqs[k][i].pc \in {"opened", "added", "failed"}
           \/ \E s \in sessions[k] : s.setup = i
    /\ conn[k].life = "closed" => \A s \in sessions[k] : s.late
    /\ conn[k].life = "running" /\ conn[k].sock = "open" =>
         server.life = "running" /\ server.channels[scene.addr[k]] = k

\* When the server is closed, every connection ends and leaves the map, every
\* request comes to its end, and no pusher runs on but those of late sessions.
AllEnd ==
  server.life = "closed" ~>
    \A k \in Clients :
      /\ conn[k].life \in {"off", "closed"} /\ k \notin Range(server.channels)
      /\ \A i \in DOMAIN reqs[k] :
           /\ reqs[k][i].pc = "done"
           /\ reqs[k][i].msg.method \in Known => reqs[k][i].status # None
           /\ reqs[k][i].pusher = "running" => \E s \in sessions[k] : s.setup = i /\ s.late
=============================================================================
