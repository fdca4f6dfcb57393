---------------------------- MODULE MCRtspServer ----------------------------
(***************************************************************************)
(* Streams for RtspServer.                                                 *)
(***************************************************************************)
EXTENDS RtspServer

CONSTANTS c1, c2, a1

Crlf == <<"\r", "\n">>
Live == "rtsp://h:554/cam/trackID=1"
Past == "rtsp://h:554/cam/trackID=1?start_time=20230101000000"

Say(kind, method, uri, cseq, session, more) ==
  [kind |-> kind, method |-> method, cseq |-> cseq, session |-> session,
   bytes |-> <<method, uri, "RTSP/1.0">> \o Crlf
             \o (IF cseq > 0 THEN <<"CSeq:", Digits[cseq + 1]>> \o Crlf ELSE <<>>)
             \o (IF session # "" THEN <<"Session:", session>> \o Crlf ELSE <<>>)
             \o more \o Crlf]

Bytes(kind, bytes) == [kind |-> kind, bytes |-> bytes]

Port == <<"Transport:", "client_port=5">> \o Crlf

MCOptions   == Say("request", "OPTIONS", Live, 1, "", <<>>)
Folded      == Say("request", "OPTIONS", Live, 2, "x", <<"Transport:", "udp">> \o Crlf \o <<Blank, "client_port=5", "\n">>)
Record      == Say("request", "RECORD", Live, 0, "x", <<"Session:", "y">> \o Crlf)
Bodied      == Say("bodied", "OPTIONS", Live, 3, "", <<"Content-Length:", "2">> \o Crlf)
Reply       == Bytes("response", <<"RTSP/1.0", "200", "OK">> \o Crlf \o <<"CSeq:", "1">> \o Crlf \o Crlf)
Packet      == Bytes("rtp", <<"$", "0", "0", "4", "$", "\r", "\n", "PLAY">>)
NoPacket    == Bytes("rtp", <<"$", "1", "0", "0">>)
Breaks      == Bytes("rtp", <<"\n", "\r", "\n">>)
BadLine     == Bytes("broken", <<"v=0", "o=-">> \o Crlf)
BadNumber   == Say("broken", "OPTIONS", Live, 4, "", <<"Content-Length:", "far">> \o Crlf)
LongBody    == Say("broken", "OPTIONS", Live, 4, "", <<"Content-Length:", "9">> \o Crlf)
LongLine    == Bytes("broken", <<"OPTIONS", Live, "RTSP/1.0", "a", "b", "c", "d", "\n">>)
LongHeader  == Say("broken", "OPTIONS", Live, 4, "", FlattenSeq([n \in 1..4 |-> <<"Session:", "s", "\n">>]))
NoKey       == Bytes("broken", <<"OPTIONS", Live, "RTSP/1.0">> \o Crlf \o <<Blank, "b">> \o Crlf)

Setup(uri, cseq) == Say("request", "SETUP", uri, cseq, "", Port)
Ask(method, id) == Say("request", method, Live, 0, id, <<>>)

Flat(ms) == FlattenSeq([i \in DOMAIN ms |-> ms[i].bytes])
Meaning(ms) == [i \in DOMAIN ms |-> [f \in (DOMAIN ms[i] \ {"bytes"}) \cup {"end"} |->
                                       IF f = "end" THEN Len(Flat(SubSeq(ms, 1, i))) ELSE ms[i][f]]]

Scene(talk, addr, sizes, events) ==
  [stream |-> [k \in DOMAIN talk |-> Flat(talk[k])], messages |-> [k \in DOMAIN talk |-> Meaning(talk[k])],
   addr |-> addr, sizes |-> sizes, events |-> events]

Cut(ms) == Scene(c1 :> ms, c1 :> a1, {1, 2, 3, 7, 20}, {})
Talk(ms, events) == Scene(c1 :> ms, c1 :> a1, {}, events)

\* c2 connects from the address of c1.
Again(ms, ns) == Scene(c1 :> ms @@ c2 :> ns, c1 :> a1 @@ c2 :> a1, {}, {})

MCScenes ==
  { Cut(<<MCOptions, Packet, Folded, NoPacket, Record>>),
    Cut(<<Reply, Breaks, Bodied, BadLine, MCOptions>>),
    Cut(<<MCOptions, Folded, BadNumber, MCOptions>>),
    Cut(<<LongBody>>), Cut(<<Packet, LongLine, MCOptions>>), Cut(<<LongHeader>>), Cut(<<NoKey>>),
    Talk(<<Setup(Live, 0), Ask("PLAY", "a"), Ask("TEARDOWN", "a")>>, {"end"}),
    Talk(<<Setup(Live, 0), Setup(Past, 0), Ask("TEARDOWN", "a")>>, {}),
    Talk(<<Setup(Live, 1), Ask("PAUSE", "a"), Ask("TEARDOWN", "a"), Ask("TEARDOWN", "a")>>, {}),
    Talk(<<Ask("DESCRIBE", ""), Say("request", "DESCRIBE", "rtsp://h/cam", 0, "", <<>>), Ask("SETUP", "a"),
           Setup("rtsp://h:554/other/trackID=1", 0)>>, {"paths"}),
    Talk(<<Ask("SETUP", ""), Setup("rtsp://h:554/cam", 2),
           Setup("rtsp://h:554/cam/trackID=1?start_time=now", 3)>>, {}),
    Again(<<Setup(Live, 0), Ask("PLAY", "a")>>, <<Setup(Past, 0)>>) }
=============================================================================
