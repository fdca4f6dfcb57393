----------------------------- MODULE RtspParser -----------------------------
(***************************************************************************)
(* The message parser of an RTSP connection (media/rtsp2/parser.go).       *)
(*                                                                         *)
(* The stream is a sequence of symbols: words, the line breaks "\r" and    *)
(* "\n", and the bytes of interleaved RTP packets, which may be any        *)
(* symbols.  Words of a line are separated by one blank.  A line is cut    *)
(* anywhere between two symbols, and the limits count symbols.             *)
(***************************************************************************)
EXTENDS ChunkParsers

CONSTANTS MaxLine, MaxHeader, MaxContent   \* the limits given to NewParser

ASSUME LimitAssumption == {MaxLine, MaxHeader, MaxContent} \subseteq Nat \ {0}

\* The words a property tells apart.
Methods  == {"OPTIONS", "DESCRIBE", "SETUP", "PLAY", "PAUSE", "TEARDOWN", "RECORD"}
Versions == {"RTSP/1.0", "RTSP/2.0"}
Statuses == {"200", "404"}
LiveUris    == {"rtsp://h:554/cam/trackID=1"}
HistoryUris == {"rtsp://h:554/cam/trackID=1?start_time=20230101000000"}
BadTimeUris == {"rtsp://h:554/cam/trackID=1?start_time=now"}
OtherUris   == {"rtsp://h:554/other/trackID=1"}
PlainUris   == {"rtsp://h:554/cam", "rtsp://h/cam"}
TrackUris == LiveUris \cup HistoryUris \cup BadTimeUris \cup OtherUris
Uris      == TrackUris \cup PlainUris
Keys     == {"CSeq:", "Session:", "Content-Length:", "Transport:"}
Digits   == <<"0", "1", "2", "3", "4", "5", "6", "7", "8", "9">>
Blank    == " "      \* a line that begins with a blank goes on with the value before it

IsNumber(value) == Len(value) = 1 /\ value[1] \in Range(Digits)
Number(value)   == (CHOOSE i \in DOMAIN Digits : Digits[i] = value[1]) - 1

NoHead == [line |-> NewLine, key |-> "", value |-> <<>>, size |-> 0, fields |-> <<>>]
NoMessage == [type |-> "none"]

\* NewParser.
New == [state |-> "start", line |-> NewLine, head |-> NoHead, np |-> Needing(0), message |-> NoMessage]

\* What a state function does: "more", "message" (Parse returns true) or
\* "error" (an RtspError, after which the connection reads no more).
Goes(outcome, p, remain) == [outcome |-> outcome, p |-> p, remain |-> remain]

-----------------------------------------------------------------------------
\* Line breaks before a message are skipped; "$" begins an RTP packet.
ParseStartCode(p, data) ==
  LET first == SelectInSeq(data, LAMBDA b : b \notin {"\r", "\n"})
  IN IF first = 0 THEN Goes("more", p, <<>>)
     ELSE Goes("more", IF data[first] = "$" THEN [p EXCEPT !.state = "prefix", !.np = Needing(4)]
                       ELSE [p EXCEPT !.state = "line"],
               Drop(data, first - 1))

\* splitStartLine, parseRTSPVersion, validMethod and url.ParseRequestURI: the
\* third part is all that follows the second blank.
IsResponse(line) == Len(line) > 2 /\ line[1] \in Versions /\ line[2] \in Statuses
IsRequest(line)  == Len(line) = 3 /\ line[1] \in Methods /\ line[2] \in Uris /\ line[3] \in Versions

Message(line) ==
  [type |-> IF IsResponse(line) THEN "response" ELSE "request", method |-> line[1], uri |-> line[2],
   cseq |-> 0, session |-> "", length |-> 0, transport |-> <<>>]

ParseStartLine(p, data) ==
  LET l == ParseLine(p.line, data, MaxLine)
  IN CASE l.outcome = "more"  -> Goes("more", [p EXCEPT !.line = l.p], <<>>)
       [] l.outcome = "error" -> Goes("error", New, l.remain)
       [] l.outcome = "line"  ->
            IF IsResponse(l.line) \/ IsRequest(l.line)
            THEN Goes("more", [p EXCEPT !.state = "header", !.line = l.p, !.message = Message(l.line)], l.remain)
            ELSE Goes("error", New, l.remain)

-----------------------------------------------------------------------------
(* HeaderParser, a line at a time.                                         *)

\* The field being read is complete.  Of several values the first one counts.
Put(h) ==
  [h EXCEPT !.fields = IF h.key = "" \/ \E f \in Range(@) : f[1] = h.key THEN @ ELSE Append(@, <<h.key, h.value>>)]

HasField(fields, key) == \E f \in Range(fields) : f[1] = key
Field(fields, key) == (CHOOSE f \in Range(fields) : f[1] = key)[2]

\* parseHeaderFields.
BadFields(fields) ==
  \/ HasField(fields, "Content-Length:") /\ ~(/\ IsNumber(Field(fields, "Content-Length:"))
                                               /\ Number(Field(fields, "Content-Length:")) <= MaxContent)
  \/ HasField(fields, "CSeq:") /\ ~IsNumber(Field(fields, "CSeq:"))

WithFields(message, fields) ==
  [message EXCEPT
     !.length  = IF HasField(fields, "Content-Length:") THEN Number(Field(fields, "Content-Length:")) ELSE 0,
     !.cseq    = IF HasField(fields, "CSeq:") THEN Number(Field(fields, "CSeq:")) ELSE 0,
     !.session = IF HasField(fields, "Session:") /\ Field(fields, "Session:") # <<>>
                 THEN Field(fields, "Session:")[1] ELSE "",
     !.transport = IF HasField(fields, "Transport:") THEN Field(fields, "Transport:") ELSE <<>>]

\* The blank line.  parseHeaderFields returns 0 for the length, which is what
\* the body gets; the message still waits for the next byte when it has one.
EndHeader(p, fields, remain) ==
  LET message == WithFields(p.message, fields)
      next    == [p EXCEPT !.head = NoHead, !.message = message]
  IN IF BadFields(fields) THEN Goes("error", New, remain)
     ELSE IF message.length > 0 THEN Goes("more", [next EXCEPT !.state = "body", !.np = Needing(0)], remain)
     ELSE Goes("message", [next EXCEPT !.state = "start"], remain)

HeaderLine(p, line, remain) ==
  LET h    == p.head
      size == h.size + Len(line)
  IN CASE line = <<>> -> EndHeader(p, Put(h).fields, remain)
       [] line # <<>> /\ size > MaxHeader -> Goes("error", New, remain)
       [] line # <<>> /\ size <= MaxHeader /\ line[1] = Blank ->
            IF h.key = "" THEN Goes("error", New, remain)
            ELSE Goes("more", [p EXCEPT !.head.value = @ \o Tail(line), !.head.size = size], remain)
       [] OTHER ->
            IF line[1] \in Keys
            THEN Goes("more", [p EXCEPT !.head = [Put(h) EXCEPT !.key = line[1], !.value = Tail(line),
                                                                !.size = size]], remain)
            ELSE Goes("error", New, remain)

\* Plausible bug: the lines of the header are read with the parser of the
\* start line, whose cache is dropped when the header is cut.
ParseHeaderUncached(p, data) ==
  LET l == ParseLine(NewLine, data, MaxLine)
  IN CASE l.outcome = "more"  -> Goes("more", [p EXCEPT !.head.line = l.p], <<>>)
       [] l.outcome = "error" -> Goes("error", New, l.remain)
       [] l.outcome = "line"  -> HeaderLine([p EXCEPT !.head.line = l.p], l.line, l.remain)

ParseHeader(p, data) ==
  LET l == ParseLine(p.head.line, data, MaxLine)
  IN CASE l.outcome = "more"  -> Goes("more", [p EXCEPT !.head.line = l.p], <<>>)
       [] l.outcome = "error" -> Goes("error", New, l.remain)
       [] l.outcome = "line"  -> HeaderLine([p EXCEPT !.head.line = l.p], l.line, l.remain)

-----------------------------------------------------------------------------
ParseBody(p, data) ==
  LET r == NeedParse(p.np, data)
  IN IF r.ok THEN Goes("message", [p EXCEPT !.state = "start"], r.remain)
     ELSE Goes("more", [p EXCEPT !.np = r.p], <<>>)

\* "$", a channel and the length.  No packet is ever allocated, so that the
\* parser skips it.
ParseRtpPrefix(p, data) ==
  LET r == NeedParse(p.np, data)
      prefix == FlattenSeq(r.chunks)
  IN IF r.ok
     THEN Goes("more", [p EXCEPT !.state = "packet",
                                 !.np = Needing(256 * Number(<<prefix[3]>>) + Number(<<prefix[4]>>))], r.remain)
     ELSE Goes("more", [p EXCEPT !.np = r.p], <<>>)

ParseRtpPacket(p, data) ==
  LET r == NeedSkip(p.np, data)
  IN Goes("more", [p EXCEPT !.state = IF r.ok THEN "start" ELSE @, !.np = r.p], r.remain)

\* Parse: one turn of its loop, for as long as there is data.
Parse(p, data) ==
  CASE p.state = "start"  -> ParseStartCode(p, data)
    [] p.state = "line"   -> ParseStartLine(p, data)
    [] p.state = "header" -> ParseHeader(p, data)
    [] p.state = "body"   -> ParseBody(p, data)
    [] p.state = "prefix" -> ParseRtpPrefix(p, data)
    [] p.state = "packet" -> ParseRtpPacket(p, data)
=============================================================================
