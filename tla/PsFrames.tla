------------------------------ MODULE PsFrames ------------------------------
(***************************************************************************)
(* From the bytes of a program stream to the packets pushed to the viewers:*)
(* the pack parser (media/ps/parser.go) and the frame parser over it       *)
(* (frame-parser.go), fed by the live frame handler one RTP frame at a     *)
(* time (media/channel/ps.go), by the history pusher one block at a time   *)
(* (history-rtp-pusher.go) or by the ps-packager tool; then the H264 NALU  *)
(* parser and the two RTP packagers.  The stream arrives in chunks cut     *)
(* anywhere, and the parsers keep state from one chunk to the next.        *)
(***************************************************************************)
EXTENDS PsParser, RtpPackagers

CONSTANT Scenes   \* [mode, inputs (sequences of packs), sizes of the chunks]

VARIABLES scene,   \* the input of this behaviour
          at,      \* the RTP frame or block being read
          rest,    \* its bytes that have not been read
          chunk,   \* the unread part of the chunk in hand
          parser,  \* ps.Parser: state, start code finder, need parser, pack
          cur,     \* FrameParser.curFrame
          infos,   \* FrameParser.streamInfos: the streams of the last PSM
          taken,   \* the frame the caller took and handles
          nalu,    \* AnnexBInPrefixNALUParser
          out,     \* the packets made, one sequence per frame handled
          heard,   \* ghost: the frames taken, each with its input's number
          sought,  \* the blocks a seek left unread: there Complete is not called
          status   \* "parse", "stopped", or "short", a ghost for "parse": once
                   \* the first bytes of a PES came in pieces

pvars == <<scene, at, rest, chunk, parser, cur, infos, taken, nalu, out, heard, sought, status>>

-----------------------------------------------------------------------------
(* FrameParser: a PSH starts a frame and completes the one before.         *)

NewFrame(psh) == [kind |-> "frame", psh |-> psh, sys |-> None, psm |-> None, pes |-> <<>>]

\* The media types the server knows, by stream type.
Known == {15, 16, 27, 36, 128, 144, 146, 147, 153, 155}
H264  == 27

\* complete: the streams of the frame's PSM replace the known ones unless
\* their number is the same and none of those found under its old id changed:
\* a PSM that only renames ids is taken for the old one.
InfosOf(psm)   == SelectSeq(psm.streams, LAMBDA s : s.type \in Known)
ById(is, id)   == SelectSeq(is, LAMBDA s : s.id = id)
Differs(is, i) == ById(is, i.id) # <<>> /\ ById(is, i.id)[1].type # i.type
Completes(frame) ==
  IF frame.psm = None THEN infos
  ELSE LET is == InfosOf(frame.psm)
       IN IF infos.known /\ Len(infos.streams) = Len(is)
             /\ \A i \in Range(is) : ~Differs(infos.streams, i)
          THEN infos ELSE [known |-> TRUE, streams |-> is]

Flat(frame) == [frame EXCEPT !.pes = [i \in DOMAIN @ |-> [@[i] EXCEPT !.data = <<FlattenSeq(@)>>]]]

\* Complete, then Take.
Deliver(frame) ==
  /\ infos' = Completes(frame)
  /\ taken' = frame
  /\ heard' = Append(heard, [at |-> at, frame |-> Flat(frame)])

NotDelivered == UNCHANGED <<infos, taken, heard>>

\* Parse with a pack that is complete.  A live frame is over at the second
\* PSH: the caller takes the first frame and drops the rest of the RTP frame.
OnPSH(pack, remain) ==
  IF cur = None
  THEN cur' = NewFrame(pack) /\ chunk' = remain /\ UNCHANGED rest /\ NotDelivered
  ELSE /\ Deliver(cur)
       /\ IF scene.mode = "live"
          THEN cur' = None /\ chunk' = <<>> /\ rest' = <<>>
          ELSE cur' = NewFrame(pack) /\ chunk' = remain /\ UNCHANGED rest

\* An error releases the frame; the live handler looks at errors only when a
\* frame is complete and goes on, the tool panics.
OnError(remain) ==
  /\ cur' = None
  /\ chunk' = remain
  /\ status' = IF scene.mode = "tool" THEN "stopped" ELSE status
  /\ UNCHANGED rest
  /\ NotDelivered

OnPack(pack, remain) ==
  /\ UNCHANGED status
  /\ IF pack.kind = "psh" THEN OnPSH(pack, remain)
     ELSE /\ cur' = IF cur = None \/ (pack.kind = "pes" /\ pack.id = 0) THEN cur
                    ELSE CASE pack.kind = "sys" -> [cur EXCEPT !.sys = pack]
                           [] pack.kind = "psm" -> [cur EXCEPT !.psm = pack]
                           [] pack.kind = "pes" -> [cur EXCEPT !.pes = Append(@, pack)]
          /\ chunk' = remain
          /\ UNCHANGED rest
          /\ NotDelivered

\* A second SYS or PSM in a frame is an error.
Duplicate(pack) == /\ cur # None
                   /\ \/ pack.kind = "sys" /\ cur.sys # None
                      \/ pack.kind = "psm" /\ cur.psm # None

\* FrameParser.Parse over one step of the parser.
Step(state, Parse(_, _)) ==
  /\ status # "stopped"
  /\ taken = None
  /\ chunk # <<>>
  /\ parser.state = state
  /\ LET r == Parse(parser, chunk)
     IN /\ parser' = IF r.outcome = "pack" THEN Reset ELSE r.p
        /\ CASE r.outcome = "more"  -> chunk' = r.remain /\ UNCHANGED <<rest, cur, status>> /\ NotDelivered
             [] r.outcome = "error" -> OnError(r.remain)
             [] r.outcome = "pack"  -> IF Duplicate(r.p.pack) THEN OnError(r.remain)
                                       ELSE OnPack(r.p.pack, r.remain)
  /\ UNCHANGED <<scene, at, nalu, out, sought>>

StepFindStartCode  == Step("find", FindStartCode)
StepPSH            == Step("psh", ParsePSH)
StepPSHStuffing    == Step("stuffing", ParsePSHStuffing)
StepSYS            == Step("sys", ParseSYS)
StepSYSStreamInfos == Step("sysInfos", ParseSYSStreamInfos)
StepPSMLength      == Step("psmLength", ParsePSMPacketLength)
StepPSMHeader      == Step("psm", ParsePSMHeader)
StepPESLength      == Step("pesLength", ParsePESPacketLength)
StepPESHeaderLength == Step("headerLength", ParsePESHeaderDataLength)
StepPESHeader      == Step("header", ParsePESHeader)
StepPESData        == Step("data", ParsePESPacketData)

-----------------------------------------------------------------------------
(* The callers: chunks come in, at the end of the RTP frame, block or file *)
(* the frame being parsed is completed, and then the parser is reset.      *)

Idle == status # "stopped" /\ taken = None /\ chunk = <<>>

NextChunk ==
  /\ Idle
  /\ rest # <<>>
  /\ \E n \in scene.sizes : chunk' = Take(rest, n) /\ rest' = Drop(rest, n)
  /\ UNCHANGED <<scene, at, parser, cur, infos, taken, nalu, out, heard, sought, status>>

\* Plausible bug: complete leaves curFrame in place.
EndOfInputAgain ==
  /\ Idle
  /\ rest = <<>>
  /\ cur # None
  /\ at \notin sought
  /\ Deliver(cur)
  /\ UNCHANGED <<scene, at, rest, chunk, parser, cur, nalu, out, sought, status>>

EndOfInput ==
  /\ Idle
  /\ rest = <<>>
  /\ cur # None
  /\ at \notin sought
  /\ Deliver(cur)
  /\ cur' = None
  /\ UNCHANGED <<scene, at, rest, chunk, parser, nalu, out, sought, status>>

\* The next RTP frame or block.  The parser has been reset, unless a seek
\* left the block before: then it still has the frame it had begun.
NextInput ==
  /\ Idle
  /\ rest = <<>>
  /\ cur = None \/ at \in sought
  /\ at < Len(scene.inputs)
  /\ at' = at + 1
  /\ rest' = FlattenSeq([i \in DOMAIN scene.inputs[at + 1] |-> Sent(scene.inputs[at + 1][i])])
  /\ parser' = IF at \in sought THEN parser ELSE Reset
  /\ UNCHANGED <<scene, chunk, cur, infos, taken, nalu, out, heard, sought, status>>

\* A seek while a history frame waits to be sent: the frame is released and
\* the rest of the block, if any, abandoned, and the parser is not reset.
Seek ==
  /\ scene.mode = "history"
  /\ taken # None
  /\ taken' = None
  /\ chunk' = <<>>
  /\ rest' = <<>>
  /\ sought' = sought \cup {at}
  /\ UNCHANGED <<scene, at, parser, cur, infos, nalu, out, heard, status>>

-----------------------------------------------------------------------------
(* handleFrame: the chunks of the PES of the H264 stream through the NALU  *)
(* parser, what completes through the packager.                            *)

\* GetStreamInfoByMediaType: the first stream of the type.
Wanted(p) == LET video == SelectSeq(infos.streams, LAMBDA s : s.type = H264)
             IN video # <<>> /\ p.id = video[1].id

\* The chunks of the wanted PES: <<chunk, whether it is the PES's first>>.
VideoChunks(frame) ==
  FlattenSeq([i \in DOMAIN frame.pes |->
               IF Wanted(frame.pes[i])
               THEN [j \in DOMAIN frame.pes[i].data |-> <<frame.pes[i].data[j], j = 1>>]
               ELSE <<>>])

\* One chunk; after an error the keep chooser allowed for, the next.
HandleChunk(acc, c) ==
  LET r == NaluParse(acc.n, c[1], c[2])
  IN [n |-> r.n,
      short |-> acc.short \/ (c[2] /\ Len(c[1]) < 5),
      out |-> acc.out \o FlattenSeq([i \in DOMAIN r.done |-> Package(r.done[i].header, r.done[i].chunks)])]

\* The parsers stay usable: keepChooser ends the stream only after three
\* errors in a row, more than any scene has.
HandleFrame ==
  /\ taken # None
  /\ scene.mode # "tool"
  /\ taken' = None
  /\ IF ~infos.known \/ taken.pes = <<>> THEN UNCHANGED <<nalu, out, status>>
     ELSE LET acc == FoldLeft(HandleChunk, [n |-> nalu, short |-> FALSE, out |-> <<>>], VideoChunks(taken))
              last == IF acc.n.skip THEN <<>> ELSE Package(acc.n.header, acc.n.cache)
          IN /\ nalu' = [NoNalu EXCEPT !.np = acc.n.np]
             /\ out' = Append(out, [frame |-> Flat(taken), packets |-> acc.out \o last,
                                    video |-> SelectSeq(Flat(taken).pes, Wanted)])
             /\ status' = IF acc.short THEN "short" ELSE status
  /\ UNCHANGED <<scene, at, rest, chunk, parser, cur, infos, heard, sought>>

-----------------------------------------------------------------------------
(* The ps-packager tool packs every frame again.                            *)

PackageFrame ==
  /\ taken # None
  /\ scene.mode = "tool"
  /\ taken' = None
  /\ out' = IF infos.known /\ \E i \in Range(infos.streams) : i.type = H264
            THEN Append(out, [frame |-> Flat(taken), video |-> <<>>,
                              packets |-> FlattenSeq([i \in DOMAIN taken.pes |-> PackagePes(taken, i)])])
            ELSE out
  /\ UNCHANGED <<scene, at, rest, chunk, parser, cur, infos, nalu, heard, sought, status>>

\* Nothing is left to read, or the tool panicked.
Finished ==
  /\ \/ status = "stopped"
     \/ at = Len(scene.inputs) /\ Idle /\ rest = <<>> /\ (cur = None \/ at \in sought)
  /\ UNCHANGED pvars

PNext ==
  \/ NextInput \/ Seek \/ NextChunk \/ EndOfInput \/ HandleFrame \/ PackageFrame
  \/ StepFindStartCode \/ StepPSH \/ StepPSHStuffing \/ StepSYS \/ StepSYSStreamInfos
  \/ StepPSMLength \/ StepPSMHeader \/ StepPESLength \/ StepPESHeaderLength \/ StepPESHeader \/ StepPESData
  \/ Finished

PInit ==
  /\ scene \in Scenes
  /\ at = 0
  /\ rest = <<>>
  /\ chunk = <<>>
  /\ parser = Reset
  /\ cur = None
  /\ infos = [known |-> FALSE, streams |-> <<>>]
  /\ taken = None
  /\ nalu = NoNalu
  /\ out = <<>>
  /\ heard = <<>>
  /\ sought = {}
  /\ status = "parse"

PSpec == PInit /\ [][PNext]_pvars

-----------------------------------------------------------------------------
(* What should come out, defined on the packs and not on the bytes.        *)

Broken(p) ==
  CASE p.kind = "psh" -> FALSE
    [] p.kind = "sys" -> p # Sys(p.infos)
    [] p.kind = "psm" -> p # Psm(p.desc, p.streams)
    [] p.kind = "pes" -> \/ p.hlen < Len(FieldBytes(p.fields))
                         \/ p.id \notin Headless /\ p.length # 3 + p.hlen + Len(FlattenSeq(p.data))

\* A pack that ends where its lengths do is noticed with the next byte only:
\* the last pack of an input is lost when it is empty after its header.
EmptyTail(p) ==
  CASE p.kind = "psh" -> p.stuffing = 0
    [] p.kind = "sys" -> p.infos = <<>>
    [] p.kind = "psm" -> FALSE
    [] p.kind = "pes" -> FlattenSeq(p.data) = <<>>

Noticed(packs) == IF packs # <<>> /\ EmptyTail(Last(packs)) THEN Front(packs) ELSE packs

Group(acc, p) ==
  CASE p.kind = "psh" -> [frames |-> acc.frames \o acc.open, open |-> <<NewFrame(p)>>]
    [] acc.open = <<>> \/ Broken(p) -> [acc EXCEPT !.open = <<>>]
    [] p.kind = "sys" -> [acc EXCEPT !.open = IF @[1].sys # None THEN <<>> ELSE <<[@[1] EXCEPT !.sys = p]>>]
    [] p.kind = "psm" -> [acc EXCEPT !.open = IF @[1].psm # None THEN <<>> ELSE <<[@[1] EXCEPT !.psm = p]>>]
    [] p.kind = "pes" -> [acc EXCEPT !.open = <<[@[1] EXCEPT !.pes = Append(@, p)]>>]

Frames(packs) ==
  LET all == FoldLeft(Group, [frames |-> <<>>, open |-> <<>>], Noticed(packs))
  IN all.frames \o all.open

\* The header fields that follow esRate are read from the wrong place; they
\* are left out of the comparison.
UpToRate(fields) ==
  LET rate == {i \in DOMAIN fields : fields[i][1] = "esRate"}
  IN IF rate = {} THEN fields ELSE Take(fields, CHOOSE i \in rate : TRUE)
Compared(frame) == [Flat(frame) EXCEPT !.pes =
                      [i \in DOMAIN @ |-> [@[i] EXCEPT !.fields = UpToRate(@)]]]
WithPes(frames) == SelectSeq([i \in DOMAIN frames |-> Compared(frames[i])], LAMBDA f : f.pes # <<>>)

Expected(k) == LET all == Frames(scene.inputs[k])
               IN WithPes(IF scene.mode = "live" THEN Take(all, 1) ELSE all)
HeardIn(k) == LET mine == SelectSeq(heard, LAMBDA h : h.at = k)
              IN WithPes([i \in DOMAIN mine |-> mine[i].frame])

\* A NALU begins with each PES that has a start code and goes on in those
\* that have none.
AddPes(nalus, p) ==
  LET data == FlattenSeq(p.data)
      off  == StartsAt(data)
  IN IF off # 0
     THEN Append(nalus, [header |-> data[off + 1], body |-> Drop(data, off + 1)])
     ELSE IF nalus = <<>> THEN nalus
     ELSE [nalus EXCEPT ![Len(nalus)].body = @ \o data]
Nalus(video) == SelectSeq(FoldLeft(AddPes, <<>>, video), LAMBDA n : ValidType(n.header))

\* A receiver puts the packets together again; ok while the start and end
\* bits and the marker are where they should be.
Receive(acc, p) ==
  [ok |-> acc.ok /\ p.size <= MaxPayload /\ p.start = ~acc.open /\ p.marker = p.end,
   open |-> ~p.end,
   nalus |-> IF p.start THEN Append(acc.nalus, [header |-> p.header, body |-> p.data])
             ELSE [acc.nalus EXCEPT ![Len(acc.nalus)].body = @ \o p.data]]
Received(packets) == FoldLeft(Receive, [ok |-> TRUE, open |-> FALSE, nalus |-> <<>>], packets)

FrameBytes(frame) ==
  FlattenSeq([i \in DOMAIN Metas(frame) |-> Sent(Metas(frame)[i])])
  \o FlattenSeq([i \in DOMAIN frame.pes |-> Sent(frame.pes[i])])

\* Where the marked packets of a frame should end.
LastOf(frame, id) == CHOOSE i \in DOMAIN frame.pes :
  frame.pes[i].id = id /\ \A j \in DOMAIN frame.pes : frame.pes[j].id = id => j <= i
StreamEnds(frame) ==
  {Len(FrameBytes([frame EXCEPT !.pes = Take(@, i)])) :
     i \in {j \in {LastOf(frame, p.id) : p \in Range(frame.pes)} : FlattenSeq(frame.pes[j].data) # <<>>}}
MarkedEnds(packets) ==
  {Len(FlattenSeq([j \in 1..i |-> packets[j].data])) : i \in {j \in DOMAIN packets : packets[j].marker}}

-----------------------------------------------------------------------------
(* Properties.                                                             *)

\* Wherever the stream is cut, the frames the live handler, the history pusher
\* and the tool take are the frames that were sent, pack for pack and field
\* for field, in order; a broken or repeated pack costs its own frame only,
\* and a frame never mixes packs of two RTP frames or blocks, even when a seek
\* leaves a block half parsed (ps.Parser, FrameParser, StartCodeFinder).
FramesExact ==
  \A k \in 1..at :
    /\ IsPrefix(HeardIn(k), Expected(k))
    /\ (k < at \/ (Idle /\ rest = <<>> /\ cur = None)) /\ k \notin sought => HeardIn(k) = Expected(k)

\* The packets pushed for a frame are within the payload limit and carry
\* exactly its NALUs, each single or as one run of FU pieces with the start,
\* end and marker bits in place, for every cut that gives the first five bytes
\* of a PES in one chunk (AnnexBInPrefixNALUParser, h264.RtpPackager).
NalusExact ==
  scene.mode # "tool" /\ status = "parse" =>
    \A i \in DOMAIN out :
      LET r == Received(out[i].packets)
          n == Nalus(out[i].video)
      IN /\ r.ok
         /\ ~r.open
         /\ r.nalus = n

\* A frame packed again into RTP is the frame that was read: its bytes in
\* packets within the limit, a marker on the last packet of each stream and on
\* no other (ps.RtpPackager, the WriteTo and Size of the packs).
RepackedExact ==
  scene.mode = "tool" =>
    \A i \in DOMAIN out :
      LET f == out[i].frame IN
      (\A p \in Range(f.pes) : Flushed(p.fields) = p.fields /\ HeaderSize(p) >= 9) =>
        /\ \A p \in Range(out[i].packets) : p.size \in 1..MaxPayload
        /\ f.pes # <<>> => FlattenSeq([j \in DOMAIN out[i].packets |-> out[i].packets[j].data]) = FrameBytes(f)
        /\ MarkedEnds(out[i].packets) = StreamEnds(f)

\* How far a pack has got.
Later(state) == CASE state = "header" -> 2
                  [] state \in {"data", "stuffing", "sysInfos"} -> 1
                  [] state = "find" -> 0
                  [] OTHER -> 3
Unread == Len(rest) + Len(chunk)

\* Every step reads on: bytes are consumed, or a pack that needs none moves to
\* a later part of it, or a frame is handled, or the next input begins.  So the
\* for loops over len(remain) > 0 and len(block) > 0 end for every length a
\* pack announces, and the run stops only with the inputs read.
ReadsOn ==
  [][\/ at' > at
     \/ Unread' < Unread
     \/ Unread' = Unread /\ \/ Len(rest') < Len(rest)
                            \/ taken # None /\ taken' = None
                            \/ cur # None /\ cur' = None
                            \/ Later(parser'.state) < Later(parser.state)]_pvars
=============================================================================
