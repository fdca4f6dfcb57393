---------------------------- MODULE RtpPackagers ----------------------------
(***************************************************************************)
(* From the data of a frame to RTP packets: the H264 NALU parser and its   *)
(* packager (media/h264), and the packager that puts the packs of a frame  *)
(* into packets as they are (media/ps/rtp-packager.go).                    *)
(***************************************************************************)
EXTENDS PsPacks

CONSTANT MaxPayload   \* maxRtpPayload of the packagers

ASSUME MaxPayloadAssumption == MaxPayload \in Nat /\ MaxPayload > 4

-----------------------------------------------------------------------------
(* AnnexBInPrefixNALUParser and the H264 packager.                         *)

NoNalu == [skip |-> TRUE, header |-> 0, cache |-> <<>>, np |-> Needing(5)]
Size_(chunks) == Len(FlattenSeq(chunks))

StartsAt(prefix) == CASE Take(prefix, 3) = <<0, 0, 1>> -> 3
                      [] Take(prefix, 4) = <<0, 0, 0, 1>> -> 4
                      [] OTHER -> 0

ValidType(header) == header % 32 \in 1..12

Parsed(n, done, err) == [n |-> n, done |-> done, err |-> err]

\* Plausible bug: after a start code of three bytes the fifth byte is not kept.
BeginsLate(n, prefix, data, remain) ==
  LET header == prefix[StartsAt(prefix) + 1]
      done   == IF n.skip THEN <<>> ELSE <<[header |-> n.header, chunks |-> n.cache]>>
  IN IF ValidType(header)
     THEN Parsed([NoNalu EXCEPT !.skip = FALSE, !.header = header, !.cache = <<remain>>], done, FALSE)
     ELSE Parsed(NoNalu, done, TRUE)

\* A prefix that is a start code: the NALU before it is complete, and the
\* new one begins with what follows its header.
Begins(n, prefix, data, remain) ==
  LET header == prefix[StartsAt(prefix) + 1]
      parsed == Len(data) - Len(remain)
      body   == IF StartsAt(prefix) = 3 THEN <<Drop(data, parsed - 1)>>
                ELSE IF remain # <<>> THEN <<remain>> ELSE <<>>
      done   == IF n.skip THEN <<>> ELSE <<[header |-> n.header, chunks |-> n.cache]>>
  IN IF ValidType(header)
     THEN Parsed([NoNalu EXCEPT !.skip = FALSE, !.header = header, !.cache = body], done, FALSE)
     ELSE Parsed(NoNalu, done, TRUE)

\* Parse: only the first chunk of a PES may begin a NALU.
NaluParse(n, data, isPrefix) ==
  LET r == NeedParse(n.np, data)
      prefix == FlattenSeq(r.chunks)
      more(chunks) == Parsed([n EXCEPT !.np = Needing(5), !.cache = IF n.skip THEN @ ELSE @ \o chunks], <<>>, FALSE)
  IN IF ~isPrefix THEN Parsed([n EXCEPT !.cache = IF n.skip THEN @ ELSE Append(@, data)], <<>>, FALSE)
     ELSE IF ~r.ok THEN Parsed([n EXCEPT !.np = r.p], <<>>, FALSE)
     ELSE IF StartsAt(prefix) # 0 THEN Begins(n, prefix, data, r.remain)
     ELSE more(IF Len(r.chunks) = 1 THEN <<data>> ELSE <<prefix, r.remain>>)

\* packageUseFuNALU: the pieces of the body, greedily, each within the limit;
\* a piece with at most two bytes of room left is closed before the next chunk.
Pieces(chunks) ==
  LET Cut[left \in Seq(Seq(Nat)), cache \in Seq(Nat)] ==
        IF left = <<>> THEN <<cache>>
        ELSE IF left[1] = <<>> THEN Cut[Tail(left), cache]
        ELSE LET full == MaxPayload - Len(cache) - 2 <= 2
                 held == IF full THEN <<>> ELSE cache
                 room == MaxPayload - Len(held) - 2
             IN (IF full THEN <<cache>> ELSE <<>>)
                \o Cut[<<Drop(left[1], room)>> \o Tail(left), held \o Take(left[1], room)]
  IN Cut[chunks, <<>>]

FuPackets(header, chunks) ==
  LET ps == Pieces(chunks)
  IN [i \in DOMAIN ps |-> [form |-> "fu", start |-> i = 1, end |-> i = Len(ps), marker |-> i = Len(ps),
                           header |-> header % 128, size |-> 2 + Len(ps[i]), data |-> ps[i]]]

SinglePacket(header, chunks) ==
  [form |-> "single", start |-> TRUE, end |-> TRUE, marker |-> TRUE, header |-> header,
   size |-> 1 + Size_(chunks), data |-> FlattenSeq(chunks)]

Package(header, chunks) ==
  IF Size_(chunks) + 1 < MaxPayload THEN <<SinglePacket(header, chunks)>> ELSE FuPackets(header, chunks)

-----------------------------------------------------------------------------
(* The PS packager: the packs before the first PES and each PES header in  *)
(* packets of their own, then the data; the marker ends a stream's last    *)
(* PES.                                                                    *)

Sliced(bytes) ==
  [i \in 1..(Len(bytes) + MaxPayload - 1) \div MaxPayload |->
     SubSeq(bytes, (i - 1) * MaxPayload + 1, IF i * MaxPayload < Len(bytes) THEN i * MaxPayload ELSE Len(bytes))]

Metas(frame) ==
  SelectSeq(<<frame.psh, frame.sys, frame.psm>>, LAMBDA p : p.kind # "none")

\* The writer's buffer has the sum of the sizes: bytes beyond it are lost.
MetaData(frame, i) ==
  LET metas == IF i = 1 THEN Metas(frame) ELSE <<>>
      room  == FoldLeft(LAMBDA n, p : n + Size(p), HeaderSize(frame.pes[i]), metas)
      bytes == FlattenSeq([j \in DOMAIN metas |-> WriteTo(metas[j])])
               \o WriteHeader(frame.pes[i], Flushed(frame.pes[i].fields))
  IN Take(bytes, room)

\* Plausible bug: the last PES of the frame ends every stream.
EndsFrame(frame, i) == i = Len(frame.pes)

EndsStream(frame, i) == \A j \in i + 1..Len(frame.pes) : frame.pes[j].id # frame.pes[i].id

PackagePes(frame, i) ==
  LET metas == Sliced(MetaData(frame, i))
      datas == Sliced(FlattenSeq(frame.pes[i].data))
      packet(bytes, marker) == [marker |-> marker, size |-> Len(bytes), data |-> bytes]
  IN [j \in DOMAIN metas |-> packet(metas[j], FALSE)]
     \o [j \in DOMAIN datas |-> packet(datas[j], j = Len(datas) /\ EndsStream(frame, i))]
=============================================================================
