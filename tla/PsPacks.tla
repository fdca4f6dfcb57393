------------------------------ MODULE PsPacks ------------------------------
(***************************************************************************)
(* The packs of an MPEG program stream as the server keeps and writes them *)
(* (media/ps: psh.go, sys.go, psm.go, pes.go, io.go): a pack header PSH    *)
(* starts a frame, SYS and PSM describe its streams, each PES carries data *)
(* of one stream.  Bytes are 0..255; the fields no property tells apart    *)
(* (clocks, rates, checksums) are fixed bytes.                             *)
(***************************************************************************)
EXTENDS ChunkParsers

PSH == 186   \* 0xBA
SYS == 187   \* 0xBB
PSM == 188   \* StreamIdProgramStreamMap

\* Stream ids whose PES has no header of its own after the length.
Headless == {188, 190, 191, 240, 241, 255, 242, 248}

Bit(b, k)  == (b \div 2^k) % 2 = 1
U16(n)     == <<n \div 256, n % 256>>
FromU16(b) == b[1] * 256 + b[2]
Code(c)    == <<0, 0, 1, c>>
Stuffing(n) == [i \in 1..n |-> 255]
Clock      == <<68, 0, 4, 0, 4, 1, 0, 0, 3>>
Bounds     == <<128, 0, 1, 4, 225, 127>>
Version    == <<224, 255>>
Crc        == <<9, 9, 9, 9>>

-----------------------------------------------------------------------------
(* The header of a PES: which fields follow flags (bytes2[1]) and, in the  *)
(* extension, base, in the order of the stream.                            *)

Fields == <<"time", "escr", "esRate", "trick", "copy", "crc", "base",
            "private", "packHeader", "counter", "buffer", "extension">>

Present(f, flags, base) ==
  CASE f = "time"       -> flags \div 64 \in {2, 3}
    [] f = "escr"       -> Bit(flags, 5)
    [] f = "esRate"     -> Bit(flags, 4)
    [] f = "trick"      -> Bit(flags, 3)
    [] f = "copy"       -> Bit(flags, 2)
    [] f = "crc"        -> Bit(flags, 1)
    [] f = "base"       -> Bit(flags, 0)
    [] f = "private"    -> Bit(flags, 0) /\ Bit(base, 7)
    [] f = "packHeader" -> Bit(flags, 0) /\ Bit(base, 6)
    [] f = "counter"    -> Bit(flags, 0) /\ Bit(base, 5)
    [] f = "buffer"     -> Bit(flags, 0) /\ Bit(base, 4)
    [] f = "extension"  -> Bit(flags, 0) /\ Bit(base, 0)

\* The bytes of a field; packHeader and extension have a length byte first.
FixedSize(f, flags) ==
  CASE f = "time" -> IF flags \div 64 = 3 THEN 10 ELSE 5
    [] f = "escr" -> 6
    [] f = "esRate" -> 3
    [] f = "private" -> 16
    [] f \in {"crc", "counter", "buffer"} -> 2
    [] OTHER -> 1

Prefixed == {"packHeader", "extension"}

-----------------------------------------------------------------------------
(* Packs.  fields is the sequence of <<name, bytes>> present in the header;*)
(* the lengths are the ones the pack carries, right or wrong.              *)

Psh(n) == [kind |-> "psh", stuffing |-> n]
Sys(ids) == [kind |-> "sys", length |-> 6 + 3 * Len(ids), infos |-> ids]
Stream(type, id, desc) == [type |-> type, id |-> id, desc |-> desc]

MapLength(streams) == FoldLeft(LAMBDA n, s : n + 4 + Len(s.desc), 0, streams)
Psm(desc, streams) ==
  [kind |-> "psm", desc |-> desc, streams |-> streams, mapLength |-> MapLength(streams),
   length |-> 10 + Len(desc) + MapLength(streams)]

FieldBytes(fields) == FlattenSeq([i \in DOMAIN fields |-> fields[i][2]])

Pes(id, flags, fields, stuffing, data) ==
  LET hlen == Len(FieldBytes(fields)) + stuffing
  IN [kind |-> "pes", id |-> id, flags |-> flags, fields |-> fields, hlen |-> hlen,
      length |-> (IF id \in Headless THEN 0 ELSE 3 + hlen) + Len(data),
      data |-> <<data>>]

-----------------------------------------------------------------------------
(* WriteTo of the packs.                                                   *)

\* The header fields go through a buffer that is flushed after crc, before
\* the private data and after each prefixed field: what is buffered later is
\* never written, and stuffing fills its place.
Flushed(fields) ==
  LET names == [i \in DOMAIN fields |-> fields[i][1]]
      flushes == {i \in DOMAIN fields :
                    names[i] \in {"time", "escr", "esRate", "trick", "copy", "crc", "private"} \cup Prefixed}
  IN Take(fields, IF flushes = {} THEN 0 ELSE CHOOSE i \in flushes : \A j \in flushes : j <= i)

WriteHeader(p, fields) ==
  Code(p.id) \o U16(p.length) \o
  (IF p.id \in Headless THEN <<>>
   ELSE <<128, p.flags, p.hlen>> \o FieldBytes(fields) \o Stuffing(p.hlen - Len(FieldBytes(fields))))

WritePsh(p) == Code(PSH) \o Clock \o <<248 + p.stuffing>> \o Stuffing(p.stuffing)
WriteSys(p) == Code(SYS) \o U16(p.length) \o Bounds
               \o FlattenSeq([i \in DOMAIN p.infos |-> <<p.infos[i], 224, 8>>])
WriteStream(s) == <<s.type, s.id>> \o U16(Len(s.desc)) \o s.desc
WritePsm(p) == Code(PSM) \o U16(p.length) \o Version \o U16(Len(p.desc)) \o p.desc \o U16(p.mapLength)
               \o FlattenSeq([i \in DOMAIN p.streams |-> WriteStream(p.streams[i])]) \o Crc

\* What a sender puts on the wire, and what the server's own PES.WriteTo
\* writes: they differ in the header fields it never flushes.
Sent(p) ==
  CASE p.kind = "psh" -> WritePsh(p)
    [] p.kind = "sys" -> WriteSys(p)
    [] p.kind = "psm" -> WritePsm(p)
    [] p.kind = "pes" -> WriteHeader(p, p.fields) \o FlattenSeq(p.data)
WriteTo(p) ==
  IF p.kind = "pes" THEN WriteHeader(p, Flushed(p.fields)) \o FlattenSeq(p.data) ELSE Sent(p)

\* Size: the length fields are added as uint8 and uint16.
HeaderSize(p) == (9 + p.hlen) % 256
Size(p) ==
  CASE p.kind = "psh" -> 14 + p.stuffing
    [] p.kind = "sys" -> 6 + p.length
    [] p.kind \in {"psm", "pes"} -> (6 + p.length) % 65536
=============================================================================
