------------------------------ MODULE PsParser ------------------------------
(***************************************************************************)
(* The pack parser of media/ps/parser.go: a state machine over the chunks  *)
(* of a program stream that finds a start code, then gathers the parts of  *)
(* the pack it announces.                                                  *)
(***************************************************************************)
EXTENDS PsPacks

None == [kind |-> "none"]

-----------------------------------------------------------------------------
(* ps.Parser: one operator per state function.  Each returns what the      *)
(* state function does with the chunk: the new parser, the unread bytes    *)
(* and "more", "pack" (Parse returns true) or "error".                     *)

Reset == [state |-> "find", kept |-> <<>>, np |-> Needing(0), pack |-> None]

Goes(outcome, p, remain) == [outcome |-> outcome, p |-> p, remain |-> remain]
To(state, need, pack) == [state |-> state, kept |-> <<>>, np |-> Needing(need), pack |-> pack]
Fails(remain) == Goes("error", Reset, remain)

\* The state functions that gather need bytes first; Then is the rest of the
\* function, over the gathered chunks.
Gather(p, data, Then(_, _)) ==
  LET r == NeedParse(p.np, data)
  IN IF r.ok THEN Then(r.chunks, r.remain) ELSE Goes("more", [p EXCEPT !.np = r.p], <<>>)

FindStartCode(p, data) ==
  LET f == Find(p.kept, data) IN
  IF ~f.ok THEN Goes("more", [p EXCEPT !.kept = f.kept], <<>>)
  ELSE Goes("more",
            CASE f.code = PSH -> To("psh", 10, None)
              [] f.code = SYS -> To("sys", 8, None)
              [] f.code = PSM -> To("psmLength", 2, None)
              [] OTHER -> To("pesLength", 2, [kind |-> "pes", id |-> f.code, length |-> 0, flags |-> 0,
                                              hlen |-> 0, fields |-> <<>>, data |-> <<>>]),
            f.remain)

ParsePSH(p, data) ==
  Gather(p, data, LAMBDA c, remain :
    LET n == FlattenSeq(c)[10] % 8 IN Goes("more", To("stuffing", n, Psh(n)), remain))

ParsePSHStuffing(p, data) ==
  LET r == NeedSkip(p.np, data)
  IN IF r.ok THEN Goes("pack", To("find", 0, p.pack), r.remain)
             ELSE Goes("more", [p EXCEPT !.np = r.p], <<>>)

\* siDataSize is a uint16: a header length under 6 wraps around, and the test
\* for a negative size never holds.
ParseSYS(p, data) ==
  Gather(p, data, LAMBDA c, remain :
    LET length == FromU16(FlattenSeq(c))
        size   == (length - 6) % 65536
    IN IF size % 3 # 0 THEN Fails(remain)
       ELSE Goes("more", To("sysInfos", size, [kind |-> "sys", length |-> length, infos |-> <<>>]), remain))

ParseSYSStreamInfos(p, data) ==
  Gather(p, data, LAMBDA c, remain :
    LET raw == FlattenSeq(c)
    IN Goes("pack", To("find", 0, [p.pack EXCEPT !.infos = [i \in 1..p.np.need \div 3 |-> raw[3 * i - 2]]]),
            remain))

ParsePSMPacketLength(p, data) ==
  Gather(p, data, LAMBDA c, remain :
    LET length == FromU16(FlattenSeq(c))
    IN IF length < 10 THEN Fails(remain)
       ELSE Goes("more", To("psm", length, [kind |-> "psm", length |-> length]), remain))

\* The elementary streams of a PSM, each with its descriptors.
Streams[raw \in Seq(Nat)] ==
  IF raw = <<>> THEN [ok |-> TRUE, streams |-> <<>>]
  ELSE IF Len(raw) < 4 \/ Len(raw) < 4 + FromU16(SubSeq(raw, 3, 4)) THEN [ok |-> FALSE]
  ELSE LET n    == FromU16(SubSeq(raw, 3, 4))
           more == Streams[Drop(raw, 4 + n)]
       IN IF ~more.ok THEN more
          ELSE [ok |-> TRUE,
                streams |-> <<Stream(raw[1], raw[2], SubSeq(raw, 5, 4 + n))>> \o more.streams]

ParsePSMHeader(p, data) ==
  Gather(p, data, LAMBDA c, remain :
    LET raw       == FlattenSeq(c)
        length    == p.pack.length
        info      == FromU16(SubSeq(raw, 3, 4))
        mapLength == FromU16(SubSeq(raw, 5 + info, 6 + info))
        streams   == Streams[SubSeq(raw, 7 + info, 6 + info + mapLength)]
    IN IF length < (10 + info) % 65536 THEN Fails(remain)
       ELSE IF length < (10 + info + mapLength) % 65536 THEN Fails(remain)
       ELSE IF ~streams.ok \/ length > 10 + info + mapLength THEN Fails(remain)
       ELSE Goes("pack",
                 To("find", 0, [kind |-> "psm", length |-> length, desc |-> SubSeq(raw, 5, 4 + info),
                                streams |-> streams.streams, mapLength |-> mapLength]),
                 remain))

ParsePESPacketLength(p, data) ==
  Gather(p, data, LAMBDA c, remain :
    LET length == FromU16(FlattenSeq(c))
        pack   == [p.pack EXCEPT !.length = length]
    IN IF pack.id \in Headless THEN Goes("more", To("data", length, pack), remain)
       ELSE IF length < 3 THEN Fails(remain)
       ELSE Goes("more", To("headerLength", 3, pack), remain))

ParsePESHeaderDataLength(p, data) ==
  Gather(p, data, LAMBDA c, remain :
    LET raw == FlattenSeq(c)
    IN IF p.pack.length < 3 + raw[3] THEN Fails(remain)
       ELSE Goes("more", To("header", raw[3], [p.pack EXCEPT !.flags = raw[2], !.hlen = raw[3]]), remain))

\* One field of the PES header: min counts the bytes as a uint8, and after
\* esRate raw is cut to the three bytes of esRate instead of moved past them.
TakeField(pack, h, f) ==
  LET size1 == FixedSize(f, pack.flags)
      size  == size1 + (IF f \in Prefixed /\ pack.hlen >= (h.min + 1) % 256 THEN h.raw[1] ELSE 0)
  IN IF ~h.ok \/ ~Present(f, pack.flags, h.base) THEN h
     ELSE IF pack.hlen < (h.min + size1) % 256 \/ pack.hlen < (h.min + size) % 256
          THEN [h EXCEPT !.ok = FALSE]
     ELSE [h EXCEPT !.min = (@ + size) % 256,
                    !.fields = Append(@, <<f, Take(h.raw, size)>>),
                    !.base = IF f = "base" THEN h.raw[1] ELSE @,
                    !.raw = IF f = "esRate" THEN Take(@, 3) ELSE Drop(@, size)]

ParsePESHeader(p, data) ==
  Gather(p, data, LAMBDA c, remain :
    LET h == FoldLeft(LAMBDA acc, f : TakeField(p.pack, acc, f),
                      [ok |-> TRUE, min |-> 0, base |-> 0, raw |-> FlattenSeq(c), fields |-> <<>>], Fields)
    IN IF ~h.ok THEN Fails(remain)
       ELSE Goes("more", To("data", (p.pack.length - p.pack.hlen - 3) % 65536,
                            [p.pack EXCEPT !.fields = h.fields]), remain))

ParsePESPacketData(p, data) ==
  Gather(p, data, LAMBDA c, remain : Goes("pack", To("find", 0, [p.pack EXCEPT !.data = c]), remain))
=============================================================================
