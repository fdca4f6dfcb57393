---------------------------- MODULE ChunkParsers ----------------------------
(***************************************************************************)
(* The three small parsers every protocol parser of the server is built    *)
(* from: parser/need-parser.go (gather a number of bytes), the start code  *)
(* finder of media/ps/start-code.go and parser/line-parser.go.  All three  *)
(* are fed a stream cut into chunks at arbitrary places and keep what they *)
(* need of the last chunk; each operator takes the parser's state and a    *)
(* chunk and returns the new state with the unread part of the chunk.      *)
(***************************************************************************)
EXTENDS Integers, Sequences, SequencesExt

Drop(s, n) == SubSeq(s, n + 1, Len(s))
Take(s, n) == SubSeq(s, 1, IF n < Len(s) THEN n ELSE Len(s))

-----------------------------------------------------------------------------
(* NeedParser.  chunks is what the last completed Parse gathered.          *)

Needing(n) == [need |-> n, size |-> 0, cache |-> <<>>]

\* Parse: the state after the chunk, whether the bytes are complete, the
\* chunks they came in and the unread bytes.
NeedParse(p, data) ==
  IF p.size + Len(data) >= p.need
  THEN [ok |-> TRUE, p |-> Needing(p.need),
        chunks |-> Append(p.cache, Take(data, p.need - p.size)),
        remain |-> Drop(data, p.need - p.size)]
  ELSE [ok |-> FALSE, chunks |-> <<>>, remain |-> <<>>,
        p |-> [p EXCEPT !.cache = Append(@, data), !.size = @ + Len(data)]]

\* Skip: the same count, nothing is kept.
NeedSkip(p, data) ==
  IF p.size + Len(data) >= p.need
  THEN [ok |-> TRUE, p |-> Needing(p.need), remain |-> Drop(data, p.need - p.size)]
  ELSE [ok |-> FALSE, p |-> [p EXCEPT !.size = @ + Len(data)], remain |-> <<>>]

-----------------------------------------------------------------------------
(* StartCodeFinder: 00 00 01 and the byte that follows, searched eight     *)
(* bytes at a time; the last three bytes are kept for the next chunk.      *)

IsStartCode(b, i) == b[i] = 0 /\ b[i + 1] = 0 /\ b[i + 2] = 1

FirstIn(b, offsets) ==
  LET hits == {i \in offsets : IsStartCode(b, i)}
  IN IF hits = {} THEN 0 ELSE CHOOSE i \in hits : \A j \in hits : i <= j

NotFound(kept) == [ok |-> FALSE, code |-> 0, remain |-> <<>>, kept |-> kept]
Found4(b, i)   == [ok |-> TRUE, code |-> b[i + 3], remain |-> Drop(b, i + 3), kept |-> <<>>]

\* Plausible bug: the bytes kept from the last chunk are forgotten.
FindInChunk(kept, data) ==
  LET hits == {i \in 1..Len(data) - 3 : IsStartCode(data, i)}
  IN IF hits = {} THEN NotFound(<<>>) ELSE Found4(data, FirstIn(data, hits))

\* Find: b is what is kept followed by the chunk.  The windows of eight bytes
\* overlap by four, so a start code across two windows is in the second.
Find(kept, data) ==
  LET Windows[b \in Seq(Nat)] ==
        IF Len(b) >= 8
        THEN LET i == FirstIn(b, 1..5)
             IN IF i # 0 THEN Found4(b, i) ELSE Windows[Drop(b, 4)]
        ELSE LET i == FirstIn(b, 1..Len(b) - 3)
             IN IF i # 0 THEN Found4(b, i) ELSE NotFound(Drop(b, Len(b) - 3))
      all == kept \o data
  IN IF Len(all) < 4 THEN NotFound(all) ELSE Windows[all]

-----------------------------------------------------------------------------
(* LineParser: lines end with LF or CR LF; a line over the limit is an     *)
(* error, and what is left of it is skipped when its end has not come.     *)

NewLine == [cache |-> <<>>, skip |-> FALSE]

IndexOf(data, c) == SelectInSeq(data, LAMBDA b : b = c)

WithoutReturn(s) == IF s # <<>> /\ Last(s) = "\r" THEN Front(s) ELSE s

\* reset: the cached parts of the line are dropped.
Line(outcome, line, remain, skip) ==
  [outcome |-> outcome, line |-> line, remain |-> remain,
   p |-> [cache |-> <<>>, skip |-> skip]]

\* Parse after the skipped line: the end of the line is in the chunk and
\* within the limit, or the line is too long, or the chunk is cached.  A CR
\* is taken off only when it is right before the LF, in this chunk or as the
\* last byte of the one before.
LineOf(p, data, limit) ==
  LET i == IndexOf(data, "\n") IN
  CASE i # 0 /\ i - 1 <= limit - Len(p.cache) ->
         Line("line", WithoutReturn(p.cache \o Take(data, i - 1)), Drop(data, i), FALSE)
    [] i # 0 /\ i - 1 > limit - Len(p.cache) -> Line("error", <<>>, Drop(data, i), FALSE)
    [] i = 0 /\ Len(data) >= limit - Len(p.cache) -> Line("error", <<>>, <<>>, TRUE)
    [] OTHER -> [outcome |-> "more", line |-> <<>>, remain |-> <<>>,
                 p |-> [p EXCEPT !.cache = @ \o data]]

ParseLine(p, data, limit) ==
  IF ~p.skip \/ "\n" \in Range(data)
  THEN LET left == IF p.skip THEN Drop(data, IndexOf(data, "\n")) ELSE data
           now  == [p EXCEPT !.skip = FALSE]
       IN IF left = <<>>
          THEN [outcome |-> "more", line |-> <<>>, remain |-> <<>>, p |-> now]
          ELSE LineOf(now, left, limit)
  ELSE [outcome |-> "more", line |-> <<>>, remain |-> <<>>, p |-> p]
=============================================================================
