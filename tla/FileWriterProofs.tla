------------------------- MODULE FileWriterProofs -------------------------
(***************************************************************************)
(* Proofs about the write path of a channel, for every scene, whatever     *)
(* fails and however calls, doSync, the metadata manager, retention and    *)
(* crashes interleave: no block is lost, repeated or moved before another, *)
(* no write buffer leaks, and in an orderly scene every index can be read. *)
(*                                                                         *)
(* The invariant WriterInv has three parts.  Base: the types, what doSync  *)
(* works on, and what a call has left to do, whose block is newer than all *)
(* that got an index.  InLine: the blocks of the log and of the requests,  *)
(* read from the front, are the blocks that got an index, in order.  And   *)
(* the buffers.  A step of the writer or of doSync changes the requests on *)
(* their way in one of few manners (one more at the end, one less at the   *)
(* front, another first or last), each of which has its lemmas.            *)
(*                                                                         *)
(* ReadInv adds what an orderly scene needs for its indexes to be read.    *)
(* Store: the file records, their table, the file that is open, the disk   *)
(* and the log fit together, and what an index points at is never written  *)
(* again.  ReqsOK: a request's buffer holds its blocks one behind another. *)
(* CallsOK: there are never more files than blocks, so that every block    *)
(* finds a file.                                                           *)
(***************************************************************************)
EXTENDS FileWriter, OrderLemmas

-----------------------------------------------------------------------------
(* Types.                                                                  *)

\* An index on its way, and the requests: only a block or an index request
\* carries indexes.
Ix      == [block : Nat, size : Nat, file : {0}, off : {0}, state : {"none", "data", "dropped", "lost"}]
Kinds   == {"none", "block", "index", "close"}
Unit    == Nat \X Nat
Request == {r \in [kind : Kinds, data : Seq(Unit), indexes : Seq(Ix)] :
              /\ r.kind \in {"none", "close"} => r.indexes = <<>>
              /\ r.kind = "none" => r.data = <<>>}

\* What a call may have left to do.
Todos ==
    {<<>>, <<"put">>, <<"sync", "put">>, <<"put", "sync">>, <<"sync", "put", "sync">>,
     <<"sync", "index", "sync">>, <<"sync">>, <<"sync", "close", "sync">>,
     <<"try", "put">>, <<"try", "put", "sync">>, <<"try", "index", "sync">>, <<"try">>,
     <<"try", "close", "sync">>, <<"index", "sync">>, <<"close", "sync">>}

\* A call: what it has left to do, and its index.
Todo == [todo : Todos, index : Ix]

SyncFields == {"pc", "reqs", "seek", "offset", "size", "err"}

\* The types of what the calls and doSync work on.
WriterTypes ==
    /\ scene \in Scenes /\ calls \in Nat /\ free \in Nat /\ call \in Todo
    /\ syncReq \in Request /\ syncReqs \in Seq(Request)
    /\ DOMAIN sync = SyncFields /\ sync.reqs \in Seq(Request)
    /\ sync.pc \in {"idle", "pop", "next", "write", "index"}
    /\ \E S : log \in Seq(S) /\ \A x \in S : x.block \in Nat
    /\ saved \in 0..Len(log)

\* doSync works on the first of its requests.
SyncOK ==
    /\ sync.pc \in {"idle", "pop"} => sync.reqs = <<>>
    /\ sync.pc \in {"write", "index"} => sync.reqs # <<>> /\ sync.reqs[1].kind = "block"

\* The block of the call has not got an index yet.
Brings(t) ==
    t \notin {<<>>, <<"sync">>, <<"try">>, <<"sync", "close", "sync">>, <<"try", "close", "sync">>,
              <<"close", "sync">>}
Coming == Brings(call.todo)

\* A block that got an index is not newer than the last call, and older than
\* the one a call brings; a call that puts finds a buffer or nothing in
\* syncReq, and one that is about to fill it finds nothing.
CallOK ==
    /\ \A b \in made : b \in Nat /\ b <= calls /\ (Coming => b < calls)
    /\ Coming => call.index.block = calls
    /\ At("put") => syncReq.kind \in {"block", "none"}
    /\ (At("try") \/ At("index") \/ At("close")) => syncReq = NoReq

\* A step before two others.
LEMMA Prepended ==
    ASSUME NEW a, NEW b, NEW c
    PROVE  <<a>> \o <<b, c>> = <<a, b, c>>
<1> DEFINE S == {a, b, c}
           s == <<a>> \o <<b, c>>
<1>1. s \in Seq(S) /\ Len(s) = 3 /\ s[1] = a /\ s[1 + 1] = b /\ s[1 + 2] = c
    <2>1. <<a>> \in Seq(S) /\ <<b, c>> \in Seq(S)
        OBVIOUS
    <2>2. ASSUME NEW p \in Seq(S), NEW q \in Seq(S)
          PROVE  /\ p \o q \in Seq(S) /\ Len(p \o q) = Len(p) + Len(q)
                 /\ \A i \in 1..Len(p) : (p \o q)[i] = p[i]
                 /\ \A i \in 1..Len(q) : (p \o q)[Len(p) + i] = q[i]
        OBVIOUS
    <2> HIDE DEF S
    <2> QED BY <2>1, <2>2
<1> HIDE DEF s, S
<1>2. s = <<a, b, c>>
    BY <1>1
<1> QED BY <1>2 DEF s

\* A step before another.
LEMMA Joined ==
    ASSUME NEW a, NEW b
    PROVE  <<a>> \o <<b>> = <<a, b>>
<1> DEFINE S == {a, b}
           s == <<a>> \o <<b>>
<1>1. s \in Seq(S) /\ Len(s) = 2 /\ s[1] = a /\ s[1 + 1] = b
    <2>1. <<a>> \in Seq(S) /\ <<b>> \in Seq(S)
        OBVIOUS
    <2>2. ASSUME NEW p \in Seq(S), NEW q \in Seq(S)
          PROVE  /\ p \o q \in Seq(S) /\ Len(p \o q) = Len(p) + Len(q)
                 /\ \A i \in 1..Len(p) : (p \o q)[i] = p[i]
                 /\ \A i \in 1..Len(q) : (p \o q)[Len(p) + i] = q[i]
        OBVIOUS
    <2> HIDE DEF S
    <2> QED BY <2>1, <2>2
<1> HIDE DEF s, S
<1>2. s = <<a, b>>
    BY <1>1
<1> QED BY <1>2 DEF s

\* A step behind two others.
LEMMA Added ==
    ASSUME NEW a, NEW b, NEW c
    PROVE  <<a, b>> \o <<c>> = <<a, b, c>>
<1> DEFINE S == {a, b, c}
           s == <<a, b>> \o <<c>>
<1>1. s \in Seq(S) /\ Len(s) = 3 /\ s[1] = a /\ s[2] = b /\ s[2 + 1] = c
    <2>1. <<a, b>> \in Seq(S) /\ <<c>> \in Seq(S)
        OBVIOUS
    <2>2. ASSUME NEW p \in Seq(S), NEW q \in Seq(S)
          PROVE  /\ p \o q \in Seq(S) /\ Len(p \o q) = Len(p) + Len(q)
                 /\ \A i \in 1..Len(p) : (p \o q)[i] = p[i]
                 /\ \A i \in 1..Len(q) : (p \o q)[Len(p) + i] = q[i]
        OBVIOUS
    <2> HIDE DEF S
    <2> QED BY <2>1, <2>2
<1> HIDE DEF s, S
<1>2. s = <<a, b, c>>
    BY <1>1
<1> QED BY <1>2 DEF s

\* The steps of the calls.
Steps == {"sync", "put", "try", "index", "close"}

\* What is left of a call that brings an index without data.
Indexing == {<<"sync", "index", "sync">>, <<"try", "index", "sync">>, <<"index", "sync">>}

\* The sequences of a call's steps, taken apart.
LEMMA TodoSteps ==
    ASSUME NEW t \in Todos, t # <<>>
    PROVE  /\ Tail(t) \in Todos /\ Head(t) \in Steps
           /\ Head(t) = "sync" => <<"try">> \o Tail(t) \in Todos
           /\ Head(t) \in {"put", "index", "close"} => Tail(t) \in {<<>>, <<"sync">>}
           /\ ~Brings(t) => ~Brings(Tail(t)) /\ (Head(t) = "sync" => ~Brings(<<"try">> \o Tail(t)))
           /\ Head(t) \in {"put", "index"} => Brings(t)
           /\ t \notin Indexing => Head(t) # "index" /\ Tail(t) \notin Indexing
           /\ t \notin Indexing /\ Head(t) = "sync" => <<"try">> \o Tail(t) \notin Indexing
<1>0. "sync" \in Steps /\ "put" \in Steps /\ "try" \in Steps /\ "index" \in Steps /\ "close" \in Steps
    BY DEF Steps
<1>h. \A b, c \in Steps : <<"try">> \o <<b, c>> = <<"try", b, c>>
    BY Prepended
<1>1. CASE t = <<"put">>
    <2>1. Tail(t) = <<>> /\ Head(t) = "put"
        BY ONLY <1>0, <1>1
    <2> QED BY ONLY <2>1, <1>0, <1>1 DEF Todos, Brings, Indexing
<1>2. CASE t = <<"sync", "put">>
    <2>1. Tail(t) = <<"put">> /\ Head(t) = "sync"
        BY ONLY <1>0, <1>2
    <2>2. <<"try">> \o <<"put">> = <<"try", "put">>
        BY Joined
    <2> QED BY ONLY <2>1, <2>2, <1>0, <1>2 DEF Todos, Brings, Indexing
<1>3. CASE t = <<"put", "sync">>
    <2>1. Tail(t) = <<"sync">> /\ Head(t) = "put"
        BY ONLY <1>0, <1>3
    <2> QED BY ONLY <2>1, <1>0, <1>3 DEF Todos, Brings, Indexing
<1>4. CASE t = <<"sync", "put", "sync">>
    <2>1. Tail(t) = <<"put", "sync">> /\ Head(t) = "sync"
        BY ONLY <1>0, <1>4
    <2>2. <<"try">> \o <<"put", "sync">> = <<"try", "put", "sync">>
        BY ONLY <1>0, <1>h
    <2> QED BY ONLY <2>1, <2>2, <1>0, <1>4 DEF Todos, Brings, Indexing
<1>5. CASE t = <<"sync", "index", "sync">>
    <2>1. Tail(t) = <<"index", "sync">> /\ Head(t) = "sync"
        BY ONLY <1>0, <1>5
    <2>2. <<"try">> \o <<"index", "sync">> = <<"try", "index", "sync">>
        BY ONLY <1>0, <1>h
    <2> QED BY ONLY <2>1, <2>2, <1>0, <1>5 DEF Todos, Brings, Indexing
<1>6. CASE t = <<"sync">>
    <2>1. Tail(t) = <<>> /\ Head(t) = "sync"
        BY ONLY <1>0, <1>6
    <2>2. <<"try">> \o <<>> = <<"try">>
        BY ONLY <1>0
    <2> QED BY ONLY <2>1, <2>2, <1>0, <1>6 DEF Todos, Brings, Indexing
<1>7. CASE t = <<"sync", "close", "sync">>
    <2>1. Tail(t) = <<"close", "sync">> /\ Head(t) = "sync"
        BY ONLY <1>0, <1>7
    <2>2. <<"try">> \o <<"close", "sync">> = <<"try", "close", "sync">>
        BY ONLY <1>0, <1>h
    <2> QED BY ONLY <2>1, <2>2, <1>0, <1>7 DEF Todos, Brings, Indexing
<1>8. CASE t = <<"try", "put">>
    <2>1. Tail(t) = <<"put">> /\ Head(t) = "try"
        BY ONLY <1>0, <1>8
    <2> QED BY ONLY <2>1, <1>0, <1>8 DEF Todos, Brings, Indexing
<1>9. CASE t = <<"try", "put", "sync">>
    <2>1. Tail(t) = <<"put", "sync">> /\ Head(t) = "try"
        BY ONLY <1>0, <1>9
    <2> QED BY ONLY <2>1, <1>0, <1>9 DEF Todos, Brings, Indexing
<1>10. CASE t = <<"try", "index", "sync">>
    <2>1. Tail(t) = <<"index", "sync">> /\ Head(t) = "try"
        BY ONLY <1>0, <1>10
    <2> QED BY ONLY <2>1, <1>0, <1>10 DEF Todos, Brings, Indexing
<1>11. CASE t = <<"try">>
    <2>1. Tail(t) = <<>> /\ Head(t) = "try"
        BY ONLY <1>0, <1>11
    <2> QED BY ONLY <2>1, <1>0, <1>11 DEF Todos, Brings, Indexing
<1>12. CASE t = <<"try", "close", "sync">>
    <2>1. Tail(t) = <<"close", "sync">> /\ Head(t) = "try"
        BY ONLY <1>0, <1>12
    <2> QED BY ONLY <2>1, <1>0, <1>12 DEF Todos, Brings, Indexing
<1>13. CASE t = <<"index", "sync">>
    <2>1. Tail(t) = <<"sync">> /\ Head(t) = "index"
        BY ONLY <1>0, <1>13
    <2> QED BY ONLY <2>1, <1>0, <1>13 DEF Todos, Brings, Indexing
<1>14. CASE t = <<"close", "sync">>
    <2>1. Tail(t) = <<"sync">> /\ Head(t) = "close"
        BY ONLY <1>0, <1>14
    <2> QED BY ONLY <2>1, <1>0, <1>14 DEF Todos, Brings, Indexing
<1> QED BY <1>1, <1>2, <1>3, <1>4, <1>5, <1>6, <1>7, <1>8, <1>9, <1>10, <1>11, <1>12, <1>13, <1>14 DEF Todos

\* All but the blocks and the buffers.
Base == WriterTypes /\ SyncOK /\ CallOK

\* What the types say of the scene, the call and the indexes.
LEMMA BaseFacts ==
    ASSUME Base
    PROVE  /\ scene.buffers \in Nat \ {0} /\ scene.sizes \subseteq Nat
           /\ call.todo \in Todos /\ call.index \in Ix /\ call = [todo |-> call.todo, index |-> call.index]
           /\ NoReq \in Request /\ NoCall \in Todo /\ syncReq.indexes \in Seq(Ix)
           /\ \A r \in Request : r.kind = "none" => r = NoReq
<1>1. scene.buffers \in Nat \ {0} /\ scene.sizes \subseteq Nat
    BY WriterAssumption DEF Base, WriterTypes
<1>2. call.todo \in Todos /\ call.index \in Ix /\ call = [todo |-> call.todo, index |-> call.index]
    BY DEF Base, WriterTypes, Todo
<1>3. NoReq \in Request
    BY DEF NoReq, Request, Kinds
<1>4. NoCall \in Todo
    BY DEF NoCall, Todo, Todos, Ix, Index
<1>5. \A r \in Request : r.kind = "none" => r = NoReq
    BY DEF Request, NoReq
<1>6. syncReq.indexes \in Seq(Ix)
    BY DEF Base, WriterTypes, Request
<1> QED BY <1>1, <1>2, <1>3, <1>4, <1>5, <1>6

\* A new call.
LEMMA BaseBegin ==
    ASSUME Base, NEW t, NEW x \in Ix, Begin(t, x), calls' = calls \/ calls' = calls + 1, UNCHANGED scene,
           \/ t \in {<<"sync">>, <<"sync", "close", "sync">>}
           \/ /\ t \in {<<"sync", "put">>, <<"sync", "put", "sync">>, <<"sync", "index", "sync">>}
              /\ calls' = calls + 1 /\ x.block = calls + 1
           \/ /\ t \in {<<"put">>, <<"put", "sync">>}
              /\ calls' = calls + 1 /\ x.block = calls + 1 /\ syncReq.kind = "block"
    PROVE  Base'
<1>1. /\ call'.todo = t /\ call'.index = x /\ call' = [todo |-> t, index |-> x] /\ call.todo = <<>>
      /\ UNCHANGED <<syncReq, syncReqs, free, sync, log, saved, made>>
    BY DEF Begin, handing, logging
<1>2. t \in Todos
    BY DEF Todos
<1>3. WriterTypes'
    <2>1. calls' \in Nat /\ call' \in Todo
        BY <1>1, <1>2 DEF Base, WriterTypes, Todo
    <2> QED BY <1>1, <2>1 DEF Base, WriterTypes
<1>4. SyncOK'
    BY <1>1 DEF Base, SyncOK
<1>5. ~Coming
    BY <1>1 DEF Coming, Brings
<1>6. Coming' => x.block = calls' /\ calls' = calls + 1
    BY <1>1 DEF Coming, Brings
<1>7. \A b \in made' : b \in Nat /\ b <= calls' /\ (Coming' => b < calls')
    BY <1>1, <1>6 DEF Base, CallOK, WriterTypes
<1>8. (At("put"))' => syncReq'.kind \in {"block", "none"}
    BY <1>1 DEF At
<1>9. ~(At("try"))' /\ ~(At("index"))' /\ ~(At("close"))'
    BY <1>1 DEF At
<1>10. CallOK'
    BY <1>1, <1>6, <1>7, <1>8, <1>9 DEF CallOK
<1> QED BY <1>3, <1>4, <1>10 DEF Base

\* The calls.
LEMMA BaseCalls ==
    ASSUME Base, Calls, UNCHANGED scene
    PROVE  Base' /\ UNCHANGED <<syncReq, syncReqs, free, sync, log, made>>
<1>1. UNCHANGED <<syncReq, syncReqs, free, sync, log, made>>
    BY DEF Calls, Write, WriteStreamLost, Sync, CloseFile, Begin, handing, logging
<1>2. calls \in Nat
    BY DEF Base, WriterTypes
<1>3. \A b, n \in Nat : Index(b, n, "data") \in Ix /\ Index(b, n, "dropped") \in Ix /\ Index(b, n, "lost") \in Ix
                         /\ Index(b, n, "data").block = b /\ Index(b, n, "dropped").block = b
                         /\ Index(b, n, "lost").block = b
    BY DEF Index, Ix
<1>4. NoCall.index \in Ix
    BY DEF NoCall, Index, Ix
<1>5. ASSUME NEW size \in scene.sizes, NEW now \in BOOLEAN, Write(size, now)
      PROVE  Base'
    <2>1. size \in Nat
        BY BaseFacts
    <2>2. calls + 1 \in Nat /\ calls' = calls + 1
        BY <1>2, <1>5 DEF Write
    <2>3. CASE size > BufferSize
        <3>1. Begin(<<"sync", "index", "sync">>, Index(calls + 1, size, "dropped"))
            BY <1>5, <2>3 DEF Write
        <3> QED BY <3>1, <2>1, <2>2, <1>3, BaseBegin
    <2>4. CASE ~(size > BufferSize) /\ HasRoom(size)
        <3>1. Begin(IF now THEN <<"put">> \o <<"sync">> ELSE <<"put">>, Index(calls + 1, size, "data"))
            BY <1>5, <2>4 DEF Write
        <3>2. Begin(<<"put", "sync">>, Index(calls + 1, size, "data")) \/ Begin(<<"put">>, Index(calls + 1, size, "data"))
            <4>1. <<"put">> \o <<"sync">> = <<"put", "sync">>
                BY Joined
            <4> QED BY <3>1, <4>1
        <3>3. syncReq.kind = "block"
            BY <2>4 DEF HasRoom
        <3> QED BY <3>2, <3>3, <2>1, <2>2, <1>3, BaseBegin
    <2>5. CASE ~(size > BufferSize) /\ ~HasRoom(size)
        <3>1. Begin(IF now THEN <<"sync", "put">> \o <<"sync">> ELSE <<"sync", "put">>, Index(calls + 1, size, "data"))
            BY <1>5, <2>5 DEF Write
        <3>2. Begin(<<"sync", "put", "sync">>, Index(calls + 1, size, "data"))
              \/ Begin(<<"sync", "put">>, Index(calls + 1, size, "data"))
            <4>1. <<"sync", "put">> \o <<"sync">> = <<"sync", "put", "sync">>
                BY Added
            <4> QED BY <3>1, <4>1
        <3> QED BY <3>2, <2>1, <2>2, <1>3, BaseBegin
    <2> QED BY <2>3, <2>4, <2>5
<1>6. ASSUME WriteStreamLost PROVE Base'
    <2>1. Begin(<<"sync", "index", "sync">>, Index(calls + 1, 0, "lost")) /\ calls' = calls + 1 /\ calls + 1 \in Nat
        BY <1>2, <1>6 DEF WriteStreamLost
    <2> QED BY <2>1, <1>3, BaseBegin
<1>7. ASSUME Sync PROVE Base'
    <2>1. Begin(<<"sync">>, NoCall.index) /\ calls' = calls
        BY <1>7 DEF Sync
    <2> QED BY <2>1, <1>4, BaseBegin
<1>8. ASSUME CloseFile PROVE Base'
    <2>1. Begin(<<"sync", "close", "sync">>, NoCall.index) /\ calls' = calls
        BY <1>8 DEF CloseFile
    <2> QED BY <2>1, <1>4, BaseBegin
<1> QED BY <1>1, <1>5, <1>6, <1>7, <1>8 DEF Calls

\* A step of a call that leaves what is known of it true.
LEMMA CallStep ==
    ASSUME Base, call' \in Todo, UNCHANGED calls,
           \/ made' = made
           \/ Coming /\ ~Coming' /\ made' = made \union {calls},
           Coming' => Coming /\ call'.index.block = call.index.block,
           syncReq' = NoReq \/ call'.todo \in {<<>>, <<"sync">>}
    PROVE  CallOK'
<1>1. calls \in Nat /\ \A b \in made : b \in Nat /\ b <= calls /\ (Coming => b < calls)
    BY DEF Base, CallOK, WriterTypes
<1>2. \A b \in made' : b \in Nat /\ b <= calls /\ (Coming' => b < calls)
    BY <1>1
<1>3. Coming' => call'.index.block = calls'
    BY DEF Base, CallOK
<1>4. (At("put"))' => syncReq'.kind \in {"block", "none"}
    BY DEF At, NoReq
<1>5. (At("try") \/ At("index") \/ At("close"))' => syncReq' = NoReq
    BY DEF At
<1> QED BY <1>2, <1>3, <1>4, <1>5 DEF CallOK

\* What is left of the call after a step.
LEMMA ThenFacts ==
    ASSUME Base, NEW t \in Todos, Then(t)
    PROVE  call' \in Todo /\ call'.todo = t /\ (Coming' => call'.index.block = call.index.block)
<1>1. CASE t = <<>>
    <2>1. call' = NoCall
        BY <1>1 DEF Then
    <2>2. call'.todo = <<>>
        BY <2>1 DEF NoCall
    <2> QED BY <2>1, <2>2, <1>1, BaseFacts DEF Coming, Brings
<1>2. CASE t # <<>>
    <2>1. call' = [call EXCEPT !.todo = t]
        BY <1>2 DEF Then
    <2>2. call' = [todo |-> t, index |-> call.index]
        BY <2>1, BaseFacts
    <2> QED BY <2>2, BaseFacts DEF Todo
<1> QED BY <1>1, <1>2

\* sync hands the request over, finds nothing to hand over or gives up.
LEMMA BaseStepSync ==
    ASSUME Base, StepSync, UNCHANGED scene
    PROVE  Base'
<1> DEFINE t == call.todo
<1>1. t \in Todos /\ t # <<>> /\ Head(t) = "sync" /\ Rest = Tail(t)
    BY BaseFacts DEF StepSync, At, Rest
<1>2. Tail(t) \in Todos /\ <<"try">> \o Tail(t) \in Todos /\ <<>> \in Todos
      /\ (~Coming => ~Brings(Tail(t)) /\ ~Brings(<<"try">> \o Tail(t)))
    <2>1. <<>> \in Todos
        BY DEF Todos
    <2> QED BY <1>1, <2>1, TodoSteps DEF Coming
<1>3. UNCHANGED <<calls, free, sync, log, saved, made>>
    BY DEF StepSync, logging
<1>4. \/ syncReq' = NoReq /\ syncReqs' = syncReqs /\ Then(Tail(t))
      \/ syncReq' = syncReq /\ syncReqs' = syncReqs /\ Then(<<>>)
      \/ syncReq' = NoReq /\ syncReqs' = Append(syncReqs, syncReq) /\ Then(<<"try">> \o Tail(t))
    BY <1>1 DEF StepSync
<1> HIDE DEF t
<1>5. call' \in Todo /\ (Coming' => Coming /\ call'.index.block = call.index.block)
      /\ (syncReq' = NoReq \/ call'.todo \in {<<>>, <<"sync">>})
    <2>1. CASE Then(Tail(t)) /\ syncReq' = NoReq
        BY <1>2, <2>1, ThenFacts DEF Coming
    <2>2. CASE Then(<<>>)
        <3>1. call' \in Todo /\ call'.todo = <<>>
            BY <1>2, <2>2, ThenFacts
        <3> QED BY <3>1 DEF Coming, Brings
    <2>3. CASE Then(<<"try">> \o Tail(t)) /\ syncReq' = NoReq
        BY <1>2, <2>3, ThenFacts DEF Coming
    <2> QED BY <1>4, <2>1, <2>2, <2>3
<1>6. CallOK'
    BY <1>3, <1>5, CallStep
<1>7. syncReq' \in Request /\ syncReqs' \in Seq(Request)
    <2>1. syncReq \in Request /\ syncReqs \in Seq(Request) /\ NoReq \in Request
        BY BaseFacts DEF Base, WriterTypes
    <2> QED BY ONLY <2>1, <1>4
<1>8. WriterTypes'
    BY <1>3, <1>5, <1>7 DEF Base, WriterTypes
<1>9. SyncOK'
    BY <1>3 DEF Base, SyncOK
<1> QED BY <1>6, <1>8, <1>9 DEF Base

\* The task of doSync is submitted.
LEMMA BaseStepTry ==
    ASSUME Base, StepTry, UNCHANGED scene
    PROVE  Base' /\ UNCHANGED <<syncReq, syncReqs, free, sync, log, made>>
<1> DEFINE t == call.todo
<1>1. t \in Todos /\ t # <<>> /\ Then(Tail(t)) /\ syncReq = NoReq
    BY BaseFacts DEF StepTry, At, Rest, Base, CallOK
<1>2. Tail(t) \in Todos /\ (~Coming => ~Brings(Tail(t)))
    BY <1>1, TodoSteps DEF Coming
<1>3. UNCHANGED <<calls, syncReq, syncReqs, free, sync, log, saved, made>>
    BY DEF StepTry, logging
<1> HIDE DEF t
<1>4. call' \in Todo /\ (Coming' => Coming /\ call'.index.block = call.index.block)
    BY <1>1, <1>2, ThenFacts DEF Coming
<1>5. CallOK'
    BY <1>1, <1>3, <1>4, CallStep
<1>6. WriterTypes' /\ SyncOK'
    BY <1>3, <1>4 DEF Base, WriterTypes, SyncOK
<1> QED BY <1>3, <1>5, <1>6 DEF Base

\* The block of a call gets its index, in the buffer at hand or in a new one.
LEMMA BasePut ==
    ASSUME Base, UNCHANGED <<scene, calls, syncReqs, sync, log, saved>>, Then(Rest), free' \in Nat,
           \/ At("close") /\ made' = made
           \/ (At("put") \/ At("index")) /\ made' = made \union {call.index.block},
           syncReq' \in Request
    PROVE  Base'
<1> DEFINE t == call.todo
<1>1. t \in Todos /\ t # <<>> /\ Then(Tail(t)) /\ Head(t) \in {"put", "index", "close"}
    BY BaseFacts DEF At, Rest
<1>2. Tail(t) \in Todos /\ Tail(t) \in {<<>>, <<"sync">>} /\ (Head(t) \in {"put", "index"} => Coming)
    BY <1>1, TodoSteps DEF Coming
<1> HIDE DEF t
<1>3. call' \in Todo /\ call'.todo \in {<<>>, <<"sync">>}
    BY <1>1, <1>2, ThenFacts
<1>4. ~Coming'
    BY <1>3 DEF Coming, Brings
<1>5. made' = made \/ (Coming /\ made' = made \union {calls})
    <2>1. CASE At("close") /\ made' = made
        BY <2>1
    <2>2. CASE (At("put") \/ At("index")) /\ made' = made \union {call.index.block}
        <3>1. Coming
            BY <1>2, <2>2 DEF At, t
        <3> QED BY <3>1, <2>2 DEF Base, CallOK
    <2> QED BY <2>1, <2>2
<1>6. CallOK'
    BY <1>3, <1>4, <1>5, CallStep
<1>7. WriterTypes' /\ SyncOK'
    BY <1>3 DEF Base, WriterTypes, SyncOK
<1> QED BY <1>6, <1>7 DEF Base

-----------------------------------------------------------------------------
(* The blocks on their way, as a line.                                     *)

\* A log is a sequence of indexes of numbered blocks.
LogType(l) == \E S : l \in Seq(S) /\ \A x \in S : x.block \in Nat

\* The blocks of a log and of requests as a line, and how many stand at each
\* place of it.
FlowOf(l, p) == [i \in 0..Len(p) |-> Blocks(IF i = 0 THEN l ELSE p[i].indexes)]
LensOf(l, p) == [i \in 0..Len(p) |-> Len(IF i = 0 THEN l ELSE p[i].indexes)]
\* They are the numbers of M, in order.
InLine(l, p, M) == Line(FlowOf(l, p), LensOf(l, p), Len(p), M)

\* What stands where in the line f of a log and requests, d being the lengths.
Described(l, p, f, d) ==
    /\ Len(l) \in Nat /\ Len(p) \in Nat /\ d \in [0..Len(p) -> Nat]
    /\ d[0] = Len(l) /\ \A k \in 1..Len(l) : f[0][k] = l[k].block /\ l[k].block \in Nat
    /\ \A i \in 1..Len(p) :
          /\ p[i] \in Request /\ p[i].indexes \in Seq(Ix) /\ d[i] = Len(p[i].indexes)
          /\ \A k \in 1..Len(p[i].indexes) :
                f[i][k] = p[i].indexes[k].block /\ p[i].indexes[k].block \in Nat
    /\ DOMAIN f = 0..Len(p) /\ \A i \in 0..Len(p) : DOMAIN f[i] = 1..d[i]

\* The line has the blocks of the log and of the requests.
LEMMA FlowFacts ==
    ASSUME NEW l, LogType(l), NEW p \in Seq(Request)
    PROVE  Described(l, p, FlowOf(l, p), LensOf(l, p))
<1>0. Len(p) \in Nat
    OBVIOUS
<1>1. PICK S : l \in Seq(S) /\ \A x \in S : x.block \in Nat
    BY DEF LogType
<1>2. Len(l) \in Nat /\ DOMAIN l = 1..Len(l) /\ \A k \in 1..Len(l) : l[k] \in S /\ l[k].block \in Nat
    BY <1>1
<1>3. \A r \in Request : r.indexes \in Seq(Ix)
    BY DEF Request
<1>4. \A i \in 1..Len(p) : p[i] \in Request /\ p[i].indexes \in Seq(Ix)
    BY <1>3
<1>5. \A q \in Seq(Ix) : Len(q) \in Nat /\ DOMAIN q = 1..Len(q) /\ \A k \in 1..Len(q) : q[k].block \in Nat
    <2>1. \A x \in Ix : x.block \in Nat
        BY DEF Ix
    <2> SUFFICES ASSUME NEW q \in Seq(Ix)
                 PROVE  Len(q) \in Nat /\ DOMAIN q = 1..Len(q) /\ \A k \in 1..Len(q) : q[k].block \in Nat
        OBVIOUS
    <2>2. Len(q) \in Nat /\ DOMAIN q = 1..Len(q) /\ \A k \in 1..Len(q) : q[k] \in Ix
        OBVIOUS
    <2> QED BY <2>1, <2>2
<1>6. 0 \in 0..Len(p) /\ \A i \in 1..Len(p) : i \in 0..Len(p) /\ i # 0
    BY <1>0
<1>7. LensOf(l, p)[0] = Len(l) /\ \A i \in 1..Len(p) : LensOf(l, p)[i] = Len(p[i].indexes)
    BY <1>6 DEF LensOf
<1>8. \A i \in 0..Len(p) : Len(IF i = 0 THEN l ELSE p[i].indexes) \in Nat
    <2> SUFFICES ASSUME NEW i \in 0..Len(p) PROVE Len(IF i = 0 THEN l ELSE p[i].indexes) \in Nat
        OBVIOUS
    <2>1. CASE i = 0
        BY <2>1, <1>2
    <2>2. CASE i # 0
        <3>1. i \in 1..Len(p)
            BY <2>2, <1>0
        <3> QED BY <3>1, <2>2, <1>4, <1>5
    <2> QED BY <2>1, <2>2
<1>9. LensOf(l, p) \in [0..Len(p) -> Nat]
    BY <1>8 DEF LensOf
<1>10. FlowOf(l, p)[0] = Blocks(l) /\ \A i \in 1..Len(p) : FlowOf(l, p)[i] = Blocks(p[i].indexes)
    BY <1>6 DEF FlowOf
<1>11. \A k \in 1..Len(l) : FlowOf(l, p)[0][k] = l[k].block /\ l[k].block \in Nat
    BY <1>10, <1>2 DEF Blocks
<1>12. \A i \in 1..Len(p) : \A k \in 1..Len(p[i].indexes) :
           FlowOf(l, p)[i][k] = p[i].indexes[k].block /\ p[i].indexes[k].block \in Nat
    <2> SUFFICES ASSUME NEW i \in 1..Len(p), NEW k \in 1..Len(p[i].indexes)
                 PROVE  FlowOf(l, p)[i][k] = p[i].indexes[k].block /\ p[i].indexes[k].block \in Nat
        OBVIOUS
    <2>1. FlowOf(l, p)[i] = Blocks(p[i].indexes) /\ DOMAIN p[i].indexes = 1..Len(p[i].indexes)
          /\ p[i].indexes[k].block \in Nat
        BY <1>10, <1>4, <1>5
    <2>2. Blocks(p[i].indexes)[k] = p[i].indexes[k].block
        BY <2>1 DEF Blocks
    <2> QED BY <2>1, <2>2
<1>13. DOMAIN FlowOf(l, p) = 0..Len(p)
    BY DEF FlowOf
<1>14. \A i \in 0..Len(p) : DOMAIN FlowOf(l, p)[i] = 1..LensOf(l, p)[i]
    <2> SUFFICES ASSUME NEW i \in 0..Len(p) PROVE DOMAIN FlowOf(l, p)[i] = 1..LensOf(l, p)[i]
        OBVIOUS
    <2>1. CASE i = 0
        BY <2>1, <1>2, <1>7, <1>10 DEF Blocks
    <2>2. CASE i # 0
        <3>1. i \in 1..Len(p)
            BY <2>2, <1>0
        <3>2. FlowOf(l, p)[i] = Blocks(p[i].indexes) /\ LensOf(l, p)[i] = Len(p[i].indexes)
            BY <3>1, <1>7, <1>10
        <3>3. DOMAIN Blocks(p[i].indexes) = 1..Len(p[i].indexes)
            BY <3>1, <1>4, <1>5 DEF Blocks
        <3> QED BY <3>2, <3>3
    <2> QED BY <2>1, <2>2
<1> QED BY ONLY <1>0, <1>2, <1>4, <1>7, <1>9, <1>11, <1>12, <1>13, <1>14 DEF Described

\* NothingLost says that the blocks on their way are in line.
LEMMA LostOrInLine ==
    ASSUME LogType(log), Pending \in Seq(Request)
    PROVE  NothingLost <=> InLine(log, Pending, made)
<1> DEFINE f == FlowOf(log, Pending)  d == LensOf(log, Pending)  n == Len(Pending)
<1>1. Flow = f
    BY DEF Flow, FlowOf
<1>2. DOMAIN f = 0..n /\ \A i \in 0..n : DOMAIN f[i] = 1..d[i]
    BY FlowFacts DEF Described
<1> HIDE DEF f, d, n
<1>3. NothingLost <=>
          /\ \A i, j \in 0..n : \A k \in 1..d[i], l \in 1..d[j] :
                (i < j \/ (i = j /\ k < l)) => f[i][k] < f[j][l]
          /\ UNION {ToSet(f[i]) : i \in 0..n} = made
    <2>1. NothingLost <=>
              /\ \A i, j \in 0..n : \A k \in DOMAIN f[i], l \in DOMAIN f[j] :
                    (i < j \/ (i = j /\ k < l)) => f[i][k] < f[j][l]
              /\ UNION {ToSet(f[i]) : i \in 0..n} = made
        BY <1>1, <1>2 DEF NothingLost
    <2>2. ASSUME NEW i \in 0..n, NEW j \in 0..n
          PROVE  /\ DOMAIN f[i] = 1..d[i] /\ DOMAIN f[j] = 1..d[j]
        BY <1>2
    <2> QED BY ONLY <2>1, <2>2
<1>4. \A b : b \in UNION {ToSet(f[i]) : i \in 0..n} <=> \E i \in 0..n : \E k \in 1..d[i] : f[i][k] = b
    <2>1. \A i \in 0..n : \A b : b \in ToSet(f[i]) <=> \E k \in 1..d[i] : f[i][k] = b
        <3> SUFFICES ASSUME NEW i \in 0..n, NEW b PROVE b \in ToSet(f[i]) <=> \E k \in 1..d[i] : f[i][k] = b
            OBVIOUS
        <3>1. DOMAIN f[i] = 1..d[i]
            BY <1>2
        <3>2. ToSet(f[i]) = {f[i][k] : k \in 1..d[i]}
            BY ONLY <3>1 DEF ToSet
        <3> QED BY ONLY <3>2
    <2> QED BY ONLY <2>1
<1>5. UNION {ToSet(f[i]) : i \in 0..n} = made <=>
          /\ \A i \in 0..n : \A k \in 1..d[i] : f[i][k] \in made
          /\ \A b \in made : \E i \in 0..n : \E k \in 1..d[i] : f[i][k] = b
    <2> DEFINE U == UNION {ToSet(f[i]) : i \in 0..n}
    <2>1. \A b : b \in U <=> \E i \in 0..n : \E k \in 1..d[i] : f[i][k] = b
        BY <1>4
    <2> HIDE DEF U
    <2>2. (U = made) <=> \A b : b \in U <=> b \in made
        OBVIOUS
    <2>3. (U = made) <=>
          /\ \A i \in 0..n : \A k \in 1..d[i] : f[i][k] \in made
          /\ \A b \in made : \E i \in 0..n : \E k \in 1..d[i] : f[i][k] = b
        BY ONLY <2>1, <2>2
    <2> QED BY ONLY <2>3 DEF U
<1>6. InLine(log, Pending, made) <=> Line(f, d, n, made)
    BY DEF InLine, f, d, n
<1> QED BY ONLY <1>3, <1>5, <1>6 DEF Line

\* The requests hold the same blocks.
LEMMA InLineKept ==
    ASSUME NEW l, NEW p, NEW q, NEW M, Len(q) = Len(p), Len(p) \in Nat, \A i \in 1..Len(p) : q[i].indexes = p[i].indexes,
           InLine(l, p, M)
    PROVE  InLine(l, q, M)
<1>1. \A i \in 0..Len(p) : (IF i = 0 THEN l ELSE q[i].indexes) = (IF i = 0 THEN l ELSE p[i].indexes)
    OBVIOUS
<1>2. FlowOf(l, q) = FlowOf(l, p) /\ LensOf(l, q) = LensOf(l, p)
    BY <1>1 DEF FlowOf, LensOf
<1> QED BY <1>2 DEF InLine

\* A request without blocks is added.
LEMMA InLinePush ==
    ASSUME NEW l, LogType(l), NEW p \in Seq(Request), NEW q \in Seq(Request), NEW M, InLine(l, p, M),
           Len(q) = Len(p) + 1, \A i \in 1..Len(p) : q[i] = p[i], q[Len(p) + 1].indexes = <<>>
    PROVE  InLine(l, q, M)
<1> DEFINE n == Len(p)  f == FlowOf(l, p)  d == LensOf(l, p)
           m == Len(q)  g == FlowOf(l, q)  e == LensOf(l, q)
<1>a. Described(l, p, f, d) /\ Described(l, q, g, e)
    BY FlowFacts
<1>b. Line(f, d, n, M)
    BY DEF InLine
<1> HIDE DEF f, d, g, e
<1>1. n \in Nat /\ m \in Nat /\ m = n + 1 /\ d \in [0..n -> Nat] /\ e \in [0..m -> Nat]
    BY <1>a DEF Described
<1>2. d[0] = e[0] /\ \A k \in 1..d[0] : f[0][k] = g[0][k]
    BY ONLY <1>a DEF Described
<1>3. ASSUME NEW i \in 1..n PROVE d[i] = e[i] /\ \A k \in 1..d[i] : f[i][k] = g[i][k]
    <2>1. i \in 1..m /\ q[i] = p[i]
        BY <1>1
    <2>2. d[i] = Len(p[i].indexes) /\ \A k \in 1..Len(p[i].indexes) : f[i][k] = p[i].indexes[k].block
        BY ONLY <1>a, i \in 1..n DEF Described
    <2>3. e[i] = Len(q[i].indexes) /\ \A k \in 1..Len(q[i].indexes) : g[i][k] = q[i].indexes[k].block
        BY ONLY <1>a, <2>1 DEF Described
    <2> QED BY ONLY <2>1, <2>2, <2>3
<1>4. e[m] = 0
    <2>1. m \in 1..m /\ q[m].indexes = <<>>
        BY <1>1
    <2>2. e[m] = Len(q[m].indexes)
        BY ONLY <1>a, <2>1 DEF Described
    <2> QED BY <2>1, <2>2
<1> HIDE DEF n, m
<1>5. ASSUME NEW i \in 0..m, NEW k \in 1..e[i]
      PROVE  i \in 0..n /\ k \in 1..d[i] /\ g[i][k] = f[i][k] /\ g[i][k] \in M
    <2>1. i \in 0..n
        <3>1. CASE i = m
            <4>1. k \in 1..0
                BY <3>1, <1>4
            <4> QED BY <4>1
        <3>2. CASE i # m
            BY <3>2, <1>1
        <3> QED BY <3>1, <3>2
    <2>2. k \in 1..d[i] /\ g[i][k] = f[i][k]
        <3>1. CASE i = 0
            BY <3>1, <1>2
        <3>2. CASE i \in 1..n
            BY <3>2, <1>3
        <3> QED BY <3>1, <3>2, <2>1, <1>1
    <2>3. f[i][k] \in M
        BY ONLY <2>1, <2>2, <1>b DEF Line
    <2> QED BY <2>1, <2>2, <2>3
<1>6. ASSUME NEW i \in 0..n, NEW k \in 1..d[i]
      PROVE  i \in 0..m /\ k \in 1..e[i]
    <2>1. i \in 0..m
        BY <1>1
    <2>2. CASE i = 0
        BY <2>1, <2>2, <1>2
    <2>3. CASE i \in 1..n
        BY <2>1, <2>3, <1>3
    <2> QED BY <2>2, <2>3, <1>1
<1>7. M \in SUBSET M
    OBVIOUS
<1>8. Sifted(f, d, n, g, e, m, M)
    BY ONLY <1>5, <1>6 DEF Sifted
<1>9. Line(g, e, m, M)
    BY ONLY <1>1, <1>b, <1>7, <1>8, LineKept
<1> QED BY ONLY <1>9 DEF InLine, g, e, m

\* The first request has been added to the log.
LEMMA InLineTail ==
    ASSUME NEW l, LogType(l), NEW p \in Seq(Request), NEW q \in Seq(Request), NEW M, InLine(l, p, M),
           NEW h, LogType(h), p # <<>>, Len(q) = Len(p) - 1, \A i \in 1..Len(q) : q[i] = p[i + 1],
           Len(h) = Len(l) + Len(p[1].indexes), \A k \in 1..Len(l) : h[k].block = l[k].block,
           \A k \in 1..Len(p[1].indexes) : h[Len(l) + k].block = p[1].indexes[k].block
    PROVE  InLine(h, q, M)
<1> DEFINE n == Len(p)  f == FlowOf(l, p)  d == LensOf(l, p)
           m == Len(q)  g == FlowOf(h, q)  e == LensOf(h, q)
<1>a. Described(l, p, f, d) /\ Described(h, q, g, e)
    BY FlowFacts
<1>b. Line(f, d, n, M)
    BY DEF InLine
<1> HIDE DEF f, d, g, e
<1>1. n \in Nat \ {0} /\ m \in Nat /\ m = n - 1 /\ d \in [0..n -> Nat] /\ e \in [0..m -> Nat] /\ 1 \in 1..n
    <2>1. n \in Nat \ {0} /\ m = n - 1
        OBVIOUS
    <2> QED BY <2>1, <1>a DEF Described
<1>2. d[0] = Len(l) /\ e[0] = Len(h) /\ d[1] = Len(p[1].indexes) /\ d[0] \in Nat /\ d[1] \in Nat
    <2>1. d[0] = Len(l) /\ e[0] = Len(h) /\ d[1] = Len(p[1].indexes)
        BY ONLY <1>a, <1>1 DEF Described
    <2> QED BY <2>1, <1>1
<1>3. e[0] = d[0] + d[1]
    BY <1>2
<1>4. \A k \in 1..d[0] : g[0][k] = f[0][k]
    <2> SUFFICES ASSUME NEW k \in 1..d[0] PROVE g[0][k] = f[0][k]
        OBVIOUS
    <2>1. k \in 1..Len(l) /\ k \in 1..Len(h)
        BY <1>2
    <2>2. f[0][k] = l[k].block /\ g[0][k] = h[k].block
        BY ONLY <2>1, <1>a DEF Described
    <2> QED BY <2>1, <2>2
<1>5. \A k \in 1..d[1] : g[0][d[0] + k] = f[1][k]
    <2> SUFFICES ASSUME NEW k \in 1..d[1] PROVE g[0][Len(l) + k] = f[1][k]
        BY <1>2
    <2>1. k \in 1..Len(p[1].indexes) /\ Len(l) + k \in 1..Len(h)
        BY <1>2
    <2>2. f[1][k] = p[1].indexes[k].block /\ g[0][Len(l) + k] = h[Len(l) + k].block
        BY ONLY <2>1, <1>a, <1>1 DEF Described
    <2> QED BY <2>1, <2>2
<1>6. ASSUME NEW i \in 1..m
      PROVE  e[i] = d[i + 1] /\ \A k \in 1..e[i] : g[i][k] = f[i + 1][k]
    <2>1. i + 1 \in 1..n /\ q[i] = p[i + 1]
        BY <1>1
    <2>2. d[i + 1] = Len(p[i + 1].indexes) /\ \A k \in 1..Len(p[i + 1].indexes) : f[i + 1][k] = p[i + 1].indexes[k].block
        BY ONLY <2>1, <1>a DEF Described
    <2>3. e[i] = Len(q[i].indexes) /\ \A k \in 1..Len(q[i].indexes) : g[i][k] = q[i].indexes[k].block
        BY ONLY i \in 1..m, <1>a DEF Described
    <2> QED BY ONLY <2>1, <2>2, <2>3
<1> HIDE DEF n, m
<1>7. Shifted(f, d, n, g, e)
    BY <1>1, <1>3, <1>4, <1>5, <1>6 DEF Shifted
<1>8. Line(g, e, n - 1, M)
    BY ONLY <1>1, <1>b, <1>7, LineShift
<1> QED BY <1>1, <1>8 DEF InLine, g, e, m

\* The first index of the first request has been added to the log.
LEMMA InLineMove ==
    ASSUME NEW l, LogType(l), NEW p \in Seq(Request), NEW q \in Seq(Request), NEW M, InLine(l, p, M),
           NEW h, LogType(h), p # <<>>, Len(q) = Len(p), \A i \in 2..Len(q) : q[i] = p[i],
           p[1].indexes # <<>>, q[1].indexes = Tail(p[1].indexes),
           Len(h) = Len(l) + 1, \A k \in 1..Len(l) : h[k].block = l[k].block,
           h[Len(l) + 1].block = p[1].indexes[1].block
    PROVE  InLine(h, q, M)
<1> DEFINE n == Len(p)  f == FlowOf(l, p)  d == LensOf(l, p)
           g == FlowOf(h, q)  e == LensOf(h, q)
<1>a. Described(l, p, f, d) /\ Described(h, q, g, e)
    BY FlowFacts
<1>b. Line(f, d, n, M)
    BY DEF InLine
<1> HIDE DEF f, d, g, e
<1>1. n \in Nat \ {0} /\ n = Len(q) /\ d \in [0..n -> Nat] /\ e \in [0..n -> Nat] /\ 1 \in 1..n
    <2>1. n \in Nat \ {0} /\ n = Len(q)
        OBVIOUS
    <2> QED BY <2>1, <1>a DEF Described
<1>2. d[0] = Len(l) /\ e[0] = Len(h) /\ d[1] = Len(p[1].indexes) /\ e[1] = Len(q[1].indexes)
      /\ d[0] \in Nat /\ d[1] \in Nat /\ p[1].indexes \in Seq(Ix)
    <2>1. d[0] = Len(l) /\ e[0] = Len(h) /\ d[1] = Len(p[1].indexes) /\ e[1] = Len(q[1].indexes) /\ p[1].indexes \in Seq(Ix)
        BY ONLY <1>a, <1>1 DEF Described
    <2> QED BY <2>1, <1>1
<1>3. e[0] = d[0] + 1 /\ d[1] # 0 /\ e[1] = d[1] - 1
      /\ \A k \in 1..(d[1] - 1) : k + 1 \in 1..d[1] /\ q[1].indexes[k] = p[1].indexes[k + 1]
    <2>1. \A s \in Seq(Ix) : s # <<>> => /\ Len(s) # 0 /\ Len(Tail(s)) = Len(s) - 1 /\ Len(s) \in Nat
                                        /\ \A k \in 1..(Len(s) - 1) : k + 1 \in 1..Len(s) /\ Tail(s)[k] = s[k + 1]
        OBVIOUS
    <2> QED BY <1>2, <2>1
<1>4. \A k \in 1..d[0] : g[0][k] = f[0][k]
    <2> SUFFICES ASSUME NEW k \in 1..d[0] PROVE g[0][k] = f[0][k]
        OBVIOUS
    <2>1. k \in 1..Len(l) /\ k \in 1..Len(h)
        BY <1>2
    <2>2. f[0][k] = l[k].block /\ g[0][k] = h[k].block
        BY ONLY <2>1, <1>a DEF Described
    <2> QED BY <2>1, <2>2
<1>5. g[0][d[0] + 1] = f[1][1]
    <2>1. 1 \in 1..Len(p[1].indexes) /\ Len(l) + 1 \in 1..Len(h)
        BY <1>2, <1>3
    <2>2. f[1][1] = p[1].indexes[1].block /\ g[0][Len(l) + 1] = h[Len(l) + 1].block
        BY ONLY <2>1, <1>a, <1>1 DEF Described
    <2> QED BY <2>2, <1>2
<1>6. \A k \in 1..e[1] : g[1][k] = f[1][k + 1]
    <2> SUFFICES ASSUME NEW k \in 1..e[1] PROVE g[1][k] = f[1][k + 1]
        OBVIOUS
    <2>1. k \in 1..Len(q[1].indexes) /\ k + 1 \in 1..Len(p[1].indexes) /\ q[1].indexes[k] = p[1].indexes[k + 1]
        BY ONLY <1>2, <1>3, k \in 1..e[1]
    <2>2. f[1][k + 1] = p[1].indexes[k + 1].block /\ g[1][k] = q[1].indexes[k].block
        BY ONLY <2>1, <1>a, <1>1 DEF Described
    <2> QED BY ONLY <2>1, <2>2
<1>7. ASSUME NEW i \in 2..n
      PROVE  e[i] = d[i] /\ \A k \in 1..e[i] : g[i][k] = f[i][k]
    <2>1. i \in 1..Len(p) /\ i \in 1..Len(q) /\ q[i] = p[i]
        BY <1>1
    <2>2. d[i] = Len(p[i].indexes) /\ \A k \in 1..Len(p[i].indexes) : f[i][k] = p[i].indexes[k].block
        BY ONLY <2>1, <1>a DEF Described
    <2>3. e[i] = Len(q[i].indexes) /\ \A k \in 1..Len(q[i].indexes) : g[i][k] = q[i].indexes[k].block
        BY ONLY <2>1, <1>a DEF Described
    <2> QED BY ONLY <2>1, <2>2, <2>3
<1> HIDE DEF n
<1>8. Moved(f, d, n, g, e)
    BY ONLY <1>3, <1>4, <1>5, <1>6, <1>7 DEF Moved
<1>9. Line(g, e, n, M)
    BY ONLY <1>1, <1>b, <1>8, LineMove
<1> QED BY <1>1, <1>9 DEF InLine, g, e

\* A new block has been put into the last request.
LEMMA InLineAdd ==
    ASSUME NEW l, LogType(l), NEW p \in Seq(Request), NEW q \in Seq(Request), NEW M, InLine(l, p, M),
           p # <<>>, Len(q) = Len(p), \A i \in 1..(Len(p) - 1) : q[i] = p[i],
           NEW x \in Ix, q[Len(p)].indexes = Append(p[Len(p)].indexes, x), \A b \in M : b < x.block
    PROVE  InLine(l, q, M \union {x.block})
<1> DEFINE n == Len(p)  f == FlowOf(l, p)  d == LensOf(l, p)
           g == FlowOf(l, q)  e == LensOf(l, q)
<1>a. Described(l, p, f, d) /\ Described(l, q, g, e)
    BY FlowFacts
<1>b. Line(f, d, n, M)
    BY DEF InLine
<1> HIDE DEF f, d, g, e
<1>1. n \in Nat \ {0} /\ n = Len(q) /\ d \in [0..n -> Nat] /\ e \in [0..n -> Nat] /\ n \in 1..n
    <2>1. n \in Nat \ {0} /\ n = Len(q)
        OBVIOUS
    <2> QED BY <2>1, <1>a DEF Described
<1>2. d[n] = Len(p[n].indexes) /\ e[n] = Len(q[n].indexes) /\ d[n] \in Nat /\ p[n].indexes \in Seq(Ix)
    <2>1. d[n] = Len(p[n].indexes) /\ e[n] = Len(q[n].indexes) /\ p[n].indexes \in Seq(Ix)
        BY ONLY <1>a, <1>1 DEF Described
    <2> QED BY <2>1, <1>1
<1>3. e[n] = d[n] + 1 /\ q[n].indexes[d[n] + 1] = x /\ \A k \in 1..d[n] : q[n].indexes[k] = p[n].indexes[k]
    <2>1. \A s \in Seq(Ix) : /\ Len(Append(s, x)) = Len(s) + 1 /\ Append(s, x)[Len(s) + 1] = x
                             /\ \A k \in 1..Len(s) : Append(s, x)[k] = s[k]
        OBVIOUS
    <2> QED BY <1>2, <2>1
<1>4. g[n][d[n] + 1] = x.block /\ \A k \in 1..d[n] : g[n][k] = f[n][k]
    <2>1. \A k \in 1..d[n] : k \in 1..Len(p[n].indexes) /\ k \in 1..Len(q[n].indexes)
        BY ONLY <1>2, <1>3
    <2>2. d[n] + 1 \in 1..Len(q[n].indexes)
        BY ONLY <1>2, <1>3
    <2>3. \A k \in 1..Len(p[n].indexes) : f[n][k] = p[n].indexes[k].block
        BY ONLY <1>a, <1>1 DEF Described
    <2>4. \A k \in 1..Len(q[n].indexes) : g[n][k] = q[n].indexes[k].block
        BY ONLY <1>a, <1>1 DEF Described
    <2> QED BY ONLY <2>1, <2>2, <2>3, <2>4, <1>3
<1>5. ASSUME NEW i \in 0..(n - 1)
      PROVE  e[i] = d[i] /\ \A k \in 1..e[i] : g[i][k] = f[i][k]
    <2>1. CASE i = 0
        BY ONLY <2>1, <1>a DEF Described
    <2>2. CASE i # 0
        <3>1. i \in 1..Len(p) /\ i \in 1..Len(q) /\ q[i] = p[i]
            BY <1>1, <2>2
        <3>2. d[i] = Len(p[i].indexes) /\ \A k \in 1..Len(p[i].indexes) : f[i][k] = p[i].indexes[k].block
            BY ONLY <3>1, <1>a DEF Described
        <3>3. e[i] = Len(q[i].indexes) /\ \A k \in 1..Len(q[i].indexes) : g[i][k] = q[i].indexes[k].block
            BY ONLY <3>1, <1>a DEF Described
        <3> QED BY ONLY <3>1, <3>2, <3>3
    <2> QED BY <2>1, <2>2
<1>6. x.block \in Nat /\ n \in Nat /\ \A b \in M : b < x.block
    BY <1>1 DEF Ix
<1> HIDE DEF n
<1>7. Grown(f, d, n, g, e, x.block)
    BY ONLY <1>3, <1>4, <1>5 DEF Grown
<1>8. Line(g, e, n, M \union {x.block})
    BY ONLY <1>1, <1>b, <1>6, <1>7, LineAdd
<1> QED BY <1>1, <1>8 DEF InLine, g, e

\* The first indexes of the log have been forgotten.
LEMMA InLineForget ==
    ASSUME NEW l, LogType(l), NEW q \in Seq(Request), NEW M, InLine(l, q, M), M \subseteq Nat,
           NEW h, LogType(h), NEW m \in 0..Len(l), Len(h) = Len(l) - m,
           \A k \in 1..Len(h) : h[k] = l[m + k]
    PROVE  InLine(h, q, M \ {l[k].block : k \in 1..m})
<1> DEFINE n == Len(q)  f == FlowOf(l, q)  d == LensOf(l, q)
           g == FlowOf(h, q)  e == LensOf(h, q)
<1>a. Described(l, q, f, d) /\ Described(h, q, g, e)
    BY FlowFacts
<1>b. Line(f, d, n, M)
    BY DEF InLine
<1> HIDE DEF f, d, g, e
<1>1. n \in Nat /\ d \in [0..n -> Nat] /\ e \in [0..n -> Nat] /\ d[0] = Len(l) /\ e[0] = Len(h) /\ Len(l) \in Nat
    BY ONLY <1>a DEF Described
<1>2. m \in Nat /\ m \in 0..d[0] /\ e[0] = d[0] - m
    BY <1>1
<1>3. \A k \in 1..e[0] : g[0][k] = f[0][m + k]
    <2> SUFFICES ASSUME NEW k \in 1..e[0] PROVE g[0][k] = f[0][m + k]
        OBVIOUS
    <2>1. k \in 1..Len(h) /\ m + k \in 1..Len(l) /\ h[k] = l[m + k]
        BY <1>1, <1>2
    <2>2. f[0][m + k] = l[m + k].block /\ g[0][k] = h[k].block
        BY ONLY <2>1, <1>a DEF Described
    <2> QED BY ONLY <2>1, <2>2
<1>4. ASSUME NEW i \in 1..n
      PROVE  e[i] = d[i] /\ \A k \in 1..e[i] : g[i][k] = f[i][k]
    <2>1. d[i] = Len(q[i].indexes) /\ \A k \in 1..Len(q[i].indexes) : f[i][k] = q[i].indexes[k].block
        BY ONLY i \in 1..n, <1>a DEF Described
    <2>2. e[i] = Len(q[i].indexes) /\ \A k \in 1..Len(q[i].indexes) : g[i][k] = q[i].indexes[k].block
        BY ONLY i \in 1..n, <1>a DEF Described
    <2> QED BY ONLY <2>1, <2>2
<1>5. {l[k].block : k \in 1..m} = {f[0][k] : k \in 1..m}
    <2>1. \A k \in 1..m : k \in 1..Len(l)
        BY <1>1, <1>2
    <2>2. \A k \in 1..Len(l) : f[0][k] = l[k].block
        BY ONLY <1>a DEF Described
    <2> QED BY ONLY <2>1, <2>2
<1> HIDE DEF n
<1>6. Forgotten(f, d, n, g, e, m)
    BY ONLY <1>2, <1>3, <1>4 DEF Forgotten
<1>7. Line(g, e, n, M \ {f[0][k] : k \in 1..m})
    BY ONLY <1>1, <1>2, <1>b, <1>6, M \subseteq Nat, LineForget
<1> QED BY <1>5, <1>7 DEF InLine, g, e, n

\* Only the first indexes of the log are left, and an empty request.
LEMMA InLineCut ==
    ASSUME NEW l, LogType(l), NEW p \in Seq(Request), NEW M, InLine(l, p, M),
           NEW q \in Seq(Request), Len(q) = 1, q[1].indexes = <<>>,
           NEW h, LogType(h), NEW m \in 0..Len(l), Len(h) = m, \A k \in 1..m : h[k] = l[k]
    PROVE  InLine(h, q, {l[k].block : k \in 1..m})
<1> DEFINE n == Len(p)  f == FlowOf(l, p)  d == LensOf(l, p)
           g == FlowOf(h, q)  e == LensOf(h, q)
<1>a. Described(l, p, f, d) /\ Described(h, q, g, e)
    BY FlowFacts
<1>b. Line(f, d, n, M)
    BY DEF InLine
<1> HIDE DEF f, d, g, e
<1> DEFINE N == {l[k].block : k \in 1..m}
<1>1. n \in Nat /\ d \in [0..n -> Nat] /\ e \in [0..1 -> Nat] /\ d[0] = Len(l) /\ e[0] = m /\ Len(l) \in Nat
    BY <1>a DEF Described
<1>2. e[1] = 0
    <2>1. e[1] = Len(q[1].indexes)
        BY <1>a DEF Described
    <2> QED BY <2>1
<1>3. \A k \in 1..m : k \in 1..d[0] /\ k \in Nat
    BY <1>1
<1>4. \A k \in 1..m : f[0][k] = l[k].block /\ g[0][k] = l[k].block
    <2>1. \A k \in 1..Len(l) : f[0][k] = l[k].block
        BY ONLY <1>a DEF Described
    <2>2. \A k \in 1..Len(h) : g[0][k] = h[k].block
        BY ONLY <1>a DEF Described
    <2> QED BY <2>1, <2>2, <1>1, <1>3
<1>5. \A k \in 1..m : f[0][k] \in N
    BY <1>4
<1>6. N \in SUBSET M
    <2>1. \A k \in 1..m : f[0][k] \in M
        BY <1>1, <1>3, <1>b DEF Line
    <2> QED BY <1>4, <2>1
<1>7. ASSUME NEW i \in 0..1, NEW k \in 1..e[i]
      PROVE  i \in 0..n /\ k \in 1..d[i] /\ g[i][k] = f[i][k] /\ g[i][k] \in N
    <2>1. i = 0
        <3>1. i = 1 => k \in 1..0
            BY <1>2
        <3>2. i = 0 \/ i = 1
            OBVIOUS
        <3> QED BY <3>1, <3>2
    <2>2. k \in 1..m
        BY <2>1, <1>1
    <2>3. f[0][k] = l[k].block /\ g[0][k] = l[k].block /\ f[0][k] \in N
        BY ONLY <2>2, <1>4, <1>5
    <2>4. g[0][k] = f[0][k] /\ g[0][k] \in N
        BY ONLY <2>3
    <2>5. 0 \in 0..n /\ k \in 1..d[0]
        BY <2>2, <1>1, <1>3
    <2> QED BY ONLY <2>1, <2>4, <2>5
<1>8. ASSUME NEW i \in 0..n, NEW k \in 1..d[i], f[i][k] \in N
      PROVE  i \in 0..1 /\ k \in 1..e[i]
    <2>1. PICK j \in 1..m : f[i][k] = f[0][j]
        BY <1>4, <1>8
    <2>2. j \in 1..d[0] /\ 0 \in 0..n /\ k \in Nat /\ j \in Nat /\ i \in Nat
        BY <1>1, <1>3
    <2>3. f[0][j] \in Nat
        <3>1. \A kk \in 1..Len(l) : f[0][kk] = l[kk].block /\ l[kk].block \in Nat
            BY ONLY <1>a DEF Described
        <3>2. j \in 1..Len(l)
            BY ONLY <1>1, <2>2
        <3> QED BY ONLY <3>1, <3>2
    <2>4. ~(0 < i \/ (0 = i /\ j < k))
        <3>1. (0 < i \/ (0 = i /\ j < k)) => f[0][j] < f[i][k]
            BY ONLY <2>2, <1>b, i \in 0..n, k \in 1..d[i] DEF Line
        <3> QED BY ONLY <3>1, <2>1, <2>3
    <2>5. i = 0 /\ k <= j
        BY ONLY <2>2, <2>4
    <2>6. k \in 1..m
        BY ONLY <2>5, <2>2, j \in 1..m, k \in 1..d[i]
    <2>7. e[0] = m
        BY <1>1
    <2> QED BY ONLY <2>5, <2>6, <2>7
<1>9. Sifted(f, d, n, g, e, 1, N)
    <2> HIDE DEF N, n
    <2> QED BY ONLY <1>7, <1>8 DEF Sifted
<1> HIDE DEF N, n
<1>10. Line(g, e, 1, N)
    BY <1>1, <1>b, <1>6, <1>9, LineKept
<1> QED BY <1>10 DEF InLine, g, e, N

-----------------------------------------------------------------------------
(* The requests on their way, one behind the other.                        *)

\* The requests of a, those of b, and x.
Chain(a, b, x) == a \o b \o <<x>>

\* Where the requests of a, of b and x stand in p.
Chained(a, b, x, p) ==
    /\ p \in Seq(Request) /\ Len(a) \in Nat /\ Len(b) \in Nat /\ Len(p) = Len(a) + Len(b) + 1
    /\ \A i \in 1..Len(a) : p[i] = a[i]
    /\ \A i \in 1..Len(b) : p[Len(a) + i] = b[i]
    /\ p[Len(a) + Len(b) + 1] = x

\* The places in a concatenation.
LEMMA Concat ==
    ASSUME NEW S, NEW a \in Seq(S), NEW b \in Seq(S)
    PROVE  /\ a \o b \in Seq(S) /\ Len(a \o b) = Len(a) + Len(b) /\ Len(a) \in Nat /\ Len(b) \in Nat
           /\ \A i \in 1..Len(a) : (a \o b)[i] = a[i]
           /\ \A i \in 1..Len(b) : (a \o b)[Len(a) + i] = b[i]
    OBVIOUS

\* The places of the requests on their way.
LEMMA ChainFacts ==
    ASSUME NEW a \in Seq(Request), NEW b \in Seq(Request), NEW x \in Request
    PROVE  Chained(a, b, x, Chain(a, b, x))
<1> DEFINE c == a \o b
<1>1. /\ c \in Seq(Request) /\ Len(c) = Len(a) + Len(b) /\ Len(a) \in Nat /\ Len(b) \in Nat
      /\ \A i \in 1..Len(a) : c[i] = a[i]
      /\ \A i \in 1..Len(b) : c[Len(a) + i] = b[i]
    BY Concat
<1> HIDE DEF c
<1>2. <<x>> \in Seq(Request) /\ Len(<<x>>) = 1 /\ <<x>>[1] = x /\ 1 \in 1..1
    OBVIOUS
<1> DEFINE y == <<x>>
<1>3. y \in Seq(Request) /\ Len(y) = 1 /\ y[1] = x
    BY <1>2
<1> HIDE DEF y
<1>a. c \in Seq(Request) /\ y \in Seq(Request)
    BY ONLY <1>1, <1>3
<1>4. /\ c \o y \in Seq(Request) /\ Len(c \o y) = Len(c) + Len(y)
      /\ \A i \in 1..Len(c) : (c \o y)[i] = c[i]
      /\ \A i \in 1..Len(y) : (c \o y)[Len(c) + i] = y[i]
    BY ONLY <1>a, Concat
<1> DEFINE p == c \o y
<1> HIDE DEF p
<1>5. /\ p \in Seq(Request) /\ Len(p) = Len(a) + Len(b) + 1 /\ p[Len(a) + Len(b) + 1] = x
    BY ONLY <1>1, <1>3, <1>4 DEF p
<1>6. \A i \in 1..Len(c) : p[i] = c[i]
    BY ONLY <1>4 DEF p
<1>7. \A i \in 1..Len(a) : i \in 1..Len(c)
    BY ONLY <1>1
<1>8. \A i \in 1..Len(b) : Len(a) + i \in 1..Len(c)
    BY ONLY <1>1
<1>9. \A i \in 1..Len(a) : p[i] = a[i]
    BY ONLY <1>1, <1>6, <1>7
<1>10. \A i \in 1..Len(b) : p[Len(a) + i] = b[i]
    BY ONLY <1>1, <1>6, <1>8
<1>11. Chained(a, b, x, p)
    BY ONLY <1>1, <1>5, <1>9, <1>10 DEF Chained
<1> QED BY ONLY <1>11 DEF Chain, p, c, y

\* A place is in a, in b or the last.
LEMMA ChainPlaces ==
    ASSUME NEW a, NEW b, NEW x, NEW p, Chained(a, b, x, p), NEW i \in 1..Len(p)
    PROVE  \/ i \in 1..Len(a) /\ p[i] = a[i]
           \/ i - Len(a) \in 1..Len(b) /\ p[i] = b[i - Len(a)]
           \/ i = Len(a) + Len(b) + 1 /\ p[i] = x
<1>1. Len(a) \in Nat /\ Len(b) \in Nat /\ i \in 1..(Len(a) + Len(b) + 1)
    BY DEF Chained
<1>2. CASE i <= Len(a)
    <2>1. i \in 1..Len(a)
        BY ONLY <1>1, <1>2
    <2> QED BY <2>1 DEF Chained
<1>3. CASE i > Len(a) /\ i <= Len(a) + Len(b)
    <2>1. i - Len(a) \in 1..Len(b) /\ Len(a) + (i - Len(a)) = i
        BY ONLY <1>1, <1>3
    <2>2. p[Len(a) + (i - Len(a))] = b[i - Len(a)]
        BY ONLY <2>1, Chained(a, b, x, p) DEF Chained
    <2> QED BY <2>1, <2>2
<1>4. CASE i = Len(a) + Len(b) + 1
    BY <1>4 DEF Chained
<1> QED BY ONLY <1>1, <1>2, <1>3, <1>4

\* q is p with y instead of x at the end.
Relast(p, q, x, y) ==
    /\ p \in Seq(Request) /\ q \in Seq(Request) /\ p # <<>> /\ Len(q) = Len(p)
    /\ \A i \in 1..(Len(p) - 1) : q[i] = p[i]
    /\ p[Len(p)] = x /\ q[Len(p)] = y

\* Another request stands at the end.
LEMMA ChainLast ==
    ASSUME NEW a \in Seq(Request), NEW b \in Seq(Request), NEW x \in Request, NEW y \in Request
    PROVE  Relast(Chain(a, b, x), Chain(a, b, y), x, y)
<1> DEFINE p == Chain(a, b, x)
           q == Chain(a, b, y)
<1>1. Chained(a, b, x, p) /\ Chained(a, b, y, q)
    BY ChainFacts
<1> HIDE DEF p, q
<1>2. /\ p \in Seq(Request) /\ q \in Seq(Request) /\ Len(q) = Len(p) /\ Len(p) = Len(a) + Len(b) + 1
      /\ p[Len(p)] = x /\ q[Len(p)] = y /\ Len(a) \in Nat /\ Len(b) \in Nat
    BY ONLY <1>1 DEF Chained
<1>3. ASSUME NEW i \in 1..(Len(p) - 1) PROVE q[i] = p[i]
    <2>1. i \in 1..Len(p) /\ i # Len(a) + Len(b) + 1 /\ i \in 1..Len(q)
        BY ONLY <1>2, i \in 1..(Len(p) - 1)
    <2>2. \/ i \in 1..Len(a) /\ p[i] = a[i]
          \/ i - Len(a) \in 1..Len(b) /\ p[i] = b[i - Len(a)]
        BY ONLY <2>1, <1>1, ChainPlaces
    <2>3. \/ i \in 1..Len(a) /\ q[i] = a[i]
          \/ i - Len(a) \in 1..Len(b) /\ q[i] = b[i - Len(a)]
        BY ONLY <2>1, <1>1, ChainPlaces
    <2> QED BY ONLY <2>2, <2>3, <1>2
<1>4. p # <<>>
    BY ONLY <1>2
<1>5. Relast(p, q, x, y)
    BY ONLY <1>2, <1>3, <1>4 DEF Relast
<1> QED BY ONLY <1>5 DEF p, q

\* q is p with y behind it.
Pushed(p, q, y) ==
    /\ p \in Seq(Request) /\ q \in Seq(Request) /\ Len(q) = Len(p) + 1
    /\ \A i \in 1..Len(p) : q[i] = p[i]
    /\ q[Len(p) + 1] = y

\* The last request waits with the others, and a new one begins.
LEMMA ChainPush ==
    ASSUME NEW a \in Seq(Request), NEW b \in Seq(Request), NEW x \in Request, NEW y \in Request
    PROVE  Pushed(Chain(a, b, x), Chain(a, Append(b, x), y), y)
<1> DEFINE p == Chain(a, b, x)
           q == Chain(a, Append(b, x), y)
<1> DEFINE c == Append(b, x)
<1>0. c \in Seq(Request) /\ Len(c) = Len(b) + 1 /\ c[Len(b) + 1] = x /\ \A i \in 1..Len(b) : c[i] = b[i]
    OBVIOUS
<1> HIDE DEF c
<1>1. Chained(a, b, x, p) /\ Chained(a, c, y, q)
    BY <1>0, ChainFacts DEF c
<1> HIDE DEF p, q
<1>2. /\ p \in Seq(Request) /\ q \in Seq(Request) /\ Len(p) = Len(a) + Len(b) + 1 /\ Len(a) \in Nat /\ Len(b) \in Nat
      /\ Len(q) = Len(a) + Len(c) + 1 /\ q[Len(a) + Len(c) + 1] = y
    BY ONLY <1>1 DEF Chained
<1>3. Len(q) = Len(p) + 1 /\ Len(a) + Len(c) + 1 = Len(p) + 1
    BY ONLY <1>0, <1>2
<1>4. ASSUME NEW i \in 1..Len(p) PROVE q[i] = p[i]
    <2>1. i \in 1..Len(q) /\ i # Len(a) + Len(c) + 1
        BY ONLY <1>2, <1>3, i \in 1..Len(p)
    <2>2. \/ i \in 1..Len(a) /\ p[i] = a[i]
          \/ i - Len(a) \in 1..Len(b) /\ p[i] = b[i - Len(a)]
          \/ i = Len(a) + Len(b) + 1 /\ p[i] = x
        BY ONLY i \in 1..Len(p), <1>1, ChainPlaces
    <2>3. \/ i \in 1..Len(a) /\ q[i] = a[i]
          \/ i - Len(a) \in 1..Len(c) /\ q[i] = c[i - Len(a)]
        BY ONLY <2>1, <1>1, ChainPlaces
    <2>4. CASE i \in 1..Len(a)
        BY ONLY <2>2, <2>3, <2>4, <1>2, <1>0
    <2>5. CASE i - Len(a) \in 1..Len(b)
        <3>1. q[i] = c[i - Len(a)] /\ p[i] = b[i - Len(a)]
            BY ONLY <2>2, <2>3, <2>5, <1>2, <1>0
        <3>2. c[i - Len(a)] = b[i - Len(a)]
            BY ONLY <2>5, <1>0
        <3> QED BY ONLY <3>1, <3>2
    <2>6. CASE i = Len(a) + Len(b) + 1
        <3>1. i - Len(a) = Len(b) + 1
            BY ONLY <2>6, <1>2
        <3>2. q[i] = c[i - Len(a)]
            BY ONLY <2>3, <2>6, <1>2
        <3>3. p[i] = x
            BY ONLY <2>2, <2>6, <1>2
        <3> QED BY ONLY <3>1, <3>2, <3>3, <1>0
    <2> QED BY <2>2, <2>4, <2>5, <2>6
<1>5. Pushed(p, q, y)
    BY ONLY <1>2, <1>3, <1>4 DEF Pushed
<1> QED BY ONLY <1>5 DEF p, q, c

\* q is p without r, the first.
Popped(p, q, r) ==
    /\ p \in Seq(Request) /\ q \in Seq(Request) /\ p # <<>> /\ Len(q) = Len(p) - 1
    /\ \A i \in 1..Len(q) : q[i] = p[i + 1]
    /\ p[1] = r

\* The first request goes.
LEMMA ChainTail ==
    ASSUME NEW a \in Seq(Request), NEW b \in Seq(Request), NEW x \in Request, a # <<>>
    PROVE  Popped(Chain(a, b, x), Chain(Tail(a), b, x), a[1])
<1> DEFINE p == Chain(a, b, x)
           q == Chain(Tail(a), b, x)
<1> DEFINE c == Tail(a)
<1>0. c \in Seq(Request) /\ Len(c) = Len(a) - 1 /\ Len(a) > 0 /\ \A i \in 1..Len(c) : c[i] = a[i + 1]
    OBVIOUS
<1> HIDE DEF c
<1>1. Chained(a, b, x, p) /\ Chained(c, b, x, q)
    BY <1>0, ChainFacts DEF c
<1> HIDE DEF p, q
<1>2. /\ p \in Seq(Request) /\ q \in Seq(Request) /\ Len(p) = Len(a) + Len(b) + 1 /\ Len(a) \in Nat /\ Len(b) \in Nat
      /\ Len(q) = Len(c) + Len(b) + 1
    BY ONLY <1>1 DEF Chained
<1>3. Len(q) = Len(p) - 1 /\ Len(p) > 1 /\ 1 \in 1..Len(a) /\ Len(q) \in Nat
    BY ONLY <1>0, <1>2
<1>4. p[1] = a[1] /\ p # <<>>
    BY ONLY <1>1, <1>2, <1>3 DEF Chained
<1>5. ASSUME NEW i \in 1..Len(q) PROVE q[i] = p[i + 1]
    <2>1. i + 1 \in 1..Len(p)
        BY ONLY <1>2, <1>3, i \in 1..Len(q)
    <2>2. \/ i \in 1..Len(c) /\ q[i] = c[i]
          \/ i - Len(c) \in 1..Len(b) /\ q[i] = b[i - Len(c)]
          \/ i = Len(c) + Len(b) + 1 /\ q[i] = x
        BY ONLY i \in 1..Len(q), <1>1, ChainPlaces
    <2>3. \/ i + 1 \in 1..Len(a) /\ p[i + 1] = a[i + 1]
          \/ (i + 1) - Len(a) \in 1..Len(b) /\ p[i + 1] = b[(i + 1) - Len(a)]
          \/ i + 1 = Len(a) + Len(b) + 1 /\ p[i + 1] = x
        BY ONLY <2>1, <1>1, ChainPlaces
    <2>4. CASE i \in 1..Len(c)
        <3>1. q[i] = c[i] /\ p[i + 1] = a[i + 1]
            BY ONLY <2>2, <2>3, <2>4, <1>2, <1>0
        <3> QED BY ONLY <3>1, <2>4, <1>0
    <2>5. CASE i - Len(c) \in 1..Len(b)
        <3>1. i - Len(c) = (i + 1) - Len(a)
            BY ONLY <1>0, <1>2, i \in 1..Len(q)
        <3>2. q[i] = b[i - Len(c)] /\ p[i + 1] = b[(i + 1) - Len(a)]
            BY ONLY <2>2, <2>3, <2>5, <1>2, <1>0
        <3> QED BY ONLY <3>1, <3>2
    <2>6. CASE i = Len(c) + Len(b) + 1
        BY ONLY <2>2, <2>3, <2>6, <1>2, <1>0
    <2> QED BY <2>2, <2>4, <2>5, <2>6
<1>6. Popped(p, q, a[1])
    BY ONLY <1>2, <1>3, <1>4, <1>5 DEF Popped
<1> QED BY ONLY <1>6 DEF p, q, c

\* q is p with s instead of r at the beginning.
Refirst(p, q, r, s) ==
    /\ p \in Seq(Request) /\ q \in Seq(Request) /\ p # <<>> /\ Len(q) = Len(p)
    /\ \A i \in 2..Len(q) : q[i] = p[i]
    /\ p[1] = r /\ q[1] = s

\* Another request stands at the beginning.
LEMMA ChainFirst ==
    ASSUME NEW a \in Seq(Request), NEW b \in Seq(Request), NEW x \in Request, a # <<>>,
           NEW c \in Seq(Request), Len(c) = Len(a), \A i \in 2..Len(a) : c[i] = a[i]
    PROVE  Refirst(Chain(a, b, x), Chain(c, b, x), a[1], c[1])
<1> DEFINE p == Chain(a, b, x)
           q == Chain(c, b, x)
<1>0. Len(a) > 0 /\ Len(c) = Len(a) /\ \A i \in 2..Len(a) : c[i] = a[i]
    OBVIOUS
<1>1. Chained(a, b, x, p) /\ Chained(c, b, x, q)
    BY ChainFacts
<1> HIDE DEF p, q
<1>2. /\ p \in Seq(Request) /\ q \in Seq(Request) /\ Len(p) = Len(a) + Len(b) + 1 /\ Len(a) \in Nat /\ Len(b) \in Nat
      /\ Len(q) = Len(c) + Len(b) + 1
    BY ONLY <1>1 DEF Chained
<1>3. Len(q) = Len(p) /\ 1 \in 1..Len(a) /\ 1 \in 1..Len(c) /\ Len(p) > 0
    BY ONLY <1>0, <1>2
<1>4. p[1] = a[1] /\ q[1] = c[1] /\ p # <<>>
    BY ONLY <1>1, <1>2, <1>3 DEF Chained
<1>5. ASSUME NEW i \in 2..Len(q) PROVE q[i] = p[i]
    <2>1. i \in 1..Len(p) /\ i \in 1..Len(q)
        BY ONLY <1>2, <1>3, i \in 2..Len(q)
    <2>2. \/ i \in 1..Len(c) /\ q[i] = c[i]
          \/ i - Len(c) \in 1..Len(b) /\ q[i] = b[i - Len(c)]
          \/ i = Len(c) + Len(b) + 1 /\ q[i] = x
        BY ONLY <2>1, <1>1, ChainPlaces
    <2>3. \/ i \in 1..Len(a) /\ p[i] = a[i]
          \/ i - Len(a) \in 1..Len(b) /\ p[i] = b[i - Len(a)]
          \/ i = Len(a) + Len(b) + 1 /\ p[i] = x
        BY ONLY <2>1, <1>1, ChainPlaces
    <2>4. CASE i \in 1..Len(a)
        <3>1. q[i] = c[i] /\ p[i] = a[i] /\ i \in 2..Len(a)
            BY ONLY <2>2, <2>3, <2>4, <1>2, <1>0, i \in 2..Len(q)
        <3> QED BY ONLY <3>1, <1>0
    <2>5. CASE i \notin 1..Len(a)
        BY ONLY <2>2, <2>3, <2>5, <1>2, <1>0, i \in 2..Len(q)
    <2> QED BY <2>4, <2>5
<1>6. Refirst(p, q, a[1], c[1])
    BY ONLY <1>2, <1>3, <1>4, <1>5 DEF Refirst
<1> QED BY ONLY <1>6 DEF p, q

-----------------------------------------------------------------------------
(* The types in the steps of doSync and of the others.                     *)

\* Indexes are added to the log.
LEMMA LogJoined ==
    ASSUME NEW l, LogType(l), NEW h, LogType(h)
    PROVE  /\ LogType(l \o h) /\ Len(l \o h) = Len(l) + Len(h) /\ Len(l) \in Nat /\ Len(h) \in Nat
           /\ \A i \in 1..Len(l) : (l \o h)[i] = l[i]
           /\ \A i \in 1..Len(h) : (l \o h)[Len(l) + i] = h[i]
<1>1. PICK S : l \in Seq(S) /\ \A x \in S : x.block \in Nat
    BY DEF LogType
<1>2. PICK T : h \in Seq(T) /\ \A x \in T : x.block \in Nat
    BY DEF LogType
<1> DEFINE U == S \union T
<1>3. l \in Seq(U) /\ h \in Seq(U) /\ \A x \in U : x.block \in Nat
    BY <1>1, <1>2
<1> HIDE DEF U
<1>4. /\ l \o h \in Seq(U) /\ Len(l \o h) = Len(l) + Len(h) /\ Len(l) \in Nat /\ Len(h) \in Nat
      /\ \A i \in 1..Len(l) : (l \o h)[i] = l[i]
      /\ \A i \in 1..Len(h) : (l \o h)[Len(l) + i] = h[i]
    BY ONLY <1>3, Concat
<1> QED BY <1>3, <1>4 DEF LogType

\* A part of the log.
LEMMA LogCut ==
    ASSUME NEW l, LogType(l), NEW m \in Nat \ {0}, NEW n \in Nat, m <= n + 1, n <= Len(l)
    PROVE  /\ LogType(SubSeq(l, m, n)) /\ Len(SubSeq(l, m, n)) = (n + 1) - m
           /\ \A k \in 1..((n + 1) - m) : SubSeq(l, m, n)[k] = l[(m + k) - 1]
<1>1. PICK S : l \in Seq(S) /\ \A x \in S : x.block \in Nat
    BY DEF LogType
<1> DEFINE s == SubSeq(l, m, n)
<1>2. s = [k \in 1..((n + 1) - m) |-> l[(m + k) - 1]]
    BY <1>1
<1>3. \A k \in 1..((n + 1) - m) : (m + k) - 1 \in 1..Len(l)
    <2>1. Len(l) \in Nat
        BY <1>1
    <2> QED BY <2>1
<1>4. \A k \in 1..((n + 1) - m) : l[(m + k) - 1] \in S
    BY <1>1, <1>3
<1>5. (n + 1) - m \in Nat
    OBVIOUS
<1> HIDE DEF s
<1>6. s \in Seq(S) /\ Len(s) = (n + 1) - m
    BY <1>2, <1>4, <1>5
<1>7. \A k \in 1..((n + 1) - m) : s[k] = l[(m + k) - 1]
    BY <1>2
<1>8. LogType(s)
    BY <1>1, <1>6 DEF LogType
<1> QED BY <1>6, <1>7, <1>8 DEF s

\* The indexes of a request, with another state.
LEMMA Restated ==
    ASSUME NEW s \in Seq(Ix), NEW z
    PROVE  LET t == [k \in DOMAIN s |-> [s[k] EXCEPT !.state = z]]
           IN  LogType(t) /\ Len(t) = Len(s) /\ \A k \in 1..Len(s) : t[k].block = s[k].block
<1> DEFINE t == [k \in DOMAIN s |-> [s[k] EXCEPT !.state = z]]
           S == {[x EXCEPT !.state = z] : x \in Ix}
<1>1. DOMAIN s = 1..Len(s) /\ Len(s) \in Nat /\ \A k \in 1..Len(s) : s[k] \in Ix
    OBVIOUS
<1>2. \A x \in Ix : [x EXCEPT !.state = z].block = x.block /\ x.block \in Nat
    BY DEF Ix
<1>3. \A k \in 1..Len(s) : t[k] = [s[k] EXCEPT !.state = z]
    BY <1>1
<1>4. t \in [1..Len(s) -> S]
    BY <1>1
<1>5. \A x \in S : x.block \in Nat
    BY <1>2
<1> HIDE DEF t, S
<1>6. t \in Seq(S) /\ Len(t) = Len(s)
    BY <1>1, <1>4
<1>7. \A k \in 1..Len(s) : t[k].block = s[k].block
    BY <1>1, <1>2, <1>3
<1>8. LogType(t)
    BY <1>5, <1>6 DEF LogType
<1> QED BY ONLY <1>6, <1>7, <1>8 DEF t

\* The indexes of a request are like those of the log.
LEMMA LogOfRequest ==
    ASSUME NEW s \in Seq(Ix)
    PROVE  LogType(s)
<1>1. \A x \in Ix : x.block \in Nat
    BY DEF Ix
<1> QED BY <1>1 DEF LogType

\* What the steps of doSync rely on.
LEMMA SyncFacts ==
    ASSUME Base
    PROVE  /\ sync.reqs \in Seq(Request) /\ syncReqs \in Seq(Request) /\ syncReq \in Request
           /\ DOMAIN sync = SyncFields /\ LogType(log) /\ Len(log) \in Nat /\ saved \in 0..Len(log)
           /\ free \in Nat
           /\ sync.reqs # <<>> => /\ Req \in Request /\ Req = sync.reqs[1] /\ Req.indexes \in Seq(Ix)
                                  /\ Tail(sync.reqs) \in Seq(Request)
<1>1. /\ sync.reqs \in Seq(Request) /\ syncReqs \in Seq(Request) /\ syncReq \in Request
      /\ DOMAIN sync = SyncFields /\ LogType(log) /\ saved \in 0..Len(log) /\ free \in Nat
    BY DEF Base, WriterTypes, LogType
<1>2. ASSUME sync.reqs # <<>>
      PROVE  Req \in Request /\ Req = sync.reqs[1] /\ Tail(sync.reqs) \in Seq(Request)
    BY <1>1, <1>2 DEF Req
<1>3. \A r \in Request : r.indexes \in Seq(Ix)
    BY DEF Request
<1>4. Len(log) \in Nat
    <2>1. PICK S : log \in Seq(S)
        BY <1>1 DEF LogType
    <2> QED BY <2>1
<1> QED BY <1>1, <1>2, <1>3, <1>4

\* A step of doSync does nothing to the calls.
LEMMA BaseSync ==
    ASSUME Base, UNCHANGED <<scene, calls, call, syncReq, made>>,
           syncReqs' \in Seq(Request), DOMAIN sync' = SyncFields, sync'.reqs \in Seq(Request),
           sync'.pc \in {"pop", "idle", "next", "write", "index"}, free' \in Nat,
           LogType(log'), saved' \in 0..Len(log'), SyncOK'
    PROVE  Base'
<1>1. WriterTypes'
    BY DEF Base, WriterTypes, LogType
<1>2. CallOK'
    BY DEF Base, CallOK, Coming, At
<1> QED BY <1>1, <1>2 DEF Base

\* doSync goes on to the next request.
LEMMA BaseNextReq ==
    ASSUME Base, UNCHANGED <<scene, calls, call, syncReq, made, syncReqs, saved>>, NextReq,
           sync.reqs # <<>>, free' \in Nat, NEW h, LogType(h), log' = log \o h \/ log' = log
    PROVE  Base' /\ sync'.reqs = Tail(sync.reqs) /\ sync'.pc = "next"
<1>1. DOMAIN sync' = SyncFields /\ sync'.reqs = Tail(sync.reqs) /\ sync'.pc = "next"
    BY DEF NextReq, Resting, SyncFields
<1>2. Tail(sync.reqs) \in Seq(Request) /\ syncReqs \in Seq(Request) /\ LogType(log) /\ Len(log) \in Nat
      /\ saved \in 0..Len(log)
    BY SyncFacts
<1>3. LogType(log') /\ saved' \in 0..Len(log')
    <2>1. CASE log' = log \o h
        <3>1. LogType(log') /\ Len(log') = Len(log) + Len(h) /\ Len(h) \in Nat
            BY <2>1, <1>2, LogJoined
        <3> QED BY <3>1, <1>2
    <2>2. CASE log' = log
        BY <2>2, <1>2
    <2> QED BY <2>1, <2>2
<1>4. SyncOK'
    BY <1>1 DEF SyncOK
<1> QED BY <1>1, <1>2, <1>3, <1>4, BaseSync

\* doSync goes on with the same request.
LEMMA BaseSyncOn ==
    ASSUME Base, UNCHANGED <<scene, calls, call, syncReq, made, syncReqs, log, saved>>,
           DOMAIN sync' = SyncFields, sync'.reqs = sync.reqs, free' \in Nat,
           \/ sync.pc = "idle" /\ sync'.pc = "pop"
           \/ IsReq("block") /\ sync'.pc = "write"
           \/ sync.pc = "write" /\ sync'.pc = "index"
    PROVE  Base'
<1>1. sync.reqs \in Seq(Request) /\ syncReqs \in Seq(Request) /\ LogType(log) /\ saved \in 0..Len(log)
    BY SyncFacts
<1>2. sync'.pc \in {"pop", "idle", "next", "write", "index"}
    OBVIOUS
<1>3. SyncOK'
    <2>1. CASE sync.pc = "idle" /\ sync'.pc = "pop"
        BY <2>1 DEF Base, SyncOK
    <2>2. CASE IsReq("block") /\ sync'.pc = "write"
        BY <2>2, SyncFacts DEF IsReq, SyncOK
    <2>3. CASE sync.pc = "write" /\ sync'.pc = "index"
        BY <2>3 DEF Base, SyncOK
    <2> QED BY <2>1, <2>2, <2>3
<1> QED BY <1>1, <1>2, <1>3, BaseSync

-----------------------------------------------------------------------------
(* The buffers of the requests.                                            *)

\* The requests, from the one at n on, that hold a buffer.
Held(p, n) == {i \in n..Len(p) : p[i].kind = "block"}

\* The requests that hold a buffer can be counted.
LEMMA HeldFinite ==
    ASSUME NEW p, Len(p) \in Nat, NEW n \in Nat
    PROVE  IsFiniteSet(Held(p, n)) /\ Cardinality(Held(p, n)) \in Nat
<1>1. IsFiniteSet(n..Len(p))
    BY FS_Interval
<1>2. Held(p, n) \subseteq n..Len(p)
    BY DEF Held
<1> QED BY <1>1, <1>2, FS_Subset, FS_CardinalityType

\* The first request may hold one.
LEMMA HeldFirst ==
    ASSUME NEW p, Len(p) \in Nat \ {0}
    PROVE  /\ p[1].kind = "block" => Cardinality(Held(p, 1)) = Cardinality(Held(p, 2)) + 1
           /\ p[1].kind # "block" => Cardinality(Held(p, 1)) = Cardinality(Held(p, 2))
<1>1. IsFiniteSet(Held(p, 2))
    BY HeldFinite
<1>2. 1 \notin Held(p, 2)
    BY DEF Held
<1>3. CASE p[1].kind = "block"
    <2>1. Held(p, 1) = Held(p, 2) \union {1}
        BY <1>3 DEF Held
    <2> QED BY ONLY <1>3, <2>1, <1>1, <1>2, FS_AddElement
<1>4. CASE p[1].kind # "block"
    <2>1. Held(p, 1) = Held(p, 2)
        BY <1>4 DEF Held
    <2> QED BY ONLY <1>4, <2>1
<1> QED BY <1>3, <1>4

\* The first request goes: the others hold what they held.
LEMMA HeldShift ==
    ASSUME NEW p, Len(p) \in Nat \ {0}, NEW q, Len(q) = Len(p) - 1, \A i \in 1..Len(q) : q[i] = p[i + 1]
    PROVE  Cardinality(Held(q, 1)) = Cardinality(Held(p, 2))
<1> DEFINE A == Held(q, 1)
           B == Held(p, 2)
           f == [i \in A |-> i + 1]
<1>1. \A i \in A : i \in 1..Len(q) /\ i \in Nat /\ i + 1 \in B
    BY DEF Held
<1>2. \A j \in B : j - 1 \in A /\ (j - 1) + 1 = j
    BY DEF Held
<1>3. IsFiniteSet(A)
    <2>1. Len(q) \in Nat /\ 1 \in Nat
        OBVIOUS
    <2> QED BY ONLY <2>1, HeldFinite
<1> HIDE DEF A, B
<1>4. f \in Bijection(A, B)
    <2>1. f \in [A -> B]
        BY <1>1
    <2>2. \A i, j \in A : f[i] = f[j] => i = j
        BY <1>1
    <2>3. \A j \in B : \E i \in A : f[i] = j
        BY <1>2
    <2> HIDE DEF f
    <2> QED BY ONLY <2>1, <2>2, <2>3 DEF Bijection, Injection, Surjection, IsInjective
<1>5. ExistsBijection(A, B)
    BY ONLY <1>4 DEF ExistsBijection
<1>6. Cardinality(A) = Cardinality(B)
    BY ONLY <1>3, <1>5, FS_Bijection
<1> QED BY ONLY <1>6 DEF A, B

\* The same kinds hold the same.
LEMMA HeldSame ==
    ASSUME NEW p, NEW q, Len(q) = Len(p), NEW n \in Nat, \A i \in n..Len(p) : q[i].kind = p[i].kind
    PROVE  Held(q, n) = Held(p, n)
    BY DEF Held

\* A request without a buffer is added.
LEMMA HeldPush ==
    ASSUME NEW p, Len(p) \in Nat, NEW q, Len(q) = Len(p) + 1, \A i \in 1..Len(p) : q[i] = p[i],
           q[Len(p) + 1].kind # "block", NEW n \in Nat \ {0}
    PROVE  Held(q, n) = Held(p, n)
<1>1. \A i \in n..Len(q) : i = Len(p) + 1 \/ (i \in n..Len(p) /\ i \in 1..Len(p))
    OBVIOUS
<1>2. \A i \in n..Len(p) : i \in n..Len(q) /\ i \in 1..Len(p)
    OBVIOUS
<1> QED BY <1>1, <1>2 DEF Held

\* The last request gets a buffer.
LEMMA HeldAdd ==
    ASSUME NEW p, Len(p) \in Nat, NEW q, Len(q) = Len(p), \A i \in 1..(Len(p) - 1) : q[i] = p[i],
           p[Len(p)].kind # "block", q[Len(p)].kind = "block", NEW n \in Nat \ {0}, n <= Len(p)
    PROVE  Cardinality(Held(q, n)) = Cardinality(Held(p, n)) + 1
<1>1. \A i \in n..Len(p) : i = Len(p) \/ i \in 1..(Len(p) - 1)
    OBVIOUS
<1>2. Len(p) \in n..Len(p)
    OBVIOUS
<1>3. Held(q, n) = Held(p, n) \union {Len(p)}
    BY <1>1, <1>2 DEF Held
<1>4. Len(p) \notin Held(p, n)
    BY DEF Held
<1>5. IsFiniteSet(Held(p, n))
    BY HeldFinite
<1> QED BY ONLY <1>3, <1>4, <1>5, FS_AddElement

-----------------------------------------------------------------------------
(* The inductive invariant, and the steps of a call.                       *)

\* The first request that may hold a buffer: doSync has written that of the
\* request whose indexes it adds.
FirstHeld == IF sync.pc = "index" THEN 2 ELSE 1

\* The inductive invariant.
WriterInv ==
    /\ Base
    /\ InLine(log, Pending, made)
    /\ free + Cardinality(Held(Pending, FirstHeld)) = scene.buffers

\* The requests on their way are those of doSync, those that wait and syncReq.
LEMMA PendingFacts ==
    ASSUME Base
    PROVE  /\ Pending = Chain(sync.reqs, syncReqs, syncReq) /\ Pending \in Seq(Request)
           /\ Len(Pending) \in Nat \ {0} /\ Pending[Len(Pending)] = syncReq
           /\ sync.reqs # <<>> => Pending[1] = sync.reqs[1]
           /\ FirstHeld \in {1, 2} /\ FirstHeld <= Len(Pending)
           /\ Cardinality(Held(Pending, FirstHeld)) \in Nat /\ scene.buffers \in Nat
<1>1. sync.reqs \in Seq(Request) /\ syncReqs \in Seq(Request) /\ syncReq \in Request
    BY SyncFacts
<1>2. Pending = Chain(sync.reqs, syncReqs, syncReq)
    BY DEF Pending, Chain
<1>3. Chained(sync.reqs, syncReqs, syncReq, Pending)
    BY <1>1, <1>2, ChainFacts
<1>4. /\ Len(Pending) = Len(sync.reqs) + Len(syncReqs) + 1 /\ Len(sync.reqs) \in Nat /\ Len(syncReqs) \in Nat
      /\ Pending[Len(Pending)] = syncReq /\ Pending \in Seq(Request)
    BY ONLY <1>3 DEF Chained
<1>5. sync.reqs # <<>> => Len(sync.reqs) > 0
    BY <1>1
<1>6. sync.reqs # <<>> => Pending[1] = sync.reqs[1]
    BY ONLY <1>3, <1>4, <1>5 DEF Chained
<1>7. FirstHeld \in {1, 2} /\ FirstHeld <= Len(Pending)
    <2>1. CASE sync.pc = "index"
        <3>1. sync.reqs # <<>> /\ FirstHeld = 2
            BY <2>1 DEF Base, SyncOK, FirstHeld
        <3> QED BY ONLY <3>1, <1>4, <1>5
    <2>2. CASE sync.pc # "index"
        <3>1. FirstHeld = 1
            BY <2>2 DEF FirstHeld
        <3> QED BY ONLY <3>1, <1>4
    <2> QED BY <2>1, <2>2
<1>8. Cardinality(Held(Pending, FirstHeld)) \in Nat
    <2>1. FirstHeld \in Nat /\ Len(Pending) \in Nat
        BY ONLY <1>4, <1>7
    <2> QED BY ONLY <2>1, HeldFinite
<1>9. scene.buffers \in Nat
    BY BaseFacts
<1> QED BY ONLY <1>2, <1>4, <1>6, <1>7, <1>8, <1>9

\* A step that moves no request.
LEMMA InvSame ==
    ASSUME WriterInv, Base', Pending' = Pending, FirstHeld' = FirstHeld, UNCHANGED <<scene, log, made, free>>
    PROVE  WriterInv'
    BY DEF WriterInv

\* A call begins.
LEMMA InvCalls ==
    ASSUME WriterInv, Calls, UNCHANGED scene
    PROVE  WriterInv'
<1>1. Base' /\ UNCHANGED <<syncReq, syncReqs, free, sync, log, made>>
    BY BaseCalls DEF WriterInv
<1>2. Pending' = Pending /\ FirstHeld' = FirstHeld
    BY <1>1 DEF Pending, FirstHeld
<1> QED BY <1>1, <1>2, InvSame

\* sync: the request joins those that wait, or stays where it is.
LEMMA InvStepSync ==
    ASSUME WriterInv, StepSync, UNCHANGED scene
    PROVE  WriterInv'
<1>1. Base /\ Base'
    BY BaseStepSync DEF WriterInv
<1>2. UNCHANGED <<free, sync, log, made>>
    BY DEF StepSync, logging
<1>3. FirstHeld' = FirstHeld
    BY <1>2 DEF FirstHeld
<1>4. \/ syncReq' = syncReq /\ syncReqs' = syncReqs
      \/ syncReq' = NoReq /\ syncReqs' = Append(syncReqs, syncReq)
    BY DEF StepSync
<1>5. CASE syncReq' = syncReq /\ syncReqs' = syncReqs
    <2>1. Pending' = Pending
        BY <1>2, <1>5 DEF Pending
    <2> QED BY <1>1, <1>2, <1>3, <2>1, InvSame
<1>6. CASE syncReq' = NoReq /\ syncReqs' = Append(syncReqs, syncReq)
    <2> DEFINE p == Pending
               q == Pending'
    <2>1. p = Chain(sync.reqs, syncReqs, syncReq) /\ q = Chain(sync.reqs, Append(syncReqs, syncReq), NoReq)
        BY <1>2, <1>6 DEF Pending, Chain
    <2>2. sync.reqs \in Seq(Request) /\ syncReqs \in Seq(Request) /\ syncReq \in Request /\ NoReq \in Request
          /\ LogType(log)
        BY <1>1, SyncFacts, BaseFacts
    <2> HIDE DEF p, q
    <2>a. Pushed(p, q, NoReq)
        BY ONLY <2>1, <2>2, ChainPush
    <2>3. /\ p \in Seq(Request) /\ q \in Seq(Request) /\ Len(q) = Len(p) + 1
          /\ \A i \in 1..Len(p) : q[i] = p[i]
          /\ q[Len(p) + 1] = NoReq
        BY ONLY <2>a DEF Pushed
    <2>4. q[Len(p) + 1].indexes = <<>> /\ q[Len(p) + 1].kind # "block" /\ Len(p) \in Nat
        BY <2>3 DEF NoReq
    <2>5. InLine(log, p, made)
        BY DEF WriterInv, p
    <2>6. InLine(log, q, made)
        BY ONLY <2>2, <2>3, <2>4, <2>5, InLinePush
    <2>7. FirstHeld \in Nat \ {0}
        BY DEF FirstHeld
    <2>8. Held(q, FirstHeld) = Held(p, FirstHeld)
        BY ONLY <2>3, <2>4, <2>7, HeldPush
    <2> QED BY <1>1, <1>2, <1>3, <2>6, <2>8 DEF WriterInv, p, q
<1> QED BY <1>4, <1>5, <1>6

\* The task of doSync is submitted: nothing moves.
LEMMA InvStepTry ==
    ASSUME WriterInv, StepTry, UNCHANGED scene
    PROVE  WriterInv'
<1>1. Base' /\ UNCHANGED <<syncReq, syncReqs, free, sync, log, made>>
    BY BaseStepTry DEF WriterInv
<1>2. Pending' = Pending /\ FirstHeld' = FirstHeld
    BY <1>1 DEF Pending, FirstHeld
<1> QED BY <1>1, <1>2, InvSame

\* The block of the call gets its index in syncReq.
LEMMA InvAdd ==
    ASSUME WriterInv, Base', Coming, UNCHANGED <<scene, syncReqs, sync, log>>,
           made' = made \union {call.index.block},
           syncReq'.indexes = Append(syncReq.indexes, call.index),
           \/ syncReq'.kind = "block" /\ syncReq.kind = "block" /\ free' = free
           \/ syncReq'.kind = "block" /\ syncReq.kind # "block" /\ free' = free - 1
           \/ syncReq'.kind # "block" /\ syncReq.kind # "block" /\ free' = free
    PROVE  WriterInv'
<1> DEFINE p == Pending
           q == Pending'
<1>1. Base
    BY DEF WriterInv
<1>2. p = Chain(sync.reqs, syncReqs, syncReq) /\ q = Chain(sync.reqs, syncReqs, syncReq')
    BY DEF Pending, Chain
<1>3. sync.reqs \in Seq(Request) /\ syncReqs \in Seq(Request) /\ syncReq \in Request /\ syncReq' \in Request
      /\ LogType(log) /\ free \in Nat
    <2>1. syncReq' \in Request
        BY DEF Base, WriterTypes
    <2> QED BY <1>1, <2>1, SyncFacts
<1>4. Len(p) \in Nat \ {0} /\ FirstHeld \in {1, 2} /\ FirstHeld <= Len(p) /\ Cardinality(Held(p, FirstHeld)) \in Nat
    BY <1>1, PendingFacts
<1>5. InLine(log, p, made) /\ free + Cardinality(Held(p, FirstHeld)) = scene.buffers
    BY DEF WriterInv
<1> HIDE DEF p, q
<1>6. /\ p \in Seq(Request) /\ q \in Seq(Request) /\ p # <<>> /\ Len(q) = Len(p)
      /\ \A i \in 1..(Len(p) - 1) : q[i] = p[i]
      /\ p[Len(p)] = syncReq /\ q[Len(p)] = syncReq'
    <2>1. Relast(p, q, syncReq, syncReq')
        BY ONLY <1>2, <1>3, ChainLast
    <2> QED BY ONLY <2>1 DEF Relast
<1>7. call.index \in Ix /\ \A b \in made : b < call.index.block
    BY <1>1, BaseFacts DEF Base, CallOK
<1>8. q[Len(p)].indexes = Append(p[Len(p)].indexes, call.index)
    BY <1>6
<1>9. InLine(log, q, made')
    <2>1. InLine(log, q, made \union {call.index.block})
        BY ONLY <1>3, <1>5, <1>6, <1>7, <1>8, InLineAdd
    <2> QED BY <2>1
<1>10. free' + Cardinality(Held(q, FirstHeld)) = scene.buffers
    <2>1. CASE p[Len(p)].kind # "block" /\ q[Len(p)].kind = "block"
        <3>1. Cardinality(Held(q, FirstHeld)) = Cardinality(Held(p, FirstHeld)) + 1
            BY ONLY <1>4, <1>6, <2>1, HeldAdd
        <3>2. free' = free - 1
            BY <1>6, <2>1
        <3> QED BY ONLY <3>1, <3>2, <1>3, <1>4, <1>5
    <2>2. CASE ~(p[Len(p)].kind # "block" /\ q[Len(p)].kind = "block")
        <3>1. free' = free /\ (p[Len(p)].kind = "block" <=> q[Len(p)].kind = "block")
            BY <1>6, <2>2
        <3>2. \A i \in FirstHeld..Len(p) : q[i].kind = "block" <=> p[i].kind = "block"
            <4>1. \A i \in FirstHeld..Len(p) : i = Len(p) \/ i \in 1..(Len(p) - 1)
                BY ONLY <1>4
            <4> QED BY ONLY <4>1, <1>6, <3>1
        <3>3. Held(q, FirstHeld) = Held(p, FirstHeld)
            BY ONLY <3>2, <1>6 DEF Held
        <3> QED BY ONLY <3>1, <3>3, <1>5
    <2> QED BY <2>1, <2>2
<1>11. FirstHeld' = FirstHeld
    BY DEF FirstHeld
<1> QED BY <1>9, <1>10, <1>11 DEF WriterInv, q

\* What syncReq holds at a put, an index or a close.
LEMMA AtFacts ==
    ASSUME Base
    PROVE  /\ (At("put") \/ At("index")) => Coming
           /\ (At("index") \/ At("close")) => syncReq = NoReq
           /\ At("put") => syncReq.kind = "block" \/ syncReq = NoReq
<1>1. call.todo \in Todos /\ syncReq \in Request
    BY BaseFacts, SyncFacts
<1>2. (At("put") \/ At("index")) => Coming
    BY <1>1, TodoSteps DEF At, Coming
<1>3. (At("index") \/ At("close")) => syncReq = NoReq
    BY DEF Base, CallOK
<1>4. At("put") => syncReq.kind = "block" \/ syncReq = NoReq
    BY <1>1, BaseFacts DEF Base, CallOK
<1> QED BY <1>2, <1>3, <1>4

\* The units of a block.
LEMMA UnitsFacts ==
    ASSUME NEW b \in Nat, NEW n \in Nat
    PROVE  /\ Units(b, n) \in Seq(Unit) /\ Len(Units(b, n)) = n
           /\ \A k \in 1..n : Units(b, n)[k] = <<b, k>>
<1>1. \A k \in 1..n : <<b, k>> \in Unit
    BY DEF Unit
<1>2. Units(b, n) \in [1..n -> Unit]
    BY <1>1 DEF Units
<1>3. \A k \in 1..n : Units(b, n)[k] = <<b, k>>
    BY DEF Units
<1> QED BY <1>2, <1>3

\* A request with data and an index at the end.
LEMMA FilledRequest ==
    ASSUME NEW x \in Ix, NEW k \in {"block", "index"}, NEW d \in Seq(Unit), NEW xs \in Seq(Ix),
           NEW r, r = [kind |-> k, data |-> d, indexes |-> Append(xs, x)]
    PROVE  r \in Request /\ r.kind = k /\ r.data = d /\ r.indexes = Append(xs, x)
<1>1. Append(xs, x) \in Seq(Ix) /\ k \in Kinds
    BY DEF Kinds
<1> HIDE DEF Ix
<1> QED BY <1>1 DEF Request

\* What a block makes of a request.
LEMMA FilledFacts ==
    ASSUME call.index \in Ix, NEW d \in Seq(Unit), NEW xs \in Seq(Ix), NEW r, r = Filled(d, xs)
    PROVE  /\ r \in Request /\ r.kind = "block" /\ r.indexes = Append(xs, call.index)
           /\ r.data = d \o Units(call.index.block, call.index.size)
<1> DEFINE e == d \o Units(call.index.block, call.index.size)
<1>1. Units(call.index.block, call.index.size) \in Seq(Unit)
    BY UnitsFacts DEF Ix
<1>2. e \in Seq(Unit)
    BY <1>1
<1>3. r = [kind |-> "block", data |-> e, indexes |-> Append(xs, call.index)]
    BY DEF Filled
<1> HIDE DEF e
<1>4. r \in Request /\ r.kind = "block" /\ r.data = e /\ r.indexes = Append(xs, call.index)
    BY ONLY <1>2, <1>3, call.index \in Ix, xs \in Seq(Ix), FilledRequest
<1> QED BY <1>4 DEF e

\* The block goes into the buffer at hand or a new one, or is to be dropped.
LEMMA InvStepPut ==
    ASSUME WriterInv, StepPut, UNCHANGED scene
    PROVE  WriterInv'
<1>1. Base /\ At("put") /\ Coming /\ UNCHANGED <<calls, syncReqs, sync, log, saved>>
    BY AtFacts DEF WriterInv, StepPut, handing, logging
<1>2. syncReq \in Request /\ syncReq.indexes \in Seq(Ix) /\ call.index \in Ix /\ free \in Nat
    BY <1>1, SyncFacts, BaseFacts
<1>3. CASE syncReq.kind = "block"
    <2>1. syncReq' = Filled(syncReq.data, syncReq.indexes) /\ free' = free
          /\ made' = made \union {call.index.block} /\ Then(Rest)
        BY <1>3 DEF StepPut
    <2>2. syncReq.data \in Seq(Unit)
        BY <1>2 DEF Request
    <2>4. syncReq' \in Request /\ syncReq'.kind = "block" /\ syncReq'.indexes = Append(syncReq.indexes, call.index)
        BY ONLY <1>2, <2>1, <2>2, FilledFacts
    <2>5. Base'
        BY <1>1, <1>2, <2>1, <2>4, BasePut
    <2>6. syncReq'.kind = "block" /\ syncReq'.indexes = Append(syncReq.indexes, call.index)
        BY <2>4
    <2> QED BY <1>1, <1>3, <2>1, <2>5, <2>6, InvAdd
<1>4. CASE syncReq.kind # "block" /\ free > 0
    <2>1. syncReq' = Filled(<<>>, <<>>) /\ free' = free - 1
          /\ made' = made \union {call.index.block} /\ Then(Rest)
        BY <1>4 DEF StepPut
    <2>2. syncReq' \in Request /\ syncReq'.kind = "block" /\ syncReq'.indexes = Append(<<>>, call.index)
        <3>1. <<>> \in Seq(Unit) /\ <<>> \in Seq(Ix)
            OBVIOUS
        <3> QED BY ONLY <1>2, <2>1, <3>1, FilledFacts
    <2>3. syncReq = NoReq /\ syncReq.indexes = <<>>
        BY <1>1, <1>4, AtFacts DEF NoReq
    <2>4. free' \in Nat
        BY <1>2, <1>4, <2>1
    <2>5. Base'
        BY <1>1, <2>1, <2>2, <2>4, BasePut
    <2>6. syncReq'.kind = "block" /\ syncReq'.indexes = Append(syncReq.indexes, call.index)
        BY ONLY <2>2, <2>3
    <2> QED BY <1>1, <1>4, <2>1, <2>5, <2>6, InvAdd
<1>5. CASE syncReq.kind # "block" /\ ~(free > 0)
    <2>1. call' = [todo |-> <<"index", "sync">>, index |-> Dropped(call.index)]
          /\ UNCHANGED <<syncReq, free, made>>
        BY <1>5 DEF StepPut
    <2>2. syncReq = NoReq
        BY <1>1, <1>5, AtFacts
    <2>3. Dropped(call.index) \in Ix /\ Dropped(call.index).block = call.index.block
        BY <1>2 DEF Dropped, Ix
    <2>4. call' \in Todo /\ call'.index.block = call.index.block
        BY <2>1, <2>3 DEF Todo, Todos
    <2>5. CallOK'
        BY <1>1, <2>1, <2>2, <2>4, CallStep
    <2>6. WriterTypes' /\ SyncOK'
        BY <1>1, <2>1, <2>4 DEF Base, WriterTypes, SyncOK
    <2>7. Base'
        BY <2>5, <2>6 DEF Base
    <2>8. Pending' = Pending /\ FirstHeld' = FirstHeld
        BY <1>1, <2>1 DEF Pending, FirstHeld
    <2> QED BY <1>1, <2>1, <2>7, <2>8, InvSame
<1> QED BY <1>3, <1>4, <1>5

\* The block of a call that has no data to store gets its index.
LEMMA InvStepIndex ==
    ASSUME WriterInv, StepIndex, UNCHANGED scene
    PROVE  WriterInv'
<1>1. /\ Base /\ At("index") /\ Coming /\ syncReq = NoReq
      /\ UNCHANGED <<calls, syncReqs, sync, log, saved, free>> /\ Then(Rest)
      /\ made' = made \union {call.index.block}
      /\ syncReq' = [kind |-> "index", data |-> <<>>, indexes |-> <<call.index>>]
    BY AtFacts DEF WriterInv, StepIndex, handing, logging
<1>2. syncReq' \in Request /\ syncReq'.kind = "index" /\ syncReq'.indexes = Append(<<>>, call.index)
    <2>1. call.index \in Ix /\ <<>> \in Seq(Unit) /\ <<>> \in Seq(Ix) /\ "index" \in {"block", "index"}
        BY <1>1, BaseFacts
    <2>2. <<call.index>> = Append(<<>>, call.index)
        OBVIOUS
    <2>3. syncReq' = [kind |-> "index", data |-> <<>>, indexes |-> Append(<<>>, call.index)]
        BY <1>1, <2>2
    <2> DEFINE xs == Append(<<>>, call.index)
    <2>4. xs \in Seq(Ix) /\ "index" \in Kinds
        BY <2>1 DEF Kinds
    <2> HIDE DEF xs, Ix, Kinds, Unit
    <2>5. syncReq' \in Request /\ syncReq'.kind = "index" /\ syncReq'.indexes = xs
        BY <2>1, <2>3, <2>4 DEF Request, xs
    <2> QED BY <2>5 DEF xs
<1>3. free' \in Nat
    BY <1>1, SyncFacts
<1>4. Base'
    BY <1>1, <1>2, <1>3, BasePut
<1>5. syncReq'.kind # "block" /\ syncReq.kind # "block" /\ syncReq'.indexes = Append(syncReq.indexes, call.index)
    BY ONLY <1>1, <1>2 DEF NoReq
<1> QED BY <1>1, <1>4, <1>5, InvAdd

\* CloseFile's request begins: it has no blocks and no buffer.
LEMMA InvStepClose ==
    ASSUME WriterInv, StepClose, UNCHANGED scene
    PROVE  WriterInv'
<1> DEFINE p == Pending
           q == Pending'
<1>1. /\ Base /\ At("close") /\ syncReq = NoReq
      /\ UNCHANGED <<calls, syncReqs, sync, log, saved, free, made>> /\ Then(Rest)
      /\ syncReq' = [NoReq EXCEPT !.kind = "close"]
    BY AtFacts DEF WriterInv, StepClose, handing, logging
<1>2. syncReq' \in Request /\ syncReq'.kind = "close" /\ syncReq'.indexes = <<>>
    <2>1. syncReq' = [kind |-> "close", data |-> <<>>, indexes |-> <<>>]
        BY <1>1 DEF NoReq
    <2> QED BY <2>1 DEF Request, Kinds
<1>3. Base'
    BY <1>1, <1>2, SyncFacts, BasePut
<1>4. p = Chain(sync.reqs, syncReqs, syncReq) /\ q = Chain(sync.reqs, syncReqs, syncReq')
    BY <1>1 DEF Pending, Chain
<1>5. sync.reqs \in Seq(Request) /\ syncReqs \in Seq(Request) /\ syncReq \in Request
    BY <1>1, SyncFacts
<1>6. InLine(log, p, made) /\ FirstHeld \in Nat \ {0}
    BY DEF WriterInv, FirstHeld
<1> HIDE DEF p, q
<1>7. /\ p \in Seq(Request) /\ q \in Seq(Request) /\ Len(q) = Len(p)
      /\ \A i \in 1..(Len(p) - 1) : q[i] = p[i]
      /\ p[Len(p)] = syncReq /\ q[Len(p)] = syncReq'
    <2>1. Relast(p, q, syncReq, syncReq')
        BY ONLY <1>2, <1>4, <1>5, ChainLast
    <2> QED BY ONLY <2>1 DEF Relast
<1>8. /\ Len(p) \in Nat /\ p[Len(p)].indexes = <<>> /\ q[Len(p)].indexes = <<>>
      /\ p[Len(p)].kind # "block" /\ q[Len(p)].kind # "block"
    BY <1>1, <1>7 DEF NoReq
<1>9. \A i \in 1..Len(p) : i = Len(p) \/ i \in 1..(Len(p) - 1)
    BY ONLY <1>8
<1>10. \A i \in 1..Len(p) : q[i].indexes = p[i].indexes /\ (q[i].kind = "block" <=> p[i].kind = "block")
    BY ONLY <1>7, <1>8, <1>9
<1>11. InLine(log, q, made)
    BY ONLY <1>6, <1>7, <1>8, <1>10, InLineKept
<1>12. Held(q, FirstHeld) = Held(p, FirstHeld)
    <2>1. \A i \in FirstHeld..Len(p) : i \in 1..Len(p)
        BY ONLY <1>6, <1>8
    <2>2. \A i \in FirstHeld..Len(p) : q[i].kind = "block" <=> p[i].kind = "block"
        BY ONLY <2>1, <1>10
    <2> QED BY ONLY <2>2, <1>7 DEF Held
<1>13. FirstHeld' = FirstHeld
    BY <1>1 DEF FirstHeld
<1> QED BY <1>1, <1>3, <1>11, <1>12, <1>13 DEF WriterInv, p, q

-----------------------------------------------------------------------------
(* The steps of doSync and of the others.                                  *)

\* doSync is done with its first request: its indexes h are in the log, and
\* its buffer, if it still held one, is back.
LEMMA InvPop ==
    ASSUME WriterInv, NextReq, sync.reqs # <<>>, sync.pc \in {"next", "index"},
           UNCHANGED <<scene, calls, call, syncReq, made, syncReqs, saved>>,
           NEW h, LogType(h), log' = log \o h, Len(h) = Len(Req.indexes),
           \A k \in 1..Len(Req.indexes) : h[k].block = Req.indexes[k].block,
           \/ free' = free /\ (Req.kind # "block" \/ sync.pc = "index")
           \/ free' = free + 1 /\ Req.kind = "block" /\ sync.pc = "next"
    PROVE  WriterInv'
<1> DEFINE p == Pending
           q == Pending'
<1>1. Base /\ free \in Nat /\ free' \in Nat
    <2>1. Base /\ free \in Nat
        BY SyncFacts DEF WriterInv
    <2> QED BY <2>1
<1>2. Base' /\ sync'.reqs = Tail(sync.reqs) /\ sync'.pc = "next"
    BY <1>1, BaseNextReq
<1>3. sync.reqs \in Seq(Request) /\ syncReqs \in Seq(Request) /\ syncReq \in Request /\ Req = sync.reqs[1]
      /\ LogType(log)
    BY <1>1, SyncFacts
<1>4. p = Chain(sync.reqs, syncReqs, syncReq) /\ q = Chain(Tail(sync.reqs), syncReqs, syncReq)
    BY <1>2 DEF Pending, Chain
<1>5. Len(p) \in Nat \ {0} /\ Cardinality(Held(p, FirstHeld)) \in Nat
    BY <1>1, PendingFacts
<1>6. InLine(log, p, made) /\ free + Cardinality(Held(p, FirstHeld)) = scene.buffers
    BY DEF WriterInv
<1> HIDE DEF p, q
<1>7. Popped(p, q, sync.reqs[1])
    BY ONLY <1>3, <1>4, ChainTail, sync.reqs # <<>>
<1>8. /\ p \in Seq(Request) /\ q \in Seq(Request) /\ p # <<>> /\ Len(q) = Len(p) - 1
      /\ \A i \in 1..Len(q) : q[i] = p[i + 1]
      /\ p[1] = Req
    BY ONLY <1>3, <1>7 DEF Popped
<1>9. /\ LogType(log') /\ Len(log') = Len(log) + Len(h)
      /\ \A i \in 1..Len(log) : log'[i] = log[i]
      /\ \A i \in 1..Len(h) : log'[Len(log) + i] = h[i]
    <2>1. /\ LogType(log \o h) /\ Len(log \o h) = Len(log) + Len(h)
          /\ \A i \in 1..Len(log) : (log \o h)[i] = log[i]
          /\ \A i \in 1..Len(h) : (log \o h)[Len(log) + i] = h[i]
        BY ONLY <1>3, LogType(h), LogJoined
    <2>2. log' = log \o h
        OBVIOUS
    <2> QED BY ONLY <2>1, <2>2
<1>10. Len(log') = Len(log) + Len(p[1].indexes)
    BY <1>8, <1>9
<1>11. \A k \in 1..Len(log) : log'[k].block = log[k].block
    BY ONLY <1>9
<1>12. \A k \in 1..Len(p[1].indexes) : log'[Len(log) + k].block = p[1].indexes[k].block
    <2>1. \A k \in 1..Len(Req.indexes) : h[k].block = Req.indexes[k].block
        OBVIOUS
    <2>2. Len(h) = Len(Req.indexes)
        OBVIOUS
    <2>3. \A k \in 1..Len(Req.indexes) : log'[Len(log) + k].block = Req.indexes[k].block
        BY ONLY <2>1, <2>2, <1>9
    <2>4. p[1] = Req
        BY <1>8
    <2> QED BY ONLY <2>3, <2>4
<1>13. InLine(log', q, made)
    BY ONLY <1>3, <1>6, <1>8, <1>9, <1>10, <1>11, <1>12, InLineTail
<1>14. Cardinality(Held(q, 1)) = Cardinality(Held(p, 2))
    BY ONLY <1>5, <1>8, HeldShift
<1>15. free' + Cardinality(Held(q, 1)) = scene.buffers
    <2>1. /\ p[1].kind = "block" => Cardinality(Held(p, 1)) = Cardinality(Held(p, 2)) + 1
          /\ p[1].kind # "block" => Cardinality(Held(p, 1)) = Cardinality(Held(p, 2))
        BY ONLY <1>5, HeldFirst
    <2>2. Cardinality(Held(p, 2)) \in Nat
        BY <1>5, HeldFinite
    <2>3. CASE sync.pc = "index"
        <3>1. FirstHeld = 2 /\ free' = free
            BY <2>3 DEF FirstHeld
        <3> QED BY ONLY <3>1, <1>6, <1>14
    <2>4. CASE sync.pc = "next" /\ Req.kind = "block"
        <3>1. FirstHeld = 1 /\ free' = free + 1
            BY <2>4 DEF FirstHeld
        <3>2. Cardinality(Held(p, 1)) = Cardinality(Held(p, 2)) + 1
            BY ONLY <2>1, <2>4, <1>8
        <3> QED BY ONLY <3>1, <3>2, <2>2, <1>1, <1>6, <1>14
    <2>5. CASE sync.pc = "next" /\ Req.kind # "block"
        <3>1. FirstHeld = 1 /\ free' = free
            BY <2>5 DEF FirstHeld
        <3>2. Cardinality(Held(p, 1)) = Cardinality(Held(p, 2))
            BY ONLY <2>1, <2>5, <1>8
        <3> QED BY ONLY <3>1, <3>2, <1>6, <1>14
    <2> QED BY <2>3, <2>4, <2>5
<1>16. FirstHeld' = 1
    BY <1>2 DEF FirstHeld
<1> QED BY <1>2, <1>13, <1>15, <1>16 DEF WriterInv, q

\* The empty log.
LEMMA EmptyLog == LogType(<<>>)
<1>1. <<>> \in Seq(Ix)
    OBVIOUS
<1> QED BY <1>1, LogOfRequest

\* A request without indexes leaves the log as it is.
LEMMA InvPopEmpty ==
    ASSUME WriterInv, NextReq, sync.reqs # <<>>, sync.pc \in {"next", "index"},
           UNCHANGED <<scene, calls, call, syncReq, made, syncReqs, saved, log, free>>,
           Req.indexes = <<>>, Req.kind # "block" \/ sync.pc = "index"
    PROVE  WriterInv'
<1>1. LogType(<<>>)
    BY EmptyLog
<1>2. LogType(log)
    BY SyncFacts DEF WriterInv
<1>3. log = log \o <<>>
    <2>1. PICK S : log \in Seq(S)
        BY <1>2 DEF LogType
    <2> QED BY <2>1
<1>4. Len(<<>>) = Len(Req.indexes) /\ \A k \in 1..Len(Req.indexes) : <<>>[k].block = Req.indexes[k].block
    OBVIOUS
<1> QED BY <1>1, <1>3, <1>4, InvPop

\* The indexes of the request are added without a file.
LEMMA InvAbandon ==
    ASSUME WriterInv, IsReq("block"), NEW z, Abandon(z),
           UNCHANGED <<scene, calls, call, syncReq, made, syncReqs, saved>>
    PROVE  WriterInv'
<1> DEFINE t == [k \in DOMAIN Req.indexes |-> [Req.indexes[k] EXCEPT !.state = z]]
<1>1. Base /\ sync.reqs # <<>> /\ sync.pc = "next" /\ Req.kind = "block"
    BY DEF WriterInv, IsReq
<1>2. Req.indexes \in Seq(Ix)
    BY <1>1, SyncFacts
<1>3. log' = log \o t /\ free' = free + 1 /\ NextReq
    BY DEF Abandon
<1>4. LogType(t) /\ Len(t) = Len(Req.indexes) /\ \A k \in 1..Len(Req.indexes) : t[k].block = Req.indexes[k].block
    BY <1>2, Restated
<1> HIDE DEF t
<1> QED BY <1>1, <1>3, <1>4, InvPop

\* doSync adds the index of an indexRequest.
LEMMA InvSyncIndex ==
    ASSUME WriterInv, SyncIndex, UNCHANGED scene
    PROVE  WriterInv'
<1>1. /\ Base /\ sync.reqs # <<>> /\ sync.pc = "next" /\ Req.kind = "index" /\ log' = log \o Req.indexes /\ NextReq
      /\ UNCHANGED <<calls, call, syncReq, made, syncReqs, saved, free>>
    BY DEF WriterInv, SyncIndex, IsReq, writing, handing
<1>2. Req.indexes \in Seq(Ix) /\ LogType(Req.indexes)
    BY <1>1, SyncFacts, LogOfRequest
<1> QED BY <1>1, <1>2, InvPop

\* doSync closes the file.
LEMMA InvSyncClose ==
    ASSUME WriterInv, SyncClose, UNCHANGED scene
    PROVE  WriterInv'
<1>1. /\ Base /\ sync.reqs # <<>> /\ sync.pc = "next" /\ Req.kind = "close" /\ NextReq
      /\ UNCHANGED <<calls, call, syncReq, made, syncReqs, saved, free, log>>
    BY DEF WriterInv, SyncClose, IsReq, writing, handing, logging
<1>2. Req.indexes = <<>>
    BY <1>1, SyncFacts DEF Request
<1> QED BY <1>1, <1>2, InvPopEmpty

\* doSync is done with a request whose indexes are all in the log.
LEMMA InvSyncRotate ==
    ASSUME WriterInv, SyncRotate, UNCHANGED scene
    PROVE  WriterInv'
<1>1. /\ Base /\ sync.pc = "index" /\ Req.indexes = <<>> /\ NextReq
      /\ UNCHANGED <<calls, call, syncReq, made, syncReqs, saved, free, log>>
    BY DEF WriterInv, SyncRotate, writing, handing, logging
<1>2. sync.reqs # <<>>
    BY <1>1 DEF Base, SyncOK
<1> QED BY <1>1, <1>2, InvPopEmpty

\* doSync goes on with the requests it has, and holds the buffers it held.
LEMMA InvOn ==
    ASSUME WriterInv, UNCHANGED <<scene, calls, call, syncReq, made, syncReqs, log, saved, free>>,
           DOMAIN sync' = SyncFields, sync'.reqs = sync.reqs,
           \/ sync.pc = "idle" /\ sync'.pc = "pop"
           \/ IsReq("block") /\ sync'.pc = "write"
    PROVE  WriterInv'
<1>1. Base /\ free \in Nat
    BY SyncFacts DEF WriterInv
<1>2. Base'
    BY <1>1, BaseSyncOn
<1>3. Pending' = Pending /\ FirstHeld' = FirstHeld
    BY DEF Pending, FirstHeld, IsReq
<1> QED BY <1>2, <1>3, InvSame

\* The executor starts doSync.
LEMMA InvSyncTake ==
    ASSUME WriterInv, SyncTake, UNCHANGED scene
    PROVE  WriterInv'
<1>1. /\ sync.pc = "idle" /\ sync' = [sync EXCEPT !.pc = "pop"]
      /\ UNCHANGED <<calls, call, syncReq, made, syncReqs, log, saved, free>>
    BY DEF SyncTake, writing, logging
<1>2. DOMAIN sync = SyncFields
    BY SyncFacts DEF WriterInv
<1>3. DOMAIN sync' = SyncFields /\ sync'.reqs = sync.reqs /\ sync'.pc = "pop"
    BY <1>1, <1>2 DEF SyncFields
<1> QED BY <1>1, <1>3, InvOn

\* The file is there: doSync goes on to write.
LEMMA InvToWrite ==
    ASSUME WriterInv, IsReq("block"), NEW n, sync' = [sync EXCEPT !.pc = "write", !.seek = n],
           UNCHANGED <<scene, calls, call, syncReq, made, syncReqs, log, saved, free>>
    PROVE  WriterInv'
<1>1. DOMAIN sync = SyncFields
    BY SyncFacts DEF WriterInv
<1>2. DOMAIN sync' = SyncFields /\ sync'.reqs = sync.reqs /\ sync'.pc = "write"
    BY <1>1 DEF SyncFields
<1> QED BY <1>2, InvOn

\* The file is open already.
LEMMA InvSyncOpened ==
    ASSUME WriterInv, SyncOpened, UNCHANGED scene
    PROVE  WriterInv'
    BY InvToWrite DEF SyncOpened, writing, handing, logging

\* The last file is continued.
LEMMA InvSyncReopen ==
    ASSUME WriterInv, SyncReopen, UNCHANGED scene
    PROVE  WriterInv'
    BY InvToWrite DEF SyncReopen, writing, handing, logging

\* A file is created, and the request abandoned if there is no room for it.
LEMMA InvSyncCreate ==
    ASSUME WriterInv, SyncCreate, UNCHANGED scene
    PROVE  WriterInv'
<1>1. IsReq("block") /\ UNCHANGED <<calls, call, syncReq, made, syncReqs, saved>>
    BY DEF SyncCreate, writing, handing
<1>2. CASE Len(files) < scene.ring
    <2>1. sync' = [sync EXCEPT !.pc = "write", !.seek = -1] /\ UNCHANGED <<free, log>>
        BY <1>2 DEF SyncCreate
    <2> QED BY <1>1, <2>1, InvToWrite
<1>3. CASE ~(Len(files) < scene.ring)
    <2>1. Abandon("dropped")
        BY <1>3 DEF SyncCreate
    <2> QED BY <1>1, <2>1, InvAbandon
<1> QED BY <1>2, <1>3

\* The file cannot be opened.
LEMMA InvSyncOpenFails ==
    ASSUME WriterInv, SyncOpenFails, UNCHANGED scene
    PROVE  WriterInv'
<1>1. IsReq("block") /\ Abandon("ioerror") /\ UNCHANGED <<calls, call, syncReq, made, syncReqs, saved>>
    BY DEF SyncOpenFails, writing, handing
<1> QED BY <1>1, InvAbandon

\* doSync takes all requests that wait.
LEMMA InvSyncPopAll ==
    ASSUME WriterInv, SyncPopAll, UNCHANGED scene
    PROVE  WriterInv'
<1>1. /\ Base /\ sync.pc = "pop" /\ sync' = [sync EXCEPT !.pc = "next", !.reqs = syncReqs] /\ syncReqs' = <<>>
      /\ UNCHANGED <<calls, call, syncReq, made, log, saved, free>>
    BY DEF WriterInv, SyncPopAll, writing, logging
<1>2. /\ DOMAIN sync = SyncFields /\ syncReqs \in Seq(Request) /\ syncReq \in Request /\ LogType(log)
      /\ saved \in 0..Len(log) /\ free \in Nat /\ sync.reqs = <<>>
    BY <1>1, SyncFacts DEF Base, SyncOK
<1>3. DOMAIN sync' = SyncFields /\ sync'.reqs = syncReqs /\ sync'.pc = "next"
    BY <1>1, <1>2 DEF SyncFields
<1>4. SyncOK' /\ syncReqs' \in Seq(Request)
    BY <1>1, <1>3 DEF SyncOK
<1>5. Base'
    BY <1>1, <1>2, <1>3, <1>4, BaseSync
<1>6. <<>> \o syncReqs = syncReqs /\ syncReqs \o <<>> = syncReqs
    BY <1>2
<1>7. Pending' = Pending
    BY <1>1, <1>2, <1>3, <1>6 DEF Pending
<1>8. FirstHeld' = FirstHeld
    BY <1>1, <1>3 DEF FirstHeld
<1> QED BY <1>1, <1>5, <1>7, <1>8, InvSame

\* doSync has no request left.
LEMMA InvSyncEnd ==
    ASSUME WriterInv, SyncEnd, UNCHANGED scene
    PROVE  WriterInv'
<1>1. /\ Base /\ sync.pc = "next" /\ sync.reqs = <<>> /\ sync' = Resting
      /\ UNCHANGED <<calls, call, syncReq, made, syncReqs, log, saved, free>>
    BY DEF WriterInv, SyncEnd, writing, handing, logging
<1>2. DOMAIN sync' = SyncFields /\ sync'.reqs = <<>> /\ sync'.pc = "idle" /\ sync'.reqs \in Seq(Request)
    BY <1>1 DEF Resting, SyncFields
<1>3. SyncOK'
    BY <1>2 DEF SyncOK
<1>4. Base'
    BY <1>1, <1>2, <1>3, SyncFacts, BaseSync
<1>5. Pending' = Pending /\ FirstHeld' = FirstHeld
    BY <1>1, <1>2 DEF Pending, FirstHeld
<1> QED BY <1>1, <1>4, <1>5, InvSame

\* The buffer of the first request has been written and is back.
LEMMA InvWritten ==
    ASSUME WriterInv, sync.pc = "write", sync'.pc = "index", DOMAIN sync' = SyncFields, sync'.reqs = sync.reqs,
           free' = free + 1, UNCHANGED <<scene, calls, call, syncReq, made, syncReqs, log, saved>>
    PROVE  WriterInv'
<1>1. Base /\ free \in Nat
    BY SyncFacts DEF WriterInv
<1>2. Base'
    BY <1>1, BaseSyncOn
<1>3. Pending' = Pending /\ FirstHeld' = 2 /\ FirstHeld = 1
    BY DEF Pending, FirstHeld
<1>4. Len(Pending) \in Nat \ {0} /\ Pending[1].kind = "block"
    <2>1. sync.reqs # <<>> /\ sync.reqs[1].kind = "block"
        BY <1>1 DEF Base, SyncOK
    <2> QED BY <1>1, <2>1, PendingFacts
<1>5. Cardinality(Held(Pending, 1)) = Cardinality(Held(Pending, 2)) + 1 /\ Cardinality(Held(Pending, 2)) \in Nat
    BY <1>4, HeldFirst, HeldFinite
<1>6. free + Cardinality(Held(Pending, 1)) = scene.buffers /\ InLine(log, Pending, made)
    BY <1>3 DEF WriterInv
<1>7. free' + Cardinality(Held(Pending, 2)) = scene.buffers
    <2>1. free' = free + 1
        OBVIOUS
    <2> QED BY ONLY <2>1, <1>1, <1>5, <1>6
<1> QED BY <1>2, <1>3, <1>6, <1>7 DEF WriterInv

\* The buffer is written, all of it or a part.
LEMMA InvSyncWrite ==
    ASSUME WriterInv, SyncWrite, UNCHANGED scene
    PROVE  WriterInv'
<1>1. /\ sync.pc = "write" /\ free' = free + 1
      /\ UNCHANGED <<calls, call, syncReq, made, syncReqs, log, saved>>
    BY DEF SyncWrite, writing, handing, logging
<1>a. \E a, b, c : sync' = [sync EXCEPT !.pc = "index", !.offset = a, !.size = b, !.err = c]
    <2> DEFINE pos == IF sync.seek >= 0 THEN sync.seek ELSE fileCtx.off
    <2>1. PICK n \in 0..Len(Req.data) : sync' = [sync EXCEPT !.pc = "index", !.offset = pos, !.size = n, !.err = n < Len(Req.data)]
        BY DEF SyncWrite
    <2> HIDE DEF pos
    <2> QED BY <2>1
<1>2. DOMAIN sync = SyncFields
    BY SyncFacts DEF WriterInv
<1>3. DOMAIN sync' = SyncFields /\ sync'.reqs = sync.reqs /\ sync'.pc = "index"
    BY <1>a, <1>2 DEF SyncFields
<1> QED BY <1>1, <1>3, InvWritten

\* The seek before the write fails.
LEMMA InvSyncSeekFails ==
    ASSUME WriterInv, SyncSeekFails, UNCHANGED scene
    PROVE  WriterInv'
<1>1. /\ sync.pc = "write" /\ free' = free + 1
      /\ UNCHANGED <<calls, call, syncReq, made, syncReqs, log, saved>>
      /\ sync' = [sync EXCEPT !.pc = "index", !.offset = sync.seek, !.size = 0, !.err = TRUE]
    BY DEF SyncSeekFails, writing, handing, logging
<1>2. DOMAIN sync = SyncFields
    BY SyncFacts DEF WriterInv
<1>3. DOMAIN sync' = SyncFields /\ sync'.reqs = sync.reqs /\ sync'.pc = "index"
    BY <1>1, <1>2 DEF SyncFields
<1> QED BY <1>1, <1>3, InvWritten

\* doSync adds the index of a block it has written.
LEMMA InvSyncAddIndex ==
    ASSUME WriterInv, SyncAddIndex, UNCHANGED scene
    PROVE  WriterInv'
<1> DEFINE x == Head(Req.indexes)
           r == [Req EXCEPT !.indexes = Tail(@)]
           c == [sync.reqs EXCEPT ![1] = r]
           p == Pending
           q == Pending'
<1>1. /\ Base /\ sync.pc = "index" /\ Req.indexes # <<>>
      /\ UNCHANGED <<calls, call, syncReq, made, syncReqs, saved, free>>
      /\ log' = Append(log, Placed(x))
    BY DEF WriterInv, SyncAddIndex, writing, handing
<1>2. /\ sync.reqs \in Seq(Request) /\ syncReqs \in Seq(Request) /\ syncReq \in Request /\ LogType(log)
      /\ DOMAIN sync = SyncFields /\ sync.reqs # <<>> /\ sync.reqs[1].kind = "block"
      /\ Req = sync.reqs[1] /\ Req \in Request /\ Req.indexes \in Seq(Ix)
      /\ saved \in 0..Len(log) /\ Len(log) \in Nat /\ free \in Nat
    BY <1>1, SyncFacts DEF Base, SyncOK
<1>3. PICK a, b : sync' = [sync EXCEPT !.reqs[1].indexes = Tail(@), !.offset = a, !.size = b]
    <2> DEFINE a == sync.offset + Placed(x).size
               b == sync.size - Placed(x).size
    <2>1. sync' = [sync EXCEPT !.reqs[1].indexes = Tail(@), !.offset = a, !.size = b]
        BY <1>2 DEF SyncAddIndex, SyncFields
    <2> HIDE DEF a, b
    <2> QED BY <2>1
<1>4. DOMAIN sync' = SyncFields /\ sync'.reqs = c /\ sync'.pc = "index"
    BY <1>1, <1>2, <1>3 DEF SyncFields
<1>5. r \in Request /\ r.kind = "block" /\ r.indexes = Tail(Req.indexes)
    <2>1. Tail(Req.indexes) \in Seq(Ix)
        BY <1>1, <1>2
    <2>2. r = [kind |-> "block", data |-> Req.data, indexes |-> Tail(Req.indexes)] /\ Req.data \in Seq(Unit)
        <3>1. Req = [kind |-> "block", data |-> Req.data, indexes |-> Req.indexes] /\ Req.data \in Seq(Unit)
            <4>1. Req.kind = "block" /\ Req \in [kind : Kinds, data : Seq(Unit), indexes : Seq(Ix)]
                BY <1>2 DEF Request
            <4> HIDE DEF Ix, Unit, Kinds
            <4> QED BY ONLY <4>1
        <3> DEFINE e == Req.indexes
                   d == Req.data
                   o == Req
        <3> HIDE DEF e, o, d
        <3>2. o = [kind |-> "block", data |-> d, indexes |-> e]
            BY ONLY <3>1 DEF e, o, d
        <3>3. \A u : [o EXCEPT !.indexes = u] = [kind |-> "block", data |-> d, indexes |-> u]
            BY ONLY <3>2
        <3>4. [o EXCEPT !.indexes = Tail(e)] = [kind |-> "block", data |-> d, indexes |-> Tail(e)]
            BY ONLY <3>3
        <3> QED BY ONLY <3>1, <3>4 DEF e, o, d
    <2> HIDE DEF r
    <2>3. "block" \in Kinds
        BY DEF Kinds
    <2> HIDE DEF Ix, Unit, Kinds
    <2> QED BY <2>1, <2>2, <2>3 DEF Request
<1> HIDE DEF r
<1>6. /\ c \in Seq(Request) /\ Len(c) = Len(sync.reqs) /\ c # <<>> /\ c[1] = r
      /\ \A i \in 2..Len(sync.reqs) : c[i] = sync.reqs[i]
    BY <1>2, <1>5
<1> HIDE DEF c
<1>7. x \in Ix /\ x = Req.indexes[1] /\ Placed(x).block = x.block /\ x.block \in Nat
    <2>1. x \in Ix /\ x = Req.indexes[1]
        BY <1>1, <1>2
    <2> HIDE DEF x
    <2> QED BY <2>1 DEF Placed, Ix
<1>8. /\ LogType(log') /\ Len(log') = Len(log) + 1 /\ \A k \in 1..Len(log) : log'[k] = log[k]
      /\ log'[Len(log) + 1] = Placed(x)
    <2>1. PICK S : log \in Seq(S) /\ \A y \in S : y.block \in Nat
        BY <1>2 DEF LogType
    <2> DEFINE z == Placed(x)
               T == S \union {z}
    <2>2. z.block \in Nat /\ log' = Append(log, z)
        BY <1>1, <1>7
    <2> HIDE DEF z
    <2>3. log \in Seq(T) /\ z \in T /\ \A y \in T : y.block \in Nat
        BY <2>1, <2>2
    <2> HIDE DEF T
    <2>4. /\ log' \in Seq(T) /\ Len(log') = Len(log) + 1 /\ \A k \in 1..Len(log) : log'[k] = log[k]
          /\ log'[Len(log) + 1] = z
        BY ONLY <2>2, <2>3
    <2>5. LogType(log')
        BY ONLY <2>3, <2>4 DEF LogType
    <2> QED BY ONLY <2>4, <2>5 DEF z
<1>9. Base'
    <2>1. SyncOK'
        BY <1>4, <1>5, <1>6 DEF SyncOK
    <2>2. saved' \in 0..Len(log')
        BY <1>1, <1>2, <1>8
    <2> QED BY <1>1, <1>2, <1>4, <1>6, <1>8, <2>1, <2>2, BaseSync
<1>10. p = Chain(sync.reqs, syncReqs, syncReq) /\ q = Chain(c, syncReqs, syncReq)
    BY <1>1, <1>4 DEF Pending, Chain
<1>11. InLine(log, p, made) /\ FirstHeld = 2 /\ FirstHeld' = 2
    BY <1>1, <1>4 DEF WriterInv, FirstHeld
<1> HIDE DEF p, q
<1>12. Refirst(p, q, Req, r)
    <2>1. Refirst(p, q, sync.reqs[1], c[1])
        BY ONLY <1>2, <1>6, <1>10, ChainFirst
    <2> QED BY <2>1, <1>2, <1>6
<1>13. /\ p \in Seq(Request) /\ q \in Seq(Request) /\ p # <<>> /\ Len(q) = Len(p)
       /\ \A i \in 2..Len(q) : q[i] = p[i]
       /\ p[1] = Req /\ q[1] = r
    BY ONLY <1>12 DEF Refirst
<1>14. p[1].indexes # <<>> /\ q[1].indexes = Tail(p[1].indexes)
    BY ONLY <1>1, <1>5, <1>13
<1>15. \A k \in 1..Len(log) : log'[k].block = log[k].block
    BY ONLY <1>8
<1>16. log'[Len(log) + 1].block = p[1].indexes[1].block
    BY ONLY <1>7, <1>8, <1>13
<1>17. LogType(log') /\ Len(log') = Len(log) + 1
    BY <1>8
<1>18. InLine(log', q, made)
    BY ONLY <1>2, <1>11, <1>13, <1>14, <1>15, <1>16, <1>17, InLineMove
<1>19. Held(q, 2) = Held(p, 2)
    BY <1>13, HeldSame
<1> QED BY <1>1, <1>9, <1>11, <1>18, <1>19 DEF WriterInv, p, q

\* The metadata manager saves an index.
LEMMA InvSaveIndex ==
    ASSUME WriterInv, SaveIndex, UNCHANGED scene
    PROVE  WriterInv'
<1>1. /\ Base /\ saved < Len(log) /\ saved' = saved + 1
      /\ UNCHANGED <<calls, call, syncReq, made, syncReqs, free, sync, log>>
    BY DEF WriterInv, SaveIndex, writing, handing
<1>2. /\ sync.reqs \in Seq(Request) /\ syncReqs \in Seq(Request) /\ DOMAIN sync = SyncFields
      /\ LogType(log) /\ Len(log) \in Nat /\ saved \in 0..Len(log) /\ free \in Nat
    BY <1>1, SyncFacts
<1>3. saved' \in 0..Len(log)
    BY <1>1, <1>2
<1>4. Base'
    BY <1>1, <1>3 DEF Base, WriterTypes, SyncOK, CallOK, Coming, At
<1>5. Pending' = Pending /\ FirstHeld' = FirstHeld
    BY <1>1 DEF Pending, FirstHeld
<1> QED BY <1>1, <1>4, <1>5, InvSame

\* The metadata manager saves the record of a file.
LEMMA InvSaveFile ==
    ASSUME WriterInv, SaveFile, UNCHANGED scene
    PROVE  WriterInv'
<1>1. Base /\ UNCHANGED <<calls, call, syncReq, made, syncReqs, free, sync, log, saved>>
    BY DEF WriterInv, SaveFile, writing, handing, logging
<1>2. Base'
    BY <1>1 DEF Base, WriterTypes, SyncOK, CallOK, Coming, At
<1>3. Pending' = Pending /\ FirstHeld' = FirstHeld
    BY <1>1 DEF Pending, FirstHeld
<1> QED BY <1>1, <1>2, <1>3, InvSame

\* Retention forgets the first indexes.
LEMMA InvExpire ==
    ASSUME WriterInv, Expire, UNCHANGED scene
    PROVE  WriterInv'
<1>1. Base /\ UNCHANGED <<calls, call, syncReq, syncReqs, free, sync>>
    BY DEF WriterInv, Expire, writing, handing
<1>2. PICK n \in 1..saved : /\ log' = SubSeq(log, n + 1, Len(log)) /\ saved' = saved - n
                            /\ made' = made \ {log[k].block : k \in 1..n}
    BY DEF Expire
<1>3. LogType(log) /\ Len(log) \in Nat /\ saved \in 0..Len(log) /\ Pending \in Seq(Request)
    BY <1>1, SyncFacts, PendingFacts
<1>4. n \in Nat \ {0} /\ n \in 0..Len(log) /\ n + 1 \in Nat \ {0} /\ n + 1 <= Len(log) + 1 /\ n <= saved
      /\ (Len(log) + 1) - (n + 1) = Len(log) - n
    BY ONLY <1>3, n \in 1..saved
<1>5. /\ LogType(log') /\ Len(log') = Len(log) - n
      /\ \A k \in 1..Len(log') : log'[k] = log[n + k]
    <2> DEFINE s == SubSeq(log, n + 1, Len(log))
    <2>1. /\ LogType(s) /\ Len(s) = (Len(log) + 1) - (n + 1)
          /\ \A k \in 1..((Len(log) + 1) - (n + 1)) : s[k] = log[((n + 1) + k) - 1]
        BY <1>3, <1>4, LogCut
    <2>2. log' = s
        BY <1>2
    <2> HIDE DEF s
    <2>3. LogType(log') /\ Len(log') = Len(log) - n
        BY ONLY <2>1, <2>2, <1>4
    <2>4. ASSUME NEW k \in 1..Len(log') PROVE log'[k] = log[n + k]
        <3>1. ((n + 1) + k) - 1 = n + k /\ k \in 1..((Len(log) + 1) - (n + 1))
            BY ONLY <1>3, <1>4, <2>3, k \in 1..Len(log')
        <3>2. s[k] = log[((n + 1) + k) - 1]
            BY ONLY <2>1, <3>1
        <3> QED BY ONLY <2>2, <3>1, <3>2
    <2> QED BY ONLY <2>3, <2>4
<1>6. saved' \in 0..Len(log')
    <2>1. saved' = saved - n /\ Len(log') = Len(log) - n /\ n <= saved /\ n \in Nat
        BY <1>2, <1>4, <1>5
    <2>2. saved \in 0..Len(log) /\ Len(log) \in Nat
        BY <1>3
    <2> QED BY ONLY <2>1, <2>2
<1>7. WriterTypes' /\ SyncOK'
    BY <1>1, <1>5, <1>6 DEF Base, WriterTypes, SyncOK, LogType
<1>8. made' \subseteq made
    BY <1>2
<1>9. CallOK'
    BY <1>1, <1>8 DEF Base, CallOK, Coming, At
<1>10. Base'
    BY <1>7, <1>9 DEF Base
<1>11. Pending' = Pending /\ FirstHeld' = FirstHeld
    BY <1>1 DEF Pending, FirstHeld
<1>12. made \subseteq Nat
    BY <1>1 DEF Base, CallOK
<1>13. InLine(log, Pending, made)
    BY DEF WriterInv
<1>14. InLine(log', Pending, made \ {log[k].block : k \in 1..n})
    BY ONLY <1>3, <1>4, <1>5, <1>12, <1>13, InLineForget
<1>15. InLine(log', Pending, made')
    BY <1>14, <1>2
<1> QED BY <1>1, <1>10, <1>11, <1>15 DEF WriterInv

\* The empty request alone.
LEMMA Alone ==
    /\ Chain(<<>>, <<>>, NoReq) \in Seq(Request) /\ Len(Chain(<<>>, <<>>, NoReq)) = 1
    /\ Chain(<<>>, <<>>, NoReq)[1] = NoReq
    /\ Cardinality(Held(Chain(<<>>, <<>>, NoReq), 1)) = 0
<1> DEFINE q == Chain(<<>>, <<>>, NoReq)
<1>1. NoReq \in Request /\ <<>> \in Seq(Request)
    BY DEF NoReq, Request, Kinds
<1>2. Chained(<<>>, <<>>, NoReq, q)
    BY <1>1, ChainFacts
<1> HIDE DEF q
<1>3. q \in Seq(Request) /\ Len(q) = 1 /\ q[1] = NoReq
    BY <1>2 DEF Chained
<1>4. Held(q, 1) = {}
    BY <1>3 DEF Held, NoReq
<1> QED BY <1>3, <1>4, FS_EmptySet DEF q

\* The process is killed and started again.
LEMMA InvCrash ==
    ASSUME WriterInv, Crash, UNCHANGED scene
    PROVE  WriterInv'
<1>1. /\ Base /\ log' = SubSeq(log, 1, saved) /\ made' = {log[k].block : k \in 1..saved}
      /\ call' = NoCall /\ syncReq' = NoReq /\ syncReqs' = <<>> /\ free' = scene.buffers /\ sync' = Resting
      /\ UNCHANGED <<calls, saved>>
    BY DEF WriterInv, Crash
<1>2. LogType(log) /\ Len(log) \in Nat /\ saved \in 0..Len(log) /\ Pending \in Seq(Request)
    BY <1>1, SyncFacts, PendingFacts
<1>3. /\ LogType(log') /\ Len(log') = saved /\ \A k \in 1..saved : log'[k] = log[k]
    <2> DEFINE s == SubSeq(log, 1, saved)
    <2>1. saved \in Nat /\ 1 <= saved + 1 /\ saved <= Len(log) /\ (saved + 1) - 1 = saved /\ 1 \in Nat \ {0}
        BY ONLY <1>2
    <2>2. /\ LogType(s) /\ Len(s) = (saved + 1) - 1
          /\ \A k \in 1..((saved + 1) - 1) : s[k] = log[(1 + k) - 1]
        BY ONLY <1>2, <2>1, LogCut
    <2>3. log' = s
        BY <1>1
    <2> HIDE DEF s
    <2>4. LogType(log') /\ Len(log') = saved
        BY ONLY <2>1, <2>2, <2>3
    <2>5. ASSUME NEW k \in 1..saved PROVE log'[k] = log[k]
        <3>1. (1 + k) - 1 = k /\ k \in 1..((saved + 1) - 1)
            BY ONLY <2>1, k \in 1..saved
        <3>2. s[k] = log[(1 + k) - 1]
            BY ONLY <2>2, <3>1
        <3> QED BY ONLY <2>3, <3>1, <3>2
    <2> QED BY ONLY <2>4, <2>5
<1>4. InLine(log, Pending, made)
    BY DEF WriterInv
<1>5. Pending' = Chain(<<>>, <<>>, NoReq) /\ FirstHeld' = 1
    BY <1>1 DEF Pending, Chain, FirstHeld, Resting
<1>6. /\ Pending' \in Seq(Request) /\ Len(Pending') = 1 /\ Pending'[1] = NoReq
      /\ Cardinality(Held(Pending', 1)) = 0
    BY <1>5, Alone
<1>7. Pending'[1].indexes = <<>>
    BY <1>6 DEF NoReq
<1>8. InLine(log', Pending', {log[k].block : k \in 1..saved})
    BY ONLY <1>2, <1>3, <1>4, <1>6, <1>7, InLineCut
<1>9. scene.buffers \in Nat /\ NoReq \in Request /\ NoCall \in Todo
    BY <1>1, BaseFacts
<1>10. WriterTypes'
    <2>1. DOMAIN sync' = SyncFields /\ sync'.reqs \in Seq(Request) /\ sync'.pc = "idle"
        BY <1>1 DEF Resting, SyncFields
    <2>2. saved' \in 0..Len(log')
        BY <1>1, <1>2, <1>3
    <2>3. syncReqs' \in Seq(Request) /\ syncReq' \in Request /\ call' \in Todo /\ free' \in Nat
        BY <1>1, <1>9
    <2>4. scene' \in Scenes /\ calls' \in Nat
        BY <1>1 DEF Base, WriterTypes
    <2> QED BY <1>3, <2>1, <2>2, <2>3, <2>4 DEF WriterTypes, LogType
<1>11. SyncOK'
    BY <1>1 DEF SyncOK, Resting
<1>12. CallOK'
    <2>1. \A b \in made' : b \in made
        <3>1. \A k \in 1..saved : log[k].block \in made
            <4> DEFINE f == FlowOf(log, Pending)  d == LensOf(log, Pending)
            <4>1. Described(log, Pending, f, d)
                BY <1>2, FlowFacts
            <4>2. Line(f, d, Len(Pending), made)
                BY <1>4 DEF InLine
            <4> HIDE DEF f, d
            <4>3. /\ Len(Pending) \in Nat /\ d[0] = Len(log) /\ \A k \in 1..Len(log) : f[0][k] = log[k].block
                BY ONLY <4>1 DEF Described
            <4>4. 0 \in 0..Len(Pending)
                BY ONLY <4>3
            <4>5. \A k \in 1..d[0] : f[0][k] \in made
                BY ONLY <4>2, <4>4 DEF Line
            <4>6. \A k \in 1..saved : k \in 1..Len(log)
                BY ONLY <1>2
            <4> QED BY ONLY <4>3, <4>5, <4>6
        <3> QED BY <1>1, <3>1
    <2>2. ~Coming' /\ ~(At("put"))' /\ syncReq' = NoReq
        BY <1>1 DEF Coming, Brings, NoCall, At
    <2>3. calls' = calls /\ \A b \in made : b \in Nat /\ b <= calls
        BY <1>1 DEF Base, CallOK
    <2> QED BY ONLY <2>1, <2>2, <2>3 DEF CallOK
<1>13. Base'
    BY <1>10, <1>11, <1>12 DEF Base
<1>14. free' + Cardinality(Held(Pending', 1)) = scene'.buffers
    BY <1>1, <1>6, <1>9
<1>15. InLine(log', Pending', made')
    BY <1>1, <1>8
<1> QED BY ONLY <1>5, <1>13, <1>14, <1>15 DEF WriterInv

\* The invariant holds at the beginning.
LEMMA InvInit ==
    ASSUME WInit
    PROVE  WriterInv
<1>1. /\ scene \in Scenes /\ calls = 0 /\ call = NoCall /\ syncReq = NoReq /\ syncReqs = <<>>
      /\ free = scene.buffers /\ sync = Resting /\ log = <<>> /\ saved = 0 /\ made = {}
    BY DEF WInit
<1>2. scene.buffers \in Nat
    BY <1>1, WriterAssumption
<1>3. NoReq \in Request /\ NoCall \in Todo
    BY DEF NoReq, Request, Kinds, NoCall, Todo, Todos, Index, Ix
<1>4. LogType(log) /\ Len(log) = 0
    <2>1. Len(<<>>) = 0
        OBVIOUS
    <2>2. LogType(<<>>)
        BY EmptyLog
    <2>3. log = <<>>
        BY <1>1
    <2> QED BY ONLY <2>1, <2>2, <2>3
<1>5. WriterTypes
    BY <1>1, <1>2, <1>3, <1>4 DEF WriterTypes, LogType, Resting, SyncFields
<1>6. SyncOK
    BY <1>1 DEF SyncOK, Resting
<1>7. CallOK
    BY <1>1 DEF CallOK, Coming, Brings, NoCall, At
<1>8. Pending = Chain(<<>>, <<>>, NoReq) /\ FirstHeld = 1
    BY <1>1 DEF Pending, Chain, FirstHeld, Resting
<1>9. /\ Pending \in Seq(Request) /\ Len(Pending) = 1 /\ Pending[1] = NoReq
      /\ Cardinality(Held(Pending, 1)) = 0
    BY <1>8, Alone
<1>10. InLine(log, Pending, made)
    <2> DEFINE f == FlowOf(log, Pending)  d == LensOf(log, Pending)
    <2>1. Described(log, Pending, f, d)
        BY <1>4, <1>9, FlowFacts
    <2> HIDE DEF f, d
    <2>2. d[0] = Len(log) /\ \A i \in 1..Len(Pending) : d[i] = Len(Pending[i].indexes)
        BY ONLY <2>1 DEF Described
    <2>3. \A i \in 0..1 : d[i] = 0
        <3>1. d[0] = 0
            BY <2>2, <1>4
        <3>2. d[1] = 0
            <4>1. d[1] = Len(NoReq.indexes)
                BY ONLY <2>2, <1>9
            <4>2. Len(NoReq.indexes) = 0
                BY DEF NoReq
            <4> QED BY <4>1, <4>2
        <3> QED BY <3>1, <3>2
    <2>4. \A i \in 0..1 : 1..d[i] = {}
        BY <2>3
    <2>5. made = {}
        BY <1>1
    <2>6. Line(f, d, 1, made)
        BY ONLY <2>4, <2>5 DEF Line
    <2> QED BY <2>6, <1>9 DEF InLine, f, d
<1>11. free + Cardinality(Held(Pending, FirstHeld)) = scene.buffers
    BY <1>1, <1>2, <1>8, <1>9
<1> QED BY <1>5, <1>6, <1>7, <1>10, <1>11 DEF WriterInv, Base

\* Every step keeps the invariant.
LEMMA InvNext ==
    ASSUME WriterInv, [WNext]_wvars
    PROVE  WriterInv'
<1>1. CASE UNCHANGED wvars
    <2>1. UNCHANGED <<scene, calls, call, syncReq, syncReqs, free, sync, log, saved, made>>
        BY <1>1 DEF wvars, writing, handing, logging
    <2>2. Base'
        BY <2>1 DEF WriterInv, Base, WriterTypes, SyncOK, CallOK, Coming, At
    <2>3. Pending' = Pending /\ FirstHeld' = FirstHeld
        BY <2>1 DEF Pending, FirstHeld
    <2> QED BY <2>1, <2>2, <2>3, InvSame
<1>2. CASE WNext
    <2>1. UNCHANGED scene
        BY <1>2 DEF WNext
    <2>2. CASE Calls
        BY <2>1, <2>2, InvCalls
    <2>3. CASE Calling
        BY <2>1, <2>3, InvStepSync, InvStepTry, InvStepPut, InvStepIndex, InvStepClose DEF Calling
    <2>4. CASE DoSync
        BY <2>1, <2>4, InvSyncTake, InvSyncPopAll, InvSyncEnd, InvSyncIndex, InvSyncClose, InvSyncOpened,
           InvSyncReopen, InvSyncCreate, InvSyncOpenFails, InvSyncWrite, InvSyncSeekFails, InvSyncAddIndex,
           InvSyncRotate DEF DoSync
    <2>5. CASE SaveIndex \/ SaveFile \/ Expire \/ Crash
        BY <2>1, <2>5, InvSaveIndex, InvSaveFile, InvExpire, InvCrash
    <2> QED BY <1>2, <2>2, <2>3, <2>4, <2>5 DEF WNext
<1> QED BY <1>1, <1>2

\* What the invariant says.
LEMMA InvMeans ==
    ASSUME WriterInv
    PROVE  NothingLost /\ BuffersConserved
<1>1. LogType(log) /\ Pending \in Seq(Request) /\ Len(Pending) \in Nat
    BY SyncFacts, PendingFacts DEF WriterInv
<1>2. NothingLost
    BY <1>1, LostOrInLine DEF WriterInv
<1>3. Holders = Held(Pending, FirstHeld)
    <2>1. DOMAIN Pending = 1..Len(Pending)
        BY <1>1
    <2>2. CASE sync.pc = "index"
        <3>1. FirstHeld = 2
            BY <2>2 DEF FirstHeld
        <3>2. \A i \in 1..Len(Pending) : ~(i = 1) <=> i \in 2..Len(Pending)
            BY <1>1
        <3>3. \A i \in 2..Len(Pending) : i \in 1..Len(Pending)
            BY <1>1
        <3> QED BY ONLY <2>1, <2>2, <3>1, <3>2, <3>3 DEF Holders, Held
    <2>3. CASE sync.pc # "index"
        <3>1. FirstHeld = 1
            BY <2>3 DEF FirstHeld
        <3> QED BY ONLY <2>1, <2>3, <3>1 DEF Holders, Held
    <2> QED BY <2>2, <2>3
<1> QED BY <1>2, <1>3 DEF WriterInv, BuffersConserved

\* Every block that got an index, stored, dropped or failed, is in exactly one
\* place between Write and AddIndex, and indexes are added in the order of the
\* calls (channel.go: writeBlock, dropBlock, sync, doSync), also when syncReqs
\* is full, a file operation fails or the process dies.
THEOREM NothingIsLost == WSpec => []NothingLost
<1>1. WInit => WriterInv
    BY InvInit
<1>2. WriterInv /\ [WNext]_wvars => WriterInv'
    BY InvNext
<1>3. WriterInv => NothingLost
    BY InvMeans
<1> QED BY <1>1, <1>2, <1>3, PTL DEF WSpec

\* A write buffer is in the pool or in one request that has not been written
\* (channel.go: writeBlock takes it, doSync gives it back on every path).
THEOREM BuffersAreConserved == WSpec => []BuffersConserved
<1>1. WInit => WriterInv
    BY InvInit
<1>2. WriterInv /\ [WNext]_wvars => WriterInv'
    BY InvNext
<1>3. WriterInv => BuffersConserved
    BY InvMeans
<1> QED BY <1>1, <1>2, <1>3, PTL DEF WSpec

-----------------------------------------------------------------------------
(* What makes the indexes of an orderly scene readable.                    *)

\* A file record, and the file that is open.
FileRec == [seq : Nat \ {0}, path : Nat \ {0}, size : Nat]
Context == [seq : Nat, path : Nat, off : Nat, size : Nat]

\* The types of what doSync works on.
StoreTypes ==
    /\ paths \in 0..MaxBlocks
    /\ disk \in [1..MaxBlocks -> Seq(Unit)]
    /\ files \in Seq(FileRec)
    /\ table \subseteq FileRec /\ IsFiniteSet(table)
    /\ fileCtx \in Context
    /\ sync.seek \in Int /\ sync.offset \in Nat /\ sync.size \in Nat

\* The file records are in order, each with a path of its own and not more bytes
\* than its file has; the paths that have not been used are empty.
FilesOK ==
    /\ \A i, j \in DOMAIN files : i < j => files[i].seq < files[j].seq /\ files[i].path # files[j].path
    /\ \A i \in DOMAIN files : /\ i <= files[i].seq /\ files[i].seq <= paths /\ files[i].path <= paths
                               /\ files[i].size <= Len(disk[files[i].path])
    /\ \A p \in 1..MaxBlocks : p > paths => disk[p] = <<>>

\* The table has the same files.
TableOK ==
    /\ \A r, s \in table : r.seq = s.seq => r = s
    /\ \A r \in table : \E i \in DOMAIN files : files[i].seq = r.seq /\ files[i].path = r.path
    /\ \A i \in DOMAIN files : \E r \in table : r.seq = files[i].seq
    /\ \A r \in table : r.size <= Len(disk[r.path])

\* The blocks of the indexes xs follow one another in the buffer data.
Laid(xs, data) ==
    \E pos \in [1..(Len(xs) + 1) -> 0..Len(data)] :
        /\ pos[1] = 0 /\ pos[Len(xs) + 1] = Len(data)
        /\ \A k \in 1..Len(xs) : /\ pos[k + 1] = pos[k] + xs[k].size
                                 /\ \A u \in 1..xs[k].size : data[pos[k] + u] = <<xs[k].block, u>>

\* The same for what has been written of them: size units of the file from off on.
LaidOn(xs, content, off, size) ==
    \E pos \in [1..(Len(xs) + 1) -> Int] :
        /\ pos[1] = 0
        /\ \A k \in 1..Len(xs) :
              /\ pos[k + 1] = pos[k] + xs[k].size
              /\ \A u \in 1..xs[k].size : pos[k] + u \in 1..size => content[off + pos[k] + u] = <<xs[k].block, u>>

\* doSync writes a request, or adds its indexes.
Busy == sync.pc \in {"write", "index"}

\* The file that is open is the last one, and where doSync is in it.
CtxOK ==
    /\ Busy => fileCtx # NoCtx
    /\ fileCtx # NoCtx =>
          /\ files # <<>> /\ fileCtx.seq = Last(files).seq /\ fileCtx.path = Last(files).path
          /\ fileCtx.size = Len(disk[fileCtx.path]) /\ fileCtx.off <= fileCtx.size
    /\ sync.pc = "write" => sync.seek <= Len(disk[fileCtx.path])
    /\ sync.pc = "index" => /\ sync.offset + sync.size = fileCtx.off
                            /\ LaidOn(Req.indexes, disk[fileCtx.path], sync.offset, sync.size)

\* Up to where the last file is in use.
Used ==
    IF fileCtx = NoCtx THEN Last(files).size
    ELSE IF sync.pc = "index" THEN sync.offset
    ELSE IF sync.pc = "write" /\ sync.seek >= 0 THEN sync.seek
    ELSE fileCtx.off

\* Index x gives the data of its block.
Stored(x, content) ==
    /\ x.off + x.size <= Len(content)
    /\ \A u \in 1..x.size : content[x.off + u] = <<x.block, u>>

\* Every index has its file, in order, and its data; in the last file the data is in
\* the used part.
LogOK ==
    /\ \A k \in DOMAIN log :
          /\ log[k].block \in Nat /\ log[k].file \in Nat \ {0} /\ log[k].off \in Nat /\ log[k].size \in Nat
          /\ \E i \in DOMAIN files : files[i].seq = log[k].file /\ Stored(log[k], disk[files[i].path])
          /\ log[k].file = Last(files).seq => log[k].off + log[k].size <= Used
    /\ \A k, l \in DOMAIN log : k < l => log[k].file <= log[l].file

\* All that is about the files and the indexes.
Store == StoreTypes /\ FilesOK /\ TableOK /\ CtxOK /\ LogOK

\* A request that doSync has not begun: its buffer holds its blocks, and no file
\* has been made for them.
Fresh(r) ==
    /\ r.kind # "index"
    /\ r.kind = "block" => /\ r.indexes # <<>> /\ Laid(r.indexes, r.data)
                           /\ \A k \in DOMAIN r.indexes : paths < r.indexes[k].block

\* The request doSync is about to write.
Begun(r) == r.indexes # <<>> /\ Laid(r.indexes, r.data) /\ \A k \in DOMAIN r.indexes : r.indexes[k].block # 0

\* The requests.
ReqsOK ==
    /\ Fresh(syncReq)
    /\ \A i \in DOMAIN syncReqs : Fresh(syncReqs[i])
    /\ \A i \in DOMAIN sync.reqs : Fresh(sync.reqs[i]) \/ (i = 1 /\ Busy)
    /\ sync.pc = "write" => Begun(Req)

\* No call brings an index without data, and there are not more files than blocks.
CallsOK ==
    /\ calls <= scene.blocks
    /\ call.todo \notin Indexing
    /\ paths <= calls /\ (Coming => paths < calls)

\* What holds in an orderly scene.
Tidy == Store /\ ReqsOK /\ CallsOK

\* The invariant.
ReadInv == WriterInv /\ (Orderly => Tidy)

-----------------------------------------------------------------------------
(* Sequences, buffers and files.                                           *)

\* The last of a sequence.
LEMMA LastFacts ==
    ASSUME NEW S, NEW s \in Seq(S), s # <<>>
    PROVE  /\ Last(s) = s[Len(s)] /\ Last(s) \in S /\ Len(s) \in DOMAIN s /\ Len(s) \in Nat \ {0}
           /\ DOMAIN s = 1..Len(s)
    BY DEF Last

\* The numbers of a sequence that ascends from 1 on are not smaller than their places.
LEMMA AscendingAtLeast ==
    ASSUME NEW n \in Nat, NEW q \in [1..n -> Nat \ {0}], \A i, j \in 1..n : i < j => q[i] < q[j]
    PROVE  \A i \in 1..n : i <= q[i]
<1> DEFINE Good == {m \in Nat : m \in 1..n => m <= q[m]}
<1>1. 0 \in Good
    OBVIOUS
<1>2. ASSUME NEW m \in Good PROVE m + 1 \in Good
    <2> SUFFICES ASSUME m + 1 \in 1..n PROVE m + 1 <= q[m + 1]
        OBVIOUS
    <2>1. q[m + 1] \in Nat \ {0} /\ m \in Nat
        OBVIOUS
    <2>2. CASE m = 0
        BY <2>1, <2>2
    <2>3. CASE m # 0
        <3>1. m \in 1..n /\ m < m + 1
            BY <2>1, <2>3
        <3>2. m <= q[m] /\ q[m] < q[m + 1] /\ q[m] \in Nat
            BY <3>1
        <3> QED BY ONLY <2>1, <3>2
    <2> QED BY <2>2, <2>3
<1>3. Good = Nat
    <2> HIDE DEF Good
    <2>1. Good \subseteq Nat
        BY DEF Good
    <2> QED BY ONLY <1>1, <1>2, <2>1, SetInduction
<1> QED BY <1>3

\* Two sequences one after the other.
LEMMA JoinFacts ==
    ASSUME NEW S, NEW a \in Seq(S), NEW b \in Seq(S)
    PROVE  /\ a \o b \in Seq(S) /\ Len(a) \in Nat /\ Len(b) \in Nat /\ Len(a \o b) = Len(a) + Len(b)
           /\ \A i \in 1..Len(a) : (a \o b)[i] = a[i]
           /\ \A j \in 1..Len(b) : (a \o b)[Len(a) + j] = b[j]
<1>1. a \o b \in Seq(S) /\ Len(a) \in Nat /\ Len(b) \in Nat /\ Len(a \o b) = Len(a) + Len(b)
    OBVIOUS
<1>2. \A i \in 1..Len(a) : (a \o b)[i] = a[i]
    OBVIOUS
<1>3. \A j \in 1..Len(b) : (a \o b)[Len(a) + j] = b[j]
    OBVIOUS
<1> QED BY <1>1, <1>2, <1>3

\* The front of a sequence.
LEMMA FrontFacts ==
    ASSUME NEW S, NEW s \in Seq(S), NEW n \in 0..Len(s)
    PROVE  /\ SubSeq(s, 1, n) \in Seq(S) /\ Len(SubSeq(s, 1, n)) = n
           /\ \A i \in 1..n : SubSeq(s, 1, n)[i] = s[i]
<1>1. n \in Nat /\ Len(s) \in Nat
    OBVIOUS
<1>2. \A i \in 1..n : i \in 1..Len(s) /\ s[i] \in S
    BY <1>1
<1>3. SubSeq(s, 1, n) \in Seq(S) /\ Len(SubSeq(s, 1, n)) = n
    BY <1>1, <1>2
<1>4. \A i \in 1..n : SubSeq(s, 1, n)[i] = s[i]
    BY <1>1, <1>2
<1> QED BY <1>3, <1>4

\* What is left of a sequence behind its first n.
LEMMA BackFacts ==
    ASSUME NEW S, NEW s \in Seq(S), NEW n \in 0..Len(s)
    PROVE  /\ SubSeq(s, n + 1, Len(s)) \in Seq(S) /\ Len(SubSeq(s, n + 1, Len(s))) = Len(s) - n
           /\ \A i \in 1..(Len(s) - n) : SubSeq(s, n + 1, Len(s))[i] = s[n + i]
<1> DEFINE x == n + 1
           y == Len(s)
<1>1. n \in Nat /\ y \in Nat /\ x \in Nat /\ x >= 1 /\ y - x + 1 = y - n /\ y - n \in Nat
    OBVIOUS
<1>2. \A i \in x..y : i \in 1..Len(s) /\ s[i] \in S
    BY <1>1
<1>3. SubSeq(s, x, y) \in Seq(S) /\ Len(SubSeq(s, x, y)) = y - n
    <2> HIDE DEF x, y
    <2>1. SubSeq(s, x, y) \in Seq(S)
        BY <1>1, <1>2
    <2>2. Len(SubSeq(s, x, y)) = y - x + 1
        BY <1>1, <1>2 DEF y
    <2> QED BY <1>1, <2>1, <2>2
<1>4. ASSUME NEW i \in 1..(y - n) PROVE SubSeq(s, x, y)[i] = s[n + i]
    <2>1. i \in 1..(y - x + 1) /\ x + i - 1 = n + i
        BY <1>1
    <2> HIDE DEF x, y
    <2>2. SubSeq(s, x, y)[i] = s[x + i - 1]
        BY <1>1, <2>1
    <2> QED BY <2>1, <2>2
<1> QED BY <1>3, <1>4

\* The content of a file after data was written at pos.
LEMMA OverwriteFacts ==
    ASSUME NEW c \in Seq(Unit), NEW d \in Seq(Unit), NEW pos \in 0..Len(c), NEW o, o = Overwrite(c, pos, d)
    PROVE  /\ o \in Seq(Unit) /\ Len(o) = Greater(Len(c), pos + Len(d))
           /\ Len(o) >= Len(c) /\ Len(o) >= pos + Len(d) /\ Len(o) \in Nat
           /\ \A i \in 1..pos : o[i] = c[i]
           /\ \A k \in 1..Len(d) : o[pos + k] = d[k]
<1> HIDE DEF Unit
<1> DEFINE a == SubSeq(c, 1, pos)
           n == pos + Len(d)
           m == IF n <= Len(c) THEN n ELSE Len(c)
           z == SubSeq(c, n + 1, Len(c))
           ad == a \o d
<1>1. a \in Seq(Unit) /\ Len(a) = pos /\ \A i \in 1..pos : a[i] = c[i]
    BY FrontFacts
<1>2. pos \in Nat /\ Len(d) \in Nat /\ Len(c) \in Nat /\ n \in Nat
    OBVIOUS
<1>3. z \in Seq(Unit) /\ Len(z) = IF n <= Len(c) THEN Len(c) - n ELSE 0
    <2>1. CASE n <= Len(c)
        <3>1. n \in 0..Len(c)
            BY <1>2, <2>1
        <3> HIDE DEF n
        <3> QED BY <2>1, <3>1, BackFacts
    <2>2. CASE n > Len(c)
        <3>1. z = <<>>
            BY <1>2, <2>2
        <3> QED BY <1>2, <2>2, <3>1
    <2> QED BY <1>2, <2>1, <2>2
<1> HIDE DEF a, z, n
<1>4. /\ ad \in Seq(Unit) /\ Len(ad) = pos + Len(d)
      /\ \A i \in 1..pos : ad[i] = a[i]
      /\ \A k \in 1..Len(d) : ad[pos + k] = d[k]
    <2>0. a \in Seq(Unit) /\ d \in Seq(Unit)
        BY <1>1
    <2>1. /\ ad \in Seq(Unit) /\ Len(ad) = Len(a) + Len(d)
          /\ \A i \in 1..Len(a) : ad[i] = a[i]
          /\ \A k \in 1..Len(d) : ad[Len(a) + k] = d[k]
        BY ONLY <2>0, JoinFacts
    <2> HIDE DEF ad
    <2> QED BY <1>1, <2>1
<1> HIDE DEF ad
<1>5. o = ad \o z
    BY DEF Overwrite, a, z, n, ad
<1>6. o \in Seq(Unit) /\ Len(o) = Len(ad) + Len(z) /\ \A i \in 1..Len(ad) : o[i] = ad[i]
    <2>1. ad \in Seq(Unit) /\ z \in Seq(Unit)
        BY <1>3, <1>4
    <2> QED BY ONLY <1>5, <2>1, JoinFacts
<1>7. n = pos + Len(d)
    BY DEF n
<1>8. Len(o) = Greater(Len(c), pos + Len(d)) /\ Len(o) >= Len(c) /\ Len(o) >= pos + Len(d) /\ Len(o) \in Nat
    <2> DEFINE lc == Len(c)
               ld == Len(d)
               lz == Len(z)
               lo == Len(o)
    <2>1. /\ lc \in Nat /\ ld \in Nat /\ pos \in Nat /\ n \in Nat /\ lo = pos + ld + lz /\ n = pos + ld
          /\ lz = IF n <= lc THEN lc - n ELSE 0
        BY <1>2, <1>3, <1>4, <1>6, <1>7
    <2> HIDE DEF lc, ld, lz, lo
    <2>2. lo = Greater(lc, pos + ld) /\ lo >= lc /\ lo >= pos + ld /\ lo \in Nat
        BY ONLY <2>1 DEF Greater
    <2> QED BY <2>2 DEF lc, ld, lo
<1>9. \A i \in 1..pos : i \in 1..Len(ad)
    BY ONLY <1>2, <1>4
<1>10. \A k \in 1..Len(d) : pos + k \in 1..Len(ad)
    BY ONLY <1>2, <1>4
<1> QED BY <1>1, <1>4, <1>6, <1>8, <1>9, <1>10

\* A new block is laid behind the others.
LEMMA LaidAppend ==
    ASSUME NEW xs \in Seq(Ix), NEW d \in Seq(Unit), Laid(xs, d), NEW x \in Ix
    PROVE  Laid(Append(xs, x), d \o Units(x.block, x.size))
<1> DEFINE n == Len(xs)
           l == Len(d)
           s == x.size
           b == x.block
           e == d \o Units(b, s)
           ys == Append(xs, x)
<1>1. b \in Nat /\ s \in Nat
    BY DEF Ix
<1>2. /\ ys \in Seq(Ix) /\ n \in Nat /\ Len(ys) = n + 1 /\ ys[n + 1] = x
      /\ \A i \in 1..n : ys[i] = xs[i] /\ xs[i].size \in Nat
    <2>1. \A i \in 1..n : xs[i] \in Ix
        OBVIOUS
    <2>2. \A i \in 1..n : xs[i].size \in Nat
        BY <2>1 DEF Ix
    <2> HIDE DEF Ix
    <2> QED BY <2>2
<1>3. /\ l \in Nat /\ Len(e) = l + s
      /\ \A i \in 1..l : e[i] = d[i]
      /\ \A k \in 1..s : e[l + k] = <<b, k>>
    <2>1. Units(b, s) \in Seq(Unit) /\ Len(Units(b, s)) = s /\ \A k \in 1..s : Units(b, s)[k] = <<b, k>>
        BY <1>1, UnitsFacts
    <2> HIDE DEF b, s, l
    <2> DEFINE w == Units(b, s)
    <2>2. w \in Seq(Unit) /\ Len(w) = s /\ \A k \in 1..s : w[k] = <<b, k>>
        BY <2>1
    <2> HIDE DEF w
    <2>3. /\ Len(d) \in Nat /\ Len(d \o w) = Len(d) + Len(w)
          /\ \A i \in 1..Len(d) : (d \o w)[i] = d[i]
          /\ \A j \in 1..Len(w) : (d \o w)[Len(d) + j] = w[j]
        <3>1. d \in Seq(Unit) /\ w \in Seq(Unit)
            BY <2>2
        <3> QED BY ONLY <3>1, JoinFacts
    <2>4. e = d \o w
        BY DEF w, e
    <2> HIDE DEF e
    <2> QED BY <2>2, <2>3, <2>4 DEF l
<1>4. PICK pos \in [1..(n + 1) -> 0..l] :
        /\ pos[1] = 0 /\ pos[n + 1] = l
        /\ \A k \in 1..n : /\ pos[k + 1] = pos[k] + xs[k].size
                           /\ \A u \in 1..xs[k].size : d[pos[k] + u] = <<xs[k].block, u>>
    BY DEF Laid
<1> DEFINE q == [k \in 1..((n + 1) + 1) |-> IF k = (n + 1) + 1 THEN l + s ELSE pos[k]]
<1> HIDE DEF n, l, s, b, e, ys
<1>5. /\ q \in [1..((n + 1) + 1) -> 0..(l + s)] /\ q[(n + 1) + 1] = l + s
      /\ \A k \in 1..(n + 1) : q[k] = pos[k] /\ pos[k] \in 0..l
    <2>1. \A k \in 1..(n + 1) : k # (n + 1) + 1 /\ k \in 1..((n + 1) + 1) /\ pos[k] \in 0..l
        BY <1>2
    <2>2. \A k \in 1..(n + 1) : q[k] = pos[k]
        BY <2>1
    <2>3. (n + 1) + 1 \in 1..((n + 1) + 1)
        BY <1>2
    <2>4. q[(n + 1) + 1] = l + s
        BY <2>3
    <2>5. \A k \in 1..((n + 1) + 1) : k = (n + 1) + 1 \/ k \in 1..(n + 1)
        BY <1>2
    <2>6. l + s \in 0..(l + s) /\ 0..l \subseteq 0..(l + s)
        BY <1>1, <1>3 DEF s
    <2> QED BY <2>1, <2>2, <2>4, <2>5, <2>6
<1> HIDE DEF q
<1>6. q[1] = 0 /\ 1 \in 1..(n + 1)
    BY <1>2, <1>4, <1>5
<1>7. ASSUME NEW k \in 1..(n + 1)
      PROVE  /\ q[k + 1] = q[k] + ys[k].size
             /\ \A u \in 1..ys[k].size : e[q[k] + u] = <<ys[k].block, u>>
    <2>1. CASE k = n + 1
        <3>1. q[k] = l /\ q[k + 1] = l + s /\ ys[k] = x
            BY <1>2, <1>4, <1>5, <2>1
        <3> QED BY <1>3, <3>1 DEF s, b
    <2>2. CASE k # n + 1
        <3>1. k \in 1..n /\ k + 1 \in 1..(n + 1)
            BY <1>2, <2>2
        <3>2. q[k] = pos[k] /\ q[k + 1] = pos[k + 1] /\ ys[k] = xs[k] /\ pos[k] \in 0..l /\ pos[k + 1] \in 0..l
            BY <1>2, <1>5, <3>1
        <3>3. pos[k + 1] = pos[k] + xs[k].size /\ xs[k].size \in Nat
            BY <1>2, <1>4, <3>1
        <3>4. \A u \in 1..xs[k].size : pos[k] + u \in 1..l
            BY ONLY <1>3, <3>2, <3>3
        <3>5. \A u \in 1..xs[k].size : e[pos[k] + u] = <<xs[k].block, u>>
            BY <1>3, <1>4, <3>1, <3>4
        <3> QED BY <3>2, <3>3, <3>5
    <2> QED BY <2>1, <2>2
<1>8. Laid(ys, e)
    <2>1. q \in [1..(Len(ys) + 1) -> 0..Len(e)] /\ q[Len(ys) + 1] = Len(e)
        BY <1>2, <1>3, <1>5
    <2>2. \A k \in 1..Len(ys) : /\ q[k + 1] = q[k] + ys[k].size
                                /\ \A u \in 1..ys[k].size : e[q[k] + u] = <<ys[k].block, u>>
        BY <1>2, <1>7
    <2> QED BY <1>6, <2>1, <2>2 DEF Laid
<1> QED BY <1>8 DEF e, ys, b, s

\* A request without blocks.
LEMMA LaidEmpty == Laid(<<>>, <<>>)
<1> DEFINE q == [k \in 1..(Len(<<>>) + 1) |-> 0]
<1>1. q \in [1..(Len(<<>>) + 1) -> 0..Len(<<>>)] /\ q[1] = 0 /\ q[Len(<<>>) + 1] = Len(<<>>)
    OBVIOUS
<1>2. 1..Len(<<>>) = {}
    OBVIOUS
<1> HIDE DEF q
<1> QED BY <1>1, <1>2 DEF Laid

\* The first n units of the buffer are written at off.
LEMMA LaidWritten ==
    ASSUME NEW xs \in Seq(Ix), NEW d \in Seq(Unit), Laid(xs, d), NEW n \in 0..Len(d), NEW off \in Nat,
           NEW c, \A k \in 1..n : c[off + k] = d[k]
    PROVE  LaidOn(xs, c, off, n)
<1> DEFINE m == Len(xs)
           l == Len(d)
<1>1. m \in Nat /\ l \in Nat /\ n \in Nat /\ n <= l
    OBVIOUS
<1>2. PICK pos \in [1..(m + 1) -> 0..l] :
        /\ pos[1] = 0 /\ pos[m + 1] = l
        /\ \A k \in 1..m : /\ pos[k + 1] = pos[k] + xs[k].size
                           /\ \A u \in 1..xs[k].size : d[pos[k] + u] = <<xs[k].block, u>>
    BY DEF Laid
<1>3. ASSUME NEW k \in 1..m, NEW u \in 1..xs[k].size, pos[k] + u \in 1..n
      PROVE  c[off + pos[k] + u] = <<xs[k].block, u>>
    <2>0. xs[k] \in Ix
        OBVIOUS
    <2>1. xs[k].size \in Nat
        BY <2>0 DEF Ix
    <2>2. pos[k] \in Nat /\ u \in Nat
        BY <1>1, <2>1
    <2>3. off + pos[k] + u = off + (pos[k] + u)
        BY <2>2
    <2>4. c[off + (pos[k] + u)] = d[pos[k] + u]
        BY <1>3
    <2>5. d[pos[k] + u] = <<xs[k].block, u>>
        BY <1>2
    <2> QED BY <2>3, <2>4, <2>5
<1>4. pos \in [1..(m + 1) -> Int]
    <2>1. 0..l \subseteq Int
        BY <1>1
    <2> HIDE DEF m, l
    <2> QED BY <2>1
<1> QED BY <1>2, <1>3, <1>4 DEF LaidOn

\* The first index gets its place, and the rest is laid behind it.
LEMMA LaidTail ==
    ASSUME NEW xs \in Seq(Ix), xs # <<>>, NEW c, NEW off \in Nat, NEW size \in Nat, LaidOn(xs, c, off, size),
           NEW s, s = Lesser(xs[1].size, size)
    PROVE  /\ s \in Nat /\ s <= size /\ s <= xs[1].size
           /\ \A u \in 1..s : c[off + u] = <<xs[1].block, u>>
           /\ LaidOn(Tail(xs), c, off + s, size - s)
<1> DEFINE n == Len(xs)
           ys == Tail(xs)
           z == xs[1].size
<1>1. n \in Nat /\ n > 0 /\ Len(ys) = n - 1 /\ \A k \in 1..(n - 1) : ys[k] = xs[k + 1]
    OBVIOUS
<1>2. \A k \in 1..n : xs[k].size \in Nat
    <2>1. \A k \in 1..n : xs[k] \in Ix
        OBVIOUS
    <2> QED BY <2>1 DEF Ix
<1>3. z \in Nat /\ 1 \in 1..n
    BY <1>1, <1>2
<1> HIDE DEF z
<1>4. s = Lesser(z, size)
    BY DEF z
<1>5. s \in Nat /\ s <= size /\ s <= z /\ (s = z \/ s = size)
    BY ONLY <1>3, <1>4, size \in Nat DEF Lesser
<1>6. PICK pos \in [1..(n + 1) -> Int] :
        /\ pos[1] = 0
        /\ \A k \in 1..n :
              /\ pos[k + 1] = pos[k] + xs[k].size
              /\ \A u \in 1..xs[k].size : pos[k] + u \in 1..size => c[off + pos[k] + u] = <<xs[k].block, u>>
    BY DEF LaidOn
<1> HIDE DEF n, ys
<1>7. ASSUME NEW u \in 1..s PROVE c[off + u] = <<xs[1].block, u>>
    <2>1. u \in 1..xs[1].size /\ pos[1] + u \in 1..size /\ off + pos[1] + u = off + u
        BY <1>3, <1>5, <1>6 DEF z
    <2> QED BY <1>3, <1>6, <2>1
<1> DEFINE q == [k \in 1..((n - 1) + 1) |-> pos[k + 1] - z]
<1>8. q \in [1..((n - 1) + 1) -> Int] /\ \A k \in 1..((n - 1) + 1) : q[k] = pos[k + 1] - z /\ pos[k + 1] \in Int
    <2>1. \A k \in 1..((n - 1) + 1) : k + 1 \in 1..(n + 1)
        BY <1>1
    <2>2. \A k \in 1..((n - 1) + 1) : pos[k + 1] \in Int
        BY <2>1
    <2> QED BY <1>3, <2>2
<1> HIDE DEF q
<1>9. q[1] = 0
    <2>1. 1 \in 1..((n - 1) + 1)
        BY <1>1
    <2>2. pos[1 + 1] = pos[1] + z
        BY <1>3, <1>6 DEF z
    <2> QED BY <1>3, <1>6, <1>8, <2>1, <2>2
<1>10. ASSUME NEW k \in 1..(n - 1)
       PROVE  /\ q[k + 1] = q[k] + ys[k].size
              /\ \A u \in 1..ys[k].size : q[k] + u \in 1..(size - s) => c[(off + s) + q[k] + u] = <<ys[k].block, u>>
    <2>1. /\ k \in 1..((n - 1) + 1) /\ k + 1 \in 1..((n - 1) + 1) /\ k + 1 \in 1..n /\ k \in Nat
        BY <1>1
    <2>2. pos[(k + 1) + 1] = pos[k + 1] + xs[k + 1].size
        BY <1>6, <2>1
    <2>3. ys[k] = xs[k + 1] /\ xs[k + 1].size \in Nat
        BY <1>1, <1>2, <2>1
    <2>4. q[k] = pos[k + 1] - z /\ q[k + 1] = pos[(k + 1) + 1] - z /\ pos[k + 1] \in Int /\ pos[(k + 1) + 1] \in Int
        BY <1>8, <2>1
    <2>5. q[k + 1] = q[k] + ys[k].size
        BY ONLY <1>3, <2>2, <2>3, <2>4
    <2>6. ASSUME NEW u \in 1..ys[k].size, q[k] + u \in 1..(size - s)
          PROVE  c[(off + s) + q[k] + u] = <<ys[k].block, u>>
        <3>1. u \in Nat
            BY <2>3
        <3>2. s # size
            BY <2>6
        <3>3. s = z
            BY <1>5, <3>2
        <3>4. pos[k + 1] + u \in 1..size
            <4> DEFINE a == q[k]
                       b == pos[k + 1]
            <4>1. a = b - z /\ b \in Int /\ z \in Nat /\ u \in Nat /\ size \in Nat /\ s = z
                BY ONLY <1>3, <2>4, <3>1, <3>3, size \in Nat
            <4>2. a + u \in 1..(size - s)
                BY ONLY <2>6
            <4> HIDE DEF a, b
            <4>3. b + u \in 1..size
                BY ONLY <4>1, <4>2
            <4> QED BY ONLY <4>3 DEF b
        <3>5. (off + s) + q[k] + u = off + pos[k + 1] + u
            BY ONLY <1>3, <2>4, <3>1, <3>3, off \in Nat
        <3>6. c[off + pos[k + 1] + u] = <<xs[k + 1].block, u>>
            BY <1>6, <2>1, <2>3, <2>6, <3>4
        <3> QED BY <2>3, <3>5, <3>6
    <2> QED BY <2>5, <2>6
<1>11. LaidOn(ys, c, off + s, size - s)
    <2>1. q \in [1..(Len(ys) + 1) -> Int]
        BY <1>1, <1>8
    <2>2. \A k \in 1..Len(ys) :
              /\ q[k + 1] = q[k] + ys[k].size
              /\ \A u \in 1..ys[k].size : q[k] + u \in 1..(size - s) => c[(off + s) + q[k] + u] = <<ys[k].block, u>>
        BY <1>1, <1>10
    <2> QED BY <1>9, <2>1, <2>2 DEF LaidOn
<1> QED BY <1>5, <1>7, <1>11 DEF z, ys

-----------------------------------------------------------------------------
(* The calls.                                                              *)

\* What an orderly scene is.
LEMMA OrderlyFacts ==
    ASSUME Base, Orderly
    PROVE  /\ scene.blocks \in Nat /\ scene.ring \in Nat /\ scene.blocks <= MaxBlocks /\ MaxBlocks \in Nat
           /\ scene.blocks <= scene.ring /\ scene.blocks <= scene.buffers
           /\ "lost" \notin scene.ops /\ \A size \in scene.sizes : size <= BufferSize
           /\ "open" \notin scene.faults /\ "seek" \notin scene.faults /\ "late" \notin scene.faults
           /\ "expireOpen" \notin scene.faults
           /\ BufferSize \in Nat /\ calls \in Nat
<1>1. scene \in Scenes /\ calls \in Nat
    BY DEF Base, WriterTypes
<1>2. scene.blocks \in 0..MaxBlocks /\ scene.ring \in Nat /\ MaxBlocks \in Nat /\ BufferSize \in Nat
    BY <1>1, WriterAssumption
<1> QED BY <1>1, <1>2 DEF Orderly

\* A step that does nothing to the files and the log.
LEMMA StoreSame ==
    ASSUME Store, UNCHANGED <<sync, storing, log>>
    PROVE  Store'
<1>1. UNCHANGED <<sync, fileCtx, files, table, disk, paths, log>>
    BY DEF storing
<1>2. StoreTypes' /\ FilesOK' /\ TableOK'
    BY <1>1 DEF Store, StoreTypes, FilesOK, TableOK
<1>3. CtxOK' /\ LogOK'
    BY <1>1 DEF Store, CtxOK, LogOK, Busy, Used, Req
<1> QED BY <1>2, <1>3 DEF Store

\* A step of a call.
LEMMA TidyCall ==
    ASSUME Tidy, UNCHANGED <<sync, storing, log>>, Fresh(syncReq'), CallsOK',
           \A i \in DOMAIN syncReqs' : Fresh(syncReqs'[i])
    PROVE  Tidy'
<1>1. Store'
    BY StoreSame DEF Tidy
<1>2. UNCHANGED <<sync, paths>>
    BY DEF storing
<1>3. ReqsOK'
    BY <1>2 DEF Tidy, ReqsOK, Fresh, Begun, Busy, Req
<1> QED BY <1>1, <1>3 DEF Tidy

\* The steps of a call that has no index without data to bring.
LEMMA TodoOrderly ==
    ASSUME NEW t \in Todos, t # <<>>, t \notin Indexing
    PROVE  /\ Tail(t) \in Todos /\ (Head(t) = "sync" => <<"try">> \o Tail(t) \in Todos)
           /\ Head(t) # "index" /\ Tail(t) \notin Indexing
           /\ (Head(t) = "sync" => <<"try">> \o Tail(t) \notin Indexing)
           /\ ~Brings(t) => ~Brings(Tail(t)) /\ (Head(t) = "sync" => ~Brings(<<"try">> \o Tail(t)))
<1>1. Tail(t) \in Todos /\ (Head(t) = "sync" => <<"try">> \o Tail(t) \in Todos)
    BY TodoSteps
<1>2. Head(t) # "index" /\ Tail(t) \notin Indexing
    BY TodoSteps
<1>3. Head(t) = "sync" => <<"try">> \o Tail(t) \notin Indexing
    BY TodoSteps
<1>4. ~Brings(t) => ~Brings(Tail(t)) /\ (Head(t) = "sync" => ~Brings(<<"try">> \o Tail(t)))
    BY TodoSteps
<1> QED BY ONLY <1>1, <1>2, <1>3, <1>4

\* A call begins: in an orderly scene none comes without data.
LEMMA TidyCalls ==
    ASSUME Base, Orderly, Tidy, Calls, UNCHANGED scene
    PROVE  Tidy'
<1>1. UNCHANGED <<syncReq, syncReqs, sync, log, storing>>
    BY DEF Calls, Write, WriteStreamLost, Sync, CloseFile, Begin, handing, logging
<1>2. calls \in Nat /\ paths \in Nat /\ paths <= calls /\ calls <= scene.blocks /\ scene.blocks \in Nat /\ paths' = paths
    <2>1. paths \in 0..MaxBlocks
        BY DEF Tidy, Store, StoreTypes
    <2> QED BY <1>1, <2>1, OrderlyFacts DEF Tidy, CallsOK, storing
<1>3. ASSUME NEW size \in scene.sizes, NEW now \in BOOLEAN, Write(size, now)
      PROVE  CallsOK'
    <2>1. ~(size > BufferSize)
        <3>1. size \in Nat /\ size <= BufferSize /\ BufferSize \in Nat
            BY BaseFacts, OrderlyFacts
        <3> QED BY <3>1
    <2>2. calls' = calls + 1 /\ calls + 1 <= scene.blocks
        BY <1>3 DEF Write
    <2>3. call'.todo \in {<<"put">>, <<"sync", "put">>, <<"put">> \o <<"sync">>, <<"sync", "put">> \o <<"sync">>}
        <3>1. \/ Begin(<<"put">>, Index(calls + 1, size, "data"))
              \/ Begin(<<"sync", "put">>, Index(calls + 1, size, "data"))
              \/ Begin(<<"put">> \o <<"sync">>, Index(calls + 1, size, "data"))
              \/ Begin(<<"sync", "put">> \o <<"sync">>, Index(calls + 1, size, "data"))
            BY <1>3, <2>1 DEF Write
        <3>2. \A w, x : Begin(w, x) => call'.todo = w
            BY DEF Begin
        <3> QED BY <3>1, <3>2
    <2>4. <<"put">> \o <<"sync">> = <<"put", "sync">> /\ <<"sync", "put">> \o <<"sync">> = <<"sync", "put", "sync">>
        BY Joined, Added
    <2>5. call'.todo \notin Indexing
        BY <2>3, <2>4 DEF Indexing
    <2> QED BY <1>2, <2>2, <2>5 DEF CallsOK
<1>4. ~WriteStreamLost
    BY OrderlyFacts DEF WriteStreamLost
<1>5. ASSUME Sync \/ CloseFile PROVE CallsOK'
    <2>1. calls' = calls /\ call'.todo \in {<<"sync">>, <<"sync", "close", "sync">>}
        BY <1>5 DEF Sync, CloseFile, Begin
    <2>2. call'.todo \notin Indexing /\ ~Coming'
        BY <2>1 DEF Indexing, Coming, Brings
    <2> QED BY <1>2, <2>1, <2>2 DEF CallsOK
<1>6. CallsOK'
    BY <1>3, <1>4, <1>5 DEF Calls
<1>7. Fresh(syncReq') /\ \A i \in DOMAIN syncReqs' : Fresh(syncReqs'[i])
    BY <1>1 DEF Tidy, ReqsOK
<1> QED BY <1>1, <1>6, <1>7, TidyCall

\* What a step leaves of a call.
LEMMA CallsThen ==
    ASSUME Base, CallsOK, UNCHANGED <<scene, calls, paths>>, NEW t \in Todos, Then(t), t \notin Indexing,
           Brings(t) => Coming
    PROVE  CallsOK'
<1>1. call'.todo = t
    BY ThenFacts
<1> QED BY <1>1 DEF CallsOK, Coming

\* An empty request is no work for doSync.
LEMMA FreshNone ==
    ASSUME NEW r, r.kind \in {"none", "close"}
    PROVE  Fresh(r)
    BY DEF Fresh

\* sync.
LEMMA TidyStepSync ==
    ASSUME Base, Tidy, StepSync, UNCHANGED scene
    PROVE  Tidy'
<1> DEFINE t == call.todo
<1>1. t \in Todos /\ t # <<>> /\ Head(t) = "sync" /\ Rest = Tail(t) /\ t \notin Indexing
    BY BaseFacts DEF StepSync, At, Rest, Tidy, CallsOK
<1>2. /\ Tail(t) \in Todos /\ <<"try">> \o Tail(t) \in Todos /\ <<>> \in Todos
      /\ Tail(t) \notin Indexing /\ <<"try">> \o Tail(t) \notin Indexing /\ <<>> \notin Indexing
      /\ (~Coming => ~Brings(Tail(t)) /\ ~Brings(<<"try">> \o Tail(t))) /\ ~Brings(<<>>)
    <2>1. <<>> \in Todos /\ <<>> \notin Indexing /\ ~Brings(<<>>)
        BY DEF Todos, Indexing, Brings
    <2> QED BY <1>1, <2>1, TodoOrderly DEF Coming
<1>3. UNCHANGED <<calls, sync, log, storing, paths>>
    BY DEF StepSync, logging, storing
<1>4. \/ syncReq' = NoReq /\ syncReqs' = syncReqs /\ Then(Tail(t))
      \/ syncReq' = syncReq /\ syncReqs' = syncReqs /\ Then(<<>>)
      \/ syncReq' = NoReq /\ syncReqs' = Append(syncReqs, syncReq) /\ Then(<<"try">> \o Tail(t))
    BY <1>1 DEF StepSync
<1> HIDE DEF t
<1>5. CallsOK'
    <2>0. CallsOK
        BY DEF Tidy
    <2>1. CASE Then(Tail(t))
        BY <1>2, <1>3, <2>0, <2>1, CallsThen
    <2>2. CASE Then(<<>>)
        BY <1>2, <1>3, <2>0, <2>2, CallsThen
    <2>3. CASE Then(<<"try">> \o Tail(t))
        BY <1>2, <1>3, <2>0, <2>3, CallsThen
    <2> QED BY <1>4, <2>1, <2>2, <2>3
<1>6. Fresh(syncReq')
    <2>1. Fresh(NoReq)
        BY FreshNone DEF NoReq
    <2> QED BY <1>4, <2>1 DEF Tidy, ReqsOK
<1>7. ASSUME NEW i \in DOMAIN syncReqs' PROVE Fresh(syncReqs'[i])
    <2>1. CASE syncReqs' = syncReqs
        BY <2>1 DEF Tidy, ReqsOK
    <2>2. CASE syncReqs' = Append(syncReqs, syncReq)
        <3>1. syncReqs \in Seq(Request) /\ syncReq \in Request
            BY SyncFacts
        <3>2. syncReqs'[i] = syncReq \/ (i \in DOMAIN syncReqs /\ syncReqs'[i] = syncReqs[i])
            BY ONLY <2>2, <3>1, i \in DOMAIN syncReqs'
        <3> QED BY <3>2 DEF Tidy, ReqsOK
    <2> QED BY <1>4, <2>1, <2>2
<1> QED BY <1>3, <1>5, <1>6, <1>7, TidyCall

\* The task of doSync is submitted.
LEMMA TidyStepTry ==
    ASSUME Base, Tidy, StepTry, UNCHANGED scene
    PROVE  Tidy'
<1> DEFINE t == call.todo
<1>1. t \in Todos /\ t # <<>> /\ Then(Tail(t)) /\ t \notin Indexing
    BY BaseFacts DEF StepTry, At, Rest, Tidy, CallsOK
<1>2. Tail(t) \in Todos /\ Tail(t) \notin Indexing /\ (Brings(Tail(t)) => Coming)
    BY <1>1, TodoOrderly DEF Coming
<1>3. UNCHANGED <<calls, sync, log, storing, paths, syncReq, syncReqs>>
    BY DEF StepTry, logging, storing
<1> HIDE DEF t
<1>4. CallsOK'
    <2>1. CallsOK
        BY DEF Tidy
    <2> QED BY <1>1, <1>2, <1>3, <2>1, CallsThen
<1>5. Fresh(syncReq') /\ \A i \in DOMAIN syncReqs' : Fresh(syncReqs'[i])
    BY <1>3 DEF Tidy, ReqsOK
<1> QED BY <1>3, <1>4, <1>5, TidyCall

\* A request to close the file.
LEMMA TidyStepClose ==
    ASSUME Base, Tidy, StepClose, UNCHANGED scene
    PROVE  Tidy'
<1> DEFINE t == call.todo
<1>1. t \in Todos /\ t # <<>> /\ Then(Tail(t)) /\ t \notin Indexing
    BY BaseFacts DEF StepClose, At, Rest, Tidy, CallsOK
<1>2. Tail(t) \in Todos /\ Tail(t) \notin Indexing /\ (Brings(Tail(t)) => Coming)
    BY <1>1, TodoOrderly DEF Coming
<1>3. UNCHANGED <<calls, sync, log, storing, paths, syncReqs>> /\ syncReq' = [NoReq EXCEPT !.kind = "close"]
    BY DEF StepClose, logging, storing, handing
<1> HIDE DEF t
<1>4. CallsOK'
    <2>1. CallsOK
        BY DEF Tidy
    <2> QED BY <1>1, <1>2, <1>3, <2>1, CallsThen
<1>5. Fresh(syncReq') /\ \A i \in DOMAIN syncReqs' : Fresh(syncReqs'[i])
    <2>1. syncReq'.kind = "close"
        BY <1>3 DEF NoReq
    <2>2. Fresh(syncReq')
        BY <2>1, FreshNone
    <2> QED BY <1>3, <2>2 DEF Tidy, ReqsOK
<1> QED BY <1>3, <1>4, <1>5, TidyCall

\* No call has an index without data to bring.
LEMMA NoStepIndex ==
    ASSUME Base, Tidy
    PROVE  ~StepIndex
<1>1. call.todo \in Todos /\ call.todo \notin Indexing
    BY BaseFacts DEF Tidy, CallsOK
<1>2. call.todo # <<>> => Head(call.todo) # "index"
    BY <1>1, TodoOrderly
<1> QED BY <1>2 DEF StepIndex, At

\* The blocks of the requests on their way are in order.
LEMMA PendingOrder ==
    ASSUME WriterInv
    PROVE  /\ \A i \in 1..Len(Pending) : \A k \in 1..Len(Pending[i].indexes) : Pending[i].indexes[k].block \in made
           /\ \A i, j \in 1..Len(Pending) : i < j =>
                 \A k \in 1..Len(Pending[i].indexes), l \in 1..Len(Pending[j].indexes) :
                     Pending[i].indexes[k].block < Pending[j].indexes[l].block
<1> DEFINE p == Pending
           n == Len(p)
           f == FlowOf(log, p)
           d == LensOf(log, p)
<1>0. Base
    BY DEF WriterInv
<1>1. p \in Seq(Request) /\ LogType(log) /\ n \in Nat
    BY <1>0, PendingFacts, SyncFacts
<1>2. Described(log, p, f, d)
    BY <1>1, FlowFacts
<1>3. Line(f, d, n, made)
    BY DEF WriterInv, InLine
<1> HIDE DEF f, d, p, n
<1>4. ASSUME NEW i \in 1..n
      PROVE  i \in 0..n /\ d[i] = Len(p[i].indexes) /\ \A k \in 1..Len(p[i].indexes) : f[i][k] = p[i].indexes[k].block
    <2>1. i \in 0..n
        BY ONLY <1>1, i \in 1..n
    <2>2. n = Len(p)
        BY DEF n
    <2> QED BY ONLY <1>2, <2>1, <2>2, i \in 1..n DEF Described
<1>5. \A i \in 1..n : \A k \in 1..Len(p[i].indexes) : p[i].indexes[k].block \in made
    BY ONLY <1>3, <1>4 DEF Line
<1>6. ASSUME NEW i \in 1..n, NEW j \in 1..n, i < j, NEW k \in 1..Len(p[i].indexes), NEW l \in 1..Len(p[j].indexes)
      PROVE  p[i].indexes[k].block < p[j].indexes[l].block
    <2>1. f[i][k] < f[j][l]
        <3>1. k \in 1..d[i] /\ l \in 1..d[j] /\ i \in 0..n /\ j \in 0..n
            BY <1>4, <1>6
        <3> QED BY ONLY <1>3, <3>1, i < j DEF Line
    <2> QED BY <1>4, <1>6, <2>1
<1> QED BY <1>5, <1>6 DEF p, n

\* Every request on its way is one doSync has not begun or the one it works on.
LEMMA PendingFresh ==
    ASSUME Base, ReqsOK, NEW i \in 1..Len(Pending)
    PROVE  Fresh(Pending[i]) \/ (i = 1 /\ Busy /\ Pending[i] = Req)
<1> DEFINE a == sync.reqs
           b == syncReqs
<1>1. a \in Seq(Request) /\ b \in Seq(Request) /\ syncReq \in Request /\ Pending = Chain(a, b, syncReq)
    BY SyncFacts, PendingFacts
<1>2. Chained(a, b, syncReq, Pending)
    BY <1>1, ChainFacts
<1>3. /\ Len(a) \in Nat /\ Len(b) \in Nat /\ Len(Pending) = Len(a) + Len(b) + 1
      /\ \A j \in 1..Len(a) : Pending[j] = a[j]
      /\ \A j \in 1..Len(b) : Pending[Len(a) + j] = b[j]
      /\ Pending[Len(a) + Len(b) + 1] = syncReq
    BY ONLY <1>2 DEF Chained
<1>4. CASE i <= Len(a)
    <2>1. i \in 1..Len(a) /\ i \in DOMAIN a
        BY <1>1, <1>3, <1>4
    <2>2. Pending[i] = a[i]
        BY <1>3, <2>1
    <2>3. Fresh(a[i]) \/ (i = 1 /\ Busy)
        BY <2>1 DEF ReqsOK
    <2>4. i = 1 => Pending[i] = Req
        BY <1>1, <2>1, <2>2, SyncFacts
    <2> QED BY <2>2, <2>3, <2>4
<1>5. CASE i > Len(a) /\ i <= Len(a) + Len(b)
    <2>1. i - Len(a) \in 1..Len(b) /\ i - Len(a) \in DOMAIN b /\ Len(a) + (i - Len(a)) = i
        BY <1>1, <1>3, <1>5
    <2>2. Pending[i] = b[i - Len(a)]
        BY <1>3, <2>1
    <2> QED BY <2>1, <2>2 DEF ReqsOK
<1>6. CASE i = Len(a) + Len(b) + 1
    BY <1>3, <1>6 DEF ReqsOK
<1>7. i <= Len(a) \/ (i > Len(a) /\ i <= Len(a) + Len(b)) \/ i = Len(a) + Len(b) + 1
    <2> HIDE DEF a, b
    <2> QED BY <1>3
<1> QED BY <1>4, <1>5, <1>6, <1>7

\* Fewer buffers are in use than calls have been made, when one is under way.
LEMMA FewHeld ==
    ASSUME WriterInv, Tidy, Coming
    PROVE  Cardinality(Held(Pending, FirstHeld)) < calls
<1> DEFINE p == Pending
           n == Len(p)
           H == Held(p, FirstHeld)
           g == [i \in H |-> p[i].indexes[1].block]
           T == 1..(calls - 1)
<1>0. Base /\ ReqsOK /\ paths \in Nat
    <2>1. paths \in 0..MaxBlocks /\ MaxBlocks \in Nat
        BY WriterAssumption DEF Tidy, Store, StoreTypes
    <2> QED BY <2>1 DEF WriterInv, Tidy
<1>1. p \in Seq(Request) /\ n \in Nat /\ FirstHeld \in {1, 2} /\ calls \in Nat
    BY <1>0, PendingFacts DEF Base, WriterTypes
<1>2. ASSUME NEW i \in H
      PROVE  i \in 1..n /\ 1 \in 1..Len(p[i].indexes) /\ p[i].indexes[1].block \in T
    <2>1. i \in FirstHeld..n /\ p[i].kind = "block"
        BY DEF Held
    <2>2. i \in 1..n /\ i \in Nat /\ FirstHeld <= i
        BY <1>1, <2>1
    <2>3. Fresh(p[i]) \/ (i = 1 /\ Busy /\ p[i] = Req)
        BY <1>0, <2>2, PendingFresh
    <2>4. p[i] \in Request
        BY <1>1, <2>2
    <2>5. p[i].indexes \in Seq(Ix)
        BY <2>4 DEF Request
    <2>6. p[i].indexes # <<>> /\ \A k \in DOMAIN p[i].indexes : p[i].indexes[k].block # 0
        <3>1. CASE Fresh(p[i])
            <4>1. \A k \in DOMAIN p[i].indexes : paths < p[i].indexes[k].block
                BY <2>1, <3>1 DEF Fresh
            <4> QED BY <1>0, <2>1, <3>1, <4>1 DEF Fresh
        <3>2. CASE i = 1 /\ Busy /\ p[i] = Req
            <4>1. FirstHeld # 2
                BY <2>2, <3>2
            <4>2. sync.pc = "write"
                BY <3>2, <4>1 DEF FirstHeld, Busy
            <4> QED BY <1>0, <3>2, <4>2 DEF ReqsOK, Begun
        <3> QED BY <2>3, <3>1, <3>2
    <2>7. 1 \in 1..Len(p[i].indexes) /\ 1 \in DOMAIN p[i].indexes
        BY <2>5, <2>6
    <2>8. p[i].indexes[1].block \in made
        BY <2>2, <2>7, PendingOrder
    <2>9. p[i].indexes[1].block \in Nat /\ p[i].indexes[1].block < calls
        BY <1>0, <2>8 DEF Base, CallOK
    <2>10. p[i].indexes[1].block # 0
        BY <2>6, <2>7
    <2> HIDE DEF p, H
    <2> QED BY <1>1, <2>2, <2>7, <2>9, <2>10
<1>3. \A i, j \in H : i < j => p[i].indexes[1].block < p[j].indexes[1].block
    BY <1>2, PendingOrder
<1>4. g \in Injection(H, T)
    <2>1. g \in [H -> T]
        BY <1>2
    <2>2. \A i, j \in H : i \in Int /\ j \in Int
        BY <1>1, <1>2
    <2>3. \A i \in H : p[i].indexes[1].block \in Int
        BY <1>1, <1>2
    <2> DEFINE v(i) == p[i].indexes[1].block
    <2>4. \A i, j \in H : i < j => v(i) < v(j)
        BY <1>3
    <2>5. \A i \in H : v(i) \in Int /\ g[i] = v(i)
        BY <2>3
    <2> HIDE DEF v, g, p
    <2>6. \A i, j \in H : g[i] = g[j] => i = j
        BY ONLY <2>2, <2>4, <2>5
    <2> QED BY <2>1, <2>6 DEF Injection, IsInjective
<1>5. IsFiniteSet(T) /\ Cardinality(T) = IF 1 <= calls - 1 THEN (calls - 1) - 1 + 1 ELSE 0
    <2>1. 1 \in Int /\ calls - 1 \in Int
        BY <1>1
    <2> QED BY ONLY <2>1, FS_Interval
<1> HIDE DEF g, H, T
<1>6. Cardinality(H) <= Cardinality(T) /\ Cardinality(H) \in Nat
    BY <1>4, <1>5, FS_Injection, FS_CardinalityType
<1>7. calls # 0
    <2>1. Coming => paths < calls
        BY DEF Tidy, CallsOK
    <2> QED BY <1>0, <1>1, <2>1
<1>8. Cardinality(H) < calls
    BY ONLY <1>1, <1>5, <1>6, <1>7
<1> QED BY <1>8 DEF H, p

\* The block goes into a buffer: there is one.
LEMMA TidyStepPut ==
    ASSUME WriterInv, Orderly, Tidy, StepPut, UNCHANGED scene
    PROVE  Tidy'
<1> DEFINE t == call.todo
<1>0. Base /\ At("put") /\ Coming /\ call.index.block = calls
    BY AtFacts DEF WriterInv, StepPut, Base, CallOK
<1>1. t \in Todos /\ t # <<>> /\ t \notin Indexing /\ Rest = Tail(t)
    BY <1>0, BaseFacts DEF At, Rest, Tidy, CallsOK
<1>2. Tail(t) \in Todos /\ Tail(t) \notin Indexing /\ (Brings(Tail(t)) => Coming)
    BY <1>1, TodoOrderly DEF Coming
<1>3. UNCHANGED <<calls, sync, log, storing, paths, syncReqs>>
    BY DEF StepPut, logging, storing, handing
<1> HIDE DEF t
<1>4. free > 0
    <2>1. Cardinality(Held(Pending, FirstHeld)) < calls /\ free + Cardinality(Held(Pending, FirstHeld)) = scene.buffers
        BY <1>0, FewHeld DEF WriterInv
    <2>2. Cardinality(Held(Pending, FirstHeld)) \in Nat /\ scene.buffers \in Nat /\ free \in Nat
        BY <1>0, PendingFacts, SyncFacts
    <2>3. calls <= scene.blocks /\ scene.blocks <= scene.buffers /\ calls \in Nat /\ scene.blocks \in Nat
        BY <1>0, OrderlyFacts DEF Tidy, CallsOK
    <2> QED BY ONLY <2>1, <2>2, <2>3
<1>5. PICK d, xs : /\ syncReq' = Filled(d, xs) /\ d \in Seq(Unit) /\ xs \in Seq(Ix) /\ Laid(xs, d) /\ Then(Tail(t))
                   /\ \A k \in DOMAIN xs : paths < xs[k].block
    <2>1. CASE syncReq.kind = "block"
        <3>1. syncReq' = Filled(syncReq.data, syncReq.indexes) /\ Then(Tail(t))
            BY <1>1, <2>1 DEF StepPut
        <3>2. syncReq \in Request /\ Fresh(syncReq)
            BY <1>0, SyncFacts DEF Tidy, ReqsOK
        <3>3. syncReq.data \in Seq(Unit) /\ syncReq.indexes \in Seq(Ix)
            BY <3>2 DEF Request
        <3>4. Laid(syncReq.indexes, syncReq.data) /\ \A k \in DOMAIN syncReq.indexes : paths < syncReq.indexes[k].block
            BY <2>1, <3>2 DEF Fresh
        <3> QED BY <3>1, <3>3, <3>4
    <2>2. CASE syncReq.kind # "block"
        <3>1. syncReq' = Filled(<<>>, <<>>) /\ Then(Tail(t))
            BY <1>1, <1>4, <2>2 DEF StepPut
        <3>2. <<>> \in Seq(Unit) /\ <<>> \in Seq(Ix) /\ Laid(<<>>, <<>>) /\ DOMAIN <<>> = {}
            BY LaidEmpty
        <3>3. \A k \in DOMAIN <<>> : paths < <<>>[k].block
            BY <3>2
        <3> QED BY ONLY <3>1, <3>2, <3>3
    <2> QED BY <2>1, <2>2
<1>6. CallsOK'
    <2>1. CallsOK
        BY DEF Tidy
    <2> QED BY <1>0, <1>2, <1>3, <1>5, <2>1, CallsThen
<1>7. Fresh(syncReq')
    <2>0. call.index \in Ix
        BY <1>0, BaseFacts
    <2>1. syncReq'.kind = "block" /\ syncReq'.indexes = Append(xs, call.index)
          /\ syncReq'.data = d \o Units(call.index.block, call.index.size)
        BY ONLY <1>5, <2>0, FilledFacts
    <2>2. Laid(syncReq'.indexes, syncReq'.data)
        BY ONLY <1>5, <2>0, <2>1, LaidAppend
    <2> DEFINE ys == Append(xs, call.index)
    <2>3. ys # <<>> /\ \A k \in DOMAIN ys : ys[k] = call.index \/ (k \in DOMAIN xs /\ ys[k] = xs[k])
        BY ONLY <1>5, <2>0
    <2>4. paths < call.index.block
        BY <1>0 DEF Tidy, CallsOK
    <2>5. \A k \in DOMAIN ys : paths < ys[k].block
        BY <1>5, <2>3, <2>4
    <2> QED BY <2>1, <2>2, <2>3, <2>5 DEF Fresh
<1>8. \A i \in DOMAIN syncReqs' : Fresh(syncReqs'[i])
    BY <1>3 DEF Tidy, ReqsOK
<1> QED BY <1>3, <1>6, <1>7, <1>8, TidyCall

-----------------------------------------------------------------------------
(* doSync: requests and files.                                             *)

\* The file records.
LEMMA FilesFacts ==
    ASSUME Store
    PROVE  /\ files \in Seq(FileRec) /\ Len(files) \in Nat /\ DOMAIN files = 1..Len(files)
           /\ \A i \in DOMAIN files : /\ files[i].seq \in Nat \ {0} /\ files[i].size \in Nat
                                      /\ files[i].path \in 1..MaxBlocks /\ disk[files[i].path] \in Seq(Unit)
                                      /\ Len(disk[files[i].path]) \in Nat
           /\ files # <<>> => Last(files) = files[Len(files)] /\ Len(files) \in DOMAIN files /\ Len(files) # 0
           /\ \A p \in 1..MaxBlocks : disk[p] \in Seq(Unit)
           /\ MaxBlocks \in Nat /\ paths \in Nat
<1>0. MaxBlocks \in Nat
    BY WriterAssumption
<1>1. files \in Seq(FileRec) /\ paths \in 0..MaxBlocks /\ disk \in [1..MaxBlocks -> Seq(Unit)]
    BY DEF Store, StoreTypes
<1>2. \A p \in 1..MaxBlocks : disk[p] \in Seq(Unit)
    BY <1>1
<1>3. files \in Seq(FileRec) /\ Len(files) \in Nat /\ DOMAIN files = 1..Len(files)
    BY <1>1
<1>4. files # <<>> => Last(files) = files[Len(files)] /\ Len(files) \in DOMAIN files /\ Len(files) # 0
    BY <1>1, LastFacts
<1>5. ASSUME NEW i \in DOMAIN files
      PROVE  /\ files[i].seq \in Nat \ {0} /\ files[i].size \in Nat
             /\ files[i].path \in 1..MaxBlocks /\ disk[files[i].path] \in Seq(Unit)
             /\ Len(disk[files[i].path]) \in Nat
    <2>1. files[i] \in FileRec
        BY <1>3
    <2>2. files[i].seq \in Nat \ {0} /\ files[i].size \in Nat /\ files[i].path \in Nat \ {0}
        BY <2>1 DEF FileRec
    <2>3. files[i].path <= paths
        BY DEF Store, FilesOK
    <2>4. files[i].path \in 1..MaxBlocks
        BY ONLY <1>0, <1>1, <2>2, <2>3
    <2>5. disk[files[i].path] \in Seq(Unit)
        BY <1>2, <2>4
    <2> HIDE DEF Unit
    <2> QED BY <2>2, <2>4, <2>5
<1>6. paths \in Nat
    BY <1>0, <1>1
<1> QED BY ONLY <1>0, <1>2, <1>3, <1>4, <1>5, <1>6

\* The used part of the last file.
LEMMA UsedFacts ==
    ASSUME StoreTypes, files # <<>>
    PROVE  Used \in Int
<1>1. Last(files) \in FileRec /\ fileCtx \in Context /\ sync.offset \in Nat /\ sync.seek \in Int
    BY LastFacts DEF StoreTypes
<1>2. Last(files).size \in Int /\ fileCtx.off \in Int /\ sync.offset \in Int
    BY <1>1 DEF FileRec, Context
<1> QED BY <1>1, <1>2 DEF Used

\* The files stay the same but for the sizes of their records, and no less of the
\* last one is in use.
LEMMA StoreMoved ==
    ASSUME Store, UNCHANGED <<table, disk, paths, log>>, StoreTypes', CtxOK', Len(files') = Len(files),
           \A i \in DOMAIN files : /\ files'[i].seq = files[i].seq /\ files'[i].path = files[i].path
                                   /\ files'[i].size <= Len(disk[files[i].path]),
           files # <<>> => Used <= Used'
    PROVE  Store'
<1>1. files \in Seq(FileRec) /\ files' \in Seq(FileRec)
    BY DEF Store, StoreTypes
<1>2. DOMAIN files = 1..Len(files) /\ DOMAIN files' = DOMAIN files /\ (files # <<>> => files' # <<>>)
    BY <1>1
<1>3. files # <<>> => /\ Last(files) = files[Len(files)] /\ Last(files') = files'[Len(files)] /\ Len(files) \in DOMAIN files
                      /\ Used \in Int /\ Used' \in Int
    <2>1. files # <<>> => Used \in Int
        BY UsedFacts DEF Store
    <2>2. files' # <<>> => Used' \in Int
        <3>1. (StoreTypes /\ files # <<>> => Used \in Int)'
            BY UsedFacts, PTL
        <3> QED BY <3>1
    <2> QED BY <1>1, <1>2, <2>1, <2>2, LastFacts
<1>4. FilesOK'
    <2>1. \A i, j \in DOMAIN files' : i < j => files'[i].seq < files'[j].seq /\ files'[i].path # files'[j].path
        BY <1>2 DEF Store, FilesOK
    <2>2. \A i \in DOMAIN files' : /\ i <= files'[i].seq /\ files'[i].seq <= paths' /\ files'[i].path <= paths'
                                   /\ files'[i].size <= Len(disk'[files'[i].path])
        BY <1>2 DEF Store, FilesOK
    <2> QED BY <2>1, <2>2 DEF Store, FilesOK
<1>5. TableOK'
    BY <1>2 DEF Store, TableOK
<1>6. LogOK'
    <2>1. ASSUME NEW k \in DOMAIN log
          PROVE  /\ log[k].block \in Nat /\ log[k].file \in Nat \ {0} /\ log[k].off \in Nat /\ log[k].size \in Nat
                 /\ \E i \in DOMAIN files' : files'[i].seq = log[k].file /\ Stored(log[k], disk[files'[i].path])
                 /\ log[k].file = Last(files').seq => log[k].off + log[k].size <= Used'
        <3>1. log[k].block \in Nat /\ log[k].file \in Nat \ {0} /\ log[k].off \in Nat /\ log[k].size \in Nat
            BY DEF Store, LogOK
        <3>2. PICK i \in DOMAIN files : files[i].seq = log[k].file /\ Stored(log[k], disk[files[i].path])
            BY DEF Store, LogOK
        <3>3. files # <<>>
            BY <3>2
        <3>4. files'[i].seq = log[k].file /\ Stored(log[k], disk[files'[i].path])
            BY <3>2
        <3>5. Last(files').seq = Last(files).seq
            BY <1>3, <3>3
        <3>6. log[k].file = Last(files).seq => log[k].off + log[k].size <= Used
            BY DEF Store, LogOK
        <3>7. log[k].file = Last(files).seq => log[k].off + log[k].size <= Used'
            BY <1>3, <3>1, <3>3, <3>6
        <3> QED BY <1>2, <3>1, <3>4, <3>5, <3>7
    <2>2. \A k, l \in DOMAIN log : k < l => log[k].file <= log[l].file
        BY DEF Store, LogOK
    <2> QED BY <2>1, <2>2 DEF LogOK
<1> QED BY <1>4, <1>5, <1>6 DEF Store

\* A step of doSync between two requests that leaves the files alone.
LEMMA StoreIdle ==
    ASSUME Store, ~Busy, ~Busy', UNCHANGED <<storing, log>>,
           sync'.seek \in Int, sync'.offset \in Nat, sync'.size \in Nat
    PROVE  Store'
<1>1. UNCHANGED <<fileCtx, files, table, disk, paths, log>>
    BY DEF storing
<1>2. StoreTypes'
    BY <1>1 DEF Store, StoreTypes
<1>3. CtxOK'
    BY <1>1 DEF Store, CtxOK, Busy
<1>4. Used' = Used
    BY <1>1 DEF Used, Busy
<1>5. files # <<>> => Used \in Int
    BY UsedFacts DEF Store
<1>6. \A i \in DOMAIN files : files[i].size <= Len(disk[files[i].path])
    BY DEF Store, FilesOK
<1> QED BY <1>1, <1>2, <1>3, <1>4, <1>5, <1>6, StoreMoved

\* A step of doSync that makes no file: what it leaves of its requests.
LEMMA TidySync ==
    ASSUME Tidy, Store', UNCHANGED <<scene, calls, call, syncReq, paths>>,
           \A i \in DOMAIN syncReqs' : Fresh(syncReqs'[i]),
           \A i \in DOMAIN sync'.reqs : Fresh(sync'.reqs[i]) \/ (i = 1 /\ Busy'),
           sync'.pc = "write" => Begun(Head(sync'.reqs))
    PROVE  Tidy'
<1>1. ReqsOK'
    <2>2. (Fresh(syncReq))'
        BY DEF Tidy, ReqsOK, Fresh
    <2>3. \A i \in DOMAIN syncReqs' : (Fresh(syncReqs[i]))'
        BY DEF Fresh
    <2>4. \A i \in DOMAIN sync'.reqs : (Fresh(sync.reqs[i]))' \/ (i = 1 /\ Busy')
        BY DEF Fresh
    <2>5. sync'.pc = "write" => (Begun(Req))'
        BY DEF Begun, Req
    <2> QED BY <2>2, <2>3, <2>4, <2>5 DEF ReqsOK
<1>2. CallsOK'
    BY DEF Tidy, CallsOK, Coming
<1> QED BY <1>1, <1>2 DEF Tidy

\* The executor starts doSync.
LEMMA TidySyncTake ==
    ASSUME Base, Tidy, SyncTake, UNCHANGED scene
    PROVE  Tidy'
<1>1. /\ sync.pc = "idle" /\ sync' = [sync EXCEPT !.pc = "pop"]
      /\ UNCHANGED <<calls, call, syncReq, paths, syncReqs, log, storing>>
    BY DEF SyncTake, writing, logging, storing
<1>2. DOMAIN sync = SyncFields
    BY SyncFacts
<1>3. /\ sync'.reqs = sync.reqs /\ sync'.pc = "pop"
      /\ sync'.seek = sync.seek /\ sync'.offset = sync.offset /\ sync'.size = sync.size
    BY <1>1, <1>2 DEF SyncFields
<1>4. ~Busy /\ ~Busy'
    BY <1>1, <1>3 DEF Busy
<1>5. Store'
    <2>1. sync.seek \in Int /\ sync.offset \in Nat /\ sync.size \in Nat /\ Store
        BY DEF Tidy, Store, StoreTypes
    <2> QED BY <1>1, <1>3, <1>4, <2>1, StoreIdle
<1>6. sync.reqs = <<>>
    BY <1>1 DEF Base, SyncOK
<1>7. \A i \in DOMAIN syncReqs' : Fresh(syncReqs'[i])
    BY <1>1 DEF Tidy, ReqsOK
<1> QED BY <1>1, <1>3, <1>5, <1>6, <1>7, TidySync

\* doSync takes all requests that wait.
LEMMA TidySyncPopAll ==
    ASSUME Base, Tidy, SyncPopAll, UNCHANGED scene
    PROVE  Tidy'
<1>1. /\ sync.pc = "pop" /\ sync' = [sync EXCEPT !.pc = "next", !.reqs = syncReqs] /\ syncReqs' = <<>>
      /\ UNCHANGED <<calls, call, syncReq, paths, log, storing>>
    BY DEF SyncPopAll, writing, logging, storing
<1>2. DOMAIN sync = SyncFields
    BY SyncFacts
<1>3. /\ sync'.reqs = syncReqs /\ sync'.pc = "next"
      /\ sync'.seek = sync.seek /\ sync'.offset = sync.offset /\ sync'.size = sync.size
    BY <1>1, <1>2 DEF SyncFields
<1>4. ~Busy /\ ~Busy'
    BY <1>1, <1>3 DEF Busy
<1>5. Store'
    <2>1. sync.seek \in Int /\ sync.offset \in Nat /\ sync.size \in Nat /\ Store
        BY DEF Tidy, Store, StoreTypes
    <2> QED BY <1>1, <1>3, <1>4, <2>1, StoreIdle
<1>6. \A i \in DOMAIN sync'.reqs : Fresh(sync'.reqs[i])
    BY <1>3 DEF Tidy, ReqsOK
<1> QED BY <1>1, <1>3, <1>5, <1>6, TidySync

\* doSync has no request left.
LEMMA TidySyncEnd ==
    ASSUME Base, Tidy, SyncEnd, UNCHANGED scene
    PROVE  Tidy'
<1>1. /\ sync.pc = "next" /\ sync' = Resting
      /\ UNCHANGED <<calls, call, syncReq, paths, syncReqs, log, storing>>
    BY DEF SyncEnd, writing, handing, logging, storing
<1>2. sync'.reqs = <<>> /\ sync'.pc = "idle" /\ sync'.seek \in Int /\ sync'.offset \in Nat /\ sync'.size \in Nat
    BY <1>1 DEF Resting
<1>3. ~Busy /\ ~Busy'
    BY <1>1, <1>2 DEF Busy
<1>4. Store'
    BY <1>1, <1>2, <1>3, StoreIdle DEF Tidy
<1>5. \A i \in DOMAIN syncReqs' : Fresh(syncReqs'[i])
    BY <1>1 DEF Tidy, ReqsOK
<1> QED BY <1>1, <1>2, <1>4, <1>5, TidySync

\* No request is an index without data.
LEMMA NoSyncIndex ==
    ASSUME Base, Tidy
    PROVE  ~SyncIndex
<1> SUFFICES ASSUME SyncIndex PROVE FALSE
    OBVIOUS
<1>1. sync.pc = "next" /\ sync.reqs # <<>> /\ Req.kind = "index"
    BY DEF SyncIndex, IsReq
<1>2. 1 \in DOMAIN sync.reqs /\ Req = sync.reqs[1]
    BY <1>1, SyncFacts
<1>3. Fresh(Req)
    BY <1>1, <1>2 DEF Tidy, ReqsOK, Busy
<1> QED BY <1>1, <1>3 DEF Fresh

\* doSync goes on to its next request.
LEMMA TidyNextReq ==
    ASSUME Base, Tidy, Store', NextReq, sync.reqs # <<>>, UNCHANGED <<scene, calls, call, syncReq, syncReqs, paths>>
    PROVE  Tidy'
<1>1. sync'.reqs = Tail(sync.reqs) /\ sync'.pc = "next"
    BY DEF NextReq, Resting
<1>2. sync.reqs \in Seq(Request)
    BY SyncFacts
<1>3. ASSUME NEW i \in DOMAIN sync'.reqs PROVE Fresh(sync'.reqs[i])
    <2>1. i + 1 \in DOMAIN sync.reqs /\ sync'.reqs[i] = sync.reqs[i + 1] /\ i + 1 # 1
        BY <1>1, <1>2
    <2> QED BY <2>1 DEF Tidy, ReqsOK
<1>4. \A i \in DOMAIN syncReqs' : Fresh(syncReqs'[i])
    BY DEF Tidy, ReqsOK
<1> QED BY <1>1, <1>3, <1>4, TidySync

\* The record of the open file is brought up to date.
LEMMA UpdateFacts ==
    ASSUME Store, fileCtx # NoCtx, UpdateFile(fileCtx)
    PROVE  /\ files # <<>> /\ files' \in Seq(FileRec) /\ Len(files') = Len(files) /\ Last(files').size = fileCtx.size
           /\ \A i \in DOMAIN files : /\ files'[i].seq = files[i].seq /\ files'[i].path = files[i].path
                                      /\ files'[i].size <= Len(disk[files[i].path])
<1> DEFINE n == Len(files)
           u == [seq |-> fileCtx.seq, path |-> fileCtx.path, size |-> fileCtx.size]
<1>1. /\ files # <<>> /\ fileCtx.seq = Last(files).seq /\ fileCtx.path = Last(files).path
      /\ fileCtx.size = Len(disk[fileCtx.path])
    BY DEF Store, CtxOK
<1>2. /\ files \in Seq(FileRec) /\ n \in Nat /\ DOMAIN files = 1..n /\ n \in DOMAIN files /\ Last(files) = files[n]
      /\ \A i \in DOMAIN files : files[i] \in FileRec /\ files[i].seq \in Nat
    <2>1. files \in Seq(FileRec) /\ n \in Nat /\ DOMAIN files = 1..n /\ n \in DOMAIN files /\ Last(files) = files[n]
        BY <1>1, FilesFacts
    <2> QED BY <2>1, FilesFacts
<1>3. u \in FileRec /\ u.seq = fileCtx.seq /\ u.path = fileCtx.path /\ u.size = fileCtx.size
    <2>1. Last(files).seq \in Nat \ {0} /\ Last(files).path \in Nat \ {0}
        BY <1>2 DEF FileRec
    <2>2. fileCtx.size \in Nat
        BY DEF Store, StoreTypes, Context
    <2> QED BY <1>1, <2>1, <2>2 DEF FileRec
<1>4. \A i \in DOMAIN files : files[i].seq = fileCtx.seq => i = n
    <2> SUFFICES ASSUME NEW i \in DOMAIN files, i # n PROVE files[i].seq # fileCtx.seq
        OBVIOUS
    <2>1. i < n
        BY <1>2
    <2>2. files[i].seq < files[n].seq
        BY <1>2, <2>1 DEF Store, FilesOK
    <2> QED BY <1>1, <1>2, <2>2
<1>5. files' = [i \in DOMAIN files |-> IF files[i].seq = fileCtx.seq THEN u ELSE files[i]]
    BY DEF UpdateFile
<1> HIDE DEF u, n
<1>6. files' \in [1..n -> FileRec]
    BY <1>2, <1>3, <1>5
<1>7. files' \in Seq(FileRec) /\ Len(files') = n
    BY <1>2, <1>6
<1>8. files'[n] = u
    BY <1>1, <1>2, <1>5
<1>9. Last(files').size = fileCtx.size
    BY <1>2, <1>3, <1>7, <1>8 DEF Last
<1>10. ASSUME NEW i \in DOMAIN files
       PROVE  /\ files'[i].seq = files[i].seq /\ files'[i].path = files[i].path
              /\ files'[i].size <= Len(disk[files[i].path])
    <2>1. CASE i = n
        <3>1. files'[i] = u /\ files[i] = Last(files)
            BY <1>2, <1>8, <2>1
        <3>2. fileCtx.size \in Nat
            BY DEF Store, StoreTypes, Context
        <3> QED BY <1>1, <1>3, <3>1, <3>2
    <2>2. CASE i # n
        <3>1. files'[i] = files[i]
            BY <1>4, <1>5, <2>2
        <3> QED BY <3>1 DEF Store, FilesOK
    <2> QED BY <2>1, <2>2
<1> QED BY <1>1, <1>7, <1>9, <1>10 DEF n

\* The open file is closed, with all that was written in it in its record.
LEMMA StoreClosed ==
    ASSUME Store, fileCtx # NoCtx, UpdateFile(fileCtx), fileCtx' = NoCtx, NextReq, Used <= fileCtx.off,
           UNCHANGED <<table, disk, paths, log>>
    PROVE  Store'
<1>1. /\ files # <<>> /\ files' \in Seq(FileRec) /\ Len(files') = Len(files) /\ Last(files').size = fileCtx.size
      /\ \A i \in DOMAIN files : /\ files'[i].seq = files[i].seq /\ files'[i].path = files[i].path
                                 /\ files'[i].size <= Len(disk[files[i].path])
    BY UpdateFacts
<1>2. sync'.pc = "next" /\ sync'.seek \in Int /\ sync'.offset \in Nat /\ sync'.size \in Nat
    BY DEF NextReq, Resting
<1>3. StoreTypes'
    <2>1. NoCtx \in Context
        BY DEF NoCtx, Context
    <2> QED BY <1>1, <1>2, <2>1 DEF Store, StoreTypes
<1>4. CtxOK'
    BY <1>2 DEF CtxOK, Busy
<1>5. Used' = fileCtx.size
    BY <1>1 DEF Used
<1>6. fileCtx.off <= fileCtx.size /\ fileCtx.off \in Nat /\ fileCtx.size \in Nat /\ Used \in Int
    BY <1>1, UsedFacts DEF Store, CtxOK, StoreTypes, Context
<1>7. Used <= Used'
    BY <1>5, <1>6
<1> QED BY <1>1, <1>3, <1>4, <1>7, StoreMoved

\* closeFileRequest.
LEMMA TidySyncClose ==
    ASSUME Base, Tidy, SyncClose, UNCHANGED scene
    PROVE  Tidy'
<1>1. /\ sync.pc = "next" /\ sync.reqs # <<>> /\ NextReq /\ fileCtx' = NoCtx
      /\ UNCHANGED <<calls, call, syncReq, syncReqs, table, disk, paths, log, switchFile>>
    BY DEF SyncClose, IsReq, writing, handing, logging
<1>2. Store'
    <2>1. CASE fileCtx = NoCtx
        <3>1. UNCHANGED <<storing, log>>
            BY <1>1, <2>1 DEF SyncClose, storing
        <3>2. sync'.pc = "next" /\ sync'.seek \in Int /\ sync'.offset \in Nat /\ sync'.size \in Nat
            BY <1>1 DEF NextReq, Resting
        <3>3. ~Busy /\ ~Busy'
            BY <1>1, <3>2 DEF Busy
        <3> QED BY <3>1, <3>2, <3>3, StoreIdle DEF Tidy
    <2>2. CASE fileCtx # NoCtx
        <3>1. UpdateFile(fileCtx)
            BY <2>2 DEF SyncClose
        <3>2. Used = fileCtx.off /\ fileCtx.off \in Nat
            BY <1>1, <2>2 DEF Used, Tidy, Store, StoreTypes, Context
        <3> QED BY <1>1, <2>2, <3>1, <3>2, StoreClosed DEF Tidy
    <2> QED BY <2>1, <2>2
<1> QED BY <1>1, <1>2, TidyNextReq

\* The request is done: the file is closed or stays open.
LEMMA TidySyncRotate ==
    ASSUME Base, Tidy, SyncRotate, UNCHANGED scene
    PROVE  Tidy'
<1>1. /\ sync.pc = "index" /\ NextReq /\ UNCHANGED <<calls, call, syncReq, syncReqs, table, disk, paths, log>>
    BY DEF SyncRotate, writing, handing, logging
<1>2. sync.reqs # <<>> /\ fileCtx # NoCtx /\ Store
    BY <1>1 DEF Base, SyncOK, Tidy, Store, CtxOK, Busy
<1>3. Used <= fileCtx.off
    <2>1. Used = sync.offset /\ sync.offset + sync.size = fileCtx.off
        BY <1>1, <1>2 DEF Used, Store, CtxOK
    <2>2. sync.offset \in Nat /\ sync.size \in Nat
        BY <1>2 DEF Store, StoreTypes
    <2> QED BY <2>1, <2>2
<1>4. Store'
    <2>1. CASE UpdateFile(fileCtx) /\ fileCtx' = NoCtx
        BY <1>1, <1>2, <1>3, <2>1, StoreClosed
    <2>2. CASE UNCHANGED <<fileCtx, switchFile, files>>
        <3>1. sync'.pc = "next" /\ sync'.seek \in Int /\ sync'.offset \in Nat /\ sync'.size \in Nat
            BY <1>1 DEF NextReq, Resting
        <3>2. StoreTypes'
            BY <1>1, <1>2, <2>2, <3>1 DEF Store, StoreTypes
        <3>3. CtxOK'
            BY <1>1, <1>2, <2>2, <3>1 DEF Store, CtxOK, Busy
        <3>4. Used' = fileCtx.off
            BY <1>2, <2>2, <3>1 DEF Used
        <3>5. \A i \in DOMAIN files : files[i].size <= Len(disk[files[i].path])
            BY <1>2 DEF Store, FilesOK
        <3> QED BY <1>1, <1>2, <1>3, <2>2, <3>2, <3>3, <3>4, <3>5, StoreMoved
    <2> QED BY <2>1, <2>2 DEF SyncRotate
<1> QED BY <1>1, <1>2, <1>4, TidyNextReq

\* doSync turns to its file.
LEMMA ToWriteFacts ==
    ASSUME Base, Tidy, IsReq("block"), NEW n, sync' = [sync EXCEPT !.pc = "write", !.seek = n]
    PROVE  /\ sync'.pc = "write" /\ sync'.seek = n /\ sync'.reqs = sync.reqs /\ Busy' /\ ~Busy /\ sync.pc = "next"
           /\ sync'.offset \in Nat /\ sync'.size \in Nat
           /\ Req \in Request /\ 1 \in DOMAIN sync.reqs /\ sync.reqs[1] = Req /\ Head(sync'.reqs) = Req
           /\ Fresh(Req) /\ Begun(Req) /\ Req.kind = "block" /\ paths \in Nat
<1>1. sync.pc = "next" /\ sync.reqs # <<>> /\ Req.kind = "block"
    BY DEF IsReq
<1>2. DOMAIN sync = SyncFields
    BY SyncFacts
<1>3. sync'.pc = "write" /\ sync'.seek = n /\ sync'.reqs = sync.reqs /\ sync'.offset = sync.offset /\ sync'.size = sync.size
    BY <1>2 DEF SyncFields
<1>4. sync.offset \in Nat /\ sync.size \in Nat
    BY DEF Tidy, Store, StoreTypes
<1>5. Busy' /\ ~Busy
    BY <1>1, <1>3 DEF Busy
<1>6. Req \in Request /\ 1 \in DOMAIN sync.reqs /\ sync.reqs[1] = Req
    BY <1>1, SyncFacts
<1>7. Head(sync'.reqs) = Req
    BY <1>3 DEF Req
<1>8. Fresh(Req)
    BY <1>5, <1>6 DEF Tidy, ReqsOK
<1>9. paths \in Nat
    BY FilesFacts DEF Tidy
<1>10. Begun(Req)
    <2>1. Req.indexes # <<>> /\ Laid(Req.indexes, Req.data) /\ \A k \in DOMAIN Req.indexes : paths < Req.indexes[k].block
        BY <1>1, <1>8 DEF Fresh
    <2>2. \A k \in DOMAIN Req.indexes : Req.indexes[k].block # 0
        BY <1>9, <2>1
    <2> QED BY <2>1, <2>2 DEF Begun
<1> QED BY <1>1, <1>3, <1>4, <1>5, <1>6, <1>7, <1>8, <1>9, <1>10

\* doSync turns to a file that is there.
LEMMA TidyToWrite ==
    ASSUME Base, Tidy, Store', IsReq("block"), NEW n, sync' = [sync EXCEPT !.pc = "write", !.seek = n],
           UNCHANGED <<scene, calls, call, syncReq, syncReqs, paths>>
    PROVE  Tidy'
<1>1. sync'.reqs = sync.reqs /\ Busy' /\ ~Busy /\ Begun(Head(sync'.reqs))
    BY ToWriteFacts
<1>2. \A i \in DOMAIN sync'.reqs : Fresh(sync'.reqs[i])
    BY <1>1 DEF Tidy, ReqsOK
<1>3. \A i \in DOMAIN syncReqs' : Fresh(syncReqs'[i])
    BY DEF Tidy, ReqsOK
<1> QED BY <1>1, <1>2, <1>3, TidySync

\* blockRequest with an open file.
LEMMA TidySyncOpened ==
    ASSUME Base, Tidy, SyncOpened, UNCHANGED scene
    PROVE  Tidy'
<1>1. /\ IsReq("block") /\ fileCtx # NoCtx /\ sync' = [sync EXCEPT !.pc = "write", !.seek = -1]
      /\ UNCHANGED <<calls, call, syncReq, syncReqs, fileCtx, files, table, disk, paths, log>>
    BY DEF SyncOpened, writing, handing, logging, storing
<1>2. Store /\ sync.pc = "next" /\ sync'.pc = "write" /\ sync'.seek = -1 /\ sync'.offset \in Nat /\ sync'.size \in Nat
    BY <1>1, ToWriteFacts DEF Tidy
<1>3. StoreTypes'
    BY <1>1, <1>2 DEF Store, StoreTypes
<1>4. CtxOK'
    <2>1. fileCtx.size = Len(disk[fileCtx.path]) /\ fileCtx.size \in Nat
        BY <1>1, <1>2 DEF Store, CtxOK, StoreTypes, Context
    <2>2. -1 <= Len(disk[fileCtx.path])
        BY <2>1
    <2> QED BY <1>1, <1>2, <2>2 DEF Store, CtxOK, Busy
<1>5. Used' = fileCtx.off /\ Used = fileCtx.off
    BY <1>1, <1>2 DEF Used
<1>6. fileCtx.off \in Nat
    BY <1>2 DEF Store, StoreTypes, Context
<1>7. \A i \in DOMAIN files : files[i].size <= Len(disk[files[i].path])
    BY <1>2 DEF Store, FilesOK
<1>8. Store'
    BY <1>1, <1>2, <1>3, <1>4, <1>5, <1>6, <1>7, StoreMoved
<1> QED BY <1>1, <1>8, TidyToWrite

\* The last file is continued behind what its record says it has.
LEMMA TidySyncReopen ==
    ASSUME Base, Tidy, SyncReopen, UNCHANGED scene
    PROVE  Tidy'
<1> DEFINE z == Last(files)
           c == [seq |-> z.seq, path |-> z.path, off |-> 0, size |-> Len(disk[z.path])]
<1>1. /\ IsReq("block") /\ fileCtx = NoCtx /\ files # <<>> /\ sync' = [sync EXCEPT !.pc = "write", !.seek = z.size]
      /\ fileCtx' = c
      /\ UNCHANGED <<calls, call, syncReq, syncReqs, files, table, disk, paths, log>>
    BY DEF SyncReopen, writing, handing, logging
<1>2. Store /\ sync'.pc = "write" /\ sync'.seek = z.size /\ sync'.offset \in Nat /\ sync'.size \in Nat
    BY <1>1, ToWriteFacts DEF Tidy
<1>3. /\ z.seq \in Nat \ {0} /\ z.size \in Nat /\ z.path \in 1..MaxBlocks /\ Len(disk[z.path]) \in Nat
      /\ z.size <= Len(disk[z.path]) /\ MaxBlocks \in Nat
    <2>1. z = files[Len(files)] /\ Len(files) \in DOMAIN files /\ MaxBlocks \in Nat
        BY <1>1, <1>2, FilesFacts
    <2>2. z.size <= Len(disk[z.path])
        BY <1>2, <2>1 DEF Store, FilesOK
    <2> HIDE DEF z
    <2> QED BY <1>2, <2>1, <2>2, FilesFacts
<1> HIDE DEF z
<1>4. c \in Context /\ c # NoCtx /\ c.seq = z.seq /\ c.path = z.path /\ c.off = 0 /\ c.size = Len(disk[z.path])
    <2>1. c.seq = z.seq /\ c.path = z.path /\ c.off = 0 /\ c.size = Len(disk[z.path])
        OBVIOUS
    <2>2. c # NoCtx
        BY <1>3, <2>1 DEF NoCtx
    <2>3. c \in Context
        BY <1>3 DEF Context
    <2> QED BY <2>1, <2>2, <2>3
<1> HIDE DEF c
<1>5. StoreTypes'
    BY <1>1, <1>2, <1>3, <1>4 DEF Store, StoreTypes
<1>6. CtxOK'
    BY <1>1, <1>2, <1>3, <1>4 DEF CtxOK, Busy, z
<1>7. Used' = z.size /\ Used = z.size
    BY <1>1, <1>2, <1>3, <1>4 DEF Used, z
<1>8. \A i \in DOMAIN files : files[i].size <= Len(disk[files[i].path])
    BY <1>2 DEF Store, FilesOK
<1>9. Store'
    BY <1>1, <1>2, <1>3, <1>5, <1>6, <1>7, <1>8, StoreMoved
<1> QED BY <1>1, <1>9, TidyToWrite

\* In an orderly scene files can be opened.
LEMMA NoFailures ==
    ASSUME Base, Orderly
    PROVE  ~SyncOpenFails /\ ~SyncSeekFails
    BY OrderlyFacts DEF SyncOpenFails, SyncSeekFails

\* A new file is made for the first block of a request, which is newer than all
\* files: there is a path and a place in the ring for it.
LEMMA RoomForFile ==
    ASSUME WriterInv, Orderly, Tidy, IsReq("block")
    PROVE  /\ Len(files) < scene.ring /\ paths + 1 \in 1..MaxBlocks /\ paths + 1 <= calls /\ (Coming => paths + 1 < calls)
           /\ \A i \in DOMAIN files : files[i].seq <= paths
           /\ \A i \in 2..Len(Pending) : \A k \in DOMAIN Pending[i].indexes : paths + 1 < Pending[i].indexes[k].block
<1> DEFINE b == Req.indexes[1].block
<1>0. Base /\ Store /\ ReqsOK
    BY DEF WriterInv, Tidy
<1>1. sync.pc = "next" /\ sync.reqs # <<>> /\ Req.kind = "block" /\ ~Busy
    BY DEF IsReq, Busy
<1>2. 1 \in DOMAIN sync.reqs /\ Req = sync.reqs[1] /\ Req.indexes \in Seq(Ix)
    BY <1>0, <1>1, SyncFacts
<1>3. Fresh(Req)
    BY <1>0, <1>1, <1>2 DEF ReqsOK
<1>4. Req.indexes # <<>> /\ \A k \in DOMAIN Req.indexes : paths < Req.indexes[k].block
    BY <1>1, <1>3 DEF Fresh
<1>5. 1 \in DOMAIN Req.indexes /\ 1 \in 1..Len(Req.indexes)
    BY <1>2, <1>4
<1>6. Pending[1] = Req /\ Len(Pending) \in Nat \ {0} /\ Pending \in Seq(Request)
    BY <1>0, <1>1, <1>2, PendingFacts
<1>7. b \in made
    <2>1. 1 \in 1..Len(Pending)
        BY <1>6
    <2> QED BY <1>5, <1>6, <2>1, PendingOrder
<1>8. b \in Nat /\ b <= calls /\ (Coming => b < calls) /\ paths < b
    BY <1>0, <1>4, <1>5, <1>7 DEF Base, CallOK
<1>9. paths \in Nat /\ calls \in Nat /\ calls <= scene.blocks /\ scene.blocks \in Nat /\ scene.blocks <= MaxBlocks
      /\ scene.blocks <= scene.ring /\ scene.ring \in Nat /\ MaxBlocks \in Nat
    BY <1>0, OrderlyFacts, FilesFacts DEF Tidy, CallsOK
<1> HIDE DEF b
<1>10. paths + 1 \in 1..MaxBlocks /\ paths + 1 <= calls /\ (Coming => paths + 1 < calls)
    BY ONLY <1>8, <1>9
<1>11. \A i \in DOMAIN files : files[i].seq <= paths
    BY <1>0 DEF Store, FilesOK
<1>12. Len(files) < scene.ring
    <2>1. CASE files = <<>>
        <3>1. Len(files) = 0
            BY <2>1
        <3> QED BY ONLY <1>8, <1>9, <3>1
    <2>2. CASE files # <<>>
        <3>1. Len(files) \in DOMAIN files /\ Len(files) \in Nat
            BY <1>0, <2>2, FilesFacts
        <3>2. Len(files) <= files[Len(files)].seq /\ files[Len(files)].seq \in Nat
            BY <1>0, <3>1, FilesFacts DEF Store, FilesOK
        <3>3. files[Len(files)].seq <= paths
            BY <1>11, <3>1
        <3> QED BY ONLY <1>8, <1>9, <3>1, <3>2, <3>3
    <2> QED BY <2>1, <2>2
<1>13. ASSUME NEW i \in 2..Len(Pending), NEW k \in DOMAIN Pending[i].indexes
       PROVE  paths + 1 < Pending[i].indexes[k].block
    <2>1. i \in 1..Len(Pending) /\ 1 \in 1..Len(Pending) /\ 1 < i
        BY <1>6
    <2>2. Pending[i] \in Request
        BY <1>6, <2>1
    <2>3. Pending[i].indexes \in Seq(Ix)
        BY <2>2 DEF Request
    <2>4. k \in 1..Len(Pending[i].indexes) /\ Pending[i].indexes[k] \in Ix
        BY <2>3
    <2>5. Pending[i].indexes[k].block \in Nat
        BY <2>4 DEF Ix
    <2>6. Pending[1].indexes[1].block < Pending[i].indexes[k].block
        BY <1>5, <1>6, <2>1, <2>4, PendingOrder
    <2>7. b < Pending[i].indexes[k].block
        BY <1>6, <2>6 DEF b
    <2> QED BY ONLY <1>8, <1>9, <2>5, <2>7
<1> QED BY <1>10, <1>11, <1>12, <1>13

\* Where the requests behind the first are.
LEMMA PendingPlaces ==
    ASSUME Base, sync.reqs # <<>>
    PROVE  /\ \A i \in DOMAIN sync.reqs : i # 1 => i \in 2..Len(Pending) /\ Pending[i] = sync.reqs[i]
           /\ \A i \in DOMAIN syncReqs : \E j \in 2..Len(Pending) : Pending[j] = syncReqs[i]
           /\ \E j \in 2..Len(Pending) : Pending[j] = syncReq
<1> DEFINE a == sync.reqs
           b == syncReqs
<1>1. a \in Seq(Request) /\ b \in Seq(Request) /\ syncReq \in Request /\ Pending = Chain(a, b, syncReq)
    BY SyncFacts, PendingFacts
<1>2. Chained(a, b, syncReq, Pending)
    BY <1>1, ChainFacts
<1>3. /\ Len(a) \in Nat /\ Len(b) \in Nat /\ Len(Pending) = Len(a) + Len(b) + 1
      /\ \A j \in 1..Len(a) : Pending[j] = a[j]
      /\ \A j \in 1..Len(b) : Pending[Len(a) + j] = b[j]
      /\ Pending[Len(a) + Len(b) + 1] = syncReq
    BY ONLY <1>2 DEF Chained
<1>4. DOMAIN a = 1..Len(a) /\ DOMAIN b = 1..Len(b) /\ Len(a) # 0
    BY <1>1
<1> HIDE DEF a, b
<1>5. \A i \in 1..Len(a) : i # 1 => i \in 2..Len(Pending) /\ Pending[i] = a[i]
    BY ONLY <1>3
<1>6. \A i \in 1..Len(b) : Len(a) + i \in 2..Len(Pending) /\ Pending[Len(a) + i] = b[i]
    BY ONLY <1>3, <1>4
<1>7. Len(a) + Len(b) + 1 \in 2..Len(Pending)
    BY ONLY <1>3, <1>4
<1> QED BY <1>3, <1>4, <1>5, <1>6, <1>7 DEF a, b

\* A new file, the last one: no index is in it yet.
LEMMA StoreCreated ==
    ASSUME Store, paths + 1 \in 1..MaxBlocks, fileCtx = NoCtx, files' = Append(files, NewFile),
           table' = table \union {NewFile}, paths' = paths + 1, UNCHANGED <<disk, log>>,
           fileCtx' = [seq |-> NewFile.seq, path |-> NewFile.path, off |-> 0, size |-> 0],
           sync'.pc = "write", sync'.seek = -1, sync'.offset \in Nat, sync'.size \in Nat
    PROVE  Store'
<1> DEFINE n == Len(files)
           w == NewFile
<1>0. /\ files \in Seq(FileRec) /\ n \in Nat /\ DOMAIN files = 1..n /\ MaxBlocks \in Nat /\ paths \in Nat
      /\ files # <<>> => Last(files) = files[n] /\ n \in DOMAIN files /\ n # 0
      /\ \A i \in DOMAIN files : files[i].seq \in Nat \ {0} /\ files[i].path \in Nat
    <2>1. /\ files \in Seq(FileRec) /\ n \in Nat /\ DOMAIN files = 1..n /\ MaxBlocks \in Nat /\ paths \in Nat
          /\ files # <<>> => Last(files) = files[n] /\ n \in DOMAIN files /\ n # 0
        BY FilesFacts
    <2>2. \A i \in DOMAIN files : files[i].seq \in Nat \ {0} /\ files[i].path \in 1..MaxBlocks
        BY FilesFacts
    <2> QED BY <2>1, <2>2
<1>1. /\ \A i \in DOMAIN files : files[i].seq <= paths /\ files[i].path <= paths /\ i <= files[i].seq
      /\ \A i, j \in DOMAIN files : i < j => files[i].seq < files[j].seq /\ files[i].path # files[j].path
    BY DEF Store, FilesOK
<1>2. /\ w.path = paths + 1 /\ w.size = 0 /\ w.seq \in Nat \ {0} /\ w.seq <= paths + 1 /\ n + 1 <= w.seq /\ w \in FileRec
      /\ \A i \in DOMAIN files : files[i].seq < w.seq /\ files[i].path # w.path
    <2>1. w.path = paths + 1 /\ w.size = 0 /\ w.seq = IF files = <<>> THEN 1 ELSE Last(files).seq + 1
        BY DEF NewFile
    <2>2. w = [seq |-> w.seq, path |-> w.path, size |-> w.size]
        BY DEF NewFile
    <2> HIDE DEF w
    <2>3. CASE files = <<>>
        <3>1. w.seq = 1 /\ n = 0 /\ DOMAIN files = {}
            BY <2>1, <2>3
        <3>2. w \in FileRec
            BY <1>0, <2>1, <2>2, <3>1 DEF FileRec
        <3> QED BY <1>0, <2>1, <3>1, <3>2
    <2>4. CASE files # <<>>
        <3>1. w.seq = files[n].seq + 1 /\ files[n].seq \in Nat \ {0} /\ files[n].seq <= paths /\ n <= files[n].seq
            BY <1>0, <1>1, <2>1, <2>4
        <3>2. w.seq \in Nat \ {0} /\ w.seq <= paths + 1 /\ n + 1 <= w.seq
            BY <1>0, <3>1
        <3>3. w \in FileRec
            BY <1>0, <2>1, <2>2, <3>2 DEF FileRec
        <3>4. ASSUME NEW i \in DOMAIN files PROVE files[i].seq < w.seq /\ files[i].path # w.path
            <4>1. files[i].seq <= files[n].seq
                <5>1. CASE i = n
                    BY <1>0, <3>1, <5>1
                <5>2. CASE i # n
                    <6>1. i < n /\ n \in DOMAIN files
                        BY <1>0, <2>4, <5>2
                    <6>2. files[i].seq < files[n].seq
                        BY <1>1, <6>1
                    <6> QED BY <1>0, <3>1, <6>2
                <5> QED BY <5>1, <5>2
            <4>2. files[i].seq \in Nat /\ files[i].path \in Nat /\ files[i].path <= paths
                BY <1>0, <1>1
            <4> QED BY <1>0, <2>1, <3>1, <4>1, <4>2
        <3> QED BY <2>1, <3>2, <3>3, <3>4
    <2> QED BY <2>3, <2>4
<1>3. files' = Append(files, w) /\ table' = table \union {w}
    OBVIOUS
<1> DEFINE e == [seq |-> w.seq, path |-> w.path, off |-> 0, size |-> 0]
<1>4. fileCtx' = e
    OBVIOUS
<1> HIDE DEF w, n
<1>5. /\ files' \in Seq(FileRec) /\ Len(files') = n + 1 /\ DOMAIN files' = 1..(n + 1) /\ files'[n + 1] = w
      /\ files' # <<>> /\ Last(files') = w
      /\ \A i \in DOMAIN files : files'[i] = files[i] /\ i \in DOMAIN files'
    <2>1. /\ files' \in Seq(FileRec) /\ Len(files') = n + 1 /\ DOMAIN files' = 1..(n + 1) /\ files'[n + 1] = w
        BY <1>0, <1>2, <1>3 DEF n
    <2>2. files' # <<>> /\ Last(files') = w
        BY <1>0, <2>1 DEF Last
    <2>3. \A i \in DOMAIN files : files'[i] = files[i] /\ i \in DOMAIN files'
        BY <1>0, <1>2, <1>3, <2>1 DEF n
    <2> QED BY <2>1, <2>2, <2>3
<1>6. \A i \in DOMAIN files' : i \in DOMAIN files \/ i = n + 1
    BY <1>0, <1>5
<1>7. disk \in [1..MaxBlocks -> Seq(Unit)] /\ disk[paths + 1] = <<>> /\ Len(disk[paths + 1]) = 0
    <2>1. disk \in [1..MaxBlocks -> Seq(Unit)]
        BY DEF Store, StoreTypes
    <2>2. disk[paths + 1] = <<>>
        <3>1. paths + 1 > paths
            BY <1>0
        <3> QED BY <3>1 DEF Store, FilesOK
    <2> QED BY <2>1, <2>2
<1>8. e \in Context /\ e # NoCtx /\ e.seq = w.seq /\ e.path = w.path /\ e.off = 0 /\ e.size = 0
    <2>1. e.seq = w.seq /\ e.path = w.path /\ e.off = 0 /\ e.size = 0
        OBVIOUS
    <2>2. e # NoCtx
        BY <1>2, <2>1 DEF NoCtx
    <2>3. e \in Context
        BY <1>0, <1>2 DEF Context
    <2> QED BY <2>1, <2>2, <2>3
<1> HIDE DEF e
<1>9. StoreTypes'
    <2>1. IsFiniteSet(table') /\ table' \subseteq FileRec
        <3>1. IsFiniteSet(table) /\ table \subseteq FileRec
            BY DEF Store, StoreTypes
        <3>2. IsFiniteSet(table \union {w})
            BY <3>1, FS_AddElement
        <3> QED BY <1>2, <1>3, <3>1, <3>2
    <2>2. paths' \in 0..MaxBlocks
        BY <1>0
    <2> QED BY <1>4, <1>5, <1>7, <1>8, <2>1, <2>2 DEF StoreTypes
<1>10. FilesOK'
    <2>1. ASSUME NEW i \in DOMAIN files', NEW j \in DOMAIN files', i < j
          PROVE  files'[i].seq < files'[j].seq /\ files'[i].path # files'[j].path
        <3>1. i \in DOMAIN files
            BY <1>0, <1>5, <1>6, <2>1
        <3>2. CASE j \in DOMAIN files
            BY <1>1, <1>5, <2>1, <3>1, <3>2
        <3>3. CASE j = n + 1
            BY <1>2, <1>5, <3>1, <3>3
        <3> QED BY <1>6, <3>2, <3>3
    <2>2. ASSUME NEW i \in DOMAIN files'
          PROVE  /\ i <= files'[i].seq /\ files'[i].seq <= paths' /\ files'[i].path <= paths'
                 /\ files'[i].size <= Len(disk'[files'[i].path])
        <3>1. CASE i \in DOMAIN files
            <4>1. files'[i] = files[i] /\ files[i].seq \in Nat /\ files[i].path \in Nat
                BY <1>0, <1>5, <3>1
            <4>2. i <= files[i].seq /\ files[i].seq <= paths /\ files[i].path <= paths
                BY <1>1, <3>1
            <4>3. files[i].seq <= paths + 1 /\ files[i].path <= paths + 1
                BY <1>0, <4>1, <4>2
            <4>4. files[i].size <= Len(disk[files[i].path])
                BY <3>1 DEF Store, FilesOK
            <4> QED BY <4>1, <4>2, <4>3, <4>4
        <3>2. CASE i = n + 1
            <4>1. files'[i] = w
                BY <1>5, <3>2
            <4>2. w.size <= Len(disk[w.path])
                BY <1>2, <1>7
            <4> QED BY <1>0, <1>2, <3>2, <4>1, <4>2
        <3> QED BY <1>6, <3>1, <3>2
    <2>3. ASSUME NEW p \in 1..MaxBlocks, p > paths' PROVE disk'[p] = <<>>
        <3>1. p > paths
            BY <1>0, <2>3
        <3> QED BY <3>1 DEF Store, FilesOK
    <2> QED BY <2>1, <2>2, <2>3 DEF FilesOK
<1>11. TableOK'
    <2>1. \A r \in table : \E i \in DOMAIN files : files[i].seq = r.seq /\ files[i].path = r.path
        BY DEF Store, TableOK
    <2>2. \A r \in table : r.seq # w.seq
        <3> SUFFICES ASSUME NEW r \in table PROVE r.seq # w.seq
            OBVIOUS
        <3>1. PICK i \in DOMAIN files : files[i].seq = r.seq
            BY <2>1
        <3>2. files[i].seq < w.seq /\ files[i].seq \in Nat
            BY <1>0, <1>2
        <3> QED BY <1>2, <3>1, <3>2
    <2>3. \A r, s \in table' : r.seq = s.seq => r = s
        BY <1>3, <2>2 DEF Store, TableOK
    <2>4. \A r \in table' : \E i \in DOMAIN files' : files'[i].seq = r.seq /\ files'[i].path = r.path
        <3> SUFFICES ASSUME NEW r \in table'
                     PROVE  \E i \in DOMAIN files' : files'[i].seq = r.seq /\ files'[i].path = r.path
            OBVIOUS
        <3>1. CASE r \in table
            <4>1. PICK i \in DOMAIN files : files[i].seq = r.seq /\ files[i].path = r.path
                BY <2>1, <3>1
            <4> QED BY <1>5, <4>1
        <3>2. CASE r = w
            <4>1. n + 1 \in DOMAIN files'
                BY <1>0, <1>5
            <4> QED BY <1>5, <3>2, <4>1
        <3> QED BY <1>3, <3>1, <3>2
    <2>5. \A i \in DOMAIN files' : \E r \in table' : r.seq = files'[i].seq
        <3> SUFFICES ASSUME NEW i \in DOMAIN files' PROVE \E r \in table' : r.seq = files'[i].seq
            OBVIOUS
        <3>1. CASE i \in DOMAIN files
            <4>1. PICK r \in table : r.seq = files[i].seq
                BY <3>1 DEF Store, TableOK
            <4> QED BY <1>3, <1>5, <3>1, <4>1
        <3>2. CASE i = n + 1
            BY <1>3, <1>5, <3>2
        <3> QED BY <1>6, <3>1, <3>2
    <2>6. \A r \in table' : r.size <= Len(disk'[r.path])
        <3>1. \A r \in table : r.size <= Len(disk[r.path])
            BY DEF Store, TableOK
        <3>2. w.size <= Len(disk[w.path])
            BY <1>2, <1>7
        <3> QED BY <1>3, <3>1, <3>2
    <2> QED BY <2>3, <2>4, <2>5, <2>6 DEF TableOK
<1>12. CtxOK'
    <2>1. -1 <= Len(disk'[e.path]) /\ e.size = Len(disk'[e.path]) /\ e.off <= e.size
        BY <1>2, <1>7, <1>8
    <2> QED BY <1>4, <1>5, <1>8, <2>1 DEF CtxOK, Busy
<1>13. LogOK'
    <2>1. ASSUME NEW k \in DOMAIN log
          PROVE  /\ log[k].block \in Nat /\ log[k].file \in Nat \ {0} /\ log[k].off \in Nat /\ log[k].size \in Nat
                 /\ \E i \in DOMAIN files' : files'[i].seq = log[k].file /\ Stored(log[k], disk'[files'[i].path])
                 /\ log[k].file # Last(files').seq
        <3>1. log[k].block \in Nat /\ log[k].file \in Nat \ {0} /\ log[k].off \in Nat /\ log[k].size \in Nat
            BY DEF Store, LogOK
        <3>2. PICK i \in DOMAIN files : files[i].seq = log[k].file /\ Stored(log[k], disk[files[i].path])
            BY DEF Store, LogOK
        <3>3. i \in DOMAIN files' /\ files'[i].seq = log[k].file /\ Stored(log[k], disk'[files'[i].path])
            BY <1>5, <3>2
        <3>4. log[k].file < w.seq
            BY <1>2, <3>2
        <3>5. log[k].file # Last(files').seq
            BY <1>2, <1>5, <3>1, <3>4
        <3> QED BY <3>1, <3>3, <3>5
    <2>2. \A k, l \in DOMAIN log : k < l => log[k].file <= log[l].file
        BY DEF Store, LogOK
    <2> QED BY <2>1, <2>2 DEF LogOK
<1> QED BY <1>9, <1>10, <1>11, <1>12, <1>13 DEF Store

\* A file is created.
LEMMA TidySyncCreate ==
    ASSUME WriterInv, Orderly, Tidy, SyncCreate, UNCHANGED scene
    PROVE  Tidy'
<1>0. Base
    BY DEF WriterInv
<1>1. /\ IsReq("block") /\ fileCtx = NoCtx /\ paths' = paths + 1
      /\ fileCtx' = [seq |-> NewFile.seq, path |-> NewFile.path, off |-> 0, size |-> 0]
      /\ UNCHANGED <<calls, call, syncReq, syncReqs, disk>>
    BY DEF SyncCreate, writing, handing
<1>2. /\ Len(files) < scene.ring /\ paths + 1 \in 1..MaxBlocks /\ paths + 1 <= calls /\ (Coming => paths + 1 < calls)
      /\ \A i \in 2..Len(Pending) : \A k \in DOMAIN Pending[i].indexes : paths + 1 < Pending[i].indexes[k].block
    BY <1>1, RoomForFile
<1>3. /\ files' = Append(files, NewFile) /\ table' = table \union {NewFile} /\ log' = log
      /\ sync' = [sync EXCEPT !.pc = "write", !.seek = -1]
    BY <1>0, <1>2, OrderlyFacts DEF SyncCreate
<1>4. /\ sync'.pc = "write" /\ sync'.seek = -1 /\ sync'.reqs = sync.reqs /\ Busy' /\ ~Busy /\ sync.reqs # <<>>
      /\ sync'.offset \in Nat /\ sync'.size \in Nat /\ Head(sync'.reqs) = Req /\ Begun(Req)
    <2>1. sync.reqs # <<>>
        BY <1>1 DEF IsReq
    <2> QED BY <1>0, <1>1, <1>3, <2>1, ToWriteFacts
<1>5. Store'
    BY <1>1, <1>2, <1>3, <1>4, StoreCreated DEF Tidy
<1>6. \A r : Fresh(r) /\ (\A k \in DOMAIN r.indexes : paths + 1 < r.indexes[k].block) =>
             /\ r.kind # "index"
             /\ r.kind = "block" => /\ r.indexes # <<>> /\ Laid(r.indexes, r.data)
                                    /\ \A k \in DOMAIN r.indexes : paths' < r.indexes[k].block
    BY <1>1 DEF Fresh
<1>7. ReqsOK'
    <2>1. (Fresh(syncReq))'
        <3>1. Fresh(syncReq) /\ \A k \in DOMAIN syncReq.indexes : paths + 1 < syncReq.indexes[k].block
            BY <1>0, <1>2, <1>4, PendingPlaces DEF Tidy, ReqsOK
        <3> QED BY <1>1, <1>6, <3>1 DEF Fresh
    <2>2. ASSUME NEW i \in DOMAIN syncReqs' PROVE (Fresh(syncReqs[i]))'
        <3>1. Fresh(syncReqs[i]) /\ \A k \in DOMAIN syncReqs[i].indexes : paths + 1 < syncReqs[i].indexes[k].block
            BY <1>0, <1>1, <1>2, <1>4, PendingPlaces DEF Tidy, ReqsOK
        <3> QED BY <1>1, <1>6, <3>1 DEF Fresh
    <2>3. ASSUME NEW i \in DOMAIN sync'.reqs PROVE (Fresh(sync.reqs[i]))' \/ (i = 1 /\ Busy')
        <3>1. CASE i = 1
            BY <1>4, <3>1
        <3>2. CASE i # 1
            <4>1. Fresh(sync.reqs[i])
                BY <1>4, <3>2 DEF Tidy, ReqsOK
            <4>2. \A k \in DOMAIN sync.reqs[i].indexes : paths + 1 < sync.reqs[i].indexes[k].block
                BY <1>0, <1>2, <1>4, <3>2, PendingPlaces
            <4> QED BY <1>4, <1>6, <4>1, <4>2 DEF Fresh
        <3> QED BY <3>1, <3>2
    <2>4. (Begun(Req))'
        BY <1>4 DEF Begun, Req
    <2> QED BY <2>1, <2>2, <2>3, <2>4 DEF ReqsOK
<1>8. CallsOK'
    BY <1>1, <1>2 DEF Tidy, CallsOK, Coming
<1> QED BY <1>5, <1>7, <1>8 DEF Tidy

-----------------------------------------------------------------------------
(* doSync: the write and the indexes.                                      *)

\* The file doSync works on is the last one, and the only one with its path.
LEMMA OpenFacts ==
    ASSUME Store, fileCtx # NoCtx
    PROVE  /\ files # <<>> /\ fileCtx.seq = Last(files).seq /\ fileCtx.path = Last(files).path
           /\ Len(files) \in DOMAIN files /\ Last(files) = files[Len(files)]
           /\ fileCtx.path \in 1..MaxBlocks /\ fileCtx.path <= paths /\ disk[fileCtx.path] \in Seq(Unit)
           /\ fileCtx.size = Len(disk[fileCtx.path]) /\ fileCtx.off <= fileCtx.size
           /\ fileCtx.size \in Nat /\ fileCtx.off \in Nat /\ fileCtx.seq \in Nat \ {0}
           /\ \A i \in DOMAIN files : files[i].path = fileCtx.path => files[i] = Last(files)
<1>1. /\ files # <<>> /\ fileCtx.seq = Last(files).seq /\ fileCtx.path = Last(files).path
      /\ fileCtx.size = Len(disk[fileCtx.path]) /\ fileCtx.off <= fileCtx.size
    BY DEF Store, CtxOK
<1>2. Len(files) \in DOMAIN files /\ Last(files) = files[Len(files)] /\ DOMAIN files = 1..Len(files) /\ Len(files) \in Nat
    BY <1>1, FilesFacts
<1>3. fileCtx.path \in 1..MaxBlocks /\ fileCtx.path <= paths /\ disk[fileCtx.path] \in Seq(Unit) /\ fileCtx.seq \in Nat \ {0}
    <2>1. files[Len(files)].path <= paths
        BY <1>2 DEF Store, FilesOK
    <2> QED BY <1>1, <1>2, <2>1, FilesFacts
<1>4. fileCtx.size \in Nat /\ fileCtx.off \in Nat
    BY DEF Store, StoreTypes, Context
<1>5. ASSUME NEW i \in DOMAIN files, files[i].path = fileCtx.path PROVE files[i] = Last(files)
    <2>1. CASE i = Len(files)
        BY <1>2, <2>1
    <2>2. CASE i # Len(files)
        <3>1. i < Len(files)
            BY <1>2, <2>2
        <3>2. files[i].path # files[Len(files)].path
            BY <1>2, <3>1 DEF Store, FilesOK
        <3> QED BY <1>1, <1>2, <1>5, <3>2
    <2> QED BY <2>1, <2>2
<1> QED BY <1>1, <1>2, <1>3, <1>4, <1>5

\* What an index gives is kept when the file changes behind it.
LEMMA StoredKept ==
    ASSUME NEW x, x.off \in Nat, x.size \in Nat, NEW c, NEW o, Stored(x, c), NEW pos \in Nat, x.off + x.size <= pos,
           pos <= Len(o), Len(o) \in Nat, \A i \in 1..pos : o[i] = c[i]
    PROVE  Stored(x, o)
<1>1. x.off + x.size <= Len(o)
    OBVIOUS
<1>2. ASSUME NEW u \in 1..x.size PROVE o[x.off + u] = <<x.block, u>>
    <2>1. x.off + u \in 1..pos
        OBVIOUS
    <2>2. c[x.off + u] = <<x.block, u>>
        BY DEF Stored
    <2> QED BY <2>1, <2>2
<1> QED BY <1>1, <1>2 DEF Stored

\* The open file gets new content o behind its used part, of which data from pos on.
LEMMA StoreWritten ==
    ASSUME Store, fileCtx # NoCtx, sync.pc = "write", NEW pos \in Nat, Used = pos, NEW n \in Nat,
           NEW o \in Seq(Unit), Len(o) >= Len(disk[fileCtx.path]), pos + n <= Len(o),
           \A i \in 1..pos : o[i] = disk[fileCtx.path][i],
           disk' = [disk EXCEPT ![fileCtx.path] = o],
           fileCtx' \in Context, fileCtx'.seq = fileCtx.seq, fileCtx'.path = fileCtx.path,
           fileCtx'.off = pos + n, fileCtx'.size = Len(o),
           UNCHANGED <<files, table, paths, log>>,
           sync'.pc = "index", sync'.seek \in Int, sync'.offset = pos, sync'.size = n, sync'.reqs = sync.reqs,
           LaidOn(Req.indexes, o, pos, n)
    PROVE  Store'
<1> DEFINE f == fileCtx.path
           c == disk[f]
<1>1. /\ files # <<>> /\ fileCtx.seq = Last(files).seq /\ f = Last(files).path
      /\ f \in 1..MaxBlocks /\ f <= paths /\ c \in Seq(Unit) /\ fileCtx.seq \in Nat \ {0}
      /\ \A i \in DOMAIN files : files[i].path = f => files[i] = Last(files)
    BY OpenFacts
<1>2. disk \in [1..MaxBlocks -> Seq(Unit)] /\ MaxBlocks \in Nat /\ paths \in Nat
    BY FilesFacts DEF Store, StoreTypes
<1>3. Len(c) \in Nat /\ Len(o) \in Nat /\ Len(o) >= Len(c)
    <2> HIDE DEF Unit
    <2> QED BY <1>1
<1>4. disk'[f] = o /\ \A p \in 1..MaxBlocks : p # f => disk'[p] = disk[p]
    BY <1>1, <1>2
<1>5. \A p \in 1..MaxBlocks : Len(disk'[p]) >= Len(disk[p]) /\ Len(disk'[p]) \in Nat /\ Len(disk[p]) \in Nat
    <2> SUFFICES ASSUME NEW p \in 1..MaxBlocks
                 PROVE  Len(disk'[p]) >= Len(disk[p]) /\ Len(disk'[p]) \in Nat /\ Len(disk[p]) \in Nat
        OBVIOUS
    <2>1. Len(disk[p]) \in Nat
        <3>1. disk[p] \in Seq(Unit)
            BY <1>2
        <3> HIDE DEF Unit
        <3> QED BY <3>1
    <2>2. CASE p = f
        BY <1>3, <1>4, <2>2
    <2>3. CASE p # f
        BY <1>4, <2>1, <2>3
    <2> QED BY <2>2, <2>3
<1>6. StoreTypes'
    <2>1. disk' \in [1..MaxBlocks -> Seq(Unit)]
        BY <1>1, <1>2
    <2> QED BY <2>1 DEF Store, StoreTypes
<1>7. FilesOK'
    <2>1. ASSUME NEW i \in DOMAIN files PROVE files[i].size <= Len(disk'[files[i].path])
        <3>1. files[i].size <= Len(disk[files[i].path])
            BY DEF Store, FilesOK
        <3>2. files[i].path \in 1..MaxBlocks /\ files[i].size \in Nat
            BY FilesFacts
        <3> QED BY <1>5, <3>1, <3>2
    <2>2. ASSUME NEW p \in 1..MaxBlocks, p > paths PROVE disk'[p] = <<>>
        <3>1. p # f
            BY <1>1, <1>2, <2>2
        <3> QED BY <1>4, <2>2, <3>1 DEF Store, FilesOK
    <2> QED BY <2>1, <2>2 DEF Store, FilesOK
<1>8. TableOK'
    <2>1. ASSUME NEW r \in table PROVE r.size <= Len(disk'[r.path])
        <3>1. r.size <= Len(disk[r.path]) /\ r.size \in Nat
            BY DEF Store, TableOK, StoreTypes, FileRec
        <3>2. PICK i \in DOMAIN files : files[i].path = r.path
            BY DEF Store, TableOK
        <3>3. r.path \in 1..MaxBlocks
            BY <3>2, FilesFacts
        <3> QED BY <1>5, <3>1, <3>3
    <2> QED BY <2>1 DEF Store, TableOK
<1>9. fileCtx' # NoCtx
    BY <1>1 DEF NoCtx
<1>10. CtxOK'
    <2>1. Req' = Req
        BY DEF Req
    <2>2. fileCtx'.off <= fileCtx'.size /\ sync'.offset + sync'.size = fileCtx'.off
        OBVIOUS
    <2>3. LaidOn(Req'.indexes, disk'[fileCtx'.path], sync'.offset, sync'.size)
        BY <1>4, <2>1
    <2> QED BY <1>1, <1>4, <1>9, <2>2, <2>3 DEF CtxOK
<1>11. Used' = pos
    BY <1>9 DEF Used
<1>12. LogOK'
    <2>1. ASSUME NEW k \in DOMAIN log
          PROVE  /\ log[k].block \in Nat /\ log[k].file \in Nat \ {0} /\ log[k].off \in Nat /\ log[k].size \in Nat
                 /\ \E i \in DOMAIN files : files[i].seq = log[k].file /\ Stored(log[k], disk'[files[i].path])
                 /\ log[k].file = Last(files).seq => log[k].off + log[k].size <= Used'
        <3>1. /\ log[k].block \in Nat /\ log[k].file \in Nat \ {0} /\ log[k].off \in Nat /\ log[k].size \in Nat
              /\ log[k].file = Last(files).seq => log[k].off + log[k].size <= pos
            BY DEF Store, LogOK
        <3>2. PICK i \in DOMAIN files : files[i].seq = log[k].file /\ Stored(log[k], disk[files[i].path])
            BY DEF Store, LogOK
        <3>3. CASE files[i].path = f
            <4>1. log[k].off + log[k].size <= pos /\ Stored(log[k], c)
                BY <1>1, <3>1, <3>2, <3>3
            <4>2. pos <= Len(o)
                BY <1>3
            <4> HIDE DEF c, f
            <4>3. Stored(log[k], o)
                <5>1. \A j \in 1..pos : o[j] = c[j]
                    BY DEF c, f
                <5> QED BY <1>3, <3>1, <4>1, <4>2, <5>1, StoredKept
            <4> QED BY <1>4, <1>11, <3>1, <3>2, <3>3, <4>3
        <3>4. CASE files[i].path # f
            <4>1. files[i].path \in 1..MaxBlocks
                BY FilesFacts
            <4>2. disk'[files[i].path] = disk[files[i].path]
                BY <1>4, <3>4, <4>1
            <4> QED BY <1>11, <3>1, <3>2, <4>2
        <3> QED BY <3>3, <3>4
    <2>2. \A k, l \in DOMAIN log : k < l => log[k].file <= log[l].file
        BY DEF Store, LogOK
    <2> QED BY <2>1, <2>2 DEF LogOK
<1> QED BY <1>6, <1>7, <1>8, <1>10, <1>12 DEF Store

\* The buffer, or a part of it, is written behind the used part of the file.
LEMMA TidySyncWrite ==
    ASSUME Base, Tidy, SyncWrite, UNCHANGED scene
    PROVE  Tidy'
<1> DEFINE pos == IF sync.seek >= 0 THEN sync.seek ELSE fileCtx.off
           f == fileCtx.path
           c == disk[f]
<1>1. /\ sync.pc = "write" /\ UNCHANGED <<calls, call, syncReq, syncReqs, files, table, paths, log>>
    BY DEF SyncWrite, writing, handing, logging
<1>2. Store /\ fileCtx # NoCtx /\ Begun(Req) /\ sync.reqs # <<>>
    BY <1>1 DEF Tidy, Store, CtxOK, ReqsOK, Busy, Base, SyncOK
<1>3. Req \in Request /\ Req.indexes \in Seq(Ix) /\ Req.data \in Seq(Unit) /\ Laid(Req.indexes, Req.data)
    <2>1. Req \in Request /\ Req.indexes \in Seq(Ix)
        BY <1>2, SyncFacts
    <2> QED BY <1>2, <2>1 DEF Request, Begun
<1>4. /\ fileCtx.path \in 1..MaxBlocks /\ c \in Seq(Unit) /\ fileCtx.size = Len(c)
      /\ fileCtx.off <= fileCtx.size /\ fileCtx.size \in Nat /\ fileCtx.off \in Nat
    BY <1>2, OpenFacts
<1>5. sync.seek \in Int /\ sync.seek <= Len(c)
    BY <1>1, <1>2 DEF Store, StoreTypes, CtxOK
<1>6. pos \in 0..Len(c) /\ pos \in Nat
    <2> HIDE DEF c
    <2> QED BY <1>4, <1>5
<1>7. Used = pos
    BY <1>1, <1>2 DEF Used
<1> HIDE DEF pos
<1>8. PICK n \in 0..Len(Req.data) :
        /\ disk' = [disk EXCEPT ![fileCtx.path] = Overwrite(@, pos, SubSeq(Req.data, 1, n))]
        /\ fileCtx' = [fileCtx EXCEPT !.off = pos + n, !.size = Greater(@, pos + n)]
        /\ sync' = [sync EXCEPT !.pc = "index", !.offset = pos, !.size = n, !.err = n < Len(Req.data)]
    BY DEF SyncWrite, pos
<1> DEFINE d == SubSeq(Req.data, 1, n)
           o == Overwrite(c, pos, d)
<1>9. d \in Seq(Unit) /\ Len(d) = n /\ \A i \in 1..n : d[i] = Req.data[i]
    BY <1>3, FrontFacts
<1>10. n \in Nat
    BY <1>3
<1>11. disk' = [disk EXCEPT ![f] = o]
    <2>1. disk \in [1..MaxBlocks -> Seq(Unit)]
        BY <1>2 DEF Store, StoreTypes
    <2> QED BY <1>8
<1> HIDE DEF d
<1>12. /\ o \in Seq(Unit) /\ Len(o) = Greater(Len(c), pos + Len(d)) /\ Len(o) >= Len(c) /\ Len(o) >= pos + Len(d)
       /\ Len(o) \in Nat /\ (\A i \in 1..pos : o[i] = c[i]) /\ \A k \in 1..Len(d) : o[pos + k] = d[k]
    <2>0. c \in Seq(Unit) /\ d \in Seq(Unit) /\ pos \in 0..Len(c)
        BY <1>4, <1>6, <1>9
    <2> HIDE DEF c
    <2> QED BY ONLY <2>0, OverwriteFacts
<1> HIDE DEF o
<1>13. LaidOn(Req.indexes, o, pos, n)
    <2>1. \A k \in 1..n : o[pos + k] = Req.data[k]
        BY <1>9, <1>12
    <2> QED BY <1>3, <1>6, <2>1, LaidWritten
<1>14. /\ fileCtx' \in Context /\ fileCtx'.seq = fileCtx.seq /\ fileCtx'.path = f
       /\ fileCtx'.off = pos + n /\ fileCtx'.size = Len(o)
    <2>1. fileCtx \in Context
        BY <1>2 DEF Store, StoreTypes
    <2>2. Len(o) = Greater(fileCtx.size, pos + n)
        BY <1>4, <1>9, <1>12
    <2>3. fileCtx' = [fileCtx EXCEPT !.off = pos + n, !.size = Len(o)]
        BY <1>8, <2>2
    <2>4. pos + n \in Nat /\ Len(o) \in Nat
        BY <1>6, <1>10, <1>12
    <2> QED BY <2>1, <2>3, <2>4 DEF Context
<1>15. /\ sync'.pc = "index" /\ sync'.seek = sync.seek /\ sync'.offset = pos /\ sync'.size = n /\ sync'.reqs = sync.reqs
    <2>1. DOMAIN sync = SyncFields
        BY SyncFacts
    <2>2. \E e : sync' = [sync EXCEPT !.pc = "index", !.offset = pos, !.size = n, !.err = e]
        BY <1>8
    <2> QED BY <2>1, <2>2 DEF SyncFields
<1>16. Store'
    <2>1. pos + n <= Len(o)
        BY <1>9, <1>12
    <2> QED BY <1>1, <1>2, <1>5, <1>6, <1>7, <1>10, <1>11, <1>12, <1>13, <1>14, <1>15, <2>1, StoreWritten
<1>17. \A i \in DOMAIN sync'.reqs : Fresh(sync'.reqs[i]) \/ (i = 1 /\ Busy')
    BY <1>15 DEF Tidy, ReqsOK, Busy
<1>18. \A i \in DOMAIN syncReqs' : Fresh(syncReqs'[i])
    BY <1>1 DEF Tidy, ReqsOK
<1> QED BY <1>1, <1>15, <1>16, <1>17, <1>18, TidySync

\* One more index in the log.
LEMMA LogAppended ==
    ASSUME NEW l, LogType(l), NEW y
    PROVE  /\ Len(l) \in Nat /\ DOMAIN l = 1..Len(l) /\ DOMAIN Append(l, y) = 1..(Len(l) + 1)
           /\ (\A k \in 1..Len(l) : Append(l, y)[k] = l[k]) /\ Append(l, y)[Len(l) + 1] = y
<1>1. PICK S : l \in Seq(S)
    BY DEF LogType
<1> DEFINE T == S \union {y}
<1>2. l \in Seq(T) /\ y \in T
    BY <1>1
<1> HIDE DEF T
<1> QED BY ONLY <1>2

\* The index of a block that has been written.
LEMMA PlacedFacts ==
    ASSUME NEW x \in Ix
    PROVE  /\ Placed(x).block = x.block /\ Placed(x).file = fileCtx.seq /\ Placed(x).off = sync.offset
           /\ Placed(x).size = Lesser(x.size, sync.size)
    BY DEF Placed, Ix

\* The open file gets an index: the used part grows by its block.
LEMMA StoreAdded ==
    ASSUME Base, Store, sync.pc = "index", NEW x \in Ix, Req.indexes # <<>>, x = Req.indexes[1], Req.indexes \in Seq(Ix),
           log' = Append(log, Placed(x)), UNCHANGED <<fileCtx, files, table, disk, paths>>,
           sync'.pc = "index", sync'.seek = sync.seek, Req'.indexes = Tail(Req.indexes),
           sync'.offset = sync.offset + Placed(x).size, sync'.size = sync.size - Placed(x).size
    PROVE  Store'
<1> DEFINE y == Placed(x)
           f == fileCtx.path
           n == Len(log)
           off == sync.offset
           size == sync.size
           s == y.size
<1>1. /\ fileCtx # NoCtx /\ off + size = fileCtx.off /\ LaidOn(Req.indexes, disk[f], off, size)
      /\ off \in Nat /\ size \in Nat /\ sync.seek \in Int
    BY DEF Store, CtxOK, StoreTypes, Busy
<1>2. /\ files # <<>> /\ fileCtx.seq = Last(files).seq /\ f = Last(files).path /\ Len(files) \in DOMAIN files
      /\ Last(files) = files[Len(files)] /\ fileCtx.size = Len(disk[f]) /\ fileCtx.off <= fileCtx.size
      /\ fileCtx.size \in Nat /\ fileCtx.off \in Nat /\ fileCtx.seq \in Nat \ {0}
    BY <1>1, OpenFacts
<1>3. y.block = x.block /\ y.file = fileCtx.seq /\ y.off = off /\ s = Lesser(x.size, size) /\ x.block \in Nat
    BY PlacedFacts DEF Ix
<1>4. log' = Append(log, y) /\ sync'.offset = off + s /\ sync'.size = size - s
    OBVIOUS
<1> HIDE DEF y, s, off, size, f, n
<1>5. /\ s \in Nat /\ s <= size /\ s <= x.size
      /\ \A u \in 1..s : disk[f][off + u] = <<x.block, u>>
      /\ LaidOn(Tail(Req.indexes), disk[f], off + s, size - s)
    <2> DEFINE xs == Req.indexes
               c == disk[f]
    <2>1. xs \in Seq(Ix) /\ xs # <<>> /\ x = xs[1]
        OBVIOUS
    <2>2. s = Lesser(xs[1].size, size)
        BY <1>3
    <2>3. LaidOn(xs, c, off, size) /\ off \in Nat /\ size \in Nat
        BY <1>1
    <2> HIDE DEF xs, c
    <2>4. s \in Nat /\ s <= size /\ s <= xs[1].size
        BY ONLY <2>1, <2>2, <2>3, LaidTail
    <2>5. \A u \in 1..s : c[off + u] = <<xs[1].block, u>>
        BY ONLY <2>1, <2>2, <2>3, LaidTail
    <2>6. LaidOn(Tail(xs), c, off + s, size - s)
        BY ONLY <2>1, <2>2, <2>3, LaidTail
    <2> QED BY <2>1, <2>4, <2>5, <2>6 DEF xs, c
<1>6. /\ n \in Nat /\ DOMAIN log = 1..n /\ DOMAIN log' = 1..(n + 1)
      /\ (\A k \in 1..n : log'[k] = log[k]) /\ log'[n + 1] = y
    <2>1. LogType(log)
        BY SyncFacts
    <2> QED BY <1>4, <2>1, LogAppended DEF n
<1>7. StoreTypes'
    <2>1. off + s \in Nat /\ size - s \in Nat
        BY <1>1, <1>5
    <2> QED BY <1>1, <1>4, <2>1 DEF Store, StoreTypes
<1>8. FilesOK' /\ TableOK'
    BY DEF Store, FilesOK, TableOK
<1>9. CtxOK'
    <2>1. (off + s) + (size - s) = fileCtx.off
        BY <1>1, <1>2, <1>5
    <2>2. LaidOn(Req'.indexes, disk'[fileCtx'.path], sync'.offset, sync'.size)
        BY <1>4, <1>5 DEF f
    <2> QED BY <1>1, <1>2, <1>4, <2>1, <2>2 DEF CtxOK, f
<1>10. Used' = off + s /\ Used = off
    BY <1>1, <1>4 DEF Used, off
<1>11. LogOK'
    <2>1. ASSUME NEW k \in 1..n
          PROVE  /\ log[k].block \in Nat /\ log[k].file \in Nat \ {0} /\ log[k].off \in Nat /\ log[k].size \in Nat
                 /\ \E i \in DOMAIN files : files[i].seq = log[k].file /\ Stored(log[k], disk[files[i].path])
                 /\ log[k].file = Last(files).seq => log[k].off + log[k].size <= off + s
        <3>1. /\ log[k].block \in Nat /\ log[k].file \in Nat \ {0} /\ log[k].off \in Nat /\ log[k].size \in Nat
              /\ \E i \in DOMAIN files : files[i].seq = log[k].file /\ Stored(log[k], disk[files[i].path])
              /\ log[k].file = Last(files).seq => log[k].off + log[k].size <= off
            BY <1>6, <1>10 DEF Store, LogOK
        <3>2. log[k].file = Last(files).seq => log[k].off + log[k].size <= off + s
            <4>1. off \in Nat /\ s \in Nat
                BY ONLY <1>1, <1>5
            <4>2. log[k].off \in Nat /\ log[k].size \in Nat
                BY ONLY <3>1
            <4>3. log[k].file = Last(files).seq => log[k].off + log[k].size <= off
                BY ONLY <3>1
            <4> QED BY ONLY <4>1, <4>2, <4>3
        <3> QED BY <3>1, <3>2
    <2>2. /\ y.block \in Nat /\ y.file \in Nat \ {0} /\ y.off \in Nat /\ y.size \in Nat
          /\ \E i \in DOMAIN files : files[i].seq = y.file /\ Stored(y, disk[files[i].path])
          /\ y.off + y.size <= off + s
        <3>1. y.block \in Nat /\ y.file \in Nat \ {0} /\ y.off \in Nat /\ y.size = s /\ s \in Nat
            BY <1>1, <1>2, <1>3, <1>5 DEF s
        <3>2. y.off + y.size = off + s /\ off + s <= Len(disk[f])
            <4>1. y.off = off /\ y.size = s
                BY <1>3, <3>1
            <4>2. off + size = fileCtx.off /\ off \in Nat /\ size \in Nat
                BY ONLY <1>1
            <4>3. fileCtx.off <= Len(disk[f]) /\ Len(disk[f]) \in Nat
                BY ONLY <1>2
            <4>4. s \in Nat /\ s <= size
                BY ONLY <1>5
            <4>5. off + s <= Len(disk[f])
                BY ONLY <4>2, <4>3, <4>4
            <4> QED BY ONLY <4>1, <4>5
        <3>3. Stored(y, disk[f])
            BY <1>3, <1>5, <3>1, <3>2 DEF Stored
        <3>4. files[Len(files)].seq = y.file /\ files[Len(files)].path = f
            BY <1>2, <1>3
        <3>5. y.off + y.size <= off + s
            BY <1>1, <3>1, <3>2
        <3> QED BY <1>2, <3>1, <3>3, <3>4, <3>5
    <2>3. ASSUME NEW k \in DOMAIN log'
          PROVE  /\ log'[k].block \in Nat /\ log'[k].file \in Nat \ {0} /\ log'[k].off \in Nat /\ log'[k].size \in Nat
                 /\ \E i \in DOMAIN files' : files'[i].seq = log'[k].file /\ Stored(log'[k], disk'[files'[i].path])
                 /\ log'[k].file = Last(files').seq => log'[k].off + log'[k].size <= Used'
        <3>1. k \in 1..n \/ k = n + 1
            BY <1>6
        <3>2. CASE k \in 1..n
            <4>1. log'[k] = log[k]
                BY <1>6, <3>2
            <4> QED BY <1>10, <2>1, <3>2, <4>1
        <3>3. CASE k = n + 1
            <4>1. log'[k] = y
                BY <1>6, <3>3
            <4> QED BY <1>10, <2>2, <4>1
        <3> QED BY <3>1, <3>2, <3>3
    <2>4. ASSUME NEW k \in DOMAIN log', NEW l \in DOMAIN log', k < l
          PROVE  log'[k].file <= log'[l].file
        <3>1. k \in 1..n /\ log'[k] = log[k]
            BY <1>6, <2>4
        <3>2. CASE l \in 1..n
            <4>1. log[k].file <= log[l].file
                BY <1>6, <2>4, <3>1, <3>2 DEF Store, LogOK
            <4> QED BY <1>6, <3>1, <3>2, <4>1
        <3>3. CASE l = n + 1
            <4>1. PICK i \in DOMAIN files : files[i].seq = log[k].file
                BY <2>1, <3>1
            <4>2. files[i].seq <= files[Len(files)].seq /\ files[i].seq \in Nat
                <5>1. DOMAIN files = 1..Len(files) /\ Len(files) \in Nat /\ \A j \in DOMAIN files : files[j].seq \in Nat
                    BY FilesFacts
                <5>2. i = Len(files) \/ i < Len(files)
                    BY <5>1
                <5>3. i < Len(files) => files[i].seq < files[Len(files)].seq
                    BY <1>2 DEF Store, FilesOK
                <5> QED BY <1>2, <5>1, <5>2, <5>3
            <4>3. log'[l].file = files[Len(files)].seq
                BY <1>2, <1>3, <1>6, <3>3
            <4> QED BY <3>1, <4>1, <4>2, <4>3
        <3> QED BY <1>6, <3>2, <3>3
    <2> QED BY <2>3, <2>4 DEF LogOK
<1> QED BY <1>7, <1>8, <1>9, <1>11 DEF Store

\* doSync adds the index of a block it has written.
LEMMA TidySyncAddIndex ==
    ASSUME Base, Tidy, SyncAddIndex, UNCHANGED scene
    PROVE  Tidy'
<1> DEFINE x == Head(Req.indexes)
           r == [Req EXCEPT !.indexes = Tail(@)]
           c == [sync.reqs EXCEPT ![1] = r]
           a == sync.offset + Placed(x).size
           b == sync.size - Placed(x).size
<1>1. /\ sync.pc = "index" /\ Req.indexes # <<>>
      /\ UNCHANGED <<calls, call, syncReq, syncReqs, fileCtx, files, table, disk, paths>>
      /\ log' = Append(log, Placed(x))
    BY DEF SyncAddIndex, writing, handing, storing
<1>2. /\ sync.reqs \in Seq(Request) /\ DOMAIN sync = SyncFields /\ sync.reqs # <<>>
      /\ Req = sync.reqs[1] /\ Req \in Request /\ Req.indexes \in Seq(Ix)
    BY <1>1, SyncFacts DEF Base, SyncOK
<1>3. sync' = [sync EXCEPT !.reqs[1].indexes = Tail(@), !.offset = a, !.size = b]
    BY <1>2 DEF SyncAddIndex, SyncFields
<1>4. x \in Ix /\ x = Req.indexes[1]
    BY <1>1, <1>2
<1> HIDE DEF a, b
<1>5. sync'.reqs = c /\ sync'.pc = "index" /\ sync'.seek = sync.seek /\ sync'.offset = a /\ sync'.size = b
    BY <1>1, <1>2, <1>3 DEF SyncFields
<1>6. r.indexes = Tail(Req.indexes)
    <2>1. Req \in [kind : Kinds, data : Seq(Unit), indexes : Seq(Ix)]
        BY <1>2 DEF Request
    <2> DEFINE o == Req
               e == Tail(o.indexes)
               K == Kinds
               D == Seq(Unit)
               I == Seq(Ix)
    <2>2. o \in [kind : K, data : D, indexes : I] /\ r = [o EXCEPT !.indexes = e]
        BY <2>1
    <2> HIDE DEF o, e, K, D, I
    <2>3. \A w : [o EXCEPT !.indexes = w].indexes = w
        BY ONLY <2>2
    <2>4. r.indexes = e
        BY ONLY <2>2, <2>3
    <2> QED BY <2>4 DEF e, o
<1> HIDE DEF r
<1>7. c # <<>> /\ c[1] = r /\ DOMAIN c = DOMAIN sync.reqs /\ \A i \in DOMAIN sync.reqs : i # 1 => c[i] = sync.reqs[i]
    BY <1>2
<1>8. Req' = r
    <2>1. Head(c) = c[1]
        OBVIOUS
    <2> QED BY <1>5, <1>7, <2>1 DEF Req
<1> HIDE DEF c, x
<1>9. Store'
    <2>1. sync'.offset = sync.offset + Placed(x).size /\ sync'.size = sync.size - Placed(x).size
        BY <1>5 DEF a, b
    <2>2. Req'.indexes = Tail(Req.indexes) /\ Store
        BY <1>6, <1>8 DEF Tidy
    <2>3. log' = Append(log, Placed(x)) /\ sync.pc = "index" /\ Req.indexes # <<>>
          /\ UNCHANGED <<fileCtx, files, table, disk, paths>>
        BY <1>1 DEF x
    <2> QED BY <1>2, <1>4, <1>5, <2>1, <2>2, <2>3, StoreAdded
<1>10. \A i \in DOMAIN sync'.reqs : Fresh(sync'.reqs[i]) \/ (i = 1 /\ Busy')
    BY <1>5, <1>7 DEF Tidy, ReqsOK, Busy
<1>11. \A i \in DOMAIN syncReqs' : Fresh(syncReqs'[i])
    BY <1>1 DEF Tidy, ReqsOK
<1> QED BY <1>1, <1>5, <1>9, <1>10, <1>11, TidySync

-----------------------------------------------------------------------------
(* The metadata manager, retention, crash and restart.                     *)

\* The metadata manager saves an index.
LEMMA TidySaveIndex ==
    ASSUME Tidy, SaveIndex, UNCHANGED scene
    PROVE  Tidy'
<1>1. UNCHANGED <<calls, call, syncReq, syncReqs, sync, storing, log, paths>>
    BY DEF SaveIndex, writing, handing, storing
<1>2. CallsOK'
    BY <1>1 DEF Tidy, CallsOK, Coming
<1>3. Fresh(syncReq') /\ \A i \in DOMAIN syncReqs' : Fresh(syncReqs'[i])
    BY <1>1 DEF Tidy, ReqsOK
<1> QED BY <1>1, <1>2, <1>3, TidyCall

\* Nothing happens.
LEMMA TidySame ==
    ASSUME Tidy, UNCHANGED wvars
    PROVE  Tidy'
<1>1. UNCHANGED <<scene, calls, call, syncReq, syncReqs, sync, storing, log, paths>>
    BY DEF wvars, writing, handing, storing, logging
<1>2. CallsOK'
    BY <1>1 DEF Tidy, CallsOK, Coming
<1>3. Fresh(syncReq') /\ \A i \in DOMAIN syncReqs' : Fresh(syncReqs'[i])
    BY <1>1 DEF Tidy, ReqsOK
<1> QED BY <1>1, <1>2, <1>3, TidyCall

\* The requests of doSync and of the calls are left alone.
LEMMA TidyOther ==
    ASSUME Tidy, Store', UNCHANGED <<scene, calls, call, syncReq, syncReqs, sync, paths>>
    PROVE  Tidy'
<1>1. CallsOK'
    BY DEF Tidy, CallsOK, Coming
<1>2. ReqsOK'
    BY DEF Tidy, ReqsOK, Fresh, Begun, Busy, Req
<1> QED BY <1>1, <1>2 DEF Tidy

\* The metadata manager saves the record of a file.
LEMMA TidySaveFile ==
    ASSUME Tidy, SaveFile, UNCHANGED scene
    PROVE  Tidy'
<1>1. UNCHANGED <<calls, call, syncReq, syncReqs, sync, fileCtx, files, disk, paths, log>>
    BY DEF SaveFile, writing, handing, logging
<1>2. PICK i \in DOMAIN files : table' = {r \in table : r.seq # files[i].seq} \union {files[i]}
    BY DEF SaveFile
<1>3. Store /\ table \subseteq FileRec /\ IsFiniteSet(table) /\ files[i] \in FileRec
    <2>1. files \in Seq(FileRec) /\ table \subseteq FileRec /\ IsFiniteSet(table) /\ Store
        BY DEF Tidy, Store, StoreTypes
    <2> QED BY <2>1
<1>4. StoreTypes'
    <2>1. IsFiniteSet({r \in table : r.seq # files[i].seq})
        BY <1>3, FS_Subset
    <2>2. IsFiniteSet({r \in table : r.seq # files[i].seq} \union {files[i]})
        BY <2>1, FS_AddElement
    <2>3. IsFiniteSet(table') /\ table' \subseteq FileRec
        BY <1>2, <1>3, <2>2
    <2> QED BY <1>1, <1>3, <2>3 DEF Store, StoreTypes
<1>5. TableOK'
    <2>1. \A r, s \in table' : r.seq = s.seq => r = s
        BY <1>2, <1>3 DEF Store, TableOK
    <2>2. \A r \in table' : \E j \in DOMAIN files' : files'[j].seq = r.seq /\ files'[j].path = r.path
        BY <1>1, <1>2, <1>3 DEF Store, TableOK
    <2>3. ASSUME NEW j \in DOMAIN files PROVE \E r \in table' : r.seq = files[j].seq
        <3>1. CASE files[j].seq = files[i].seq
            BY <1>2, <3>1
        <3>2. CASE files[j].seq # files[i].seq
            <4>1. PICK r \in table : r.seq = files[j].seq
                BY <1>3 DEF Store, TableOK
            <4> QED BY <1>2, <3>2, <4>1
        <3> QED BY <3>1, <3>2
    <2>4. \A r \in table' : r.size <= Len(disk'[r.path])
        <3>1. files[i].size <= Len(disk[files[i].path])
            BY <1>3 DEF Store, FilesOK
        <3> QED BY <1>1, <1>2, <1>3, <3>1 DEF Store, TableOK
    <2> QED BY <1>1, <2>1, <2>2, <2>3, <2>4 DEF TableOK
<1>6. FilesOK' /\ CtxOK' /\ LogOK'
    BY <1>1, <1>3 DEF Store, FilesOK, CtxOK, LogOK, Busy, Used, Req
<1>7. Store'
    BY <1>4, <1>5, <1>6 DEF Store
<1> QED BY <1>1, <1>7, TidyOther

\* The log behind its first n indexes.
LEMMA LogBehind ==
    ASSUME NEW l, LogType(l), NEW n \in 0..Len(l), NEW h, h = SubSeq(l, n + 1, Len(l))
    PROVE  /\ Len(l) \in Nat /\ DOMAIN l = 1..Len(l) /\ DOMAIN h = 1..(Len(l) - n)
           /\ \A k \in DOMAIN h : h[k] = l[n + k] /\ n + k \in DOMAIN l /\ n < n + k /\ n + k \in (n + 1)..Len(l)
<1>1. PICK S : l \in Seq(S)
    BY DEF LogType
<1>2. Len(l) \in Nat /\ DOMAIN l = 1..Len(l) /\ n \in Nat /\ n <= Len(l)
    BY <1>1
<1>3. /\ h \in Seq(S) /\ Len(h) = Len(l) - n
      /\ \A i \in 1..(Len(l) - n) : h[i] = l[n + i]
    BY ONLY <1>1, n \in 0..Len(l), h = SubSeq(l, n + 1, Len(l)), BackFacts
<1>4. DOMAIN h = 1..(Len(l) - n)
    BY ONLY <1>3
<1>5. \A k \in 1..(Len(l) - n) : n + k \in 1..Len(l) /\ n < n + k /\ n + k \in (n + 1)..Len(l)
    BY ONLY <1>2
<1> QED BY <1>2, <1>3, <1>4, <1>5

\* Retention takes the files up to f and the indexes in them.
LEMMA TidyExpire ==
    ASSUME Base, Orderly, Tidy, Expire, UNCHANGED scene
    PROVE  Tidy'
<1>1. UNCHANGED <<calls, call, syncReq, syncReqs, sync, fileCtx, disk, paths>>
    BY DEF Expire, writing, handing
<1>2. Store /\ "expireOpen" \notin scene.faults
    BY OrderlyFacts DEF Tidy
<1>3. PICK n \in 1..saved :
        /\ \A k \in (n + 1)..Len(log) : log[k].file # log[n].file
        /\ fileCtx = NoCtx \/ fileCtx.seq > log[n].file
        /\ log' = SubSeq(log, n + 1, Len(log))
        /\ \E m \in 0..Len(files) :
              /\ \A i \in DOMAIN files : files[i].seq <= log[n].file <=> i <= m
              /\ files' = SubSeq(files, m + 1, Len(files))
        /\ table' = {r \in table : r.seq > log[n].file}
    BY <1>2 DEF Expire
<1> DEFINE f == log[n].file
<1>4. PICK m \in 0..Len(files) : /\ \A i \in DOMAIN files : files[i].seq <= f <=> i <= m
                                 /\ files' = SubSeq(files, m + 1, Len(files))
    BY <1>3
<1>5. LogType(log) /\ n \in 0..Len(log) /\ n \in DOMAIN log
    <2>1. LogType(log) /\ Len(log) \in Nat /\ saved \in 0..Len(log)
        BY SyncFacts
    <2>2. DOMAIN log = 1..Len(log)
        <3>1. PICK S : log \in Seq(S)
            BY <2>1 DEF LogType
        <3> QED BY <3>1
    <2> QED BY <2>1, <2>2
<1>6. /\ Len(log) \in Nat /\ DOMAIN log' = 1..(Len(log) - n) /\ n \in Nat
      /\ \A k \in DOMAIN log' : log'[k] = log[n + k] /\ n + k \in DOMAIN log /\ n < n + k /\ n + k \in (n + 1)..Len(log)
    <2>1. log' = SubSeq(log, n + 1, Len(log))
        BY <1>3
    <2>2. /\ Len(log) \in Nat /\ DOMAIN log' = 1..(Len(log) - n)
          /\ \A k \in DOMAIN log' : log'[k] = log[n + k] /\ n + k \in DOMAIN log /\ n < n + k /\ n + k \in (n + 1)..Len(log)
        BY ONLY <1>5, <2>1, LogBehind
    <2> QED BY <1>5, <2>2
<1>7. f \in Nat \ {0}
    BY <1>2, <1>5 DEF Store, LogOK
<1>8. /\ files \in Seq(FileRec) /\ Len(files) \in Nat /\ DOMAIN files = 1..Len(files) /\ m \in Nat /\ m <= Len(files)
      /\ \A i \in DOMAIN files : files[i].seq \in Nat /\ files[i].path \in Nat
      /\ files # <<>> => Last(files) = files[Len(files)] /\ Len(files) \in DOMAIN files
    <2>1. /\ files \in Seq(FileRec) /\ Len(files) \in Nat /\ DOMAIN files = 1..Len(files)
          /\ files # <<>> => Last(files) = files[Len(files)] /\ Len(files) \in DOMAIN files
        BY <1>2, FilesFacts
    <2>2. \A i \in DOMAIN files : files[i].seq \in Nat /\ files[i].path \in 1..MaxBlocks
        BY <1>2, FilesFacts
    <2>3. m \in Nat /\ m <= Len(files)
        BY <2>1
    <2> QED BY <2>1, <2>2, <2>3
<1>9. /\ files' \in Seq(FileRec) /\ Len(files') = Len(files) - m /\ DOMAIN files' = 1..(Len(files) - m)
      /\ \A i \in 1..(Len(files) - m) : files'[i] = files[m + i]
    <2>1. /\ files' \in Seq(FileRec) /\ Len(files') = Len(files) - m
          /\ \A i \in 1..(Len(files) - m) : files'[i] = files[m + i]
        BY <1>4, <1>8, BackFacts
    <2> QED BY ONLY <2>1
<1>10. \A i \in DOMAIN files' : m + i \in DOMAIN files /\ files'[i] = files[m + i] /\ i \in Nat
    BY <1>8, <1>9
<1> HIDE DEF f
<1>11. ASSUME NEW i \in DOMAIN files, files[i].seq > f PROVE i - m \in DOMAIN files' /\ files'[i - m] = files[i]
    <2>1. ~(i <= m)
        BY <1>4, <1>7, <1>8, <1>11
    <2>2. i - m \in 1..(Len(files) - m) /\ m + (i - m) = i
        BY <1>8, <2>1
    <2> QED BY <1>9, <2>2
<1>12. files' # <<>> => files # <<>> /\ Last(files') = Last(files)
    <2> SUFFICES ASSUME files' # <<>> PROVE files # <<>> /\ Last(files') = Last(files)
        OBVIOUS
    <2>1. Len(files') \in DOMAIN files' /\ Last(files') = files'[Len(files')] /\ Len(files') # 0
        BY <1>9, LastFacts
    <2>2. Last(files') = files[Len(files)] /\ Len(files) # 0
        <3>1. m + (Len(files) - m) = Len(files)
            BY <1>8
        <3>2. Len(files) - m \in 1..(Len(files) - m) /\ Last(files') = files'[Len(files) - m]
            BY <1>9, <2>1
        <3>3. files'[Len(files) - m] = files[m + (Len(files) - m)]
            BY <1>9, <3>2
        <3>4. Len(files) # 0
            BY <1>8, <3>2
        <3> QED BY <3>1, <3>2, <3>3, <3>4
    <2>3. files # <<>>
        BY <2>2
    <2> QED BY <1>8, <2>2, <2>3
<1>13. fileCtx # NoCtx => files' # <<>>
    <2> SUFFICES ASSUME fileCtx # NoCtx PROVE files' # <<>>
        OBVIOUS
    <2>1. files # <<>> /\ fileCtx.seq = files[Len(files)].seq /\ Len(files) \in DOMAIN files /\ fileCtx.seq > f
        BY <1>2, <1>3, OpenFacts DEF f
    <2>2. Len(files) - m \in DOMAIN files'
        BY <1>11, <2>1
    <2> QED BY <2>2
<1>14. StoreTypes'
    <2>1. IsFiniteSet(table') /\ table' \subseteq FileRec
        <3>1. table' \subseteq table
            BY <1>3
        <3> QED BY <1>2, <3>1, FS_Subset DEF Store, StoreTypes
    <2> QED BY <1>1, <1>2, <1>9, <2>1 DEF Store, StoreTypes
<1>15. FilesOK'
    <2>1. ASSUME NEW i \in DOMAIN files', NEW j \in DOMAIN files', i < j
          PROVE  files'[i].seq < files'[j].seq /\ files'[i].path # files'[j].path
        <3>1. m + i \in DOMAIN files /\ m + j \in DOMAIN files /\ m + i < m + j
            BY <1>8, <1>10, <2>1
        <3> QED BY <1>2, <1>10, <3>1 DEF Store, FilesOK
    <2>2. ASSUME NEW i \in DOMAIN files'
          PROVE  /\ i <= files'[i].seq /\ files'[i].seq <= paths' /\ files'[i].path <= paths'
                 /\ files'[i].size <= Len(disk'[files'[i].path])
        <3>1. m + i \in DOMAIN files /\ files'[i] = files[m + i] /\ i \in Nat
            BY <1>10
        <3>2. /\ m + i <= files[m + i].seq /\ files[m + i].seq <= paths /\ files[m + i].path <= paths
              /\ files[m + i].size <= Len(disk[files[m + i].path]) /\ files[m + i].seq \in Nat
            BY <1>2, <1>8, <3>1 DEF Store, FilesOK
        <3>3. i <= files[m + i].seq
            BY <1>8, <3>1, <3>2
        <3> QED BY <1>1, <3>1, <3>2, <3>3
    <2>3. \A p \in 1..MaxBlocks : p > paths' => disk'[p] = <<>>
        BY <1>1, <1>2 DEF Store, FilesOK
    <2> QED BY <2>1, <2>2, <2>3 DEF FilesOK
<1>16. TableOK'
    <2>0. table' = {r \in table : r.seq > f}
        BY <1>3 DEF f
    <2>1. \A r, s \in table' : r.seq = s.seq => r = s
        BY <1>2, <2>0 DEF Store, TableOK
    <2>2. ASSUME NEW r \in table' PROVE \E j \in DOMAIN files' : files'[j].seq = r.seq /\ files'[j].path = r.path
        <3>1. r \in table /\ r.seq > f
            BY <2>0
        <3>2. PICK i \in DOMAIN files : files[i].seq = r.seq /\ files[i].path = r.path
            BY <1>2, <3>1 DEF Store, TableOK
        <3>3. i - m \in DOMAIN files' /\ files'[i - m] = files[i]
            BY <1>11, <3>1, <3>2
        <3> QED BY <3>2, <3>3
    <2>3. ASSUME NEW j \in DOMAIN files' PROVE \E r \in table' : r.seq = files'[j].seq
        <3>1. m + j \in DOMAIN files /\ files'[j] = files[m + j] /\ j \in 1..(Len(files) - m)
            BY <1>9, <1>10
        <3>2. files[m + j].seq > f
            <4>1. ~(m + j <= m)
                BY <1>8, <3>1
            <4>2. ~(files[m + j].seq <= f)
                BY <1>4, <3>1, <4>1
            <4> QED BY <1>7, <1>8, <3>1, <4>2
        <3>3. PICK r \in table : r.seq = files[m + j].seq
            BY <1>2, <3>1 DEF Store, TableOK
        <3> QED BY <2>0, <3>1, <3>2, <3>3
    <2>4. \A r \in table' : r.size <= Len(disk'[r.path])
        BY <1>1, <1>2, <2>0 DEF Store, TableOK
    <2> QED BY <2>1, <2>2, <2>3, <2>4 DEF TableOK
<1>17. CtxOK'
    BY <1>1, <1>2, <1>12, <1>13 DEF Store, CtxOK, Busy, Req
<1>18. files' # <<>> => Used' = Used
    BY <1>1, <1>12 DEF Used
<1>19. LogOK'
    <2>1. ASSUME NEW k \in DOMAIN log'
          PROVE  /\ log'[k].block \in Nat /\ log'[k].file \in Nat \ {0} /\ log'[k].off \in Nat /\ log'[k].size \in Nat
                 /\ \E i \in DOMAIN files' : files'[i].seq = log'[k].file /\ Stored(log'[k], disk'[files'[i].path])
                 /\ log'[k].file = Last(files').seq => log'[k].off + log'[k].size <= Used'
        <3>1. log'[k] = log[n + k] /\ n + k \in DOMAIN log /\ n < n + k /\ n + k \in (n + 1)..Len(log)
            BY <1>6
        <3> DEFINE x == log[n + k]
        <3>2. /\ x.block \in Nat /\ x.file \in Nat \ {0} /\ x.off \in Nat /\ x.size \in Nat
              /\ \E i \in DOMAIN files : files[i].seq = x.file /\ Stored(x, disk[files[i].path])
              /\ x.file = Last(files).seq => x.off + x.size <= Used
            BY <1>2, <3>1 DEF Store, LogOK
        <3>3. x.file > f
            <4>1. f <= x.file
                BY <1>2, <1>5, <3>1 DEF Store, LogOK, f
            <4>2. x.file # f
                BY <1>3, <3>1 DEF f
            <4> QED BY <1>7, <3>2, <4>1, <4>2
        <3>4. log'[k] = x
            BY <3>1
        <3> HIDE DEF x
        <3>5. PICK i \in DOMAIN files : files[i].seq = x.file /\ Stored(x, disk[files[i].path])
            BY <3>2
        <3>6. i - m \in DOMAIN files' /\ files'[i - m] = files[i]
            BY <1>11, <3>3, <3>5
        <3>7. files' # <<>>
            BY <3>6
        <3>8. x.file = Last(files').seq => x.off + x.size <= Used'
            BY <1>12, <1>18, <3>2, <3>7
        <3>9. files'[i - m].seq = x.file /\ Stored(x, disk'[files'[i - m].path])
            BY <1>1, <3>5, <3>6
        <3> QED BY <3>2, <3>4, <3>6, <3>8, <3>9
    <2>2. ASSUME NEW k \in DOMAIN log', NEW l \in DOMAIN log', k < l
          PROVE  log'[k].file <= log'[l].file
        <3>1. log'[k] = log[n + k] /\ log'[l] = log[n + l] /\ n + k \in DOMAIN log /\ n + l \in DOMAIN log
            BY <1>6
        <3>2. n + k < n + l
            BY <1>6, <2>2
        <3> QED BY <1>2, <3>1, <3>2 DEF Store, LogOK
    <2> QED BY <2>1, <2>2 DEF LogOK
<1>20. Store'
    BY <1>14, <1>15, <1>16, <1>17, <1>19 DEF Store
<1> QED BY <1>1, <1>20, TidyOther

\* The records of the table in the order of their numbers.
LEMMA OrderedFacts ==
    ASSUME Store, NEW g, g = Ordered(table)
    PROVE  /\ g \in Seq(FileRec) /\ Len(g) \in Nat /\ DOMAIN g = 1..Len(g)
           /\ \A i \in DOMAIN g : g[i] \in table /\ i <= g[i].seq
           /\ \A i, j \in DOMAIN g : i < j => g[i].seq < g[j].seq
           /\ \A r \in table : \E i \in DOMAIN g : g[i] = r
<1> DEFINE S == {r.seq : r \in table}
           n == Cardinality(S)
           q == Ascending(S)
<1>1. table \subseteq FileRec /\ IsFiniteSet(table) /\ \A r, s \in table : r.seq = s.seq => r = s
    BY DEF Store, StoreTypes, TableOK
<1>2. S \in SUBSET Nat /\ S \subseteq Nat \ {0}
    BY <1>1 DEF FileRec
<1>3. IsFiniteSet(S)
    <2> DEFINE h == [r \in table |-> r.seq]
    <2>1. h \in Surjection(table, S)
        BY DEF Surjection
    <2> HIDE DEF h, S
    <2> QED BY <1>1, <2>1, FS_Surjection
<1> HIDE DEF S
<1>4. /\ n \in Nat /\ q \in [1..n -> S] /\ (\A i, j \in 1..n : i < j => q[i] < q[j])
      /\ \A x \in S : \E i \in 1..n : q[i] = x
    BY <1>2, <1>3, AscendingFacts
<1> HIDE DEF n, q
<1>5. \A i \in 1..n : i <= q[i]
    <2>1. q \in [1..n -> Nat \ {0}]
        BY <1>2, <1>4
    <2> QED BY <1>4, <2>1, AscendingAtLeast
<1>6. g = [i \in 1..n |-> CHOOSE r \in table : r.seq = q[i]]
    <2>1. DOMAIN q = 1..n
        BY <1>4
    <2>2. g = [i \in DOMAIN q |-> CHOOSE r \in table : r.seq = q[i]]
        BY DEF Ordered, q, S
    <2> QED BY <2>1, <2>2
<1>7. ASSUME NEW i \in 1..n PROVE g[i] \in table /\ g[i].seq = q[i]
    <2>1. q[i] \in S
        BY <1>4
    <2>2. \E r \in table : r.seq = q[i]
        BY <2>1 DEF S
    <2>3. g[i] = CHOOSE r \in table : r.seq = q[i]
        BY <1>6
    <2> QED BY <2>2, <2>3
<1>8. g \in [1..n -> FileRec]
    BY <1>1, <1>6, <1>7
<1>9. g \in Seq(FileRec) /\ Len(g) = n /\ DOMAIN g = 1..n
    <2> HIDE DEF FileRec
    <2> QED BY <1>4, <1>8
<1>10. ASSUME NEW r \in table PROVE \E i \in 1..n : g[i] = r
    <2>1. r.seq \in S
        BY DEF S
    <2>2. PICK i \in 1..n : q[i] = r.seq
        BY <1>4, <2>1
    <2>3. g[i] = r
        BY <1>1, <1>7, <2>2
    <2> QED BY <2>3
<1>11. \A i, j \in 1..n : i < j => g[i].seq < g[j].seq
    BY <1>4, <1>7
<1>12. \A i \in 1..n : g[i] \in table /\ i <= g[i].seq
    BY <1>5, <1>7
<1> QED BY <1>4, <1>9, <1>10, <1>11, <1>12

\* What is loaded: the same records, the last with the size of its file if the last
\* index is in it.
Reloaded(g, ix, h) ==
    /\ h \in Seq(FileRec) /\ Len(h) = Len(g) /\ DOMAIN h = DOMAIN g
    /\ \A i \in DOMAIN g : /\ h[i].seq = g[i].seq /\ h[i].path = g[i].path
                           /\ h[i].size <= Len(disk[g[i].path])
    /\ (h # <<>> /\ ix # <<>> /\ Last(ix).file = Last(h).seq) => Last(h).size = Len(disk[Last(h).path])

\* loadFiles.
LEMMA LoadedFacts ==
    ASSUME Store, NEW ix, NEW h, h = Loaded(table, ix), NEW g, g = Ordered(table)
    PROVE  Reloaded(g, ix, h)
<1> DEFINE n == Len(g)
           v == Len(disk[g[n].path])
<1>1. g \in Seq(FileRec) /\ n \in Nat /\ DOMAIN g = 1..n /\ \A i \in DOMAIN g : g[i] \in table
    BY OrderedFacts
<1>2. \A i \in DOMAIN g : g[i] \in FileRec
    BY <1>1
<1>3. h = IF n > 0 /\ ix # <<>> /\ Last(ix).file = g[n].seq THEN [g EXCEPT ![n].size = v] ELSE g
    BY DEF Loaded
<1>4. \A i \in DOMAIN g : g[i].size <= Len(disk[g[i].path])
    BY <1>1 DEF Store, TableOK
<1>5. CASE n > 0 /\ ix # <<>> /\ Last(ix).file = g[n].seq
    <2>1. n \in DOMAIN g
        BY <1>1, <1>5
    <2>2. v \in Nat
        <3>1. PICK j \in DOMAIN files : files[j].path = g[n].path
            BY <1>1, <2>1 DEF Store, TableOK
        <3> QED BY <3>1, FilesFacts
    <2> DEFINE o == g[n]
    <2>3. o \in FileRec
        BY <1>2, <2>1
    <2> HIDE DEF v
    <2> DEFINE e == [o EXCEPT !.size = v]
    <2>4. h = [g EXCEPT ![n] = e]
        BY <1>3, <1>5
    <2> HIDE DEF o
    <2>5. e \in FileRec /\ e.seq = o.seq /\ e.path = o.path /\ e.size = v
        BY <2>2, <2>3 DEF FileRec
    <2> HIDE DEF e
    <2>6. h \in [1..n -> FileRec] /\ h[n] = e /\ \A i \in 1..n : i # n => h[i] = g[i]
        <3>1. g \in [1..n -> FileRec]
            BY <1>1, <1>2
        <3> QED BY <1>1, <2>1, <2>4, <2>5, <3>1
    <2> HIDE DEF n
    <2>7. h \in Seq(FileRec) /\ Len(h) = n /\ DOMAIN h = 1..n
        <3> HIDE DEF FileRec
        <3> QED BY <1>1, <2>6
    <2>8. Last(h) = e /\ e.size = Len(disk[e.path])
        <3>1. Last(h) = h[n]
            BY <2>7 DEF Last
        <3>2. v = Len(disk[o.path])
            BY DEF v, o
        <3> QED BY <2>5, <2>6, <3>1, <3>2
    <2>9. ASSUME NEW i \in DOMAIN g
          PROVE  h[i].seq = g[i].seq /\ h[i].path = g[i].path /\ h[i].size <= Len(disk[g[i].path])
        <3>1. CASE i = n
            <4>1. h[i] = e /\ g[i] = o
                BY <2>6, <3>1 DEF o
            <4> QED BY <2>2, <2>5, <2>8, <4>1
        <3>2. CASE i # n
            BY <1>1, <1>4, <2>6, <3>2
        <3> QED BY <3>1, <3>2
    <2> QED BY <1>1, <2>7, <2>8, <2>9 DEF Reloaded, n
<1>6. CASE ~(n > 0 /\ ix # <<>> /\ Last(ix).file = g[n].seq)
    <2>1. h = g
        BY <1>3, <1>6
    <2>2. ~(h # <<>> /\ ix # <<>> /\ Last(ix).file = Last(h).seq)
        <3> SUFFICES ASSUME h # <<>>, ix # <<>>, Last(ix).file = Last(h).seq PROVE FALSE
            OBVIOUS
        <3>1. n > 0 /\ Last(h) = g[n]
            BY <1>1, <2>1 DEF Last
        <3> QED BY <1>6, <3>1
    <2> QED BY <1>1, <1>4, <2>1, <2>2 DEF Reloaded
<1> QED BY <1>5, <1>6

\* The log that has been saved.
LEMMA LogFront ==
    ASSUME NEW l, LogType(l), NEW n \in 0..Len(l), NEW h, h = SubSeq(l, 1, n)
    PROVE  /\ DOMAIN h = 1..n /\ \A k \in 1..n : h[k] = l[k] /\ k \in DOMAIN l
           /\ (n # 0 => h # <<>> /\ Last(h) = l[n]) /\ n \in Nat
<1>1. PICK S : l \in Seq(S)
    BY DEF LogType
<1>2. Len(l) \in Nat /\ DOMAIN l = 1..Len(l) /\ n \in Nat /\ n <= Len(l)
    BY <1>1
<1>3. h \in Seq(S) /\ Len(h) = n /\ \A i \in 1..n : h[i] = l[i]
    BY ONLY <1>1, n \in 0..Len(l), h = SubSeq(l, 1, n), FrontFacts
<1>4. DOMAIN h = 1..n
    BY ONLY <1>3
<1>5. \A k \in 1..n : k \in DOMAIN l
    BY ONLY <1>2
<1>6. n # 0 => h # <<>> /\ Last(h) = l[n]
    <2> SUFFICES ASSUME n # 0 PROVE h # <<>> /\ Last(h) = l[n]
        OBVIOUS
    <2>1. n \in 1..n /\ h # <<>>
        BY <1>2, <1>3
    <2> QED BY <1>3, <2>1 DEF Last
<1> QED BY <1>2, <1>3, <1>4, <1>5, <1>6

\* A restart: the files are those of the table, and the last one is continued behind
\* all that the indexes rely on.
LEMMA StoreCrash ==
    ASSUME Base, Store, Crash
    PROVE  Store'
<1> DEFINE g == Ordered(table)
           n == Len(g)
<1>1. /\ log' = SubSeq(log, 1, saved) /\ files' = Loaded(table, log') /\ sync' = Resting /\ fileCtx' = NoCtx
      /\ UNCHANGED <<table, disk, paths, saved>>
    BY DEF Crash
<1>2. /\ g \in Seq(FileRec) /\ n \in Nat /\ DOMAIN g = 1..n
      /\ \A i \in DOMAIN g : g[i] \in table /\ i <= g[i].seq
      /\ \A i, j \in DOMAIN g : i < j => g[i].seq < g[j].seq
      /\ \A r \in table : \E i \in DOMAIN g : g[i] = r
    BY OrderedFacts
<1>3. Reloaded(g, log', files')
    <2>1. files' = Loaded(table, log')
        BY <1>1
    <2> HIDE DEF g
    <2>2. g = Ordered(table)
        BY DEF g
    <2> QED BY <2>1, <2>2, LoadedFacts
<1> HIDE DEF g
<1>4. /\ files' \in Seq(FileRec) /\ Len(files') = n /\ DOMAIN files' = DOMAIN g
      /\ \A i \in DOMAIN g : /\ files'[i].seq = g[i].seq /\ files'[i].path = g[i].path
                             /\ files'[i].size <= Len(disk[g[i].path])
      /\ (files' # <<>> /\ log' # <<>> /\ Last(log').file = Last(files').seq) =>
             Last(files').size = Len(disk[Last(files').path])
    BY <1>3 DEF Reloaded
<1>5. sync'.pc = "idle" /\ sync'.seek \in Int /\ sync'.offset \in Nat /\ sync'.size \in Nat
    BY <1>1 DEF Resting
<1>6. StoreTypes'
    <2>1. NoCtx \in Context
        BY DEF NoCtx, Context
    <2> QED BY <1>1, <1>4, <1>5, <2>1 DEF Store, StoreTypes
<1>7. ASSUME NEW i \in DOMAIN g
      PROVE  \E j \in DOMAIN files : files[j].seq = g[i].seq /\ files[j].path = g[i].path
    BY <1>2 DEF Store, TableOK
<1>8. \A i \in DOMAIN g : g[i].seq \in Nat \ {0}
    <2>1. \A i \in DOMAIN g : g[i] \in FileRec
        BY <1>2
    <2> QED BY <2>1 DEF FileRec
<1>9. FilesOK'
    <2>1. ASSUME NEW i \in DOMAIN g, NEW j \in DOMAIN g, i < j
          PROVE  g[i].seq < g[j].seq /\ g[i].path # g[j].path
        <3>1. g[i].seq < g[j].seq
            BY <1>2, <2>1
        <3>2. PICK a \in DOMAIN files : files[a].seq = g[i].seq /\ files[a].path = g[i].path
            BY <1>7
        <3>3. PICK b \in DOMAIN files : files[b].seq = g[j].seq /\ files[b].path = g[j].path
            BY <1>7
        <3>4. a # b
            BY <1>8, <3>1, <3>2, <3>3
        <3>5. a < b \/ b < a
            BY <3>4, FilesFacts
        <3>6. files[a].path # files[b].path
            BY <3>5 DEF Store, FilesOK
        <3> QED BY <3>1, <3>2, <3>3, <3>6
    <2>2. ASSUME NEW i \in DOMAIN g PROVE i <= g[i].seq /\ g[i].seq <= paths /\ g[i].path <= paths
        <3>1. PICK a \in DOMAIN files : files[a].seq = g[i].seq /\ files[a].path = g[i].path
            BY <1>7
        <3>2. files[a].seq <= paths /\ files[a].path <= paths
            BY DEF Store, FilesOK
        <3> QED BY <1>2, <3>1, <3>2
    <2>3. \A p \in 1..MaxBlocks : p > paths' => disk'[p] = <<>>
        BY <1>1 DEF Store, FilesOK
    <2>4. \A i, j \in DOMAIN files' : i < j => files'[i].seq < files'[j].seq /\ files'[i].path # files'[j].path
        BY <1>4, <2>1
    <2>5. \A i \in DOMAIN files' : /\ i <= files'[i].seq /\ files'[i].seq <= paths' /\ files'[i].path <= paths'
                                   /\ files'[i].size <= Len(disk'[files'[i].path])
        BY <1>1, <1>4, <2>2
    <2> QED BY <2>3, <2>4, <2>5 DEF FilesOK
<1>10. TableOK'
    <2>1. \A r \in table : \E i \in DOMAIN files' : files'[i].seq = r.seq /\ files'[i].path = r.path
        BY <1>2, <1>4
    <2>2. \A i \in DOMAIN files' : \E r \in table : r.seq = files'[i].seq
        BY <1>2, <1>4
    <2> QED BY <1>1, <2>1, <2>2 DEF Store, TableOK
<1>11. CtxOK'
    BY <1>1, <1>5 DEF CtxOK, Busy
<1>12. Used' = Last(files').size
    BY <1>1 DEF Used
<1>13. /\ DOMAIN log' = 1..saved /\ \A k \in 1..saved : log'[k] = log[k] /\ k \in DOMAIN log
       /\ (saved # 0 => log' # <<>> /\ Last(log') = log[saved]) /\ saved \in Nat
    <2>1. LogType(log) /\ saved \in 0..Len(log)
        BY SyncFacts
    <2>2. log' = SubSeq(log, 1, saved)
        BY <1>1
    <2>3. DOMAIN log' = 1..saved /\ saved \in Nat
        BY ONLY <2>1, <2>2, LogFront
    <2>4. \A k \in 1..saved : log'[k] = log[k] /\ k \in DOMAIN log
        BY ONLY <2>1, <2>2, LogFront
    <2>5. saved # 0 => log' # <<>> /\ Last(log') = log[saved]
        BY ONLY <2>1, <2>2, LogFront
    <2> QED BY ONLY <2>3, <2>4, <2>5
<1>14. ASSUME NEW k \in 1..saved
       PROVE  \E i \in DOMAIN files' : files'[i].seq = log[k].file /\ Stored(log[k], disk[files'[i].path])
    <2>1. k \in DOMAIN log
        BY <1>13
    <2>2. PICK j \in DOMAIN files : files[j].seq = log[k].file /\ Stored(log[k], disk[files[j].path])
        BY <2>1 DEF Store, LogOK
    <2>3. PICK r \in table : r.seq = files[j].seq
        BY DEF Store, TableOK
    <2>4. PICK a \in DOMAIN files : files[a].seq = r.seq /\ files[a].path = r.path
        BY DEF Store, TableOK
    <2>5. a = j
        <3>1. \A i \in DOMAIN files : files[i].seq \in Nat /\ i \in Nat
            BY FilesFacts
        <3>2. files[a].seq = files[j].seq
            BY ONLY <2>3, <2>4
        <3>3. /\ a < j => files[a].seq < files[j].seq
              /\ j < a => files[j].seq < files[a].seq
            BY DEF Store, FilesOK
        <3>4. /\ files[a].seq \in Nat /\ files[j].seq \in Nat
              /\ a \in Nat /\ j \in Nat
            BY <3>1
        <3> QED BY ONLY <3>2, <3>3, <3>4
    <2>6. PICK i \in DOMAIN g : g[i] = r
        BY <1>2
    <2>7. files'[i].seq = log[k].file /\ files'[i].path = files[j].path /\ i \in DOMAIN files'
        BY <1>4, <2>2, <2>3, <2>4, <2>5, <2>6
    <2> QED BY <2>2, <2>7
<1>15. ASSUME NEW k \in 1..saved, log[k].file = Last(files').seq
       PROVE  log[k].off + log[k].size <= Last(files').size
    <2>1. PICK i \in DOMAIN files' : files'[i].seq = log[k].file /\ Stored(log[k], disk[files'[i].path])
        BY <1>14
    <2>2. files' # <<>> /\ saved # 0 /\ k <= saved /\ saved \in 1..saved /\ k \in DOMAIN log /\ saved \in DOMAIN log
        BY <1>13, <2>1
    <2>3. n \in DOMAIN files' /\ Last(files') = files'[n] /\ DOMAIN files' = 1..n
        BY <1>2, <1>4, <2>2 DEF Last
    <2>4. \A i1, j1 \in DOMAIN files' : i1 < j1 => files'[i1].seq < files'[j1].seq
        BY <1>2, <1>4
    <2>5. \A i1 \in DOMAIN files' : files'[i1].seq \in Nat /\ i1 \in Nat /\ i1 <= n
        BY <1>2, <1>4, <1>8
    <2>6. i = n
        <3>1. files'[i].seq = files'[n].seq
            BY <1>15, <2>1, <2>3
        <3>2. ~(i < n)
            BY <2>3, <2>4, <2>5, <3>1
        <3> QED BY <1>2, <2>5, <3>2
    <2>7. log[saved].file = files'[n].seq
        <3>1. PICK a \in DOMAIN files' : files'[a].seq = log[saved].file
            BY <1>14, <2>2
        <3>2. log[saved].file <= files'[n].seq
            <4>1. a = n \/ a < n
                BY <1>2, <2>5
            <4>2. files'[a].seq <= files'[n].seq
                BY <2>3, <2>4, <2>5, <4>1
            <4> QED BY <3>1, <4>2
        <3>3. log[k].file <= log[saved].file
            <4>1. CASE k = saved
                BY <2>1, <2>5, <4>1
            <4>2. CASE k # saved
                <5>1. k < saved
                    BY <1>13, <2>2, <4>2
                <5> QED BY <2>2, <5>1 DEF Store, LogOK
            <4> QED BY <4>1, <4>2
        <3>4. log[k].file = files'[n].seq /\ files'[n].seq \in Nat /\ log[saved].file \in Nat
            BY <1>15, <2>3, <2>5, <3>1
        <3> QED BY <3>2, <3>3, <3>4
    <2>8. Last(files').size = Len(disk[Last(files').path])
        <3>1. log' # <<>> /\ Last(log').file = Last(files').seq
            BY <1>13, <2>2, <2>3, <2>7
        <3> QED BY <1>4, <2>2, <3>1
    <2>9. log[k].off + log[k].size <= Len(disk[files'[n].path])
        BY <2>1, <2>6 DEF Stored
    <2> QED BY <2>3, <2>8, <2>9
<1>16. LogOK'
    <2>1. ASSUME NEW k \in DOMAIN log'
          PROVE  /\ log'[k].block \in Nat /\ log'[k].file \in Nat \ {0} /\ log'[k].off \in Nat /\ log'[k].size \in Nat
                 /\ \E i \in DOMAIN files' : files'[i].seq = log'[k].file /\ Stored(log'[k], disk'[files'[i].path])
                 /\ log'[k].file = Last(files').seq => log'[k].off + log'[k].size <= Used'
        <3>1. k \in 1..saved /\ log'[k] = log[k] /\ k \in DOMAIN log
            BY <1>13
        <3>2. log[k].block \in Nat /\ log[k].file \in Nat \ {0} /\ log[k].off \in Nat /\ log[k].size \in Nat
            BY <3>1 DEF Store, LogOK
        <3>3. \E i \in DOMAIN files' : files'[i].seq = log[k].file /\ Stored(log[k], disk[files'[i].path])
            BY <1>14, <3>1
        <3>4. log[k].file = Last(files').seq => log[k].off + log[k].size <= Used'
            BY <1>12, <1>15, <3>1
        <3>5. UNCHANGED disk
            BY <1>1
        <3>6. \E i \in DOMAIN files' : files'[i].seq = log'[k].file /\ Stored(log'[k], disk'[files'[i].path])
            BY ONLY <3>1, <3>3, <3>5
        <3>7. /\ log'[k].block \in Nat /\ log'[k].file \in Nat \ {0} /\ log'[k].off \in Nat /\ log'[k].size \in Nat
              /\ log'[k].file = Last(files').seq => log'[k].off + log'[k].size <= Used'
            BY ONLY <3>1, <3>2, <3>4
        <3> QED BY ONLY <3>6, <3>7
    <2>2. \A k, l \in DOMAIN log' : k < l => log'[k].file <= log'[l].file
        BY <1>13 DEF Store, LogOK
    <2> QED BY <2>1, <2>2 DEF LogOK
<1> QED BY <1>6, <1>9, <1>10, <1>11, <1>16 DEF Store

\* The process is killed and started again.
LEMMA TidyCrash ==
    ASSUME Base, Tidy, Crash, UNCHANGED scene
    PROVE  Tidy'
<1>1. Store'
    BY StoreCrash DEF Tidy
<1>2. call' = NoCall /\ syncReq' = NoReq /\ syncReqs' = <<>> /\ sync' = Resting /\ UNCHANGED <<calls, paths>>
    BY DEF Crash
<1>3. ReqsOK'
    <2>1. (Fresh(syncReq))'
        BY <1>2 DEF Fresh, NoReq
    <2>2. sync'.reqs = <<>> /\ sync'.pc = "idle"
        BY <1>2 DEF Resting
    <2> QED BY <1>2, <2>1, <2>2 DEF ReqsOK
<1>4. CallsOK'
    BY <1>2 DEF Tidy, CallsOK, NoCall, Indexing, Coming, Brings
<1> QED BY <1>1, <1>3, <1>4 DEF Tidy

-----------------------------------------------------------------------------
(* The indexes can be read.                                                *)

\* The invariant holds in the beginning.
LEMMA ReadInit ==
    ASSUME WInit
    PROVE  ReadInv
<1>1. WriterInv
    BY InvInit
<1>2. /\ calls = 0 /\ call = NoCall /\ syncReq = NoReq /\ syncReqs = <<>> /\ sync = Resting
      /\ fileCtx = NoCtx /\ files = <<>> /\ table = {} /\ paths = 0 /\ log = <<>>
      /\ disk = [p \in 1..MaxBlocks |-> <<>>] /\ scene \in Scenes
    BY DEF WInit
<1>3. MaxBlocks \in Nat /\ scene.blocks \in Nat
    BY <1>2, WriterAssumption
<1>4. StoreTypes
    <2>1. <<>> \in Seq(Unit) /\ <<>> \in Seq(FileRec)
        OBVIOUS
    <2>2. disk \in [1..MaxBlocks -> Seq(Unit)]
        BY ONLY <1>2, <2>1
    <2>3. table \subseteq FileRec /\ IsFiniteSet(table)
        BY <1>2, FS_EmptySet
    <2>4. fileCtx \in Context
        BY <1>2 DEF NoCtx, Context
    <2>5. sync.seek \in Int /\ sync.offset \in Nat /\ sync.size \in Nat
        BY <1>2 DEF Resting
    <2>6. paths \in 0..MaxBlocks /\ files \in Seq(FileRec)
        BY <1>2, <1>3, <2>1
    <2> QED BY <2>2, <2>3, <2>4, <2>5, <2>6 DEF StoreTypes
<1>5. DOMAIN files = {} /\ DOMAIN log = {}
    BY <1>2
<1>6. FilesOK
    <2>1. \A p \in 1..MaxBlocks : disk[p] = <<>>
        BY <1>2
    <2> QED BY <1>5, <2>1 DEF FilesOK
<1>7. TableOK
    BY <1>2, <1>5 DEF TableOK
<1>8. sync.pc = "idle" /\ sync.reqs = <<>>
    BY <1>2 DEF Resting
<1>9. CtxOK
    BY <1>2, <1>8 DEF CtxOK, Busy
<1>10. LogOK
    BY <1>5 DEF LogOK
<1>11. ReqsOK
    <2>1. Fresh(syncReq)
        BY <1>2 DEF NoReq, Fresh
    <2>2. DOMAIN syncReqs = {} /\ DOMAIN sync.reqs = {}
        BY <1>2, <1>8
    <2> QED BY <1>8, <2>1, <2>2 DEF ReqsOK
<1>12. CallsOK
    <2>1. call.todo = <<>>
        BY <1>2 DEF NoCall
    <2>2. call.todo \notin Indexing
        BY <2>1 DEF Indexing
    <2>3. ~Coming
        BY <2>1 DEF Coming, Brings
    <2> QED BY <1>2, <1>3, <2>2, <2>3 DEF CallsOK
<1> QED BY <1>1, <1>4, <1>6, <1>7, <1>9, <1>10, <1>11, <1>12 DEF ReadInv, Tidy, Store

\* Every step of an orderly scene keeps what it needs.
LEMMA TidyNext ==
    ASSUME WriterInv, Orderly, Tidy, WNext
    PROVE  Tidy'
<1>1. UNCHANGED scene /\ Base
    BY DEF WNext, WriterInv
<1>2. CASE Calls
    BY ONLY <1>1, <1>2, Orderly, Tidy, TidyCalls
<1>3. CASE Calling
    <2>1. ~StepIndex
        BY ONLY <1>1, Tidy, NoStepIndex
    <2>2. CASE StepSync
        BY ONLY <1>1, <2>2, Tidy, TidyStepSync
    <2>3. CASE StepTry
        BY ONLY <1>1, <2>3, Tidy, TidyStepTry
    <2>4. CASE StepPut
        BY ONLY <1>1, <2>4, WriterInv, Orderly, Tidy, TidyStepPut
    <2>5. CASE StepClose
        BY ONLY <1>1, <2>5, Tidy, TidyStepClose
    <2> QED BY ONLY <1>3, <2>1, <2>2, <2>3, <2>4, <2>5 DEF Calling
<1>4. CASE DoSync
    <2>1. ~SyncIndex
        BY ONLY <1>1, Tidy, NoSyncIndex
    <2>2. ~SyncOpenFails /\ ~SyncSeekFails
        BY ONLY <1>1, Orderly, NoFailures
    <2>3. CASE SyncTake
        BY ONLY <1>1, <2>3, Tidy, TidySyncTake
    <2>4. CASE SyncPopAll
        BY ONLY <1>1, <2>4, Tidy, TidySyncPopAll
    <2>5. CASE SyncEnd
        BY ONLY <1>1, <2>5, Tidy, TidySyncEnd
    <2>6. CASE SyncClose
        BY ONLY <1>1, <2>6, Tidy, TidySyncClose
    <2>7. CASE SyncOpened
        BY ONLY <1>1, <2>7, Tidy, TidySyncOpened
    <2>8. CASE SyncReopen
        BY ONLY <1>1, <2>8, Tidy, TidySyncReopen
    <2>9. CASE SyncCreate
        BY ONLY <1>1, <2>9, WriterInv, Orderly, Tidy, TidySyncCreate
    <2>10. CASE SyncWrite
        BY ONLY <1>1, <2>10, Tidy, TidySyncWrite
    <2>11. CASE SyncAddIndex
        BY ONLY <1>1, <2>11, Tidy, TidySyncAddIndex
    <2>12. CASE SyncRotate
        BY ONLY <1>1, <2>12, Tidy, TidySyncRotate
    <2> QED BY ONLY <1>4, <2>1, <2>2, <2>3, <2>4, <2>5, <2>6, <2>7, <2>8, <2>9, <2>10, <2>11, <2>12 DEF DoSync
<1>5. CASE SaveIndex
    BY ONLY <1>1, <1>5, Tidy, TidySaveIndex
<1>6. CASE SaveFile
    BY ONLY <1>1, <1>6, Tidy, TidySaveFile
<1>7. CASE Expire
    BY ONLY <1>1, <1>7, Orderly, Tidy, TidyExpire
<1>8. CASE Crash
    BY ONLY <1>1, <1>8, Tidy, TidyCrash
<1> QED BY <1>2, <1>3, <1>4, <1>5, <1>6, <1>7, <1>8 DEF WNext

\* Every step keeps the invariant.
LEMMA ReadNext ==
    ASSUME ReadInv, [WNext]_wvars
    PROVE  ReadInv'
<1>1. WriterInv /\ (Orderly => Tidy)
    BY DEF ReadInv
<1>2. WriterInv'
    BY <1>1, InvNext
<1>3. scene' = scene
    BY DEF WNext, wvars
<1>4. Orderly' = Orderly
    BY <1>3 DEF Orderly
<1>5. ASSUME Orderly PROVE Tidy'
    <2>1. Tidy
        BY <1>1, <1>5
    <2>2. CASE UNCHANGED wvars
        BY ONLY <2>1, <2>2, TidySame
    <2>3. CASE WNext
        BY ONLY <1>1, <1>5, <2>1, <2>3, TidyNext
    <2> QED BY <2>2, <2>3
<1> QED BY <1>2, <1>4, <1>5 DEF ReadInv

\* A read of a stored index gives its block.
LEMMA ReadStored ==
    ASSUME NEW content \in Seq(Unit), NEW x, x.off \in Nat, x.size \in Nat, Stored(x, content)
    PROVE  ReadAt(content, x.off, x.size) = Units(x.block, x.size)
<1> DEFINE m == x.off
           n == x.size
<1>1. m \in Nat /\ n \in Nat /\ m + n <= Len(content) /\ Len(content) \in Nat
    BY DEF Stored
<1>2. \A u \in 1..n : content[m + u] = <<x.block, u>>
    BY DEF Stored
<1>3. Lesser(m + n, Len(content)) = m + n
    BY ONLY <1>1 DEF Lesser
<1>4. ReadAt(content, m, n) = SubSeq(content, m + 1, m + n)
    BY ONLY <1>3 DEF ReadAt
<1>5. SubSeq(content, m + 1, m + n) = [u \in 1..n |-> content[m + u]]
    <2> HIDE DEF m, n
    <2>1. SubSeq(content, m + 1, m + n) = [u \in 1..((m + n) - (m + 1) + 1) |-> content[u + (m + 1) - 1]]
        BY <1>1
    <2>2. (m + n) - (m + 1) + 1 = n
        BY ONLY <1>1
    <2>3. \A u \in 1..n : u + (m + 1) - 1 = m + u
        BY ONLY <1>1
    <2> QED BY ONLY <2>1, <2>2, <2>3
<1> QED BY ONLY <1>2, <1>4, <1>5 DEF Units

\* What the invariant says.
LEMMA ReadMeans ==
    ASSUME ReadInv
    PROVE  IndexesReadable
<1> SUFFICES ASSUME Orderly, NEW k \in DOMAIN log
             PROVE  \E i \in DOMAIN files :
                        /\ files[i].seq = log[k].file
                        /\ ReadAt(disk[files[i].path], log[k].off, log[k].size) = Units(log[k].block, log[k].size)
    BY DEF IndexesReadable
<1>1. Store
    BY DEF ReadInv, Tidy
<1>2. log[k].off \in Nat /\ log[k].size \in Nat
    BY <1>1 DEF Store, LogOK
<1>3. PICK i \in DOMAIN files : files[i].seq = log[k].file /\ Stored(log[k], disk[files[i].path])
    BY <1>1 DEF Store, LogOK
<1>4. disk[files[i].path] \in Seq(Unit)
    BY <1>1, FilesFacts
<1>5. ReadAt(disk[files[i].path], log[k].off, log[k].size) = Units(log[k].block, log[k].size)
    BY ONLY <1>2, <1>3, <1>4, ReadStored
<1> QED BY <1>3, <1>5

\* While no file record is late and no block goes without a file, every index
\* in the metadata gives its block's data: what is at its offset in the file with
\* its number (channel.go: writeBlock, doSync; db-meta-manager.go: loadFiles), also
\* when a write fails halfway, when the process dies and continues the last file,
\* and when old files are deleted.
THEOREM IndexesAreReadable == WSpec => []IndexesReadable
<1>1. WInit => ReadInv
    BY ReadInit
<1>2. ReadInv /\ [WNext]_wvars => ReadInv'
    BY ReadNext
<1>3. ReadInv => IndexesReadable
    BY ReadMeans
<1> QED BY <1>1, <1>2, <1>3, PTL DEF WSpec
=============================================================================
