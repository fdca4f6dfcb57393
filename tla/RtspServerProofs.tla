-------------------------- MODULE RtspServerProofs --------------------------
(***************************************************************************)
(* NothingForgotten, for any connections, addresses, session ids and       *)
(* bytes.                                                                  *)
(*                                                                         *)
(* NothingForgotten is not inductive: that a deleted session leaves no     *)
(* running pusher behind needs the order of TEARDOWN and of the sweep      *)
(* (close, then delete), that no two SETUPs store the same id, and that a  *)
(* request that loaded a session still names its SETUP.  Those are facts   *)
(* of one connection, ConnOK, and most actions touch one connection only.  *)
(***************************************************************************)
EXTENDS RtspServer, TLAPS

\* What a request of the model records.
Fields == {"msg", "pc", "status", "pusher", "push", "id", "target"}

\* Session s was stored by a SETUP of this connection, under an id of its own.
Held(rs, s) == s.setup \in DOMAIN rs /\ rs[s.setup].id = s.id /\ s.id # None

\* Where a request may be: it has no id before the session is stored; its pusher
\* runs only while the SETUP has it in hand or a stored session names it; a request
\* that loaded a session names the SETUP that stored it; after TEARDOWN stopped the
\* pusher it stays stopped.
RequestOK(rs, ss, i) ==
  /\ DOMAIN rs[i] = Fields
  /\ rs[i].pc \in {"begin", "open"} => rs[i].pusher # "running"
  /\ rs[i].pc \in {"begin", "open", "opened", "added", "failed"} => rs[i].id = None
  /\ rs[i].pusher = "running" => rs[i].pc \in {"opened", "added", "failed"} \/ \E s \in ss : s.setup = i
  /\ rs[i].pc \in {"loaded", "torn"} =>
       rs[i].target \in DOMAIN rs /\ rs[rs[i].target].id = rs[i].msg.session /\ rs[i].msg.session # None
  /\ rs[i].pc = "torn" => rs[rs[i].target].pusher # "running"

\* Two requests never store sessions of the same id.
Distinct(rs) == \A i, j \in DOMAIN rs : rs[i].id = rs[j].id /\ rs[i].id # None => i = j

\* A running connection has no late session; while it is swept every session is
\* late or still to be swept; once it is closed only late ones are left.
LateOnes(ss, td, life) ==
  /\ life = "running" => \A s \in ss : ~s.late
  /\ life = "sweeping" => \A s \in ss : s.late \/ s \in td
  /\ life = "closed" => \A s \in ss : s.late

\* The requests of a connection are a sequence, of whatever.
IsSequence(rs) == \E S : rs \in Seq(S)

\* The invariant of one connection.
ConnOK(rs, ss, td, life) ==
  /\ IsSequence(rs)
  /\ \A i \in DOMAIN rs : RequestOK(rs, ss, i)
  /\ Distinct(rs)
  /\ \A s \in ss : Held(rs, s)
  /\ \A s \in td : Held(rs, s)
  /\ life = "off" => rs = <<>>
  /\ LateOnes(ss, td, life)

\* A sequence with one element replaced.
LEMMA SequenceExcept ==
  ASSUME NEW rs, IsSequence(rs), NEW i \in DOMAIN rs, NEW r
  PROVE  IsSequence([rs EXCEPT ![i] = r])
<1>1. PICK S : rs \in Seq(S)
  BY DEF IsSequence
<1>2. [rs EXCEPT ![i] = r] \in Seq(S \cup {r})
  BY <1>1
<1> QED
  BY <1>2 DEF IsSequence

\* A sequence with one element more.
LEMMA SequenceAppend ==
  ASSUME NEW rs, IsSequence(rs), NEW r
  PROVE  /\ IsSequence(Append(rs, r))
         /\ DOMAIN Append(rs, r) = DOMAIN rs \cup {Len(rs) + 1}
         /\ Append(rs, r)[Len(rs) + 1] = r
         /\ \A i \in DOMAIN rs : Append(rs, r)[i] = rs[i]
         /\ Len(rs) + 1 \notin DOMAIN rs
<1>1. PICK S : rs \in Seq(S)
  BY DEF IsSequence
<1>2. rs \in Seq(S \cup {r}) /\ r \in S \cup {r}
  BY <1>1
<1>3. Append(rs, r) \in Seq(S \cup {r})
  BY <1>2
<1>4. IsSequence(Append(rs, r))
  BY <1>3 DEF IsSequence
<1> QED
  BY <1>2, <1>4

\* A request moves on and keeps its id; it starts a pusher only before it has one.
LEMMA RequestMoves ==
  ASSUME NEW rs, NEW ss, NEW td, NEW life, ConnOK(rs, ss, td, life),
         NEW i \in DOMAIN rs, NEW r,
         r.id = rs[i].id,
         r.pusher = "running" => rs[i].pusher = "running" \/ rs[i].id = None,
         RequestOK([rs EXCEPT ![i] = r], ss, i)
  PROVE  ConnOK([rs EXCEPT ![i] = r], ss, td, life)
<1> DEFINE new == [rs EXCEPT ![i] = r]
<1>1. DOMAIN new = DOMAIN rs /\ new[i] = r /\ \A j \in DOMAIN rs : j # i => new[j] = rs[j]
  OBVIOUS
<1>2. \A j \in DOMAIN rs : new[j].id = rs[j].id
  BY <1>1
<1>3. IsSequence(new)
  BY SequenceExcept DEF ConnOK
<1>4. ASSUME NEW j \in DOMAIN new
      PROVE  RequestOK(new, ss, j)
  <2>1. CASE j = i
    BY <2>1
  <2>2. CASE j # i
    <3> HIDE DEF new
    <3>1. RequestOK(rs, ss, j) /\ j \in DOMAIN rs /\ new[j] = rs[j]
      BY <1>1, <2>2 DEF ConnOK
    <3>2. ASSUME new[j].pc = "torn"
          PROVE  new[new[j].target].pusher # "running"
      <4>1. /\ rs[j].target \in DOMAIN rs
            /\ rs[rs[j].target].id # None
            /\ rs[rs[j].target].pusher # "running"
        BY <3>1, <3>2 DEF RequestOK
      <4>2. CASE rs[j].target = i
        BY <4>1, <4>2, <3>1, <1>1
      <4>3. CASE rs[j].target # i
        BY <4>1, <4>3, <3>1, <1>1
      <4> QED
        BY <4>2, <4>3
    <3>3. ASSUME new[j].pc \in {"loaded", "torn"}
          PROVE  /\ new[j].target \in DOMAIN new
                 /\ new[new[j].target].id = new[j].msg.session
                 /\ new[j].msg.session # None
      BY <3>1, <3>3, <1>1, <1>2 DEF RequestOK
    <3> QED
      BY <3>1, <3>2, <3>3 DEF RequestOK
  <2> QED
    BY <2>1, <2>2
<1>5. Distinct(new)
  BY <1>1, <1>2 DEF ConnOK, Distinct
<1>6. \A s : Held(rs, s) => Held(new, s)
  BY <1>1, <1>2 DEF Held
<1>7. life # "off"
  BY DEF ConnOK
<1> HIDE DEF new
<1>8. ConnOK(new, ss, td, life)
  BY <1>3, <1>4, <1>5, <1>6, <1>7 DEF ConnOK
<1> QED
  BY <1>8 DEF new

\* A session whose pusher was stopped is deleted, by TEARDOWN or by the sweep.
LEMMA SessionGoes ==
  ASSUME NEW rs, NEW ss, NEW td, NEW life, ConnOK(rs, ss, td, life),
         NEW id, id # None, NEW m \in DOMAIN rs, rs[m].id = id, rs[m].pusher # "running",
         NEW td2 \in SUBSET td, \A t \in td \ td2 : t.id = id
  PROVE  ConnOK(rs, {t \in ss : t.id # id}, td2, life)
<1> DEFINE left == {t \in ss : t.id # id}
<1>1. \A i \in DOMAIN rs : RequestOK(rs, left, i)
  <2> SUFFICES ASSUME NEW i \in DOMAIN rs PROVE RequestOK(rs, left, i)
    OBVIOUS
  <2>1. RequestOK(rs, ss, i)
    BY DEF ConnOK
  <2>2. ASSUME rs[i].pusher = "running", rs[i].pc \notin {"opened", "added", "failed"}
        PROVE  \E s \in left : s.setup = i
    <3>1. PICK s \in ss : s.setup = i
      BY <2>1, <2>2 DEF RequestOK
    <3>2. Held(rs, s)
      BY DEF ConnOK
    <3>3. s.id # id
      <4>1. SUFFICES ASSUME s.id = id PROVE FALSE
        OBVIOUS
      <4>2. i = m
        BY <4>1, <3>1, <3>2 DEF Held, ConnOK, Distinct
      <4> QED
        BY <4>2, <2>2
    <3> QED
      BY <3>1, <3>3
  <2> HIDE DEF left
  <2> QED
    BY <2>1, <2>2 DEF RequestOK
<1>2. \A s \in left : s \in ss /\ s.id # id
  OBVIOUS
<1> HIDE DEF left
<1>3. LateOnes(left, td2, life)
  BY <1>2 DEF ConnOK, LateOnes
<1>4. ConnOK(rs, left, td2, life)
  BY <1>1, <1>2, <1>3 DEF ConnOK
<1> QED
  BY <1>4 DEF left

\* SETUP stores its session under an unused id; it is late when the connection no
\* longer runs.
LEMMA SessionComes ==
  ASSUME NEW rs, NEW ss, NEW td, NEW life, ConnOK(rs, ss, td, life), life \in {"off", "running", "sweeping", "closed"},
         NEW i \in DOMAIN rs, rs[i].pc = "added", NEW id, id # None, \A j \in DOMAIN rs : rs[j].id # id
  PROVE  ConnOK([rs EXCEPT ![i] = [rs[i] EXCEPT !.pc = "acted", !.id = id]],
                ss \cup {[id |-> id, setup |-> i, late |-> life # "running"]}, td, life)
<1> DEFINE r == [rs[i] EXCEPT !.pc = "acted", !.id = id]
           s0 == [id |-> id, setup |-> i, late |-> life # "running"]
           new == [rs EXCEPT ![i] = r]
           more == ss \cup {s0}
<1>0. RequestOK(rs, ss, i)
  BY DEF ConnOK
<1>1. DOMAIN new = DOMAIN rs /\ new[i] = r /\ \A j \in DOMAIN rs : j # i => new[j] = rs[j]
  OBVIOUS
<1>2. DOMAIN r = Fields /\ r.pc = "acted" /\ r.id = id /\ r.pusher = rs[i].pusher
  BY <1>0 DEF RequestOK, Fields
<1>3. rs[i].id = None
  BY <1>0 DEF RequestOK
<1>4. IsSequence(new)
  BY SequenceExcept DEF ConnOK
<1>5. s0 \in more /\ s0.setup = i /\ s0.id = id /\ (s0.late <=> life # "running") /\ (\A s \in more : s \in ss \/ s = s0) /\ ss \subseteq more
  OBVIOUS
<1> HIDE DEF r, s0, new, more
<1>6. ASSUME NEW j \in DOMAIN new
      PROVE  RequestOK(new, more, j)
  <2>1. CASE j = i
    BY <2>1, <1>1, <1>2, <1>5 DEF RequestOK
  <2>2. CASE j # i
    <3>1. RequestOK(rs, ss, j) /\ j \in DOMAIN rs /\ new[j] = rs[j]
      BY <1>1, <2>2 DEF ConnOK
    <3>2. ASSUME new[j].pc \in {"loaded", "torn"}
          PROVE  /\ new[j].target \in DOMAIN new
                 /\ new[new[j].target] = rs[rs[j].target]
                 /\ new[new[j].target].id = new[j].msg.session
                 /\ new[j].msg.session # None
      BY <3>1, <3>2, <1>1, <1>3 DEF RequestOK
    <3> QED
      BY <3>1, <3>2, <1>5 DEF RequestOK
  <2> QED
    BY <2>1, <2>2
<1>7. Distinct(new)
  <2>1. \A j \in DOMAIN rs : new[j].id = IF j = i THEN id ELSE rs[j].id
    BY <1>1, <1>2
  <2> QED
    BY <2>1, <1>1 DEF ConnOK, Distinct
<1>8. \A s : Held(rs, s) => Held(new, s)
  BY <1>1, <1>2, <1>3 DEF Held
<1>9. Held(new, s0)
  BY <1>1, <1>2, <1>5 DEF Held
<1>10. LateOnes(more, td, life)
  BY <1>5 DEF ConnOK, LateOnes
<1>11. life # "off"
  BY DEF ConnOK
<1>12. \A s \in more : Held(new, s)
  BY <1>5, <1>8, <1>9 DEF ConnOK
<1>13. ConnOK(new, more, td, life)
  BY <1>4, <1>6, <1>7, <1>8, <1>10, <1>11, <1>12 DEF ConnOK
<1> QED
  BY <1>13 DEF r, s0, new, more

\* The parser hands over a further request.
LEMMA RequestComes ==
  ASSUME NEW rs, NEW ss, NEW td, NEW life, ConnOK(rs, ss, td, life), life # "off", NEW msg
  PROVE  ConnOK(Append(rs, NewRequest(msg)), ss, td, life)
<1> DEFINE r == NewRequest(msg)
           new == Append(rs, r)
           n == Len(rs) + 1
<1>0. IsSequence(rs)
  BY DEF ConnOK
<1>1. /\ IsSequence(new) /\ DOMAIN new = DOMAIN rs \cup {n} /\ new[n] = r
      /\ (\A i \in DOMAIN rs : new[i] = rs[i]) /\ n \notin DOMAIN rs
  BY <1>0, SequenceAppend
<1>2. DOMAIN r = Fields /\ r.pc = "begin" /\ r.pusher = None /\ r.id = None
  BY DEF NewRequest, Fields
<1>3. None # "running"
  BY DEF None
<1> HIDE DEF r, new, n
<1>4. ASSUME NEW j \in DOMAIN new
      PROVE  RequestOK(new, ss, j)
  <2>1. CASE j = n
    BY <2>1, <1>1, <1>2, <1>3 DEF RequestOK
  <2>2. CASE j # n
    <3>1. RequestOK(rs, ss, j) /\ j \in DOMAIN rs /\ new[j] = rs[j]
      BY <1>1, <2>2 DEF ConnOK
    <3>2. ASSUME new[j].pc \in {"loaded", "torn"}
          PROVE  /\ new[j].target \in DOMAIN new
                 /\ new[new[j].target] = rs[rs[j].target]
      BY <3>1, <3>2, <1>1 DEF RequestOK
    <3> QED
      BY <3>1, <3>2 DEF RequestOK
  <2> QED
    BY <2>1, <2>2
<1>5. Distinct(new)
  BY <1>1, <1>2 DEF ConnOK, Distinct
<1>6. \A s : Held(rs, s) => Held(new, s)
  BY <1>1 DEF Held
<1>7. ConnOK(new, ss, td, life)
  BY <1>1, <1>4, <1>5, <1>6 DEF ConnOK
<1> QED
  BY <1>7 DEF r, new

\* A connection is accepted, is swept with all the sessions it then has, and is
\* closed when nothing is left to sweep.
LEMMA LifeMoves ==
  ASSUME NEW rs, NEW ss, NEW td
  PROVE  /\ ConnOK(rs, ss, td, "off") => ConnOK(rs, ss, td, "running")
         /\ ConnOK(rs, ss, td, "running") => ConnOK(rs, ss, ss, "sweeping")
         /\ ConnOK(rs, ss, td, "sweeping") /\ td = {} => ConnOK(rs, ss, td, "closed")
<1>1. ASSUME ConnOK(rs, ss, td, "off")
      PROVE  ConnOK(rs, ss, td, "running")
  <2>1. ss = {}
    BY <1>1 DEF ConnOK, Held
  <2> QED
    BY <1>1, <2>1 DEF ConnOK, LateOnes
<1>2. ASSUME ConnOK(rs, ss, td, "running")
      PROVE  ConnOK(rs, ss, ss, "sweeping")
  BY <1>2 DEF ConnOK, LateOnes
<1>3. ASSUME ConnOK(rs, ss, td, "sweeping"), td = {}
      PROVE  ConnOK(rs, ss, td, "closed")
  BY <1>3 DEF ConnOK, LateOnes
<1> QED
  BY <1>1, <1>2, <1>3

\* What the variables are: every connection has an entry in every table.
Tables ==
  /\ scene \in Scenes
  /\ DOMAIN server = {"life", "channels"}
  /\ DOMAIN server.channels = Range(scene.addr)
  /\ DOMAIN conn = Conns /\ DOMAIN sessions = Conns /\ DOMAIN todo = Conns /\ DOMAIN reqs = Conns
  /\ \A k \in Conns : /\ DOMAIN conn[k] = {"life", "sock", "read", "chunk", "parser"}
                      /\ conn[k].life \in {"off", "running", "sweeping", "closed"}

\* The server knows every connection that runs on an open socket.
Registered(k) ==
  conn[k].life = "running" /\ conn[k].sock = "open" =>
    server.life = "running" /\ server.channels[scene.addr[k]] = k

\* The invariant of connection k.
Conn(k) == ConnOK(reqs[k], sessions[k], todo[k], conn[k].life)

\* The inductive invariant.
RtspInv ==
  /\ Tables
  /\ \A k \in Clients : Conn(k) /\ Registered(k)

\* The clients of a scene are connections.
LEMMA ClientsAreConns ==
  ASSUME Tables
  PROVE  Clients \subseteq Conns
BY RtspAssumption DEF Tables, Clients

\* The inductive invariant is strong enough.
LEMMA RtspInvImplies ==
  RtspInv => NothingForgotten
<1> SUFFICES ASSUME RtspInv, NEW k \in Clients
             PROVE  /\ \A i \in DOMAIN reqs[k] :
                         reqs[k][i].pusher = "running" =>
                           \/ reqs[k][i].pc \in {"opened", "added", "failed"}
                           \/ \E s \in sessions[k] : s.setup = i
                    /\ conn[k].life = "closed" => \A s \in sessions[k] : s.late
                    /\ Registered(k)
  BY DEF NothingForgotten, Registered
<1>1. Conn(k) /\ Registered(k)
  BY DEF RtspInv
<1>2. \A i \in DOMAIN reqs[k] : RequestOK(reqs[k], sessions[k], i)
  BY <1>1 DEF Conn, ConnOK
<1>3. conn[k].life = "closed" => \A s \in sessions[k] : s.late
  BY <1>1 DEF Conn, ConnOK, LateOnes
<1> QED
  BY <1>1, <1>2, <1>3 DEF RequestOK

\* It holds initially.
LEMMA RtspInit ==
  Init => RtspInv
<1> SUFFICES ASSUME Init PROVE RtspInv
  OBVIOUS
<1>1. Tables
  BY DEF Init, Tables
<1>2. Clients \subseteq Conns
  BY <1>1, ClientsAreConns
<1>3. ASSUME NEW k \in Clients
      PROVE  Conn(k) /\ Registered(k)
  <2>1. k \in Conns
    BY <1>2
  <2>2. reqs[k] = <<>> /\ sessions[k] = {} /\ todo[k] = {} /\ conn[k].life = "off"
    BY <2>1 DEF Init
  <2>3. IsSequence(<<>>)
    <3>1. <<>> \in Seq({})
      OBVIOUS
    <3> QED
      BY <3>1 DEF IsSequence
  <2>4. ConnOK(<<>>, {}, {}, "off")
    BY <2>3 DEF ConnOK, Distinct, LateOnes
  <2> QED
    BY <2>2, <2>4 DEF Conn, Registered
<1> QED
  BY <1>1, <1>3 DEF RtspInv

\* What a step does that changes connection k only.
OnlyReqs(k, rs, ss, td) ==
  /\ DOMAIN reqs' = Conns /\ DOMAIN sessions' = Conns /\ DOMAIN todo' = Conns
  /\ reqs'[k] = rs /\ sessions'[k] = ss /\ todo'[k] = td
  /\ \A c \in Conns : c # k => reqs'[c] = reqs[c] /\ sessions'[c] = sessions[c] /\ todo'[c] = todo[c]
  /\ UNCHANGED <<scene, server, conn>>

\* A step of one connection that leaves the registration of all of them alone.
LEMMA ClientStep ==
  ASSUME RtspInv, NEW k \in Clients, NEW rs, NEW ss, NEW td, OnlyReqs(k, rs, ss, td),
         ConnOK(rs, ss, td, conn[k].life)
  PROVE  RtspInv'
<1>0. Tables /\ k \in Conns
  BY ClientsAreConns DEF RtspInv
<1>1. Tables'
  BY <1>0 DEF Tables, OnlyReqs
<1>2. ASSUME NEW c \in Clients'
      PROVE  Conn(c)' /\ Registered(c)'
  <2>1. c \in Clients /\ c \in Conns
    BY <1>0, <1>2, ClientsAreConns DEF OnlyReqs, Clients
  <2>2. Registered(c)'
    BY <2>1 DEF RtspInv, Registered, OnlyReqs
  <2>3. CASE c = k
    BY <2>2, <2>3 DEF Conn, OnlyReqs
  <2>4. CASE c # k
    <3>1. Conn(c)
      BY <2>1 DEF RtspInv
    <3> QED
      BY <2>1, <2>2, <2>4, <3>1 DEF Conn, OnlyReqs
  <2> QED
    BY <2>3, <2>4
<1> QED
  BY <1>1, <1>2 DEF RtspInv

\* A step of one request.
LEMMA RequestStep ==
  ASSUME RtspInv, NEW k \in Clients, NEW i \in DOMAIN reqs[k], NEW r,
         Changed(k, i, r), UNCHANGED <<scene, server, paths, conn, sessions, todo>>,
         r.id = reqs[k][i].id,
         r.pusher = "running" => reqs[k][i].pusher = "running" \/ reqs[k][i].id = None,
         RequestOK([reqs[k] EXCEPT ![i] = r], sessions[k], i)
  PROVE  RtspInv'
<1> DEFINE rs == [reqs[k] EXCEPT ![i] = r]
<1>0. Tables /\ k \in Conns /\ Conn(k)
  BY ClientsAreConns DEF RtspInv
<1>1. ConnOK(rs, sessions[k], todo[k], conn[k].life)
  <2>1. ConnOK(reqs[k], sessions[k], todo[k], conn[k].life)
    BY <1>0 DEF Conn
  <2> QED
    BY <2>1, RequestMoves
<1>2. OnlyReqs(k, rs, sessions[k], todo[k])
  BY <1>0 DEF Changed, Tables, OnlyReqs
<1> HIDE DEF rs
<1> QED
  BY <1>1, <1>2, ClientStep

\* A request that ends, or has only to be answered, outside SETUP.
LEMMA EndsStep ==
  ASSUME RtspInv, NEW k \in Clients, NEW i \in DOMAIN reqs[k], NEW r,
         Changed(k, i, r), UNCHANGED <<scene, server, paths, conn, sessions, todo>>,
         DOMAIN r = Fields, r.pc \in {"done", "acted"},
         r.id = reqs[k][i].id,
         r.pusher = reqs[k][i].pusher \/ r.pusher # "running",
         reqs[k][i].pc \notin {"opened", "added", "failed"}
  PROVE  RtspInv'
<1>1. RequestOK(reqs[k], sessions[k], i)
  BY DEF RtspInv, Conn, ConnOK
<1>2. RequestOK([reqs[k] EXCEPT ![i] = r], sessions[k], i)
  <2>1. [reqs[k] EXCEPT ![i] = r][i] = r
    OBVIOUS
  <2> QED
    BY <1>1, <2>1 DEF RequestOK
<1> QED
  BY <1>2, RequestStep

\* What answering leaves of a request.
LEMMA AnsweredRecord ==
  ASSUME NEW a, DOMAIN a = Fields, NEW status
  PROVE  /\ DOMAIN Answered(a, status) = Fields
         /\ Answered(a, status).pc = "done"
         /\ Answered(a, status).id = a.id
         /\ Answered(a, status).pusher = a.pusher
BY DEF Answered, Fields

\* The invariant, for one request.
LEMMA RequestFacts ==
  ASSUME RtspInv, NEW k \in Clients, NEW i \in DOMAIN reqs[k]
  PROVE  RequestOK(reqs[k], sessions[k], i) /\ DOMAIN reqs[k][i] = Fields
BY DEF RtspInv, Conn, ConnOK, RequestOK

\* OPTIONS, DESCRIBE, the other methods, and every answer.
LEMMA AnswersStep ==
  ASSUME RtspInv, NEW k \in Clients, NEW i \in DOMAIN reqs[k],
         \/ Options(k, i) \/ Ignore(k, i) \/ Describe(k, i) \/ Answer(k, i)
  PROVE  RtspInv'
<1>0. DOMAIN reqs[k][i] = Fields
  BY RequestFacts
<1>1. ASSUME NEW status, Changed(k, i, Answered(reqs[k][i], status)),
             reqs[k][i].pc \in {"begin", "acted"},
             UNCHANGED <<scene, server, paths, conn, sessions, todo>>
      PROVE  RtspInv'
  <2>1. /\ DOMAIN Answered(reqs[k][i], status) = Fields
        /\ Answered(reqs[k][i], status).pc = "done"
        /\ Answered(reqs[k][i], status).id = reqs[k][i].id
        /\ Answered(reqs[k][i], status).pusher = reqs[k][i].pusher
    BY <1>0, AnsweredRecord
  <2> QED
    BY <2>1, <1>1, EndsStep
<1>2. CASE Options(k, i)
  BY <1>1, <1>2 DEF Options, At
<1>3. CASE Ignore(k, i)
  <2> DEFINE r == [reqs[k][i] EXCEPT !.pc = "done"]
  <2>1. DOMAIN r = Fields /\ r.pc = "done" /\ r.id = reqs[k][i].id /\ r.pusher = reqs[k][i].pusher
    BY <1>0 DEF Fields
  <2>2. Changed(k, i, r) /\ reqs[k][i].pc = "begin" /\ UNCHANGED <<scene, server, paths, conn, sessions, todo>>
    BY <1>3 DEF Ignore, At
  <2> HIDE DEF r
  <2> QED
    BY <2>1, <2>2, EndsStep
<1>4. CASE Describe(k, i)
  <2>1. PICK status : Changed(k, i, Answered(reqs[k][i], status))
    BY <1>4 DEF Describe
  <2>2. reqs[k][i].pc = "begin" /\ UNCHANGED <<scene, server, paths, conn, sessions, todo>>
    BY <1>4 DEF Describe, At
  <2> QED
    BY <1>1, <2>1, <2>2
<1>5. CASE Answer(k, i)
  BY <1>1, <1>5 DEF Answer, At
<1> QED
  BY <1>2, <1>3, <1>4, <1>5

\* SETUP looks the channel up.
LEMMA SetupBeginStep ==
  ASSUME RtspInv, NEW k \in Clients, NEW i \in DOMAIN reqs[k], SetupBegin(k, i)
  PROVE  RtspInv'
<1> DEFINE a == reqs[k][i]
           r == [a EXCEPT !.pc = "open"]
<1>0. RequestOK(reqs[k], sessions[k], i) /\ DOMAIN a = Fields
  BY RequestFacts
<1>1. a.pc = "begin" /\ UNCHANGED <<scene, server, paths, conn, sessions, todo>>
  BY DEF SetupBegin, At
<1>2. (\E status : Changed(k, i, Answered(a, status))) \/ Changed(k, i, r)
  BY DEF SetupBegin
<1>3. CASE \E status : Changed(k, i, Answered(a, status))
  <2>1. PICK status : Changed(k, i, Answered(a, status))
    BY <1>3
  <2>2. /\ DOMAIN Answered(a, status) = Fields /\ Answered(a, status).pc = "done"
        /\ Answered(a, status).id = a.id /\ Answered(a, status).pusher = a.pusher
    BY <1>0, AnsweredRecord
  <2> HIDE DEF r
  <2> QED
    BY <2>1, <2>2, <1>1, EndsStep
<1>4. CASE Changed(k, i, r)
  <2>1. DOMAIN r = Fields /\ r.pc = "open" /\ r.id = a.id /\ r.pusher = a.pusher
    BY <1>0 DEF Fields
  <2>2. [reqs[k] EXCEPT ![i] = r][i] = r
    OBVIOUS
  <2> HIDE DEF r
  <2>3. RequestOK([reqs[k] EXCEPT ![i] = r], sessions[k], i)
    BY <1>0, <1>1, <2>1, <2>2 DEF RequestOK
  <2> QED
    BY <1>1, <1>4, <2>1, <2>3, RequestStep
<1> QED
  BY <1>2, <1>3, <1>4

\* SETUP opens the pusher, or does not.
LEMMA SetupOpenStep ==
  ASSUME RtspInv, NEW k \in Clients, NEW i \in DOMAIN reqs[k], SetupOpen(k, i)
  PROVE  RtspInv'
<1> DEFINE a == reqs[k][i]
           r == [a EXCEPT !.pc = "opened", !.pusher = "running"]
<1>0. RequestOK(reqs[k], sessions[k], i) /\ DOMAIN a = Fields
  BY RequestFacts
<1>1. a.pc = "open" /\ UNCHANGED <<scene, server, paths, conn, sessions, todo>>
  BY DEF SetupOpen, At
<1>2. (\E status : Changed(k, i, Answered(a, status))) \/ Changed(k, i, r)
  BY DEF SetupOpen
<1>3. CASE \E status : Changed(k, i, Answered(a, status))
  <2>1. PICK status : Changed(k, i, Answered(a, status))
    BY <1>3
  <2>2. /\ DOMAIN Answered(a, status) = Fields /\ Answered(a, status).pc = "done"
        /\ Answered(a, status).id = a.id /\ Answered(a, status).pusher = a.pusher
    BY <1>0, AnsweredRecord
  <2> HIDE DEF r
  <2> QED
    BY <2>1, <2>2, <1>1, EndsStep
<1>4. CASE Changed(k, i, r)
  <2>1. DOMAIN r = Fields /\ r.pc = "opened" /\ r.id = a.id /\ r.pusher = "running"
    BY <1>0 DEF Fields
  <2>2. [reqs[k] EXCEPT ![i] = r][i] = r
    OBVIOUS
  <2>3. a.id = None
    BY <1>0, <1>1 DEF RequestOK
  <2> HIDE DEF r
  <2>4. RequestOK([reqs[k] EXCEPT ![i] = r], sessions[k], i)
    BY <1>0, <1>1, <2>1, <2>2, <2>3 DEF RequestOK
  <2> QED
    BY <1>1, <1>4, <2>1, <2>3, <2>4, RequestStep
<1> QED
  BY <1>2, <1>3, <1>4

\* SETUP adds the stream to the pusher, or fails to.
LEMMA SetupAddStep ==
  ASSUME RtspInv, NEW k \in Clients, NEW i \in DOMAIN reqs[k], SetupAdd(k, i)
  PROVE  RtspInv'
<1> DEFINE a == reqs[k][i]
           r == [a EXCEPT !.pc = "added"]
           q == [a EXCEPT !.pc = "failed", !.status = "500"]
<1>0. RequestOK(reqs[k], sessions[k], i) /\ DOMAIN a = Fields
  BY RequestFacts
<1>1. a.pc = "opened" /\ UNCHANGED <<scene, server, paths, conn, sessions, todo>>
  BY DEF SetupAdd, At
<1>2. Changed(k, i, r) \/ Changed(k, i, q)
  BY DEF SetupAdd
<1>3. /\ DOMAIN r = Fields /\ r.pc = "added" /\ r.id = a.id /\ r.pusher = a.pusher
      /\ DOMAIN q = Fields /\ q.pc = "failed" /\ q.id = a.id /\ q.pusher = a.pusher
  BY <1>0 DEF Fields
<1> HIDE DEF r, q
<1>4. ASSUME NEW x \in {r, q}
      PROVE  RequestOK([reqs[k] EXCEPT ![i] = x], sessions[k], i)
  <2>1. [reqs[k] EXCEPT ![i] = x][i] = x
    OBVIOUS
  <2> QED
    BY <1>0, <1>1, <1>3, <2>1 DEF RequestOK
<1> QED
  BY <1>1, <1>2, <1>3, <1>4, RequestStep

\* A failed SETUP closes its pusher.
LEMMA SetupUndoStep ==
  ASSUME RtspInv, NEW k \in Clients, NEW i \in DOMAIN reqs[k], SetupUndo(k, i)
  PROVE  RtspInv'
<1> DEFINE a == reqs[k][i]
           r == [a EXCEPT !.pc = "done", !.pusher = "closed"]
<1>0. RequestOK(reqs[k], sessions[k], i) /\ DOMAIN a = Fields
  BY RequestFacts
<1>1. Changed(k, i, r) /\ UNCHANGED <<scene, server, paths, conn, sessions, todo>>
  BY DEF SetupUndo, At
<1>2. DOMAIN r = Fields /\ r.pc = "done" /\ r.id = a.id /\ r.pusher = "closed"
  BY <1>0 DEF Fields
<1>3. [reqs[k] EXCEPT ![i] = r][i] = r
  OBVIOUS
<1> HIDE DEF r
<1>4. RequestOK([reqs[k] EXCEPT ![i] = r], sessions[k], i)
  BY <1>2, <1>3 DEF RequestOK
<1> QED
  BY <1>1, <1>2, <1>4, RequestStep

\* PLAY, PAUSE and TEARDOWN load the session they name.
LEMMA LoadStep ==
  ASSUME RtspInv, NEW k \in Clients, NEW i \in DOMAIN reqs[k], Load(k, i)
  PROVE  RtspInv'
<1> DEFINE a == reqs[k][i]
           named == {s \in sessions[k] : s.id = a.msg.session}
           s0 == CHOOSE s \in named : TRUE
           r == [a EXCEPT !.pc = "loaded", !.target = s0.setup]
<1>0. RequestOK(reqs[k], sessions[k], i) /\ DOMAIN a = Fields
  BY RequestFacts
<1>1. a.pc = "begin" /\ UNCHANGED <<scene, server, paths, conn, sessions, todo>>
  BY DEF Load, At
<1>2. (named = {} /\ Changed(k, i, Answered(a, "404"))) \/ (named # {} /\ Changed(k, i, r))
  BY DEF Load
<1>3. CASE named = {} /\ Changed(k, i, Answered(a, "404"))
  <2>2. /\ DOMAIN Answered(a, "404") = Fields /\ Answered(a, "404").pc = "done"
        /\ Answered(a, "404").id = a.id /\ Answered(a, "404").pusher = a.pusher
    BY <1>0, AnsweredRecord
  <2> HIDE DEF r
  <2> QED
    BY <2>2, <1>1, <1>3, EndsStep
<1>4. CASE named # {} /\ Changed(k, i, r)
  <2>1. s0 \in named
    BY <1>4
  <2>2. s0 \in sessions[k] /\ s0.id = a.msg.session
    BY <2>1
  <2> HIDE DEF s0
  <2>3. Held(reqs[k], s0)
    BY <2>2 DEF RtspInv, Conn, ConnOK
  <2>4. /\ DOMAIN r = Fields /\ r.pc = "loaded" /\ r.id = a.id /\ r.pusher = a.pusher
        /\ r.target = s0.setup /\ r.msg = a.msg
    BY <1>0 DEF Fields
  <2> HIDE DEF r
  <2>5. /\ [reqs[k] EXCEPT ![i] = r][i] = r
        /\ DOMAIN [reqs[k] EXCEPT ![i] = r] = DOMAIN reqs[k]
        /\ \A j \in DOMAIN reqs[k] : [reqs[k] EXCEPT ![i] = r][j].id = reqs[k][j].id
    BY <2>4
  <2>6. RequestOK([reqs[k] EXCEPT ![i] = r], sessions[k], i)
    BY <1>0, <1>1, <2>2, <2>3, <2>4, <2>5 DEF RequestOK, Held
  <2> QED
    BY <1>1, <1>4, <2>4, <2>6, RequestStep
<1> QED
  BY <1>2, <1>3, <1>4

\* Closing the pusher of request i.
LEMMA PusherCloses ==
  ASSUME NEW rs, NEW ss, NEW td, NEW life, ConnOK(rs, ss, td, life), NEW i \in DOMAIN rs
  PROVE  /\ ConnOK(ClosePusher(rs, i), ss, td, life)
         /\ DOMAIN ClosePusher(rs, i) = DOMAIN rs
         /\ ClosePusher(rs, i)[i].pusher = "closed"
         /\ \A j \in DOMAIN rs : /\ ClosePusher(rs, i)[j].id = rs[j].id
                                 /\ ClosePusher(rs, i)[j].pc = rs[j].pc
                                 /\ ClosePusher(rs, i)[j].msg = rs[j].msg
                                 /\ ClosePusher(rs, i)[j].target = rs[j].target
                                 /\ DOMAIN ClosePusher(rs, i)[j] = Fields
                                 /\ j # i => ClosePusher(rs, i)[j] = rs[j]
<1> DEFINE r == [rs[i] EXCEPT !.pusher = "closed", !.push = FALSE]
           new == [rs EXCEPT ![i] = r]
<1>0. \A j \in DOMAIN rs : RequestOK(rs, ss, j) /\ DOMAIN rs[j] = Fields
  BY DEF ConnOK, RequestOK
<1>1. ClosePusher(rs, i) = new
  BY DEF ClosePusher
<1>2. /\ DOMAIN r = Fields /\ r.pc = rs[i].pc /\ r.id = rs[i].id /\ r.pusher = "closed"
      /\ r.target = rs[i].target /\ r.msg = rs[i].msg
  BY <1>0 DEF Fields
<1> HIDE DEF r
<1>3. DOMAIN new = DOMAIN rs /\ new[i] = r /\ \A j \in DOMAIN rs : j # i => new[j] = rs[j]
  OBVIOUS
<1>4. \A j \in DOMAIN rs : /\ new[j].id = rs[j].id /\ new[j].pc = rs[j].pc /\ new[j].msg = rs[j].msg
                           /\ new[j].target = rs[j].target /\ DOMAIN new[j] = Fields
  BY <1>0, <1>2, <1>3
<1>5. RequestOK(new, ss, i)
  <2>1. RequestOK(rs, ss, i)
    BY <1>0
  <2>2. ASSUME r.pc = "torn"
        PROVE  new[r.target].pusher # "running"
    <3>1. rs[r.target].pusher # "running" /\ r.target \in DOMAIN rs
      BY <2>1, <2>2, <1>2 DEF RequestOK
    <3> HIDE DEF new
    <3> QED
      BY <3>1, <1>2, <1>3
  <2> HIDE DEF new
  <2> QED
    BY <2>1, <2>2, <1>2, <1>3, <1>4 DEF RequestOK
<1>6. ConnOK(new, ss, td, life)
  BY <1>2, <1>5, RequestMoves
<1> HIDE DEF new
<1> QED
  BY <1>1, <1>2, <1>3, <1>4, <1>6

\* A request passes on to a place where nothing is asked of its target.
LEMMA PassesOn ==
  ASSUME NEW rs, NEW ss, NEW td, NEW life, ConnOK(rs, ss, td, life), NEW i \in DOMAIN rs,
         rs[i].pc \notin {"begin", "open", "opened", "added", "failed"}, NEW pc,
         \/ pc = "acted"
         \/ pc = "torn" /\ rs[i].pc = "loaded" /\ rs[rs[i].target].pusher # "running"
  PROVE  ConnOK([rs EXCEPT ![i] = [rs[i] EXCEPT !.pc = pc]], ss, td, life)
<1> DEFINE r == [rs[i] EXCEPT !.pc = pc]
           new == [rs EXCEPT ![i] = r]
<1>0. RequestOK(rs, ss, i) /\ DOMAIN rs[i] = Fields
  BY DEF ConnOK, RequestOK
<1>2. /\ DOMAIN r = Fields /\ r.pc = pc /\ r.id = rs[i].id /\ r.pusher = rs[i].pusher
      /\ r.target = rs[i].target /\ r.msg = rs[i].msg
  BY <1>0 DEF Fields
<1> HIDE DEF r
<1>3. DOMAIN new = DOMAIN rs /\ new[i] = r /\ \A j \in DOMAIN rs : j # i => new[j] = rs[j]
  OBVIOUS
<1>4. \A j \in DOMAIN rs : new[j].id = rs[j].id /\ new[j].pusher = rs[j].pusher
  BY <1>2, <1>3
<1>5. RequestOK(new, ss, i)
  <2> HIDE DEF new
  <2>1. CASE pc = "acted"
    BY <2>1, <1>0, <1>2, <1>3, <1>4 DEF RequestOK
  <2>2. CASE pc = "torn" /\ rs[i].pc = "loaded" /\ rs[rs[i].target].pusher # "running"
    <3>1. rs[i].target \in DOMAIN rs /\ rs[rs[i].target].id = rs[i].msg.session /\ rs[i].msg.session # None
      BY <2>2, <1>0 DEF RequestOK
    <3>2. new[new[i].target].pusher # "running" /\ new[new[i].target].id = new[i].msg.session
      BY <3>1, <2>2, <1>2, <1>3, <1>4
    <3> QED
      BY <3>1, <3>2, <2>2, <1>0, <1>2, <1>3 DEF RequestOK
  <2> QED
    BY <2>1, <2>2
<1>6. ConnOK(new, ss, td, life)
  BY <1>2, <1>5, RequestMoves
<1> QED
  BY <1>6 DEF r

\* A pusher starts or stops to push.
LEMMA PushSet ==
  ASSUME NEW rs, NEW ss, NEW td, NEW life, ConnOK(rs, ss, td, life), NEW t \in DOMAIN rs, NEW push
  PROVE  ConnOK([rs EXCEPT ![t] = [rs[t] EXCEPT !.push = push]], ss, td, life)
<1> DEFINE r == [rs[t] EXCEPT !.push = push]
           new == [rs EXCEPT ![t] = r]
<1>0. RequestOK(rs, ss, t) /\ DOMAIN rs[t] = Fields
  BY DEF ConnOK, RequestOK
<1>2. /\ DOMAIN r = Fields /\ r.pc = rs[t].pc /\ r.id = rs[t].id /\ r.pusher = rs[t].pusher
      /\ r.target = rs[t].target /\ r.msg = rs[t].msg
  BY <1>0 DEF Fields
<1> HIDE DEF r
<1>3. DOMAIN new = DOMAIN rs /\ new[t] = r /\ \A j \in DOMAIN rs : j # t => new[j] = rs[j]
  OBVIOUS
<1>4. \A j \in DOMAIN rs : new[j].id = rs[j].id /\ new[j].pusher = rs[j].pusher
  BY <1>2, <1>3
<1>5. RequestOK(new, ss, t)
  <2> HIDE DEF new
  <2>1. ASSUME r.pc \in {"loaded", "torn"}
        PROVE  /\ r.target \in DOMAIN rs
               /\ new[r.target].id = rs[r.target].id /\ new[r.target].pusher = rs[r.target].pusher
    BY <2>1, <1>0, <1>2, <1>4 DEF RequestOK
  <2> QED
    BY <2>1, <1>0, <1>2, <1>3 DEF RequestOK
<1>6. ConnOK(new, ss, td, life)
  BY <1>2, <1>5, RequestMoves
<1> QED
  BY <1>6 DEF r

\* The invariant, for one connection.
LEMMA ConnFacts ==
  ASSUME RtspInv, NEW k \in Clients
  PROVE  /\ k \in Conns /\ Tables
         /\ ConnOK(reqs[k], sessions[k], todo[k], conn[k].life)
BY ClientsAreConns DEF RtspInv, Conn

\* A pusher ends by itself.
LEMMA PusherEndsStep ==
  ASSUME RtspInv, NEW k \in Clients, NEW i \in DOMAIN reqs[k], PusherEnds(k, i)
  PROVE  RtspInv'
<1>0. k \in Conns /\ Tables /\ ConnOK(reqs[k], sessions[k], todo[k], conn[k].life)
  BY ConnFacts
<1>1. ConnOK(ClosePusher(reqs[k], i), sessions[k], todo[k], conn[k].life)
  BY <1>0, PusherCloses
<1>2. OnlyReqs(k, ClosePusher(reqs[k], i), sessions[k], todo[k])
  BY <1>0 DEF PusherEnds, OnlyReqs, Tables
<1> QED
  BY <1>1, <1>2, ClientStep

\* PLAY and PAUSE start and stop the pushing.
LEMMA PlayPauseStep ==
  ASSUME RtspInv, NEW k \in Clients, NEW i \in DOMAIN reqs[k], PlayPause(k, i)
  PROVE  RtspInv'
<1> DEFINE to == reqs[k][i].target
           pushing == reqs[k][i].msg.method = "PLAY" /\ reqs[k][to].pusher = "running"
           rs == [reqs[k] EXCEPT ![to] = [reqs[k][to] EXCEPT !.push = pushing]]
           new == [rs EXCEPT ![i] = [rs[i] EXCEPT !.pc = "acted"]]
<1>0. k \in Conns /\ Tables /\ ConnOK(reqs[k], sessions[k], todo[k], conn[k].life)
  BY ConnFacts
<1>1. reqs[k][i].pc = "loaded" /\ to \in DOMAIN reqs[k] /\ DOMAIN reqs[k][i] = Fields
  BY RequestFacts DEF PlayPause, At, RequestOK
<1>2. reqs' = [reqs EXCEPT ![k][to].push = pushing, ![k][i].pc = "acted"]
      /\ UNCHANGED <<scene, server, paths, conn, sessions, todo>>
  BY DEF PlayPause
<1>3. reqs' = [reqs EXCEPT ![k] = new]
  BY <1>0, <1>1, <1>2 DEF Tables
<1> HIDE DEF pushing
<1>4. ConnOK(rs, sessions[k], todo[k], conn[k].life)
  BY <1>0, <1>1, PushSet
<1>5. rs[i].pc = "loaded" /\ i \in DOMAIN rs
  BY <1>1 DEF Fields
<1> HIDE DEF rs
<1>6. ConnOK(new, sessions[k], todo[k], conn[k].life)
  BY <1>4, <1>5, PassesOn
<1> HIDE DEF new
<1>7. OnlyReqs(k, new, sessions[k], todo[k])
  BY <1>0, <1>2, <1>3 DEF OnlyReqs, Tables
<1> QED
  BY <1>6, <1>7, ClientStep

\* TEARDOWN closes the pusher.
LEMMA TeardownStep ==
  ASSUME RtspInv, NEW k \in Clients, NEW i \in DOMAIN reqs[k], Teardown(k, i)
  PROVE  RtspInv'
<1> DEFINE to == reqs[k][i].target
           rs == ClosePusher(reqs[k], to)
           new == [rs EXCEPT ![i] = [rs[i] EXCEPT !.pc = "torn"]]
<1>0. k \in Conns /\ Tables /\ ConnOK(reqs[k], sessions[k], todo[k], conn[k].life)
  BY ConnFacts
<1>1. reqs[k][i].pc = "loaded" /\ to \in DOMAIN reqs[k]
  BY RequestFacts DEF Teardown, At, RequestOK
<1>2. /\ reqs' = [reqs EXCEPT ![k] = [rs EXCEPT ![i].pc = "torn"]]
      /\ UNCHANGED <<scene, server, paths, conn, sessions, todo>>
  BY DEF Teardown
<1>3. /\ ConnOK(rs, sessions[k], todo[k], conn[k].life)
      /\ rs[i].pc = "loaded" /\ i \in DOMAIN rs /\ rs[to].pusher = "closed" /\ rs[i].target = to
  BY <1>0, <1>1, PusherCloses
<1> HIDE DEF rs
<1>4. reqs' = [reqs EXCEPT ![k] = new]
  BY <1>2
<1>5. ConnOK(new, sessions[k], todo[k], conn[k].life)
  BY <1>3, PassesOn
<1> HIDE DEF new
<1>6. OnlyReqs(k, new, sessions[k], todo[k])
  BY <1>0, <1>2, <1>4 DEF OnlyReqs, Tables
<1> QED
  BY <1>5, <1>6, ClientStep

\* TEARDOWN deletes the session, which may be gone already.
LEMMA TeardownDeleteStep ==
  ASSUME RtspInv, NEW k \in Clients, NEW i \in DOMAIN reqs[k], TeardownDelete(k, i)
  PROVE  RtspInv'
<1> DEFINE to == reqs[k][i].target
           id == reqs[k][i].msg.session
           left == {s \in sessions[k] : s.id # id}
           new == [reqs[k] EXCEPT ![i] = [reqs[k][i] EXCEPT !.pc = "acted"]]
<1>0. k \in Conns /\ Tables /\ ConnOK(reqs[k], sessions[k], todo[k], conn[k].life)
  BY ConnFacts
<1>1. /\ reqs[k][i].pc = "torn" /\ to \in DOMAIN reqs[k] /\ reqs[k][to].id = id /\ id # None
      /\ reqs[k][to].pusher # "running"
  BY RequestFacts DEF TeardownDelete, At, RequestOK
<1>2. /\ sessions' = [sessions EXCEPT ![k] = left] /\ reqs' = [reqs EXCEPT ![k][i] = [reqs[k][i] EXCEPT !.pc = "acted"]]
      /\ UNCHANGED <<scene, server, paths, conn, todo>>
  BY DEF TeardownDelete, Changed
<1>3. reqs' = [reqs EXCEPT ![k] = new]
  BY <1>2
<1>4. ConnOK(reqs[k], left, todo[k], conn[k].life)
  BY <1>0, <1>1, SessionGoes
<1> HIDE DEF left
<1>5. ConnOK(new, left, todo[k], conn[k].life)
  BY <1>1, <1>4, PassesOn
<1> HIDE DEF new
<1>6. OnlyReqs(k, new, left, todo[k])
  BY <1>0, <1>2, <1>3 DEF OnlyReqs, Tables
<1> QED
  BY <1>5, <1>6, ClientStep

\* SETUP stores its session.
LEMMA SetupStoreStep ==
  ASSUME RtspInv, NEW k \in Clients, NEW i \in DOMAIN reqs[k], SetupStore(k, i)
  PROVE  RtspInv'
<1>0. k \in Conns /\ Tables /\ ConnOK(reqs[k], sessions[k], todo[k], conn[k].life)
  BY ConnFacts
<1>1. PICK id \in Ids \ {reqs[k][j].id : j \in DOMAIN reqs[k]} :
       /\ sessions' = [sessions EXCEPT ![k] = @ \cup {[id |-> id, setup |-> i, late |-> conn[k].life # "running"]}]
       /\ Changed(k, i, [reqs[k][i] EXCEPT !.pc = "acted", !.id = id])
  BY DEF SetupStore
<1>2. reqs[k][i].pc = "added" /\ UNCHANGED <<scene, server, paths, conn, todo>>
  BY DEF SetupStore, At
<1> DEFINE new == [reqs[k] EXCEPT ![i] = [reqs[k][i] EXCEPT !.pc = "acted", !.id = id]]
           more == sessions[k] \cup {[id |-> id, setup |-> i, late |-> conn[k].life # "running"]}
<1>3. id # None /\ \A j \in DOMAIN reqs[k] : reqs[k][j].id # id
  BY RtspAssumption
<1>4. conn[k].life \in {"off", "running", "sweeping", "closed"}
  BY <1>0 DEF Tables
<1>5. ConnOK(new, more, todo[k], conn[k].life)
  BY <1>0, <1>2, <1>3, <1>4, SessionComes
<1>6. reqs' = [reqs EXCEPT ![k] = new] /\ sessions' = [sessions EXCEPT ![k] = more]
  BY <1>1 DEF Changed
<1> HIDE DEF new, more
<1>7. OnlyReqs(k, new, more, todo[k])
  BY <1>0, <1>2, <1>6 DEF OnlyReqs, Tables
<1> QED
  BY <1>5, <1>7, ClientStep

\* The sweep of a closed connection closes one pusher and deletes its session.
LEMMA SweepStep ==
  ASSUME RtspInv, NEW k \in Clients, Sweep(k)
  PROVE  RtspInv'
<1>0. k \in Conns /\ Tables /\ ConnOK(reqs[k], sessions[k], todo[k], conn[k].life)
  BY ConnFacts
<1>1. PICK s \in todo[k] :
       /\ todo' = [todo EXCEPT ![k] = @ \ {s}]
       /\ reqs' = [reqs EXCEPT ![k] = ClosePusher(@, s.setup)]
       /\ sessions' = [sessions EXCEPT ![k] = {t \in @ : t.id # s.id}]
  BY DEF Sweep
<1>2. UNCHANGED <<scene, server, paths, conn>>
  BY DEF Sweep
<1> DEFINE new == ClosePusher(reqs[k], s.setup)
           left == {t \in sessions[k] : t.id # s.id}
           td == todo[k] \ {s}
<1>3. Held(reqs[k], s)
  BY <1>0 DEF ConnOK
<1>4. /\ ConnOK(new, sessions[k], todo[k], conn[k].life)
      /\ s.setup \in DOMAIN new /\ new[s.setup].pusher = "closed" /\ new[s.setup].id = s.id /\ s.id # None
  BY <1>0, <1>3, PusherCloses DEF Held
<1>5. td \in SUBSET todo[k] /\ \A t \in todo[k] \ td : t.id = s.id
  OBVIOUS
<1>6. todo' = [todo EXCEPT ![k] = td] /\ reqs' = [reqs EXCEPT ![k] = new] /\ sessions' = [sessions EXCEPT ![k] = left]
  BY <1>1
<1> HIDE DEF new, td
<1>7. ConnOK(new, left, td, conn[k].life)
  BY <1>4, <1>5, SessionGoes
<1> HIDE DEF left
<1>8. OnlyReqs(k, new, left, td)
  BY <1>0, <1>2, <1>6 DEF OnlyReqs, Tables
<1> QED
  BY <1>7, <1>8, ClientStep

\* A step of connection k that leaves the sessions alone.
LEMMA ConnStep ==
  ASSUME RtspInv, NEW k \in Clients,
         UNCHANGED <<scene, server, sessions>>,
         DOMAIN conn' = Conns, DOMAIN todo' = Conns, DOMAIN reqs' = Conns,
         DOMAIN conn'[k] = {"life", "sock", "read", "chunk", "parser"},
         conn'[k].life \in {"off", "running", "sweeping", "closed"},
         \A c \in Conns : c # k => conn'[c] = conn[c] /\ todo'[c] = todo[c] /\ reqs'[c] = reqs[c],
         Conn(k)', Registered(k)'
  PROVE  RtspInv'
<1>0. k \in Conns /\ Tables /\ Clients \subseteq Conns
  BY ConnFacts, ClientsAreConns
<1>1. Tables'
  BY <1>0 DEF Tables
<1>2. ASSUME NEW c \in Clients'
      PROVE  Conn(c)' /\ Registered(c)'
  <2>1. c \in Clients /\ c \in Conns
    BY <1>0, <1>2 DEF Clients
  <2>2. CASE c = k
    BY <2>2
  <2>3. CASE c # k
    BY <2>1, <2>3 DEF RtspInv, Conn, Registered
  <2> QED
    BY <2>2, <2>3
<1> QED
  BY <1>1, <1>2 DEF RtspInv

\* Bytes arrive, or the client closes.
LEMMA ReadStep ==
  ASSUME RtspInv, NEW k \in Clients, ReadChunk(k) \/ ClientCloses(k)
  PROVE  RtspInv'
<1>0. k \in Conns /\ Tables /\ ConnOK(reqs[k], sessions[k], todo[k], conn[k].life) /\ Registered(k)
  BY ConnFacts DEF RtspInv
<1>1. UNCHANGED <<scene, server, paths, sessions, todo, reqs>>
  BY DEF ReadChunk, ClientCloses
<1>2. \/ conn' = [conn EXCEPT ![k].sock = "eof"]
      \/ \E stop, chunk : conn' = [conn EXCEPT ![k].read = stop, ![k].chunk = chunk]
  BY DEF ReadChunk, ClientCloses
<1>3. /\ DOMAIN conn' = Conns /\ DOMAIN conn'[k] = {"life", "sock", "read", "chunk", "parser"}
      /\ conn'[k].life = conn[k].life /\ (conn'[k].sock = conn[k].sock \/ conn'[k].sock = "eof")
      /\ \A c \in Conns : c # k => conn'[c] = conn[c]
  BY <1>0, <1>2 DEF Tables
<1>4. Conn(k)'
  BY <1>0, <1>1, <1>3 DEF Conn
<1>5. Registered(k)'
  BY <1>0, <1>1, <1>3 DEF Registered
<1>6. /\ DOMAIN todo' = Conns /\ DOMAIN reqs' = Conns /\ conn'[k].life \in {"off", "running", "sweeping", "closed"}
      /\ \A c \in Conns : c # k => conn'[c] = conn[c] /\ todo'[c] = todo[c] /\ reqs'[c] = reqs[c]
  BY <1>0, <1>1, <1>3 DEF Tables
<1> QED
  BY <1>1, <1>3, <1>4, <1>5, <1>6, ConnStep

\* The parser makes a request of them, wants more, or gives the connection up.
LEMMA ParseStep ==
  ASSUME RtspInv, NEW k \in Clients, ParseChunk(k)
  PROVE  RtspInv'
<1>0. k \in Conns /\ Tables /\ ConnOK(reqs[k], sessions[k], todo[k], conn[k].life) /\ Registered(k)
  BY ConnFacts DEF RtspInv
<1>1. PICK r :
        /\ conn' = [conn EXCEPT ![k].parser = r.p, ![k].chunk = r.remain,
                                ![k].life = IF r.outcome = "error" THEN "sweeping" ELSE "running"]
        /\ todo' = [todo EXCEPT ![k] = IF r.outcome = "error" THEN sessions[k] ELSE @]
        /\ reqs' = [reqs EXCEPT ![k] = IF r.outcome = "message" /\ r.p.message.type = "request"
                                       THEN Append(@, NewRequest(r.p.message)) ELSE @]
  BY DEF ParseChunk
<1>2. conn[k].life = "running" /\ UNCHANGED <<scene, server, paths, sessions>>
  BY DEF ParseChunk
<1>3. /\ DOMAIN conn' = Conns /\ DOMAIN conn'[k] = {"life", "sock", "read", "chunk", "parser"}
      /\ conn'[k].sock = conn[k].sock
      /\ conn'[k].life = IF r.outcome = "error" THEN "sweeping" ELSE "running"
      /\ \A c \in Conns : c # k => conn'[c] = conn[c]
  BY <1>0, <1>1, <1>2 DEF Tables
<1>4. /\ DOMAIN todo' = Conns /\ DOMAIN reqs' = Conns
      /\ todo'[k] = IF r.outcome = "error" THEN sessions[k] ELSE todo[k]
      /\ r.outcome = "error" => reqs'[k] = reqs[k]
      /\ reqs'[k] = reqs[k] \/ reqs'[k] = Append(reqs[k], NewRequest(r.p.message))
      /\ \A c \in Conns : c # k => todo'[c] = todo[c] /\ reqs'[c] = reqs[c]
  BY <1>0, <1>1 DEF Tables
<1>5. ConnOK(reqs[k], sessions[k], todo[k], "running")
  BY <1>0, <1>2
<1>6. ConnOK(Append(reqs[k], NewRequest(r.p.message)), sessions[k], todo[k], "running")
  BY <1>5, RequestComes
<1>7. ConnOK(reqs[k], sessions[k], sessions[k], "sweeping")
  BY <1>5, LifeMoves
<1>8. Conn(k)'
  <2>1. CASE r.outcome = "error"
    BY <2>1, <1>2, <1>3, <1>4, <1>7 DEF Conn
  <2>2. CASE r.outcome # "error"
    BY <2>2, <1>2, <1>3, <1>4, <1>5, <1>6 DEF Conn
  <2> QED
    BY <2>1, <2>2
<1>9. Registered(k)'
  BY <1>0, <1>2, <1>3 DEF Registered
<1>10. /\ conn'[k].life \in {"off", "running", "sweeping", "closed"}
       /\ \A c \in Conns : c # k => conn'[c] = conn[c] /\ todo'[c] = todo[c] /\ reqs'[c] = reqs[c]
  BY <1>3, <1>4
<1> QED
  BY <1>2, <1>3, <1>4, <1>8, <1>9, <1>10, ConnStep

\* Reading ends and the sweep begins.
LEMMA ReadClosedStep ==
  ASSUME RtspInv, NEW k \in Clients, ReadClosed(k)
  PROVE  RtspInv'
<1>0. k \in Conns /\ Tables /\ ConnOK(reqs[k], sessions[k], todo[k], conn[k].life)
  BY ConnFacts
<1>1. /\ conn[k].life = "running" /\ UNCHANGED <<scene, server, paths, sessions, reqs>>
      /\ conn' = [conn EXCEPT ![k].life = "sweeping"]
      /\ todo' = [todo EXCEPT ![k] = sessions[k]]
  BY DEF ReadClosed
<1>2. /\ DOMAIN conn' = Conns /\ DOMAIN conn'[k] = {"life", "sock", "read", "chunk", "parser"}
      /\ conn'[k].life = "sweeping" /\ DOMAIN todo' = Conns /\ DOMAIN reqs' = Conns /\ todo'[k] = sessions[k]
      /\ \A c \in Conns : c # k => conn'[c] = conn[c] /\ todo'[c] = todo[c] /\ reqs'[c] = reqs[c]
  BY <1>0, <1>1 DEF Tables
<1>3. ConnOK(reqs[k], sessions[k], sessions[k], "sweeping")
  BY <1>0, <1>1, LifeMoves
<1>4. Conn(k)' /\ Registered(k)'
  BY <1>1, <1>2, <1>3 DEF Conn, Registered
<1> QED
  BY <1>1, <1>2, <1>4, ConnStep

\* A connection is accepted: it replaces one of the same address whose socket is no
\* longer open.
LEMMA AcceptStep ==
  ASSUME RtspInv, NEW k \in Clients, Accept(k)
  PROVE  RtspInv'
<1>0. k \in Conns /\ Tables /\ Clients \subseteq Conns /\ ConnOK(reqs[k], sessions[k], todo[k], conn[k].life)
  BY ConnFacts, ClientsAreConns
<1>1. /\ conn[k].life = "off" /\ UNCHANGED <<scene, paths, sessions, todo, reqs>> /\ server.life = "running"
      /\ \A c \in Clients : scene.addr[c] = scene.addr[k] => conn[c].sock # "open"
      /\ server' = [server EXCEPT !.channels[scene.addr[k]] = k]
      /\ conn' = [conn EXCEPT ![k].life = "running", ![k].sock = "open"]
  BY DEF Accept
<1>2. scene.addr[k] \in DOMAIN server.channels
  BY <1>0 DEF Tables, Clients, Range
<1>3. /\ DOMAIN server' = {"life", "channels"} /\ server'.life = "running"
      /\ DOMAIN server'.channels = DOMAIN server.channels
      /\ server'.channels[scene.addr[k]] = k
      /\ \A a \in DOMAIN server.channels : a # scene.addr[k] => server'.channels[a] = server.channels[a]
  BY <1>0, <1>1, <1>2 DEF Tables
<1>4. /\ DOMAIN conn' = Conns /\ DOMAIN conn'[k] = {"life", "sock", "read", "chunk", "parser"}
      /\ conn'[k].life = "running"
      /\ \A c \in Conns : c # k => conn'[c] = conn[c]
  BY <1>0, <1>1 DEF Tables
<1>5. Tables'
  <2>1. \A c \in Conns : /\ DOMAIN conn'[c] = {"life", "sock", "read", "chunk", "parser"}
                         /\ conn'[c].life \in {"off", "running", "sweeping", "closed"}
    BY <1>0, <1>4 DEF Tables
  <2> QED
    BY <2>1, <1>0, <1>1, <1>3, <1>4 DEF Tables
<1>6. ASSUME NEW c \in Clients'
      PROVE  Conn(c)' /\ Registered(c)'
  <2>1. c \in Clients /\ c \in Conns
    BY <1>0, <1>1, <1>6 DEF Clients
  <2>2. CASE c = k
    <3>1. ConnOK(reqs[k], sessions[k], todo[k], "running")
      BY <1>0, <1>1, LifeMoves
    <3> QED
      BY <2>2, <3>1, <1>1, <1>3, <1>4 DEF Conn, Registered
  <2>3. CASE c # k
    <3>1. Conn(c) /\ Registered(c)
      BY <2>1 DEF RtspInv
    <3>2. scene.addr[c] \in DOMAIN server.channels
      BY <2>1, <1>0 DEF Tables, Clients, Range
    <3>3. Conn(c)'
      BY <2>1, <2>3, <3>1, <1>1, <1>4 DEF Conn
    <3>4. Registered(c)'
      BY <2>1, <2>3, <3>1, <3>2, <1>1, <1>3, <1>4 DEF Registered
    <3> QED
      BY <3>3, <3>4
  <2> QED
    BY <2>2, <2>3
<1> QED
  BY <1>5, <1>6 DEF RtspInv

\* The sweep ends: the server forgets the connection, unless a newer one has taken
\* its address.
LEMMA OnClosedStep ==
  ASSUME RtspInv, NEW k \in Clients, OnClosed(k)
  PROVE  RtspInv'
<1>0. k \in Conns /\ Tables /\ Clients \subseteq Conns /\ ConnOK(reqs[k], sessions[k], todo[k], conn[k].life)
  BY ConnFacts, ClientsAreConns
<1>1. /\ conn[k].life = "sweeping" /\ todo[k] = {} /\ UNCHANGED <<scene, paths, sessions, todo, reqs>>
      /\ server' = [server EXCEPT !.channels[scene.addr[k]] = IF @ = k THEN None ELSE @]
      /\ conn' = [conn EXCEPT ![k].life = "closed"]
  BY DEF OnClosed
<1>2. scene.addr[k] \in DOMAIN server.channels
  BY <1>0 DEF Tables, Clients, Range
<1>3. /\ DOMAIN server' = {"life", "channels"} /\ server'.life = server.life
      /\ DOMAIN server'.channels = DOMAIN server.channels
      /\ \A a \in DOMAIN server.channels : server.channels[a] # k => server'.channels[a] = server.channels[a]
  BY <1>0, <1>1, <1>2 DEF Tables
<1>4. /\ DOMAIN conn' = Conns /\ DOMAIN conn'[k] = {"life", "sock", "read", "chunk", "parser"}
      /\ conn'[k].life = "closed"
      /\ \A c \in Conns : c # k => conn'[c] = conn[c]
  BY <1>0, <1>1 DEF Tables
<1>5. Tables'
  <2>1. \A c \in Conns : /\ DOMAIN conn'[c] = {"life", "sock", "read", "chunk", "parser"}
                         /\ conn'[c].life \in {"off", "running", "sweeping", "closed"}
    BY <1>0, <1>4 DEF Tables
  <2> QED
    BY <2>1, <1>0, <1>1, <1>3, <1>4 DEF Tables
<1>6. ASSUME NEW c \in Clients'
      PROVE  Conn(c)' /\ Registered(c)'
  <2>1. c \in Clients /\ c \in Conns
    BY <1>0, <1>1, <1>6 DEF Clients
  <2>2. CASE c = k
    <3>1. ConnOK(reqs[k], sessions[k], todo[k], "closed")
      BY <1>0, <1>1, LifeMoves
    <3> QED
      BY <2>2, <3>1, <1>1, <1>4 DEF Conn, Registered
  <2>3. CASE c # k
    <3>1. Conn(c) /\ Registered(c)
      BY <2>1 DEF RtspInv
    <3>2. scene.addr[c] \in DOMAIN server.channels
      BY <2>1, <1>0 DEF Tables, Clients, Range
    <3>3. Conn(c)'
      BY <2>1, <2>3, <3>1, <1>1, <1>4 DEF Conn
    <3>4. Registered(c)'
      BY <2>1, <2>3, <3>1, <3>2, <1>1, <1>3, <1>4 DEF Registered
    <3> QED
      BY <3>3, <3>4
  <2> QED
    BY <2>2, <2>3
<1> QED
  BY <1>5, <1>6 DEF RtspInv

\* The server closes the connections it knows.
LEMMA CloseServerStep ==
  ASSUME RtspInv, CloseServer
  PROVE  RtspInv'
<1>0. Tables /\ Clients \subseteq Conns
  BY ClientsAreConns DEF RtspInv
<1>1. /\ UNCHANGED <<scene, paths, sessions, todo, reqs>>
      /\ server' = [server EXCEPT !.life = "closed"]
      /\ conn' = [k \in Conns |-> IF k \in Range(server.channels) /\ conn[k].life = "running"
                                  THEN [conn[k] EXCEPT !.sock = "closed"] ELSE conn[k]]
  BY DEF CloseServer
<1>2. DOMAIN conn' = Conns /\ DOMAIN server' = {"life", "channels"} /\ server'.channels = server.channels
  BY <1>0, <1>1 DEF Tables
<1>3. ASSUME NEW c \in Conns
      PROVE  /\ DOMAIN conn'[c] = {"life", "sock", "read", "chunk", "parser"}
             /\ conn'[c].life = conn[c].life
             /\ c \in Range(server.channels) /\ conn[c].life = "running" => conn'[c].sock = "closed"
             /\ conn'[c].sock = "open" => conn[c].sock = "open"
  BY <1>0, <1>1 DEF Tables
<1>4. Tables'
  BY <1>0, <1>1, <1>2, <1>3 DEF Tables
<1>5. ASSUME NEW c \in Clients'
      PROVE  Conn(c)' /\ Registered(c)'
  <2>1. c \in Clients /\ c \in Conns
    BY <1>0, <1>1, <1>5 DEF Clients
  <2>2. Conn(c) /\ Registered(c)
    BY <2>1 DEF RtspInv
  <2>3. Conn(c)'
    BY <2>1, <2>2, <1>1, <1>3 DEF Conn
  <2>4. scene.addr[c] \in DOMAIN server.channels
    BY <2>1, <1>0 DEF Tables, Clients, Range
  <2>5. ~(conn'[c].life = "running" /\ conn'[c].sock = "open")
    <3>1. SUFFICES ASSUME conn'[c].life = "running", conn'[c].sock = "open" PROVE FALSE
      OBVIOUS
    <3>2. server.channels[scene.addr[c]] = c /\ conn[c].life = "running"
      BY <2>1, <2>2, <3>1, <1>3 DEF Registered
    <3>3. c \in Range(server.channels)
      BY <2>4, <3>2 DEF Range
    <3> QED
      BY <2>1, <3>1, <3>2, <3>3, <1>3
  <2> QED
    BY <2>3, <2>5 DEF Registered
<1> QED
  BY <1>4, <1>5 DEF RtspInv

\* The steps that touch nothing of the invariant.
LEMMA UnchangedStep ==
  ASSUME RtspInv, UNCHANGED <<scene, server, conn, sessions, todo, reqs>>
  PROVE  RtspInv'
<1>1. Tables'
  BY DEF RtspInv, Tables
<1>2. Clients' = Clients
  BY DEF Clients
<1>3. \A k \in Clients : (Conn(k)' <=> Conn(k)) /\ (Registered(k)' <=> Registered(k))
  BY DEF Conn, Registered
<1> QED
  BY <1>1, <1>2, <1>3 DEF RtspInv

\* Every step keeps it.
LEMMA RtspNext ==
  ASSUME RtspInv, [Next]_vars
  PROVE  RtspInv'
<1>1. CASE CloseServer
  BY <1>1, CloseServerStep
<1>2. CASE \E path \in {"cam", "other"} : AddChannel(path) \/ DeleteChannel(path)
  <2>1. UNCHANGED <<scene, server, conn, sessions, todo, reqs>>
    BY <1>2 DEF AddChannel, DeleteChannel
  <2> QED
    BY <2>1, UnchangedStep
<1>3. ASSUME NEW k \in Clients,
             Accept(k) \/ ClientCloses(k) \/ ReadChunk(k) \/ ParseChunk(k) \/ End(k)
      PROVE  RtspInv'
  BY <1>3, AcceptStep, ReadStep, ParseStep, ReadClosedStep, SweepStep, OnClosedStep DEF End
<1>4. ASSUME NEW k \in Clients, NEW i \in DOMAIN reqs[k], Handle(k, i)
      PROVE  RtspInv'
  BY <1>4, AnswersStep, SetupBeginStep, SetupOpenStep, SetupAddStep, SetupUndoStep, SetupStoreStep,
     LoadStep, PlayPauseStep, TeardownStep, TeardownDeleteStep DEF Handle
<1>5. ASSUME NEW k \in Clients, NEW i \in DOMAIN reqs[k], PusherEnds(k, i)
      PROVE  RtspInv'
  BY <1>5, PusherEndsStep
<1>6. CASE UNCHANGED vars
  BY <1>6, UnchangedStep DEF vars
<1> QED
  BY <1>1, <1>2, <1>3, <1>4, <1>5, <1>6 DEF Next

\* For any connections, addresses, ids and bytes: a pusher that runs is in the hands
\* of its SETUP or belongs to a stored session, a session outlives its closed
\* connection only if it was stored after the sweep began, and the server knows
\* every connection that runs on an open socket.
THEOREM NothingIsForgotten ==
  Spec => []NothingForgotten
<1>1. Init => RtspInv
  BY RtspInit
<1>2. RtspInv /\ [Next]_vars => RtspInv'
  BY RtspNext
<1>3. RtspInv => NothingForgotten
  BY RtspInvImplies
<1> QED
  BY <1>1, <1>2, <1>3, PTL DEF Spec
=============================================================================
