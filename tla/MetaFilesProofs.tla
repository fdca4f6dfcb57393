--------------------------- MODULE MetaFilesProofs ---------------------------
(***************************************************************************)
(* Proofs about MetaFiles: doFileTask is submitted exactly when it is      *)
(* needed, for every configuration; and the maps keep track of every file  *)
(* and every update, as long as the newest file is not deleted and no slot *)
(* of the ring is used again while the worker points to it.                *)
(***************************************************************************)
EXTENDS MetaFiles, OrderLemmas, SequenceTheorems

-----------------------------------------------------------------------------
(* The ordered maps.                                                       *)

File   == [seq : Nat, ver : Nat]
Entry  == [seq : Nat, live : BOOLEAN]

\* The keys that have no value, and that no key is there twice.
Dead(q)     == {q[i].seq : i \in {j \in DOMAIN q : ~q[j].live}}
Distinct(q) == \A i, j \in DOMAIN q : q[i].seq = q[j].seq => i = j

\* Membership in the keys of a map, and in those with and without value.
LEMMA KeyFacts ==
    ASSUME NEW q
    PROVE  /\ \A n : n \in Seqs(q) <=> \E i \in DOMAIN q : q[i].seq = n
           /\ \A n : n \in Live(q) <=> \E i \in DOMAIN q : q[i].live /\ q[i].seq = n
           /\ \A n : n \in Dead(q) <=> \E i \in DOMAIN q : ~q[i].live /\ q[i].seq = n
    BY DEF Seqs, Live, Dead

\* SetValue of an entry.
LEMMA EntryFacts ==
    ASSUME NEW e \in Entry, NEW b \in BOOLEAN
    PROVE  /\ [e EXCEPT !.live = b] \in Entry
           /\ [e EXCEPT !.live = b].seq = e.seq /\ [e EXCEPT !.live = b].live = b
    BY DEF Entry

\* Put appends a live entry or revives the one there is.
LEMMA PutFacts ==
    ASSUME NEW q \in Seq(Entry), NEW n \in Nat
    PROVE  /\ Put(q, n) \in Seq(Entry)
           /\ Len(q) <= Len(Put(q, n)) /\ Len(Put(q, n)) <= Len(q) + 1
           /\ \A i \in 1..Len(q) : /\ Put(q, n)[i].seq = q[i].seq
                                   /\ Put(q, n)[i].live <=> (q[i].live \/ q[i].seq = n)
           /\ Len(Put(q, n)) = Len(q) + 1 => Put(q, n)[Len(q) + 1] = [seq |-> n, live |-> TRUE]
           /\ Len(Put(q, n)) = Len(q) <=> n \in Seqs(q)
<1>1. CASE n \in Seqs(q)
    <2> DEFINE p == [i \in DOMAIN q |-> IF q[i].seq = n THEN [q[i] EXCEPT !.live = TRUE] ELSE q[i]]
    <2>1. \A i \in DOMAIN q : /\ p[i] \in Entry /\ p[i].seq = q[i].seq
                              /\ p[i].live <=> (q[i].live \/ q[i].seq = n)
        <3> SUFFICES ASSUME NEW i \in DOMAIN q
                     PROVE  /\ p[i] \in Entry /\ p[i].seq = q[i].seq
                            /\ p[i].live <=> (q[i].live \/ q[i].seq = n)
            OBVIOUS
        <3>1. q[i] \in Entry
            OBVIOUS
        <3>2. CASE q[i].seq = n
            <4>1. p[i] = [q[i] EXCEPT !.live = TRUE]
                BY <3>2
            <4> HIDE DEF p
            <4> QED BY <3>1, <3>2, <4>1, EntryFacts
        <3>3. CASE q[i].seq # n
            <4>1. p[i] = q[i]
                BY <3>3
            <4> HIDE DEF p
            <4> QED BY <3>1, <3>3, <4>1
        <3> QED BY <3>2, <3>3
    <2>2. p \in Seq(Entry) /\ Len(p) = Len(q)
        <3>1. p \in [1..Len(q) -> Entry]
            BY <2>1
        <3> QED BY <3>1
    <2>3. Put(q, n) = p
        BY <1>1 DEF Put
    <2> HIDE DEF p
    <2> QED BY <1>1, <2>1, <2>2, <2>3
<1>2. CASE n \notin Seqs(q)
    <2>1. [seq |-> n, live |-> TRUE] \in Entry
        BY DEF Entry
    <2>2. Put(q, n) = Append(q, [seq |-> n, live |-> TRUE])
        BY <1>2 DEF Put
    <2>3. \A i \in 1..Len(q) : q[i].seq # n
        BY <1>2 DEF Seqs
    <2> QED BY <1>2, <2>1, <2>2, <2>3 DEF Entry
<1> QED BY <1>1, <1>2

\* PutIfAbsent appends a live entry or changes nothing.
LEMMA PutIfAbsentFacts ==
    ASSUME NEW q \in Seq(Entry), NEW n \in Nat
    PROVE  /\ PutIfAbsent(q, n) \in Seq(Entry)
           /\ Len(q) <= Len(PutIfAbsent(q, n)) /\ Len(PutIfAbsent(q, n)) <= Len(q) + 1
           /\ \A i \in 1..Len(q) : PutIfAbsent(q, n)[i] = q[i]
           /\ Len(PutIfAbsent(q, n)) = Len(q) + 1 => PutIfAbsent(q, n)[Len(q) + 1] = [seq |-> n, live |-> TRUE]
           /\ Len(PutIfAbsent(q, n)) = Len(q) <=> n \in Seqs(q)
<1>1. [seq |-> n, live |-> TRUE] \in Entry
    BY DEF Entry
<1> QED BY <1>1 DEF PutIfAbsent

\* Kill takes the values of the files that have left the ring.
LEMMA KillFacts ==
    ASSUME NEW q \in Seq(Entry), NEW gone
    PROVE  /\ Kill(q, gone) \in Seq(Entry) /\ Len(Kill(q, gone)) = Len(q)
           /\ \A i \in 1..Len(q) : /\ Kill(q, gone)[i].seq = q[i].seq
                                   /\ Kill(q, gone)[i].live <=> (q[i].live /\ q[i].seq \notin gone)
<1> DEFINE p == Kill(q, gone)
<1>1. \A i \in DOMAIN q : /\ p[i] \in Entry /\ p[i].seq = q[i].seq
                          /\ p[i].live <=> (q[i].live /\ q[i].seq \notin gone)
    <2> SUFFICES ASSUME NEW i \in DOMAIN q
                 PROVE  /\ p[i] \in Entry /\ p[i].seq = q[i].seq
                        /\ p[i].live <=> (q[i].live /\ q[i].seq \notin gone)
        OBVIOUS
    <2>1. q[i] \in Entry
        OBVIOUS
    <2>2. CASE q[i].seq \in gone
        <3>1. p[i] = [q[i] EXCEPT !.live = FALSE]
            BY <2>2 DEF Kill
        <3> HIDE DEF p
        <3> QED BY <2>1, <2>2, <3>1, EntryFacts
    <2>3. CASE q[i].seq \notin gone
        <3>1. p[i] = q[i]
            BY <2>3 DEF Kill
        <3> HIDE DEF p
        <3> QED BY <2>1, <2>3, <3>1
    <2> QED BY <2>2, <2>3
<1>2. p \in [1..Len(q) -> Entry]
    BY <1>1 DEF Kill
<1> HIDE DEF p
<1>3. p \in Seq(Entry) /\ Len(p) = Len(q)
    BY <1>2
<1> QED BY <1>1, <1>3 DEF p

\* What Put does to the keys.
LEMMA PutKeySets ==
    ASSUME NEW q \in Seq(Entry), NEW n \in Nat
    PROVE  /\ Put(q, n) \in Seq(Entry) /\ Len(q) <= Len(Put(q, n))
           /\ Seqs(Put(q, n)) = Seqs(q) \union {n}
           /\ Live(Put(q, n)) = Live(q) \union {n}
           /\ Dead(Put(q, n)) \subseteq Dead(q)
           /\ Distinct(q) => Distinct(Put(q, n))
<1> DEFINE p == Put(q, n)
           k == Len(q)
<1>p. /\ \A x : x \in Seqs(p) <=> \E i \in DOMAIN p : p[i].seq = x
      /\ \A x : x \in Live(p) <=> \E i \in DOMAIN p : p[i].live /\ p[i].seq = x
      /\ \A x : x \in Dead(p) <=> \E i \in DOMAIN p : ~p[i].live /\ p[i].seq = x
    BY KeyFacts
<1>q. /\ \A x : x \in Seqs(q) <=> \E i \in DOMAIN q : q[i].seq = x
      /\ \A x : x \in Live(q) <=> \E i \in DOMAIN q : q[i].live /\ q[i].seq = x
      /\ \A x : x \in Dead(q) <=> \E i \in DOMAIN q : ~q[i].live /\ q[i].seq = x
    BY KeyFacts
<1>1. /\ p \in Seq(Entry) /\ k \in Nat /\ Len(p) \in {k, k + 1}
      /\ \A i \in 1..k : p[i].seq = q[i].seq /\ (p[i].live <=> (q[i].live \/ q[i].seq = n))
      /\ Len(p) = k + 1 => p[k + 1] = [seq |-> n, live |-> TRUE]
      /\ Len(p) = k <=> n \in Seqs(q)
    BY PutFacts
<1> HIDE DEF p
<1>2. DOMAIN q = 1..k /\ DOMAIN p = 1..Len(p)
    BY <1>1
<1> HIDE DEF k
<1>3. CASE Len(p) = k
    <2>1. DOMAIN p = DOMAIN q /\ n \in Seqs(q)
        BY <1>1, <1>2, <1>3
    <2>a. \A i \in DOMAIN q : p[i].seq = q[i].seq /\ (p[i].live <=> (q[i].live \/ q[i].seq = n))
        BY <1>1, <1>2
    <2>2. Seqs(p) = Seqs(q) \union {n}
        <3>1. \A x : x \in Seqs(p) <=> x \in Seqs(q)
            BY <2>1, <2>a, <1>p, <1>q
        <3> QED BY <2>1, <3>1
    <2>3. Live(p) = Live(q) \union {n}
        <3>1. ASSUME NEW x \in Live(p) PROVE x \in Live(q) \union {n}
            BY <2>1, <2>a, <1>p, <1>q
        <3>2. ASSUME NEW x \in Live(q) PROVE x \in Live(p)
            BY <2>1, <2>a, <1>p, <1>q
        <3>3. n \in Live(p)
            BY <2>1, <2>a, <1>p, <1>q
        <3> QED BY <3>1, <3>2, <3>3
    <2>4. Dead(p) \subseteq Dead(q)
        <3> SUFFICES ASSUME NEW x \in Dead(p) PROVE x \in Dead(q)
            OBVIOUS
        <3> QED BY <2>1, <2>a, <1>p, <1>q
    <2>5. Distinct(q) => Distinct(p)
        BY <1>1, <1>2, <2>1 DEF Distinct
    <2>6. k <= Len(p)
        BY <1>1, <1>3
    <2> QED BY <1>1, <2>6, <2>2, <2>3, <2>4, <2>5 DEF p, k
<1>4. CASE Len(p) = k + 1
    <2>1. /\ DOMAIN p = 1..(k + 1) /\ n \notin Seqs(q)
          /\ p[k + 1].seq = n /\ p[k + 1].live
        BY <1>1, <1>2, <1>4
    <2>2. \A i : i \in DOMAIN p <=> (i \in DOMAIN q \/ i = k + 1)
        <3>1. \A i : i \in 1..(k + 1) <=> (i \in 1..k \/ i = k + 1)
            BY <1>1
        <3> QED BY <1>2, <2>1, <3>1
    <2>3. \A i \in DOMAIN q : p[i].seq = q[i].seq /\ (p[i].live <=> q[i].live)
        BY <1>1, <1>2, <2>1, <1>p, <1>q
    <2>4. Seqs(p) = Seqs(q) \union {n}
        BY <2>1, <2>2, <2>3, <1>p, <1>q
    <2>5. Live(p) = Live(q) \union {n}
        BY <2>1, <2>2, <2>3, <1>p, <1>q
    <2>6. Dead(p) \subseteq Dead(q)
        BY <2>1, <2>2, <2>3, <1>p, <1>q
    <2>7. Distinct(q) => Distinct(p)
        BY <2>1, <2>2, <2>3, <1>p, <1>q DEF Distinct
    <2>8. k <= Len(p)
        BY <1>1, <1>4
    <2> QED BY <1>1, <2>4, <2>5, <2>6, <2>7, <2>8 DEF p, k
<1> QED BY <1>1, <1>3, <1>4

\* What PutIfAbsent does to the keys.
LEMMA PutIfAbsentKeySets ==
    ASSUME NEW q \in Seq(Entry), NEW n \in Nat
    PROVE  /\ PutIfAbsent(q, n) \in Seq(Entry) /\ Len(q) <= Len(PutIfAbsent(q, n))
           /\ Seqs(PutIfAbsent(q, n)) = Seqs(q) \union {n}
           /\ Live(PutIfAbsent(q, n)) = IF n \in Seqs(q) THEN Live(q) ELSE Live(q) \union {n}
           /\ Dead(PutIfAbsent(q, n)) = Dead(q)
           /\ Distinct(q) => Distinct(PutIfAbsent(q, n))
<1> DEFINE p == PutIfAbsent(q, n)
           k == Len(q)
<1>p. /\ \A x : x \in Seqs(p) <=> \E i \in DOMAIN p : p[i].seq = x
      /\ \A x : x \in Live(p) <=> \E i \in DOMAIN p : p[i].live /\ p[i].seq = x
      /\ \A x : x \in Dead(p) <=> \E i \in DOMAIN p : ~p[i].live /\ p[i].seq = x
    BY KeyFacts
<1>q. /\ \A x : x \in Seqs(q) <=> \E i \in DOMAIN q : q[i].seq = x
      /\ \A x : x \in Live(q) <=> \E i \in DOMAIN q : q[i].live /\ q[i].seq = x
      /\ \A x : x \in Dead(q) <=> \E i \in DOMAIN q : ~q[i].live /\ q[i].seq = x
    BY KeyFacts
<1>1. CASE n \in Seqs(q)
    BY <1>1 DEF PutIfAbsent
<1>2. CASE n \notin Seqs(q)
    <2>1. /\ p \in Seq(Entry) /\ k \in Nat /\ Len(p) = k + 1
          /\ \A i \in 1..k : p[i] = q[i]
          /\ p[k + 1] = [seq |-> n, live |-> TRUE]
        BY <1>2, PutIfAbsentFacts
    <2> HIDE DEF p
    <2>2. DOMAIN q = 1..k /\ DOMAIN p = 1..(k + 1) /\ k <= Len(p)
        BY <2>1
    <2> HIDE DEF k
    <2>3. /\ \A i : i \in DOMAIN p <=> (i \in DOMAIN q \/ i = k + 1)
          /\ \A i \in DOMAIN q : p[i] = q[i]
          /\ p[k + 1].seq = n /\ p[k + 1].live
        BY <2>1, <2>2
    <2>4. Seqs(p) = Seqs(q) \union {n}
        BY <2>3, <1>p, <1>q
    <2>5. Live(p) = Live(q) \union {n}
        BY <2>3, <1>p, <1>q
    <2>6. Dead(p) = Dead(q)
        <3>1. \A x : x \in Dead(p) <=> x \in Dead(q)
            BY <2>3, <1>p, <1>q
        <3> QED BY <3>1
    <2>7. Distinct(q) => Distinct(p)
        BY <1>2, <2>3, <1>p, <1>q DEF Distinct
    <2> QED BY <1>2, <2>1, <2>2, <2>4, <2>5, <2>6, <2>7 DEF p, k
<1> QED BY <1>1, <1>2

\* What Kill does to the keys.
LEMMA KillKeySets ==
    ASSUME NEW q \in Seq(Entry), NEW gone
    PROVE  /\ Kill(q, gone) \in Seq(Entry) /\ Len(Kill(q, gone)) = Len(q)
           /\ Seqs(Kill(q, gone)) = Seqs(q)
           /\ Live(Kill(q, gone)) = Live(q) \ gone
           /\ Dead(Kill(q, gone)) \subseteq Dead(q) \union gone
           /\ Distinct(q) => Distinct(Kill(q, gone))
<1> DEFINE p == Kill(q, gone)
<1>p. /\ \A x : x \in Seqs(p) <=> \E i \in DOMAIN p : p[i].seq = x
      /\ \A x : x \in Live(p) <=> \E i \in DOMAIN p : p[i].live /\ p[i].seq = x
      /\ \A x : x \in Dead(p) <=> \E i \in DOMAIN p : ~p[i].live /\ p[i].seq = x
    BY KeyFacts
<1>q. /\ \A x : x \in Seqs(q) <=> \E i \in DOMAIN q : q[i].seq = x
      /\ \A x : x \in Live(q) <=> \E i \in DOMAIN q : q[i].live /\ q[i].seq = x
      /\ \A x : x \in Dead(q) <=> \E i \in DOMAIN q : ~q[i].live /\ q[i].seq = x
    BY KeyFacts
<1>1. /\ p \in Seq(Entry) /\ Len(p) = Len(q) /\ DOMAIN p = DOMAIN q
      /\ \A i \in DOMAIN q : p[i].seq = q[i].seq /\ (p[i].live <=> (q[i].live /\ q[i].seq \notin gone))
    BY KillFacts
<1> HIDE DEF p
<1>2. Seqs(p) = Seqs(q)
    <2>1. \A x : x \in Seqs(p) <=> x \in Seqs(q)
        BY <1>1, <1>p, <1>q
    <2> QED BY <2>1
<1>3. Live(p) = Live(q) \ gone
    BY <1>1, <1>p, <1>q
<1>4. Dead(p) \subseteq Dead(q) \union gone
    BY <1>1, <1>p, <1>q
<1>5. Distinct(q) => Distinct(p)
    BY <1>1 DEF Distinct
<1> QED BY <1>1, <1>2, <1>3, <1>4, <1>5 DEF p

\* What RemoveFirst does to the keys.
LEMMA TailKeySets ==
    ASSUME NEW q \in Seq(Entry), q # <<>>
    PROVE  /\ Tail(q) \in Seq(Entry) /\ Len(Tail(q)) = Len(q) - 1 /\ Len(q) > 0 /\ Head(q) \in Entry
           /\ Seqs(q) = Seqs(Tail(q)) \union {Head(q).seq}
           /\ Live(q) = IF Head(q).live THEN Live(Tail(q)) \union {Head(q).seq} ELSE Live(Tail(q))
           /\ Dead(q) = IF Head(q).live THEN Dead(Tail(q)) ELSE Dead(Tail(q)) \union {Head(q).seq}
           /\ Distinct(q) => Distinct(Tail(q)) /\ Head(q).seq \notin Seqs(Tail(q))
<1> DEFINE p == Tail(q)
           h == Head(q)
           k == Len(p)
<1>1. /\ p \in Seq(Entry) /\ k \in Nat /\ Len(q) = k + 1 /\ h \in Entry /\ h = q[1]
      /\ \A i \in 1..k : p[i] = q[i + 1]
      /\ Len(p) = Len(q) - 1 /\ Len(q) > 0
      /\ DOMAIN p = 1..k /\ DOMAIN q = 1..(k + 1)
    OBVIOUS
<1> HIDE DEF p, h, k
<1>p. /\ \A x : x \in Seqs(p) <=> \E i \in DOMAIN p : p[i].seq = x
      /\ \A x : x \in Live(p) <=> \E i \in DOMAIN p : p[i].live /\ p[i].seq = x
      /\ \A x : x \in Dead(p) <=> \E i \in DOMAIN p : ~p[i].live /\ p[i].seq = x
    BY KeyFacts
<1>q. /\ \A x : x \in Seqs(q) <=> \E i \in DOMAIN q : q[i].seq = x
      /\ \A x : x \in Live(q) <=> \E i \in DOMAIN q : q[i].live /\ q[i].seq = x
      /\ \A x : x \in Dead(q) <=> \E i \in DOMAIN q : ~q[i].live /\ q[i].seq = x
    BY KeyFacts
<1>2. /\ \A i \in DOMAIN p : i + 1 \in DOMAIN q /\ p[i] = q[i + 1] /\ i + 1 # 1
      /\ \A i \in DOMAIN q : i = 1 \/ (i - 1 \in DOMAIN p /\ p[i - 1] = q[i])
      /\ 1 \in DOMAIN q
    BY <1>1
<1>a. /\ \A i \in DOMAIN p : \E j \in DOMAIN q : j # 1 /\ p[i] = q[j]
      /\ \A j \in DOMAIN q : j # 1 => \E i \in DOMAIN p : p[i] = q[j]
      /\ 1 \in DOMAIN q /\ q[1] = h
    BY <1>1, <1>2
<1>3. Seqs(q) = Seqs(p) \union {h.seq}
    <2>1. \A x : x \in Seqs(q) <=> (x \in Seqs(p) \/ h.seq = x)
        BY <1>a, <1>p, <1>q
    <2> QED BY <2>1
<1>4. Live(q) = IF h.live THEN Live(p) \union {h.seq} ELSE Live(p)
    <2>1. \A x : x \in Live(q) <=> (x \in Live(p) \/ (h.live /\ h.seq = x))
        BY <1>a, <1>p, <1>q
    <2> QED BY <2>1
<1>5. Dead(q) = IF h.live THEN Dead(p) ELSE Dead(p) \union {h.seq}
    <2>1. \A x : x \in Dead(q) <=> (x \in Dead(p) \/ (~h.live /\ h.seq = x))
        BY <1>a, <1>p, <1>q
    <2> QED BY <2>1
<1>6. Distinct(q) => Distinct(p) /\ h.seq \notin Seqs(p)
    <2> SUFFICES ASSUME Distinct(q) PROVE Distinct(p) /\ h.seq \notin Seqs(p)
        OBVIOUS
    <2>1. ASSUME NEW i \in DOMAIN p, NEW j \in DOMAIN p, p[i].seq = p[j].seq PROVE i = j
        <3>1. i + 1 = j + 1
            BY <1>2, <2>1 DEF Distinct
        <3>2. i \in Nat /\ j \in Nat
            BY <1>1
        <3> QED BY <3>1, <3>2
    <2>2. \A i \in DOMAIN p : p[i].seq # h.seq
        BY <1>a DEF Distinct
    <2> QED BY <2>1, <2>2, <1>p, <1>q DEF Distinct
<1> QED BY <1>1, <1>3, <1>4, <1>5, <1>6 DEF p, h, k

\* PutKeys appends the numbers that were not there.
LEMMA PutKeysFacts ==
    ASSUME NEW q \in Seq(Nat), NEW gone \in SUBSET Nat, IsFiniteSet(gone)
    PROVE  /\ PutKeys(q, gone) \in Seq(Nat) /\ Len(q) <= Len(PutKeys(q, gone))
           /\ ToSet(PutKeys(q, gone)) = ToSet(q) \union gone
<1> DEFINE new == gone \ ToSet(q)
           a   == Ascending(new)
           n   == Cardinality(new)
<1>1. new \in SUBSET Nat /\ IsFiniteSet(new)
    BY FS_Subset
<1>2. /\ n \in Nat /\ a \in [1..n -> new]
      /\ \A x \in new : \E i \in 1..n : a[i] = x
    BY <1>1, AscendingFacts
<1> HIDE DEF a, n
<1>3. a \in Seq(Nat) /\ Len(a) = n
    <2>1. a \in [1..n -> Nat]
        BY <1>1, <1>2
    <2> HIDE DEF new
    <2> QED BY <1>2, <2>1
<1> HIDE DEF new
<1>4. PutKeys(q, gone) = q \o a
    BY DEF PutKeys, a, new
<1> DEFINE r == q \o a
<1>5. /\ r \in Seq(Nat) /\ Len(r) = Len(q) + n
      /\ \A i \in 1..Len(q) : r[i] = q[i]
      /\ \A i \in 1..n : r[Len(q) + i] = a[i]
      /\ \A i \in (Len(q) + 1)..Len(r) : r[i] = a[i - Len(q)]
    BY <1>2, <1>3
<1> HIDE DEF r
<1>6. ASSUME NEW x \in ToSet(r) PROVE x \in ToSet(q) \union gone
    <2>1. PICK i \in 1..Len(r) : r[i] = x
        BY <1>5 DEF ToSet
    <2>2. CASE i <= Len(q)
        BY <1>5, <2>1, <2>2 DEF ToSet
    <2>3. CASE i > Len(q)
        <3>1. i - Len(q) \in 1..n /\ x = a[i - Len(q)]
            BY <1>2, <1>5, <2>1, <2>3
        <3> QED BY <1>2, <3>1 DEF new
    <2> QED BY <1>5, <2>2, <2>3
<1>7. ASSUME NEW x \in ToSet(q) PROVE x \in ToSet(r)
    <2>1. PICK i \in 1..Len(q) : q[i] = x
        BY DEF ToSet
    <2> QED BY <1>2, <1>5, <2>1 DEF ToSet
<1>8. ASSUME NEW x \in new PROVE x \in ToSet(r)
    <2>1. PICK i \in 1..n : a[i] = x
        BY <1>2
    <2>2. Len(q) + i \in DOMAIN r /\ r[Len(q) + i] = x
        BY <1>2, <1>5, <2>1
    <2> QED BY <2>2 DEF ToSet
<1> QED BY <1>2, <1>4, <1>5, <1>6, <1>7, <1>8 DEF r, new
-----------------------------------------------------------------------------
(* Types.                                                                  *)

Pcs    == {"idle", "take", "count", "next", "build", "db"}
Worker == [pc : Pcs, batch : Seq(TaskTypes), left : Nat, slot : Nat, cur : File, stmt : File]

FilesTypeOK ==
    /\ phase \in {"running", "flush", "down"}
    /\ table \in SUBSET File /\ IsFiniteSet(table)
    /\ files \in Seq(File) /\ Len(files) <= RingCap /\ head \in 0..(RingCap - 1)
    /\ toCreate \in Seq(Entry) /\ toUpdate \in Seq(Entry) /\ toDelete \in Seq(Nat)
    /\ fileTasks \in Seq(TaskTypes) /\ queued \in BOOLEAN /\ stuck \in BOOLEAN
    /\ worker \in Worker

\* What the worker's fields mean at its steps.
WorkerOK ==
    /\ worker.pc \in {"next", "build", "db"} =>
          worker.batch # <<>> /\ worker.left <= Len(Waiting(Type))
    /\ (worker.pc \notin {"build", "db"} \/ Type = "delete") => worker.slot = RingCap

\* The files of the ring are in order, and what waits to be inserted or updated
\* is in the ring.
Sorted     == \A i, j \in DOMAIN files : i < j => files[i].seq < files[j].seq
LiveInRing == Live(toCreate) \subseteq Seqs(files) /\ Live(toUpdate) \subseteq Seqs(files)

BaseInv == FilesTypeOK /\ WorkerOK /\ Sorted /\ LiveInRing

\* The next file's number is larger than those in the ring.
LEMMA NewFileFacts ==
    ASSUME FilesTypeOK, Sorted
    PROVE  NewFile \in File /\ \A i \in DOMAIN files : files[i].seq < NewFile.seq
<1>1. CASE files = <<>>
    BY <1>1 DEF NewFile, File
<1>2. CASE files # <<>>
    <2>1. Len(files) \in DOMAIN files /\ files[Len(files)] \in File
        BY <1>2 DEF FilesTypeOK
    <2>2. NewFile = [seq |-> files[Len(files)].seq + 1, ver |-> 0]
        BY <1>2 DEF NewFile
    <2>3. files[Len(files)].seq \in Nat
        BY <2>1 DEF File
    <2>4. ASSUME NEW i \in DOMAIN files PROVE files[i].seq \in Nat /\ files[i].seq < NewFile.seq
        <3>1. files[i] \in File /\ (i = Len(files) \/ i < Len(files))
            BY DEF FilesTypeOK
        <3>2. files[i].seq \in Nat
            BY <3>1 DEF File
        <3>3. i = Len(files) \/ files[i].seq < files[Len(files)].seq
            BY <2>1, <3>1 DEF Sorted
        <3>4. NewFile.seq = files[Len(files)].seq + 1
            BY <2>2
        <3> QED BY <2>3, <3>2, <3>3, <3>4
    <2>5. NewFile \in File
        BY <2>2, <2>3 DEF File
    <2> QED BY <2>4, <2>5
<1> QED BY <1>1, <1>2

\* addFileTask changes the task types and the executor's channel only.
LEMMA AddFileTaskTypes ==
    ASSUME FilesTypeOK, NEW type \in TaskTypes, AddFileTask(type)
    PROVE  fileTasks' \in Seq(TaskTypes) /\ queued' \in BOOLEAN /\ stuck' \in BOOLEAN
<1>1. fileTasks \in Seq(TaskTypes) /\ queued \in BOOLEAN /\ stuck \in BOOLEAN
    BY DEF FilesTypeOK
<1>2. Append(fileTasks, type) \in Seq(TaskTypes)
    BY <1>1
<1>3. fileTasks' \in Seq(TaskTypes)
    BY <1>1, <1>2 DEF AddFileTask
<1>4. queued' \in BOOLEAN /\ stuck' \in BOOLEAN
    BY <1>1, Zenon DEF AddFileTask
<1> QED BY <1>3, <1>4

\* A step of another thread leaves the worker where it is: entries are taken
\* out of the maps by the worker only.
LEMMA WorkerOKKept ==
    ASSUME BaseInv, FilesTypeOK',
           worker'.pc = worker.pc, worker'.batch = worker.batch,
           worker'.left = worker.left, worker'.slot = worker.slot,
           Len(toCreate) <= Len(toCreate'), Len(toUpdate) <= Len(toUpdate'), Len(toDelete) <= Len(toDelete')
    PROVE  WorkerOK'
<1>1. /\ toCreate \in Seq(Entry) /\ toUpdate \in Seq(Entry) /\ toDelete \in Seq(Nat)
      /\ toCreate' \in Seq(Entry) /\ toUpdate' \in Seq(Entry) /\ toDelete' \in Seq(Nat)
      /\ worker.left \in Nat /\ worker.batch \in Seq(TaskTypes)
    BY DEF BaseInv, FilesTypeOK, Worker
<1>2. Type' = Type
    BY DEF Type
<1>3. ASSUME worker.pc \in {"next", "build", "db"} PROVE worker'.left <= Len(Waiting(Type)')
    <2>1. worker.batch # <<>> /\ worker.left <= Len(Waiting(Type))
        BY <1>3 DEF BaseInv, WorkerOK
    <2>2. Type \in TaskTypes
        BY <1>1, <2>1 DEF Type
    <2> QED BY <1>1, <1>2, <2>1, <2>2 DEF Waiting, TaskTypes
<1> QED BY <1>2, <1>3 DEF BaseInv, WorkerOK

\* AddFile keeps the types.
LEMMA BaseAddFile ==
    ASSUME BaseInv, AddFile
    PROVE  BaseInv'
<1> DEFINE n == Len(files)
<1>0. /\ NewFile \in File /\ NewFile.seq \in Nat
      /\ \A i \in DOMAIN files : files[i].seq < NewFile.seq
    BY NewFileFacts DEF BaseInv, File
<1>a. /\ toCreate \in Seq(Entry) /\ toUpdate \in Seq(Entry) /\ toDelete \in Seq(Nat)
      /\ worker \in Worker
    BY DEF BaseInv, FilesTypeOK
<1>1. /\ n \in Nat /\ n < RingCap /\ files \in Seq(File)
      /\ files' = Append(files, NewFile)
    BY DEF BaseInv, FilesTypeOK, AddFile
<1>2. /\ files' \in Seq(File) /\ Len(files') = n + 1
      /\ \A i \in 1..n : files'[i] = files[i]
      /\ files'[n + 1] = NewFile
    BY <1>0, <1>1
<1>3. worker' \in Worker /\ worker'.pc = worker.pc /\ worker'.batch = worker.batch
      /\ worker'.left = worker.left /\ worker'.slot = worker.slot
    BY <1>0 DEF AddFile, BaseInv, FilesTypeOK, Worker
<1>4. toCreate' = Put(toCreate, NewFile.seq) /\ toUpdate' = toUpdate /\ toDelete' = toDelete
    BY DEF AddFile
<1>b. /\ toCreate' \in Seq(Entry) /\ Len(toCreate) <= Len(toCreate')
      /\ Len(toCreate') \in Nat /\ Len(toCreate) \in Nat
      /\ Live(toCreate') = Live(toCreate) \union {NewFile.seq}
    BY <1>0, <1>a, <1>4, PutKeySets
<1>5. FilesTypeOK'
    <2>1. fileTasks' \in Seq(TaskTypes) /\ queued' \in BOOLEAN /\ stuck' \in BOOLEAN
        BY AddFileTaskTypes DEF AddFile, BaseInv, TaskTypes
    <2>3. Len(files') <= RingCap
        BY <1>1, <1>2, RingAssumption
    <2> QED BY <1>2, <1>3, <1>4, <1>b, <2>1, <2>3 DEF AddFile, BaseInv, FilesTypeOK
<1>6. WorkerOK'
    BY <1>3, <1>4, <1>5, <1>a, <1>b, WorkerOKKept
<1>7. Sorted'
    <2> SUFFICES ASSUME NEW i \in 1..(n + 1), NEW j \in 1..(n + 1), i < j
                 PROVE  files'[i].seq < files'[j].seq
        BY <1>2 DEF Sorted
    <2>1. i \in 1..n /\ files'[i] = files[i] /\ i \in DOMAIN files
        BY <1>1, <1>2
    <2>2. CASE j = n + 1
        BY <1>0, <1>2, <2>1, <2>2
    <2>3. CASE j # n + 1
        <3>1. j \in 1..n /\ files'[j] = files[j] /\ j \in DOMAIN files
            BY <1>1, <1>2, <2>3
        <3> QED BY <2>1, <3>1 DEF BaseInv, Sorted
    <2> QED BY <2>2, <2>3
<1>8. Seqs(files') = Seqs(files) \union {NewFile.seq}
    <2>1. \A i \in 1..(n + 1) : i \in 1..n \/ i = n + 1
        BY <1>1
    <2>2. DOMAIN files' = 1..(n + 1) /\ DOMAIN files = 1..n /\ n + 1 \in 1..(n + 1) /\ 1..n \subseteq 1..(n + 1)
        BY <1>1, <1>2
    <2> QED BY <1>2, <2>1, <2>2 DEF Seqs
<1>9. LiveInRing'
    BY <1>4, <1>8, <1>b DEF BaseInv, LiveInRing
<1> QED BY <1>5, <1>6, <1>7, <1>9 DEF BaseInv
\* What UpdateFile does to the ring.
LEMMA UpdateFacts ==
    ASSUME BaseInv, NEW i \in DOMAIN files, files' = [files EXCEPT ![i].ver = @ + 1]
    PROVE  /\ files' \in Seq(File) /\ Len(files') = Len(files) /\ DOMAIN files' = DOMAIN files
           /\ \A j \in DOMAIN files : files'[j].seq = files[j].seq /\ (j # i => files'[j] = files[j])
           /\ files'[i] = [seq |-> files[i].seq, ver |-> files[i].ver + 1]
           /\ Seqs(files') = Seqs(files)
<1>1. files \in Seq(File) /\ DOMAIN files = 1..Len(files) /\ Len(files) \in Nat
    BY DEF BaseInv, FilesTypeOK
<1>2. \A j \in DOMAIN files : files[j] \in File
    BY <1>1
<1>3. /\ \A j \in DOMAIN files : j # i => files'[j] = files[j]
      /\ files'[i] = [files[i] EXCEPT !.ver = files[i].ver + 1]
      /\ DOMAIN files' = DOMAIN files
    BY <1>1
<1>4. /\ files'[i] \in File /\ files'[i].seq = files[i].seq
      /\ files'[i] = [seq |-> files[i].seq, ver |-> files[i].ver + 1]
    BY <1>2, <1>3 DEF File
<1>5. \A j \in DOMAIN files : files'[j] \in File /\ files'[j].seq = files[j].seq
    BY <1>2, <1>3, <1>4
<1>6. files' \in [1..Len(files) -> File]
    BY <1>1, <1>3, <1>5
<1>7. files' \in Seq(File) /\ Len(files') = Len(files)
    BY <1>1, <1>6
<1>8. Seqs(files') = Seqs(files)
    <2>1. \A x : x \in Seqs(files') <=> x \in Seqs(files)
        BY <1>3, <1>5 DEF Seqs
    <2> QED BY <2>1
<1> QED BY <1>3, <1>4, <1>5, <1>7, <1>8

\* UpdateFile keeps the types.
LEMMA BaseUpdateFile ==
    ASSUME BaseInv, NEW seq \in 1..MaxFileSeq, UpdateFile(seq)
    PROVE  BaseInv'
<1>0. /\ toCreate \in Seq(Entry) /\ toUpdate \in Seq(Entry) /\ toDelete \in Seq(Nat)
      /\ worker \in Worker /\ seq \in Nat /\ seq \in Seqs(files)
      /\ toCreate' = toCreate /\ toDelete' = toDelete
    BY RingAssumption DEF BaseInv, FilesTypeOK, UpdateFile
<1>1. PICK i \in DOMAIN files :
          /\ files[i].seq = seq
          /\ files' = [files EXCEPT ![i].ver = @ + 1]
          /\ worker' = IF worker.slot = Slot(i) THEN [worker EXCEPT !.cur = files'[i]] ELSE worker
    BY DEF UpdateFile
<1>2. /\ files' \in Seq(File) /\ Len(files') = Len(files) /\ DOMAIN files' = DOMAIN files
      /\ \A j \in DOMAIN files : files'[j].seq = files[j].seq
      /\ files'[i] \in File
      /\ Seqs(files') = Seqs(files)
    <2>1. /\ files' \in Seq(File) /\ Len(files') = Len(files) /\ DOMAIN files' = DOMAIN files
          /\ \A j \in DOMAIN files : files'[j].seq = files[j].seq
          /\ Seqs(files') = Seqs(files)
        BY <1>1, UpdateFacts
    <2>2. files'[i] \in File
        BY <2>1
    <2> QED BY <2>1, <2>2
<1>3. worker' \in Worker /\ worker'.pc = worker.pc /\ worker'.batch = worker.batch
      /\ worker'.left = worker.left /\ worker'.slot = worker.slot
    BY <1>0, <1>1, <1>2 DEF Worker
<1>4. toUpdate' = toUpdate \/ toUpdate' = PutIfAbsent(toUpdate, seq)
    BY DEF UpdateFile
<1>5. /\ toUpdate' \in Seq(Entry) /\ Len(toUpdate) <= Len(toUpdate')
      /\ Live(toUpdate') \subseteq Live(toUpdate) \union {seq}
    BY <1>0, <1>4, PutIfAbsentKeySets
<1>6. fileTasks' \in Seq(TaskTypes) /\ queued' \in BOOLEAN /\ stuck' \in BOOLEAN
    <2>1. CASE AddFileTask("update")
        BY <2>1, AddFileTaskTypes DEF BaseInv, TaskTypes
    <2>2. CASE UNCHANGED <<fileTasks, queued, stuck>>
        BY <2>2 DEF BaseInv, FilesTypeOK
    <2> QED BY <2>1, <2>2 DEF UpdateFile
<1>7. FilesTypeOK'
    BY <1>0, <1>2, <1>3, <1>5, <1>6 DEF BaseInv, FilesTypeOK, UpdateFile
<1>8. WorkerOK'
    BY <1>0, <1>3, <1>5, <1>7, WorkerOKKept
<1>9. Sorted'
    BY <1>2 DEF BaseInv, Sorted
<1>10. LiveInRing'
    BY <1>0, <1>2, <1>5 DEF BaseInv, LiveInRing
<1> QED BY <1>7, <1>8, <1>9, <1>10 DEF BaseInv

\* What popping n files does to the ring.
LEMMA PopFacts ==
    ASSUME BaseInv, NEW n \in 1..Len(files),
           files' = SubSeq(files, n + 1, Len(files))
    PROVE  /\ files' \in Seq(File) /\ Len(files') = Len(files) - n /\ DOMAIN files' = 1..(Len(files) - n)
           /\ \A i \in DOMAIN files' : n + i \in DOMAIN files /\ files'[i] = files[n + i]
           /\ Popped(n) \in SUBSET Nat /\ IsFiniteSet(Popped(n))
           /\ Seqs(files') = Seqs(files) \ Popped(n)
           /\ Popped(n) \subseteq Seqs(files)
           /\ \A g \in Popped(n) : \A x \in Seqs(files') : g < x
<1> DEFINE k == Len(files)
           gone == {files[i].seq : i \in 1..n}
<1>1. files \in Seq(File) /\ DOMAIN files = 1..k /\ k \in Nat /\ n \in Nat /\ n <= k /\ n > 0
    BY DEF BaseInv, FilesTypeOK
<1> HIDE DEF k
<1>2. /\ files' \in Seq(File) /\ Len(files') = k - n /\ DOMAIN files' = 1..(k - n)
      /\ \A i \in 1..(k - n) : files'[i] = files[n + i]
    <2>1. files' = SubSeq(files, n + 1, k) /\ n + 1 \in 1..(k + 1)
        BY <1>1 DEF k
    <2>2. n + 1 \in Int /\ k \in Int /\ \A i \in (n + 1)..k : files[i] \in File
        BY <1>1
    <2>3. /\ SubSeq(files, n + 1, k) \in Seq(File)
          /\ Len(SubSeq(files, n + 1, k)) = IF n + 1 <= k THEN k - (n + 1) + 1 ELSE 0
          /\ \A i \in 1..(k - (n + 1) + 1) : SubSeq(files, n + 1, k)[i] = files[(n + 1) + i - 1]
        BY <2>2, SubSeqProperties
    <2>4. k - (n + 1) + 1 = k - n /\ \A i \in 1..(k - n) : (n + 1) + i - 1 = n + i
        BY <1>1
    <2>5. files' \in Seq(File) /\ Len(files') = k - n
        BY <1>1, <2>1, <2>3, <2>4
    <2>6. \A i \in 1..(k - n) : files'[i] = files[n + i]
        BY <2>1, <2>3, <2>4
    <2> QED BY <2>5, <2>6
<1>3. ASSUME NEW i \in 1..k PROVE files[i] \in File /\ files[i].seq \in Nat
    <2>1. files[i] \in File
        BY <1>1
    <2> QED BY <2>1 DEF File
<1>4. gone \in SUBSET Nat /\ \A i \in 1..n : i \in 1..k
    BY <1>1, <1>3
<1>5. IsFiniteSet(gone)
    <2> DEFINE f == [i \in 1..n |-> files[i].seq]
    <2>1. {f[i] : i \in 1..n} = gone
        OBVIOUS
    <2>2. DOMAIN f = 1..n /\ n \in Nat
        BY <1>1
    <2> HIDE DEF f
    <2>3. IsFiniteSet({f[i] : i \in 1..n})
        BY <2>2, FiniteValues
    <2> QED BY <2>1, <2>3
<1>6. \A i \in 1..(k - n) : n + i \in 1..k /\ n + i > n
    BY <1>1
<1>7. \A i \in 1..k : i \in 1..n \/ (i - n \in 1..(k - n) /\ n + (i - n) = i)
    BY <1>1
<1>8. ASSUME NEW g \in gone, NEW x \in Seqs(files') PROVE g < x
    <2>1. PICK i \in 1..n : g = files[i].seq
        OBVIOUS
    <2>2. PICK j \in 1..(k - n) : x = files[n + j].seq
        BY <1>2 DEF Seqs
    <2>3. i < n + j /\ i \in DOMAIN files /\ n + j \in DOMAIN files
        BY <1>1, <1>4, <1>6
    <2> QED BY <2>1, <2>2, <2>3 DEF BaseInv, Sorted
<1>9. gone \subseteq Seqs(files)
    BY <1>1, <1>4 DEF Seqs
<1>10. Seqs(files') \subseteq Seqs(files)
    BY <1>1, <1>2, <1>6 DEF Seqs
<1>11. ASSUME NEW x \in Seqs(files), x \notin gone PROVE x \in Seqs(files')
    <2>1. PICK i \in 1..k : x = files[i].seq
        BY <1>1 DEF Seqs
    <2>2. i - n \in 1..(k - n) /\ n + (i - n) = i
        BY <1>7, <1>11, <2>1
    <2> QED BY <1>2, <2>1, <2>2 DEF Seqs
<1>12. \A x \in gone : x \notin Seqs(files')
    <2> SUFFICES ASSUME NEW x \in gone, x \in Seqs(files') PROVE FALSE
        OBVIOUS
    <2>1. x < x /\ x \in Nat
        BY <1>4, <1>8
    <2> QED BY <2>1
<1> QED BY <1>1, <1>2, <1>4, <1>5, <1>6, <1>8, <1>9, <1>10, <1>11, <1>12 DEF k, Popped

\* DeleteFile keeps the types.
LEMMA BaseDeleteFile ==
    ASSUME BaseInv, NEW seq \in 1..MaxFileSeq, DeleteFile(seq)
    PROVE  BaseInv'
<1>0. /\ toCreate \in Seq(Entry) /\ toUpdate \in Seq(Entry) /\ toDelete \in Seq(Nat)
      /\ worker' = worker /\ files \in Seq(File) /\ Len(files) \in Nat /\ Len(files) <= RingCap
      /\ head \in Nat
    BY DEF BaseInv, FilesTypeOK, DeleteFile
<1>1. PICK n \in 1..Len(files) : PopFiles(n)
    BY DEF DeleteFile
<1>2. /\ files' = SubSeq(files, n + 1, Len(files))
      /\ head' = (head + n) % RingCap
      /\ toCreate' = Kill(toCreate, Popped(n)) /\ toUpdate' = Kill(toUpdate, Popped(n))
      /\ toDelete' = PutKeys(toDelete, Popped(n))
    BY <1>1 DEF PopFiles
<1>3. /\ files' \in Seq(File) /\ Len(files') = Len(files) - n /\ DOMAIN files' = 1..(Len(files) - n)
      /\ \A i \in DOMAIN files' : n + i \in DOMAIN files /\ files'[i] = files[n + i]
      /\ Popped(n) \in SUBSET Nat /\ IsFiniteSet(Popped(n))
      /\ Seqs(files') = Seqs(files) \ Popped(n)
    BY <1>2, PopFacts
<1>4. head' \in 0..(RingCap - 1)
    <2>1. head + n \in Nat
        BY <1>0
    <2> QED BY <1>2, <2>1, DivMod, RingAssumption
<1>5. /\ toCreate' \in Seq(Entry) /\ Len(toCreate') = Len(toCreate) /\ Live(toCreate') = Live(toCreate) \ Popped(n)
      /\ toUpdate' \in Seq(Entry) /\ Len(toUpdate') = Len(toUpdate) /\ Live(toUpdate') = Live(toUpdate) \ Popped(n)
    BY <1>0, <1>2, KillKeySets
<1>6. toDelete' \in Seq(Nat) /\ Len(toDelete) <= Len(toDelete')
    BY <1>0, <1>2, <1>3, PutKeysFacts
<1>7. fileTasks' \in Seq(TaskTypes) /\ queued' \in BOOLEAN /\ stuck' \in BOOLEAN
    BY AddFileTaskTypes DEF DeleteFile, BaseInv, TaskTypes
<1>8. FilesTypeOK'
    <2>1. Len(files') <= RingCap
        BY <1>0, <1>3, RingAssumption
    <2> QED BY <1>0, <1>3, <1>4, <1>5, <1>6, <1>7, <2>1 DEF BaseInv, FilesTypeOK, DeleteFile
<1>9. WorkerOK'
    <2>1. Len(toCreate) <= Len(toCreate') /\ Len(toUpdate) <= Len(toUpdate')
        BY <1>0, <1>5
    <2> QED BY <1>0, <1>6, <1>8, <2>1, WorkerOKKept
<1>10. Sorted'
    <2> SUFFICES ASSUME NEW i \in DOMAIN files', NEW j \in DOMAIN files', i < j
                 PROVE  files'[i].seq < files'[j].seq
        BY DEF Sorted
    <2>1. n + i < n + j
        BY <1>0, <1>3
    <2> QED BY <1>3, <2>1 DEF BaseInv, Sorted
<1>11. LiveInRing'
    BY <1>3, <1>5 DEF BaseInv, LiveInRing
<1> QED BY <1>8, <1>9, <1>10, <1>11 DEF BaseInv
\* The worker's pointer to the next file.
LEMMA PointingFacts ==
    ASSUME BaseInv, worker.pc = "next", worker.left # 0, NEW seq \in Nat,
           Type # "delete" => seq \in Seqs(files)
    PROVE  /\ Pointing(seq) \in Worker /\ Pointing(seq).pc = "build" /\ Pointing(seq).batch = worker.batch
           /\ Pointing(seq).left = worker.left - 1 /\ Pointing(seq).cur.seq = seq
           /\ Type = "delete" => Pointing(seq).slot = RingCap
           /\ Type # "delete" => \E i \in DOMAIN files :
                 files[i].seq = seq /\ Pointing(seq).slot = Slot(i) /\ Pointing(seq).cur = files[i]
<1> DEFINE next == [worker EXCEPT !.pc = "build", !.left = @ - 1]
<1>1. worker \in Worker /\ files \in Seq(File) /\ worker.slot = RingCap
    BY DEF BaseInv, FilesTypeOK, WorkerOK
<1>2. /\ next \in Worker /\ next.pc = "build" /\ next.batch = worker.batch
      /\ next.left = worker.left - 1 /\ next.slot = RingCap
    <2>1. worker.left \in Nat /\ worker.left - 1 \in Nat
        BY <1>1 DEF Worker
    <2> QED BY <1>1, <2>1 DEF Worker, Pcs
<1> HIDE DEF next
<1>3. CASE Type = "delete"
    <2>1. Pointing(seq) = [next EXCEPT !.cur = [seq |-> seq, ver |-> 0]]
        BY <1>3 DEF Pointing, next
    <2>2. [seq |-> seq, ver |-> 0] \in File
        BY DEF File
    <2>3. /\ Pointing(seq) \in Worker /\ Pointing(seq).pc = "build" /\ Pointing(seq).batch = worker.batch
          /\ Pointing(seq).left = worker.left - 1
          /\ Pointing(seq).slot = RingCap /\ Pointing(seq).cur = [seq |-> seq, ver |-> 0]
        BY <1>2, <2>1, <2>2 DEF Worker
    <2> QED BY <1>3, <2>3
<1>4. CASE Type # "delete"
    <2> DEFINE i == CHOOSE j \in DOMAIN files : files[j].seq = seq
    <2>1. i \in DOMAIN files /\ files[i].seq = seq
        <3>1. \E j \in DOMAIN files : files[j].seq = seq
            BY <1>4 DEF Seqs
        <3> QED BY <3>1
    <2>2. Pointing(seq) = [next EXCEPT !.slot = Slot(i), !.cur = files[i]]
        BY <1>4 DEF Pointing, next
    <2> HIDE DEF i
    <2>3. files[i] \in File
        BY <1>1, <2>1
    <2>4. Slot(i) \in Nat
        <3>1. head \in Nat /\ i \in Nat /\ i >= 1
            BY <1>1, <2>1 DEF BaseInv, FilesTypeOK
        <3>2. (head + i) - 1 \in Nat
            BY <3>1
        <3>3. head + i - 1 = (head + i) - 1 /\ RingCap \in Nat \ {0}
            BY <3>1, RingAssumption
        <3>4. (head + i - 1) % RingCap \in 0..(RingCap - 1)
            BY <3>2, <3>3, DivMod
        <3> QED BY <3>3, <3>4 DEF Slot
    <2>5. /\ Pointing(seq) \in Worker /\ Pointing(seq).pc = "build" /\ Pointing(seq).batch = worker.batch
          /\ Pointing(seq).left = worker.left - 1
          /\ Pointing(seq).slot = Slot(i) /\ Pointing(seq).cur = files[i]
        BY <1>2, <2>2, <2>3, <2>4 DEF Worker
    <2> QED BY <1>4, <2>1, <2>5
<1> QED BY <1>3, <1>4

\* What RemoveFirst of one of the three maps leaves.
LEMMA NextFacts ==
    ASSUME BaseInv, WorkerNext, worker.left # 0
    PROVE  /\ Type \in TaskTypes /\ Type' = Type
           /\ toCreate' \in Seq(Entry) /\ toUpdate' \in Seq(Entry) /\ toDelete' \in Seq(Nat)
           /\ Type = "create" => toCreate # <<>> /\ toCreate' = Tail(toCreate)
           /\ Type # "create" => toCreate' = toCreate
           /\ Type = "update" => toUpdate # <<>> /\ toUpdate' = Tail(toUpdate)
           /\ Type # "update" => toUpdate' = toUpdate
           /\ Type = "delete" => toDelete # <<>> /\ toDelete' = Tail(toDelete)
           /\ Type # "delete" => toDelete' = toDelete
           /\ worker' \in Worker /\ worker'.batch = worker.batch /\ worker'.left = worker.left - 1
           /\ worker'.left <= Len(Waiting(Type)')
           /\ \/ /\ Type # "delete" /\ ~Head(Waiting(Type)).live
                 /\ worker'.pc = "next" /\ worker'.slot = RingCap
              \/ /\ Type # "delete" /\ Head(Waiting(Type)).live
                 /\ worker' = Pointing(Head(Waiting(Type)).seq)
                 /\ Head(Waiting(Type)).seq \in Nat /\ Head(Waiting(Type)).seq \in Seqs(files)
              \/ Type = "delete" /\ Head(toDelete) \in Nat /\ worker' = Pointing(Head(toDelete))
<1>0. /\ toCreate \in Seq(Entry) /\ toUpdate \in Seq(Entry) /\ toDelete \in Seq(Nat)
      /\ worker \in Worker /\ worker.left \in Nat /\ worker.batch \in Seq(TaskTypes)
      /\ worker.pc = "next" /\ worker.slot = RingCap
    BY DEF BaseInv, FilesTypeOK, WorkerNext, Worker, WorkerOK
<1>1. Type \in TaskTypes /\ worker.left <= Len(Waiting(Type))
    BY <1>0 DEF Type, BaseInv, WorkerOK
<1>2. /\ toCreate' = IF Type = "create" THEN Tail(toCreate) ELSE toCreate
      /\ toUpdate' = IF Type = "update" THEN Tail(toUpdate) ELSE toUpdate
      /\ toDelete' = IF Type = "delete" THEN Tail(toDelete) ELSE toDelete
      /\ worker' = IF Type # "delete" /\ ~Head(Waiting(Type)).live
                   THEN [worker EXCEPT !.left = @ - 1]
                   ELSE Pointing(IF Type = "delete" THEN Head(toDelete) ELSE Head(Waiting(Type)).seq)
    BY DEF WorkerNext
<1>3. CASE Type = "delete"
    <2>1. toDelete # <<>> /\ Waiting(Type) = toDelete
        BY <1>0, <1>1, <1>3 DEF Waiting
    <2>2. /\ Head(toDelete) \in Nat /\ Tail(toDelete) \in Seq(Nat)
          /\ Len(Tail(toDelete)) = Len(toDelete) - 1 /\ Len(toDelete) \in Nat
        BY <1>0, <2>1
    <2>3. worker' = Pointing(Head(toDelete)) /\ toDelete' = Tail(toDelete)
        BY <1>2, <1>3
    <2>4. worker' \in Worker /\ worker'.batch = worker.batch /\ worker'.left = worker.left - 1
        BY <1>0, <1>3, <2>2, <2>3, PointingFacts
    <2>5. Type' = Type
        BY <2>4 DEF Type
    <2>6. worker'.left <= Len(Waiting(Type)')
        BY <1>0, <1>1, <1>3, <2>1, <2>2, <2>3, <2>4, <2>5 DEF Waiting
    <2> QED BY <1>0, <1>1, <1>2, <1>3, <2>1, <2>2, <2>3, <2>4, <2>5, <2>6
<1>4. ASSUME Type \in {"create", "update"}, NEW q, NEW p, q = Waiting(Type), p = Tail(q),
             q \in Seq(Entry), p = Waiting(Type)'
      PROVE  /\ q # <<>> /\ p \in Seq(Entry)
             /\ worker' \in Worker /\ worker'.batch = worker.batch /\ worker'.left = worker.left - 1
             /\ worker'.left <= Len(p)
             /\ \/ ~Head(q).live /\ worker'.pc = "next" /\ worker'.slot = RingCap
                \/ Head(q).live /\ worker' = Pointing(Head(q).seq) /\ Head(q).seq \in Nat /\ Head(q).seq \in Seqs(files)
    <2>1. q # <<>>
        BY <1>0, <1>1, <1>4
    <2>2. /\ p \in Seq(Entry) /\ Len(p) = Len(q) - 1 /\ Len(q) \in Nat /\ Head(q) \in Entry
          /\ Head(q).live => Head(q).seq \in Live(q)
        BY <1>4, <2>1, TailKeySets
    <2>3. CASE ~Head(q).live
        <3>1. worker' = [worker EXCEPT !.left = @ - 1]
            BY <1>2, <1>4, <2>3
        <3>2. /\ worker' \in Worker /\ worker'.batch = worker.batch /\ worker'.left = worker.left - 1
              /\ worker'.pc = "next" /\ worker'.slot = RingCap
            <4>1. worker.left - 1 \in Nat
                BY <1>0
            <4> QED BY <1>0, <3>1, <4>1 DEF Worker
        <3> QED BY <1>0, <1>1, <1>4, <2>1, <2>2, <2>3, <3>2
    <2>4. CASE Head(q).live
        <3>1. worker' = Pointing(Head(q).seq)
            BY <1>2, <1>4, <2>4
        <3>2. Head(q).seq \in Seqs(files) /\ Head(q).seq \in Nat
            BY <1>4, <2>2, <2>4 DEF BaseInv, LiveInRing, Waiting, Entry
        <3>3. worker' \in Worker /\ worker'.batch = worker.batch /\ worker'.left = worker.left - 1
            BY <1>0, <1>4, <3>1, <3>2, PointingFacts
        <3> QED BY <1>0, <1>1, <1>4, <2>1, <2>2, <2>4, <3>1, <3>2, <3>3
    <2> QED BY <2>3, <2>4
<1>5. CASE Type = "create"
    <2>1. worker'.batch = worker.batch
        <3>1. worker' = [worker EXCEPT !.left = @ - 1] \/ worker' = Pointing(Head(toCreate).seq)
            BY <1>2, <1>5 DEF Waiting
        <3> QED BY <1>0, <1>5, <3>1 DEF Worker, Pointing
    <2>2. Type' = Type
        BY <2>1 DEF Type
    <2>3. Waiting(Type) = toCreate /\ Waiting(Type)' = Tail(toCreate)
        BY <1>2, <1>5, <2>2 DEF Waiting
    <2> QED BY <1>0, <1>1, <1>2, <1>4, <1>5, <2>2, <2>3
<1>6. CASE Type = "update"
    <2>1. worker'.batch = worker.batch
        <3>1. worker' = [worker EXCEPT !.left = @ - 1] \/ worker' = Pointing(Head(toUpdate).seq)
            BY <1>2, <1>6 DEF Waiting
        <3> QED BY <1>0, <1>6, <3>1 DEF Worker, Pointing
    <2>2. Type' = Type
        BY <2>1 DEF Type
    <2>3. Waiting(Type) = toUpdate /\ Waiting(Type)' = Tail(toUpdate)
        BY <1>2, <1>6, <2>2 DEF Waiting
    <2> QED BY <1>0, <1>1, <1>2, <1>4, <1>6, <2>2, <2>3
<1> QED BY <1>1, <1>3, <1>5, <1>6 DEF TaskTypes

\* The steps of the worker keep the types.
LEMMA BaseWork ==
    ASSUME BaseInv, Work
    PROVE  BaseInv'
<1>0. /\ toCreate \in Seq(Entry) /\ toUpdate \in Seq(Entry) /\ toDelete \in Seq(Nat)
      /\ Len(toCreate) \in Nat /\ Len(toUpdate) \in Nat /\ Len(toDelete) \in Nat
      /\ worker \in Worker /\ files \in Seq(File) /\ fileTasks \in Seq(TaskTypes)
      /\ RingCap \in Nat /\ NoFile \in File
    BY RingAssumption DEF BaseInv, FilesTypeOK, NoFile, File
<1>a. worker.pc \in {"next", "build", "db"} =>
        Type \in TaskTypes /\ worker.batch # <<>> /\ worker.left <= Len(Waiting(Type))
    BY <1>0 DEF Worker, Type, BaseInv, WorkerOK
<1>b. files' = files /\ head' = head
    BY DEF Work, WorkerTake, WorkerBatch, WorkerCount, WorkerNext, WorkerBuild, WorkerStatement,
           WorkerFail, ring
<1>1. CASE WorkerTake
    <2>1. worker' \in Worker /\ worker'.pc = "take" /\ worker'.slot = worker.slot /\ worker.pc = "idle"
        BY <1>0, <1>1 DEF WorkerTake, Worker, Pcs
    <2> QED BY <1>1, <2>1 DEF WorkerTake, BaseInv, FilesTypeOK, WorkerOK, Sorted, LiveInRing, ring, maps
<1>2. CASE WorkerBatch
    <2>1. worker' \in Worker /\ worker'.pc = "count" /\ worker'.slot = worker.slot /\ worker.pc = "take"
        BY <1>0, <1>2 DEF WorkerBatch, Worker, Pcs
    <2>2. fileTasks' \in Seq(TaskTypes)
        BY <1>2 DEF WorkerBatch
    <2> QED BY <1>2, <2>1, <2>2 DEF WorkerBatch, BaseInv, FilesTypeOK, WorkerOK, Sorted, LiveInRing, ring, maps
<1>3. CASE WorkerCount
    <2>1. CASE worker.batch = <<>>
        <3>1. worker' = Idle /\ Idle \in Worker /\ Idle.pc = "idle" /\ Idle.slot = RingCap
            BY <1>0, <1>3, <2>1 DEF WorkerCount, Idle, Worker, Pcs
        <3>2. phase' \in {"running", "flush", "down"}
            BY <1>3 DEF WorkerCount, BaseInv, FilesTypeOK
        <3> QED BY <1>3, <3>1, <3>2 DEF WorkerCount, BaseInv, FilesTypeOK, WorkerOK, Sorted, LiveInRing, ring, maps
    <2>2. CASE worker.batch # <<>>
        <3>1. Type \in TaskTypes
            BY <1>0, <2>2 DEF Worker, Type
        <3>2. Len(Waiting(Type)) \in Nat
            BY <1>0, <3>1 DEF Waiting, TaskTypes
        <3>3. worker' = [worker EXCEPT !.pc = "next", !.left = Len(Waiting(Type))] /\ worker.pc = "count"
            BY <1>3, <2>2 DEF WorkerCount
        <3>4. /\ worker' \in Worker /\ worker'.pc = "next" /\ worker'.slot = worker.slot
              /\ worker'.batch = worker.batch /\ worker'.left = Len(Waiting(Type))
            BY <1>0, <3>2, <3>3 DEF Worker, Pcs
        <3>5. Type' = Type /\ Waiting(Type)' = Waiting(Type)
            BY <1>3, <3>4 DEF Type, Waiting, WorkerCount, maps
        <3>6. phase' \in {"running", "flush", "down"}
            BY <1>3 DEF WorkerCount, BaseInv, FilesTypeOK
        <3>7. WorkerOK'
            BY <2>2, <3>2, <3>3, <3>4, <3>5 DEF BaseInv, WorkerOK
        <3> QED BY <1>3, <3>4, <3>6, <3>7 DEF WorkerCount, BaseInv, FilesTypeOK, Sorted, LiveInRing, ring, maps
    <2> QED BY <2>1, <2>2
<1>4. CASE WorkerNext
    <2>0. worker.pc = "next" /\ worker.slot = RingCap
        BY <1>4 DEF WorkerNext, BaseInv, WorkerOK
    <2>1. CASE worker.left = 0
        <3>1. worker' = [worker EXCEPT !.pc = "count", !.batch = Tail(@)] /\ UNCHANGED maps
            BY <1>4, <2>1 DEF WorkerNext
        <3>2. worker.batch # <<>> /\ worker.batch \in Seq(TaskTypes)
            BY <1>0, <1>a, <2>0 DEF Worker
        <3>3. Tail(worker.batch) \in Seq(TaskTypes)
            BY <3>2
        <3>4. worker' \in Worker /\ worker'.pc = "count" /\ worker'.slot = RingCap
            BY <1>0, <2>0, <3>1, <3>3 DEF Worker, Pcs
        <3> QED BY <1>4, <3>1, <3>4 DEF WorkerNext, BaseInv, FilesTypeOK, WorkerOK, Sorted, LiveInRing, ring, maps
    <2>2. CASE worker.left # 0
        <3>1. /\ toCreate' \in Seq(Entry) /\ toUpdate' \in Seq(Entry) /\ toDelete' \in Seq(Nat)
              /\ worker' \in Worker /\ worker'.batch = worker.batch
              /\ worker'.left <= Len(Waiting(Type)') /\ Type' = Type
            BY <1>4, <2>2, NextFacts
        <3>2. Live(toCreate') \subseteq Live(toCreate)
            <4>1. toCreate' = toCreate \/ (toCreate # <<>> /\ toCreate' = Tail(toCreate))
                BY <1>4, <2>2, NextFacts
            <4> QED BY <1>0, <4>1, TailKeySets
        <3>3. Live(toUpdate') \subseteq Live(toUpdate)
            <4>1. toUpdate' = toUpdate \/ (toUpdate # <<>> /\ toUpdate' = Tail(toUpdate))
                BY <1>4, <2>2, NextFacts
            <4> QED BY <1>0, <4>1, TailKeySets
        <3>4. \/ worker'.pc = "next" /\ worker'.slot = RingCap
              \/ Type # "delete" /\ worker'.pc = "build"
              \/ Type = "delete" /\ worker'.pc = "build" /\ worker'.slot = RingCap
            BY <1>4, <2>0, <2>2, NextFacts, PointingFacts
        <3>5. WorkerOK'
            BY <1>a, <2>0, <3>1, <3>4 DEF WorkerOK
        <3>6. FilesTypeOK'
            BY <1>4, <1>b, <3>1 DEF WorkerNext, BaseInv, FilesTypeOK, ring
        <3> QED BY <1>b, <3>2, <3>3, <3>5, <3>6 DEF BaseInv, Sorted, LiveInRing
    <2> QED BY <2>1, <2>2
<1>5. CASE WorkerBuild
    <2>1. /\ worker' = [worker EXCEPT !.pc = "db", !.stmt = worker.cur] /\ worker.pc = "build"
          /\ worker.cur \in File
        BY <1>0, <1>5 DEF WorkerBuild, Worker
    <2>2. /\ worker' \in Worker /\ worker'.pc = "db" /\ worker'.slot = worker.slot
          /\ worker'.batch = worker.batch /\ worker'.left = worker.left
        BY <1>0, <2>1 DEF Worker, Pcs
    <2>3. Type' = Type /\ Waiting(Type)' = Waiting(Type)
        BY <1>5, <2>2 DEF Type, Waiting, WorkerBuild, maps
    <2>4. WorkerOK'
        BY <1>a, <2>1, <2>2, <2>3 DEF BaseInv, WorkerOK
    <2> QED BY <1>5, <2>2, <2>4 DEF WorkerBuild, BaseInv, FilesTypeOK, Sorted, LiveInRing, ring, maps
<1>6. CASE WorkerStatement \/ WorkerFail
    <2>0. /\ worker.pc = "db"
          /\ worker' = [worker EXCEPT !.pc = "next", !.slot = RingCap, !.cur = NoFile, !.stmt = NoFile]
        BY <1>6 DEF WorkerStatement, WorkerFail, Continue
    <2>1. /\ worker' \in Worker /\ worker'.pc = "next" /\ worker'.slot = RingCap
          /\ worker'.batch = worker.batch /\ worker'.left = worker.left /\ worker.left \in Nat
          /\ worker.stmt \in File /\ worker.cur \in File /\ worker.cur.seq \in Nat
        BY <1>0, <2>0 DEF Worker, Pcs, File
    <2>2. Type' = Type /\ Type \in TaskTypes /\ worker.left <= Len(Waiting(Type))
        BY <1>a, <2>0, <2>1 DEF Type
    <2>3. /\ toCreate' \in Seq(Entry) /\ Len(toCreate) <= Len(toCreate') /\ Live(toCreate') \subseteq Live(toCreate) \union Seqs(files)
          /\ toUpdate' \in Seq(Entry) /\ Len(toUpdate) <= Len(toUpdate') /\ Live(toUpdate') \subseteq Live(toUpdate) \union Seqs(files)
          /\ toDelete' \in Seq(Nat) /\ Len(toDelete) <= Len(toDelete')
        <3>1. CASE WorkerStatement
            BY <1>0, <3>1 DEF WorkerStatement, maps
        <3>2. CASE WorkerFail
            <4>1. /\ toCreate' = toCreate \/ (worker.cur.seq \in Seqs(files) /\ toCreate' = PutIfAbsent(toCreate, worker.cur.seq))
                  /\ toUpdate' = toUpdate \/ (worker.cur.seq \in Seqs(files) /\ toUpdate' = PutIfAbsent(toUpdate, worker.cur.seq))
                  /\ toDelete' = toDelete \/ toDelete' = PutKeys(toDelete, {worker.cur.seq})
                BY <3>2 DEF WorkerFail, Retried
            <4>2. /\ toCreate' \in Seq(Entry) /\ Len(toCreate) <= Len(toCreate')
                  /\ Live(toCreate') \subseteq Live(toCreate) \union Seqs(files)
                BY <1>0, <2>1, <4>1, PutIfAbsentKeySets
            <4>3. /\ toUpdate' \in Seq(Entry) /\ Len(toUpdate) <= Len(toUpdate')
                  /\ Live(toUpdate') \subseteq Live(toUpdate) \union Seqs(files)
                <5>1. CASE toUpdate' = toUpdate
                    BY <1>0, <5>1
                <5>2. CASE worker.cur.seq \in Seqs(files) /\ toUpdate' = PutIfAbsent(toUpdate, worker.cur.seq)
                    BY <1>0, <2>1, <5>2, PutIfAbsentKeySets
                <5> QED BY <4>1, <5>1, <5>2
            <4>4. {worker.cur.seq} \in SUBSET Nat /\ IsFiniteSet({worker.cur.seq})
                BY <2>1, FS_Singleton
            <4>5. toDelete' \in Seq(Nat) /\ Len(toDelete) <= Len(toDelete')
                BY <1>0, <4>1, <4>4, PutKeysFacts
            <4> QED BY <4>2, <4>3, <4>5
        <3> QED BY <1>6, <3>1, <3>2
    <2>4. table' \in SUBSET File /\ IsFiniteSet(table')
        <3>1. table \in SUBSET File /\ IsFiniteSet(table)
            BY DEF BaseInv, FilesTypeOK
        <3>2. Others \in SUBSET table /\ IsFiniteSet(Others) /\ Others \in SUBSET File
            BY <3>1, FS_Subset DEF Others
        <3>3. IsFiniteSet(table \union {worker.stmt}) /\ IsFiniteSet(Others \union {worker.stmt})
            BY <3>1, <3>2, FS_AddElement
        <3>4. table' \in {table, Others, table \union {worker.stmt}, Others \union {worker.stmt}}
            BY <1>6, <2>2 DEF WorkerStatement, WorkerFail, TaskTypes
        <3> QED BY <2>1, <3>1, <3>2, <3>3, <3>4
    <2>5. worker'.left <= Len(Waiting(Type)')
        BY <1>0, <2>1, <2>2, <2>3 DEF Waiting, TaskTypes
    <2>6. WorkerOK'
        BY <1>a, <2>0, <2>1, <2>2, <2>5 DEF WorkerOK
    <2>7. FilesTypeOK'
        BY <1>6, <1>b, <2>1, <2>3, <2>4 DEF WorkerStatement, WorkerFail, BaseInv, FilesTypeOK
    <2> QED BY <1>b, <2>3, <2>6, <2>7 DEF BaseInv, Sorted, LiveInRing
<1> QED BY <1>1, <1>2, <1>3, <1>4, <1>5, <1>6 DEF Work
\* What loadFiles reads: the newest rows in order, all of them if they fit.
LEMMA LoadFacts ==
    ASSUME FilesTypeOK, LoadFiles
    PROVE  /\ files' \in Seq(File) /\ Len(files') <= RingCap
           /\ \A i \in DOMAIN files' : files'[i] \in table
           /\ \A i, j \in DOMAIN files' : i < j => files'[i].seq < files'[j].seq
           /\ \A r \in table : \/ r.seq \in Seqs(files')
                               \/ files' # <<>> /\ \A i \in DOMAIN files' : r.seq < files'[i].seq
           /\ Cardinality({r.seq : r \in table}) <= RingCap => \A r \in table : r.seq \in Seqs(files')
<1> DEFINE S    == {r.seq : r \in table}
           seqs == Ascending(S)
           n    == Cardinality(S)
           skip == IF n <= RingCap THEN 0 ELSE n - RingCap
<1>1. table \in SUBSET File /\ IsFiniteSet(table) /\ S \in SUBSET Nat
    BY DEF FilesTypeOK, File
<1>2. IsFiniteSet(S)
    <2> DEFINE f == [r \in table |-> r.seq]
    <2>1. f \in Surjection(table, S)
        BY DEF Surjection
    <2> HIDE DEF f, S
    <2> QED BY <1>1, <2>1, FS_Surjection
<1>3. /\ n \in Nat /\ seqs \in [1..n -> S]
      /\ \A i, j \in 1..n : i < j => seqs[i] < seqs[j]
      /\ \A x \in S : \E i \in 1..n : seqs[i] = x
    BY <1>1, <1>2, AscendingFacts
<1>4. Len(seqs) = n
    <2> HIDE DEF seqs, n
    <2> QED BY <1>3
<1>5. files' = [i \in 1..(n - skip) |-> CHOOSE r \in table : r.seq = seqs[skip + i]]
    <2>1. files' = [i \in 1..(Len(seqs) - (IF Len(seqs) <= RingCap THEN 0 ELSE Len(seqs) - RingCap)) |->
                      CHOOSE r \in table :
                          r.seq = seqs[(IF Len(seqs) <= RingCap THEN 0 ELSE Len(seqs) - RingCap) + i]]
        BY DEF LoadFiles
    <2> HIDE DEF n, seqs
    <2> QED BY <1>4, <2>1
<1>6. skip \in Nat /\ n - skip \in Nat /\ n - skip <= RingCap /\ (n <= RingCap => skip = 0)
      /\ (skip > 0 => n - skip > 0)
    BY <1>3, RingAssumption
<1> DEFINE k == n - skip
<1>7. k \in Nat /\ \A i \in 1..k : skip + i \in 1..n
    <2> HIDE DEF n, skip
    <2> QED BY <1>3, <1>6
<1>a. \A x \in S : \E r \in table : r.seq = x
    OBVIOUS
<1>b. \A r \in table : r.seq \in S
    OBVIOUS
<1> HIDE DEF S, seqs, skip, n
<1>8. ASSUME NEW i \in 1..k PROVE files'[i] \in table /\ files'[i].seq = seqs[skip + i]
    <2>1. files'[i] = CHOOSE r \in table : r.seq = seqs[skip + i]
        BY <1>5
    <2>2. seqs[skip + i] \in S
        BY <1>3, <1>7
    <2> QED BY <1>a, <2>1, <2>2
<1>9. files' \in Seq(File) /\ Len(files') = k /\ DOMAIN files' = 1..k
    <2>1. files' \in [1..k -> File]
        BY <1>1, <1>5, <1>8
    <2> QED BY <1>7, <2>1
<1>10. ASSUME NEW i \in DOMAIN files', NEW j \in DOMAIN files', i < j
       PROVE  files'[i].seq < files'[j].seq
    <2>1. i \in 1..k /\ j \in 1..k /\ skip + i < skip + j
        BY <1>6, <1>9, <1>10
    <2> QED BY <1>3, <1>7, <1>8, <2>1
<1>11. ASSUME NEW r \in table, NEW m \in 1..n, seqs[m] = r.seq, m > skip PROVE r.seq \in Seqs(files')
    <2>1. m - skip \in 1..k /\ skip + (m - skip) = m
        BY <1>3, <1>6, <1>11
    <2> QED BY <1>8, <1>9, <1>11, <2>1 DEF Seqs
<1>12. ASSUME NEW r \in table, r.seq \notin Seqs(files')
       PROVE  skip > 0 /\ files' # <<>> /\ \A i \in DOMAIN files' : r.seq < files'[i].seq
    <2>1. PICK m \in 1..n : seqs[m] = r.seq
        BY <1>3, <1>b
    <2>2. m <= skip /\ skip > 0
        BY <1>3, <1>6, <1>11, <1>12, <2>1
    <2>3. k > 0
        BY <1>6, <2>2
    <2>4. ASSUME NEW i \in 1..k PROVE r.seq < files'[i].seq
        <3>1. m < skip + i /\ skip + i \in 1..n
            BY <1>3, <1>6, <1>7, <2>2
        <3> QED BY <1>3, <1>8, <2>1, <3>1
    <2> QED BY <1>9, <2>2, <2>3, <2>4
<1>13. n <= RingCap => \A r \in table : r.seq \in Seqs(files')
    BY <1>6, <1>12
<1>14. Len(files') <= RingCap
    BY <1>6, <1>9
<1> QED BY <1>8, <1>9, <1>10, <1>12, <1>13, <1>14 DEF n, S

-----------------------------------------------------------------------------
(* doFileTask is submitted when it is needed.                              *)

\* doFileTask waits in the executor, or has just been taken out of it, exactly
\* while there are task types for it.
TaskInv ==
    /\ queued => fileTasks # <<>> /\ worker.pc # "take"
    /\ worker.pc = "take" => fileTasks # <<>>
    /\ (phase = "running" /\ fileTasks # <<>>) => queued \/ worker.pc = "take"
    /\ phase # "running" => ~queued /\ fileTasks = <<>>
    /\ phase = "down" => worker.pc = "idle"
    /\ ~stuck

\* addFileTask submits doFileTask for the first task type: it is not waiting
\* then, and never without a task type.
LEMMA AddFileTaskKeeps ==
    ASSUME FilesTypeOK, TaskInv, NEW type \in TaskTypes, AddFileTask(type),
           phase = "running", phase' = phase, worker'.pc = worker.pc
    PROVE  TaskInv'
<1>1. CASE type \in ToSet(fileTasks)
    BY <1>1 DEF AddFileTask, TaskInv, FilesTypeOK
<1>2. CASE type \notin ToSet(fileTasks)
    <2>0. fileTasks \in Seq(TaskTypes) /\ fileTasks' = Append(fileTasks, type)
        BY <1>2 DEF AddFileTask, FilesTypeOK
    <2>1. /\ fileTasks' \in Seq(TaskTypes) /\ fileTasks' # <<>>
          /\ Len(fileTasks') = 1 <=> fileTasks = <<>>
        BY <2>0
    <2>2. CASE fileTasks = <<>>
        BY <1>2, <2>1, <2>2 DEF AddFileTask, TaskInv, FilesTypeOK
    <2>3. CASE fileTasks # <<>>
        BY <1>2, <2>1, <2>3 DEF AddFileTask, TaskInv, FilesTypeOK
    <2> QED BY <2>2, <2>3
<1> QED BY <1>1, <1>2

\* Every step keeps doFileTask and the task types together.
LEMMA TaskStep ==
    ASSUME BaseInv, TaskInv, [FNext]_fvars
    PROVE  TaskInv'
<1>0. FilesTypeOK /\ worker \in Worker /\ fileTasks \in Seq(TaskTypes)
    BY DEF BaseInv, FilesTypeOK
<1>1. CASE AddFile
    <2>1. worker'.pc = worker.pc
        BY <1>0, <1>1 DEF AddFile, Worker
    <2> QED BY <1>0, <1>1, <2>1, AddFileTaskKeeps DEF AddFile, TaskTypes
<1>2. ASSUME NEW seq \in 1..MaxFileSeq, UpdateFile(seq) PROVE TaskInv'
    <2>1. worker'.pc = worker.pc /\ phase = "running" /\ phase' = phase
        BY <1>0, <1>2 DEF UpdateFile, Worker
    <2>2. CASE AddFileTask("update")
        BY <1>0, <2>1, <2>2, AddFileTaskKeeps DEF TaskTypes
    <2>3. CASE UNCHANGED <<fileTasks, queued, stuck>>
        BY <2>1, <2>3 DEF TaskInv
    <2> QED BY <1>2, <2>2, <2>3 DEF UpdateFile
<1>3. ASSUME NEW seq \in 1..MaxFileSeq, DeleteFile(seq) PROVE TaskInv'
    BY <1>0, <1>3, AddFileTaskKeeps DEF DeleteFile, TaskTypes
<1>4. CASE WorkerTake
    <2>1. worker'.pc = "take"
        BY <1>0, <1>4 DEF WorkerTake, Worker
    <2> QED BY <1>4, <2>1 DEF WorkerTake, TaskInv
<1>5. CASE WorkerBatch
    <2>1. worker'.pc = "count"
        BY <1>0, <1>5 DEF WorkerBatch, Worker
    <2> QED BY <1>5, <2>1 DEF WorkerBatch, TaskInv
<1>6. CASE WorkerBuild
    <2>1. worker'.pc = "db"
        BY <1>0, <1>6 DEF WorkerBuild, Worker
    <2> QED BY <1>6, <2>1 DEF WorkerBuild, TaskInv
<1>7. CASE WorkerCount
    <2>1. worker'.pc = IF worker.batch = <<>> THEN "idle" ELSE "next"
        BY <1>0, <1>7 DEF WorkerCount, Idle, Worker
    <2> QED BY <1>7, <2>1 DEF WorkerCount, TaskInv
<1>8. CASE WorkerNext
    <2>1. worker'.pc \in {"count", "next", "build"}
        <3>1. CASE worker.left = 0
            BY <1>0, <1>8, <3>1 DEF WorkerNext, Worker
        <3>2. CASE worker.left # 0
            BY <1>8, <3>2, NextFacts, PointingFacts DEF WorkerNext
        <3> QED BY <3>1, <3>2
    <2> QED BY <1>8, <2>1 DEF WorkerNext, TaskInv
<1>9. CASE WorkerStatement \/ WorkerFail
    <2>1. worker'.pc = "next"
        BY <1>0, <1>9 DEF WorkerStatement, WorkerFail, Continue, Worker
    <2>2. worker.pc = "db" /\ UNCHANGED <<phase, fileTasks, queued, stuck>>
        BY <1>9, Zenon DEF WorkerStatement, WorkerFail
    <2> QED BY <2>1, <2>2 DEF TaskInv
<1>10. CASE Shutdown
    <2>1. worker'.pc = "count"
        BY <1>10 DEF Shutdown, Idle
    <2> QED BY <1>10, <2>1, Zenon DEF Shutdown, TaskInv
<1>12. CASE Crash
    <2>1. worker'.pc = "idle"
        BY <1>12 DEF Crash, Empty, Idle
    <2> QED BY <1>12, <2>1, Zenon DEF Crash, Empty, TaskInv
<1>13. CASE LoadFiles
    <2>1. phase = "down" /\ phase' = "running" /\ UNCHANGED <<fileTasks, queued, stuck, worker>>
        BY <1>13 DEF LoadFiles
    <2> QED BY <2>1 DEF TaskInv
<1>11. CASE UNCHANGED fvars
    BY <1>11 DEF fvars, TaskInv
<1> QED BY <1>1, <1>2, <1>3, <1>4, <1>5, <1>6, <1>7, <1>8, <1>9, <1>10, <1>11, <1>12, <1>13 DEF FNext, Work

\* The state in which the manager starts, and the one a crash leaves.
LEMMA BaseEmpty ==
    ASSUME table \in SUBSET File, IsFiniteSet(table), stuck \in BOOLEAN,
           phase \in {"running", "flush", "down"}, files = <<>>, head = 0,
           toCreate = <<>>, toUpdate = <<>>, toDelete = <<>>, fileTasks = <<>>, queued = FALSE,
           worker = Idle
    PROVE  BaseInv
<1>1. worker \in Worker /\ worker.pc = "idle" /\ worker.slot = RingCap
    BY RingAssumption DEF Idle, Worker, Pcs, NoFile, File
<1>2. FilesTypeOK
    <2>1. 0 \in 0..(RingCap - 1) /\ Len(files) <= RingCap
        BY RingAssumption
    <2>2. queued \in BOOLEAN
        BY Zenon
    <2> QED BY <1>1, <2>1, <2>2 DEF FilesTypeOK
<1>3. WorkerOK /\ Sorted
    BY <1>1 DEF WorkerOK, Sorted
<1>4. LiveInRing
    BY DEF LiveInRing, Live
<1> QED BY <1>2, <1>3, <1>4 DEF BaseInv

\* The same state after a step.
LEMMA BaseCrash ==
    ASSUME BaseInv, Crash
    PROVE  BaseInv'
<1>1. worker' \in Worker /\ worker'.pc = "idle" /\ worker'.slot = RingCap
    BY RingAssumption DEF Crash, Empty, Idle, Worker, Pcs, NoFile, File
<1>2. FilesTypeOK'
    <2>1. 0 \in 0..(RingCap - 1) /\ Len(files') <= RingCap
        BY RingAssumption DEF Crash, Empty
    <2>2. queued' \in BOOLEAN
        BY Zenon DEF Crash, Empty
    <2> QED BY <1>1, <2>1, <2>2 DEF FilesTypeOK, BaseInv, Crash, Empty
<1>3. WorkerOK' /\ Sorted'
    BY <1>1 DEF WorkerOK, Sorted, Crash, Empty
<1>4. LiveInRing'
    BY DEF LiveInRing, Live, Crash, Empty
<1> QED BY <1>2, <1>3, <1>4 DEF BaseInv

\* run's final tasks start with what is in the maps.
LEMMA BaseShutdown ==
    ASSUME BaseInv, Shutdown
    PROVE  BaseInv'
<1>1. <<"create", "update", "delete">> \in Seq(TaskTypes)
    BY DEF TaskTypes
<1>2. worker' \in Worker /\ worker'.pc = "count" /\ worker'.slot = RingCap
    BY <1>1, RingAssumption DEF Shutdown, Idle, Worker, Pcs, NoFile, File
<1>3. FilesTypeOK'
    <2>1. queued' \in BOOLEAN
        BY Zenon DEF Shutdown
    <2> QED BY <1>2, <2>1 DEF FilesTypeOK, BaseInv, Shutdown, ring, maps
<1>4. WorkerOK'
    BY <1>2 DEF WorkerOK
<1> QED BY <1>3, <1>4 DEF BaseInv, Shutdown, ring, maps, Sorted, LiveInRing

\* loadFiles fills the ring in the order of the numbers.
LEMMA BaseLoad ==
    ASSUME BaseInv, TaskInv, LoadFiles
    PROVE  BaseInv'
<1>1. /\ files' \in Seq(File) /\ Len(files') <= RingCap
      /\ \A i, j \in DOMAIN files' : i < j => files'[i].seq < files'[j].seq
    BY LoadFacts DEF BaseInv
<1>2. FilesTypeOK'
    <2>1. 0 \in 0..(RingCap - 1)
        BY RingAssumption
    <2>2. /\ head' = 0 /\ phase' = "running" /\ toCreate' = <<>> /\ toUpdate' = <<>> /\ toDelete' = <<>>
          /\ UNCHANGED <<table, fileTasks, queued, stuck, worker>>
        BY DEF LoadFiles
    <2> QED BY <1>1, <2>1, <2>2 DEF FilesTypeOK, BaseInv
<1>3. worker'.pc = "idle" /\ worker'.slot = RingCap
    BY DEF LoadFiles, TaskInv, BaseInv, WorkerOK
<1>4. WorkerOK'
    BY <1>3 DEF WorkerOK
<1>5. LiveInRing'
    BY DEF LoadFiles, LiveInRing, Live
<1> QED BY <1>1, <1>2, <1>4, <1>5 DEF BaseInv, Sorted

\* Every step keeps the types, the order of the ring and the tasks.
LEMMA BaseStep ==
    ASSUME BaseInv, TaskInv, [FNext]_fvars
    PROVE  BaseInv' /\ TaskInv'
<1>1. CASE UNCHANGED fvars
    <2>1. FilesTypeOK' /\ Sorted'
        BY <1>1 DEF fvars, ring, maps, BaseInv, FilesTypeOK, Sorted
    <2>2. WorkerOK'
        BY <1>1 DEF fvars, ring, maps, BaseInv, WorkerOK, Type, Waiting
    <2>3. LiveInRing'
        BY <1>1 DEF fvars, ring, maps, BaseInv, LiveInRing
    <2> QED BY <2>1, <2>2, <2>3, TaskStep DEF BaseInv
<1>2. CASE FNext
    <2>1. BaseInv'
        BY <1>2, BaseAddFile, BaseUpdateFile, BaseDeleteFile, BaseWork, BaseShutdown, BaseCrash, BaseLoad
        DEF FNext
    <2> QED BY <2>1, TaskStep
<1> QED BY <1>1, <1>2

\* The initial state.
LEMMA BaseInit ==
    ASSUME FInit
    PROVE  BaseInv /\ TaskInv
<1>1. BaseInv
    BY FS_EmptySet, BaseEmpty DEF FInit
<1> QED BY <1>1 DEF FInit, Idle, TaskInv

\* addFileTask's Async never blocks, for every size of the ring, with failing
\* statements, crashes and shutdowns: filesLock is held only for moments.
THEOREM AsyncIsFree == FSpec => []AsyncNeverBlocks
<1>1. FInit => BaseInv /\ TaskInv
    BY BaseInit
<1>2. BaseInv /\ TaskInv /\ [FNext]_fvars => (BaseInv /\ TaskInv)'
    BY BaseStep
<1>3. TaskInv => AsyncNeverBlocks
    BY DEF TaskInv, AsyncNeverBlocks
<1> QED BY <1>1, <1>2, <1>3, PTL DEF FSpec

\* A noted task type is always taken up: addFileTask's one submission for all
\* of them is enough, whatever the worker is doing.
THEOREM TasksAreTaken == FSpec => []NoTaskForgotten
<1>1. FInit => BaseInv /\ TaskInv
    BY BaseInit
<1>2. BaseInv /\ TaskInv /\ [FNext]_fvars => (BaseInv /\ TaskInv)'
    BY BaseStep
<1>3. TaskInv => NoTaskForgotten
    BY DEF TaskInv, NoTaskForgotten
<1> QED BY <1>1, <1>2, <1>3, PTL DEF FSpec

-----------------------------------------------------------------------------
(* The maps keep track of the files and of the updates.                    *)

\* The number is smaller than that of every file in the ring.
Behind(n) == n \in Nat /\ files # <<>> /\ \A x \in Seqs(files) : n < x

Rows == {r.seq : r \in table}

UniqueRows == \A r, s \in table : r.seq = s.seq => r = s

\* Every row is that of a file in the ring or of an older one.
RowsBehind == phase # "down" => \A n \in Rows : n \in Seqs(files) \/ Behind(n)

\* What has left the ring is older than what is in it.
GoneBehind ==
    \A n \in Dead(toCreate) \union Dead(toUpdate) \union ToSet(toDelete) \union InFlight("delete") : Behind(n)

\* A file waits for its insert once, and has no row until then.
CreateOnce == Distinct(toCreate) /\ InFlight("create") \intersect Seqs(toCreate) = {}
NotYetRow  == \A n \in Live(toCreate) \union InFlight("create") : n \notin Rows

\* The record of an insert or update that is under way is that of its file, or
\* the file has left the ring meanwhile; and a statement that is older than the
\* file is followed by another one.
Flying == worker.pc \in {"build", "db"} /\ Type # "delete"

FlightKnown == Flying => worker.cur.seq \in Seqs(files) \union ToSet(toDelete)
PointsAt ==
    Flying => \A i \in DOMAIN files :
                 files[i].seq = worker.cur.seq => worker.slot = Slot(i) /\ worker.cur = files[i]
StmtOf ==
    worker.pc = "db" =>
        /\ worker.stmt.seq = worker.cur.seq
        /\ Flying => \A i \in DOMAIN files :
              (files[i].seq = worker.cur.seq /\ files[i].ver # worker.stmt.ver) =>
                  worker.cur.seq \in Live(toUpdate) \union Live(toCreate)

\* The first half of FilesTracked.
FilesKnown ==
    phase = "running" => Seqs(files) \subseteq Rows \union Live(toCreate) \union InFlight("create")

TrackInv ==
    /\ UniqueRows /\ RowsBehind /\ GoneBehind /\ CreateOnce /\ NotYetRow
    /\ FlightKnown /\ PointsAt /\ StmtOf
    /\ FilesKnown /\ UpdatesTracked

\* No AddFile uses the slot again that the worker's pointer shows.
SlotKept == (worker.slot # RingCap /\ worker'.slot = worker.slot) => worker'.cur.seq = worker.cur.seq

\* The second half of FilesTracked: no row is without owner.
RowsOwned == phase # "down" => Rows \subseteq Seqs(files) \union ToSet(toDelete) \union InFlight("delete")

\* loadFiles finds no more rows than the ring holds.
AllLoaded == (phase = "down" /\ phase' = "running") => Cardinality(Rows) <= RingCap

\* The types that the proofs below need.
LEMMA TrackTypes ==
    ASSUME BaseInv
    PROVE  /\ toCreate \in Seq(Entry) /\ toUpdate \in Seq(Entry) /\ toDelete \in Seq(Nat)
           /\ files \in Seq(File) /\ DOMAIN files = 1..Len(files) /\ Len(files) \in Nat
           /\ head \in Nat
           /\ worker \in Worker /\ worker.cur.seq \in Nat /\ worker.slot \in Nat
           /\ Seqs(files) \subseteq Nat
           /\ Live(toCreate) \subseteq Seqs(files) /\ Live(toUpdate) \subseteq Seqs(files)
           /\ \A i \in DOMAIN files : files[i].seq \in Seqs(files)
           /\ \A i, j \in DOMAIN files : files[i].seq = files[j].seq => i = j
<1>1. /\ toCreate \in Seq(Entry) /\ toUpdate \in Seq(Entry) /\ toDelete \in Seq(Nat)
      /\ files \in Seq(File) /\ DOMAIN files = 1..Len(files) /\ Len(files) \in Nat
      /\ worker \in Worker /\ head \in Nat
    BY DEF BaseInv, FilesTypeOK
<1>2. worker.cur.seq \in Nat /\ worker.slot \in Nat
    BY <1>1 DEF Worker, File
<1>3. \A i \in DOMAIN files : files[i].seq \in Nat
    <2>1. \A i \in DOMAIN files : files[i] \in File
        BY <1>1
    <2> QED BY <2>1 DEF File
<1>4. Seqs(files) \subseteq Nat /\ \A i \in DOMAIN files : files[i].seq \in Seqs(files)
    BY <1>3 DEF Seqs
<1>5. ASSUME NEW i \in DOMAIN files, NEW j \in DOMAIN files, files[i].seq = files[j].seq PROVE i = j
    <2>1. ~(i < j) /\ ~(j < i)
        BY <1>3, <1>5 DEF BaseInv, Sorted
    <2> QED BY <1>1, <2>1
<1> QED BY <1>1, <1>2, <1>4, <1>5 DEF BaseInv, LiveInRing

\* A key has a value or it has none.
LEMMA LiveOrDead ==
    ASSUME NEW q
    PROVE  Seqs(q) = Live(q) \union Dead(q)
<1>1. \A n : n \in Seqs(q) <=> n \in Live(q) \union Dead(q)
    BY KeyFacts
<1> QED BY <1>1

\* Who is in flight.
LEMMA FlightFacts ==
    ASSUME NEW t
    PROVE  /\ \A x : x \in InFlight(t) <=> worker.pc \in {"build", "db"} /\ Type = t /\ x = worker.cur.seq
           /\ \A x : x \in InFlight(t)' <=> worker'.pc \in {"build", "db"} /\ Type' = t /\ x = worker'.cur.seq
    BY DEF InFlight

\* The steps of the worker between two statements, and Shutdown.
LEMMA TrackQuiet ==
    ASSUME TrackInv, UNCHANGED <<table, ring, maps>>,
           worker.pc \notin {"build", "db"}, worker'.pc \notin {"build", "db"},
           phase' # "down" => phase # "down", phase' = "running" => phase = "running"
    PROVE  TrackInv' /\ (RowsOwned => RowsOwned')
<1>1. /\ UNCHANGED <<table, files, head, toCreate, toUpdate, toDelete>>
      /\ \A t : InFlight(t) = {} /\ InFlight(t)' = {}
    BY DEF ring, maps, InFlight
<1>2. UniqueRows' /\ CreateOnce'
    BY <1>1 DEF TrackInv, UniqueRows, CreateOnce
<1>3. RowsBehind' /\ GoneBehind' /\ NotYetRow'
    BY <1>1 DEF TrackInv, RowsBehind, GoneBehind, NotYetRow, Behind, Rows
<1>4. FlightKnown' /\ PointsAt' /\ StmtOf'
    BY DEF FlightKnown, PointsAt, StmtOf, Flying
<1>5. FilesKnown'
    BY <1>1 DEF TrackInv, FilesKnown, Rows
<1>6. UpdatesTracked'
    BY <1>1 DEF TrackInv, UpdatesTracked
<1>7. RowsOwned => RowsOwned'
    BY <1>1 DEF RowsOwned, Rows
<1> QED BY <1>2, <1>3, <1>4, <1>5, <1>6, <1>7 DEF TrackInv

\* AddFile: the new file's number is larger than any that is known, and the
\* worker's pointer does not show its slot.
LEMMA TrackAddFile ==
    ASSUME BaseInv, TrackInv, AddFile, SlotKept
    PROVE  TrackInv' /\ (RowsOwned => RowsOwned')
<1> DEFINE n == NewFile.seq
           k == Len(files)
<1>t. /\ toCreate \in Seq(Entry) /\ toUpdate \in Seq(Entry) /\ toDelete \in Seq(Nat)
      /\ files \in Seq(File) /\ DOMAIN files = 1..k /\ k \in Nat /\ head \in Nat
      /\ worker \in Worker /\ worker.cur.seq \in Nat /\ worker.slot \in Nat
      /\ Seqs(files) \subseteq Nat
      /\ Live(toCreate) \subseteq Seqs(files) /\ Live(toUpdate) \subseteq Seqs(files)
    BY TrackTypes
<1>0. /\ phase = "running" /\ phase' = "running" /\ files' = Append(files, NewFile)
      /\ toCreate' = Put(toCreate, n) /\ UNCHANGED <<table, head, toUpdate, toDelete>>
    BY DEF AddFile
<1>1. NewFile \in File /\ n \in Nat /\ \A x \in Seqs(files) : x < n
    <2>1. NewFile \in File /\ \A i \in DOMAIN files : files[i].seq < NewFile.seq
        BY NewFileFacts DEF BaseInv
    <2> QED BY <2>1 DEF File, Seqs
<1> HIDE DEF n, k
<1>2. /\ files' \in Seq(File) /\ Len(files') = k + 1 /\ DOMAIN files' = 1..(k + 1)
      /\ \A i \in 1..k : files'[i] = files[i]
      /\ files'[k + 1] = NewFile
    BY <1>0, <1>1, <1>t DEF k
<1>3. \A i \in 1..(k + 1) : i \in 1..k \/ i = k + 1
    BY <1>t
<1>4. \A x : x \in Seqs(files') <=> x \in Seqs(files) \/ x = n
    <2>2. n = NewFile.seq /\ k + 1 \in 1..(k + 1) /\ 1..k \subseteq 1..(k + 1)
        BY <1>t DEF n
    <2> QED BY <1>2, <1>3, <1>t, <2>2 DEF Seqs
<1>5. \A x \in Seqs(files) : x # n
    BY <1>1, <1>t
<1>6. ASSUME NEW x, Behind(x) PROVE x # n /\ Behind(x)'
    <2>1. x \in Nat /\ files # <<>> /\ \A y \in Seqs(files) : x < y
        BY <1>6 DEF Behind
    <2>2. PICK y \in Seqs(files) : TRUE
        <3>1. 1 \in DOMAIN files
            BY <1>t, <2>1 DEF k
        <3> QED BY <3>1 DEF Seqs
    <2>3. x < y /\ y < n /\ y \in Nat /\ n \in Nat
        BY <1>1, <1>t, <2>1
    <2>4. x < n /\ x # n
        BY <2>1, <2>3
    <2>5. files' # <<>>
        BY <1>2, <1>t
    <2> QED BY <1>4, <2>1, <2>4, <2>5 DEF Behind
\* The new number is not known, so the slot the worker points to is another.
<1>7. /\ \A x \in Rows : x # n
      /\ \A x \in Dead(toCreate) \union Dead(toUpdate) \union ToSet(toDelete) \union InFlight("delete") : x # n
      /\ Flying => worker.cur.seq # n
    <2>1. \A x \in Rows : x # n
        BY <1>0, <1>5, <1>6 DEF TrackInv, RowsBehind
    <2>2. \A x \in Dead(toCreate) \union Dead(toUpdate) \union ToSet(toDelete) \union InFlight("delete") : x # n
        BY <1>6 DEF TrackInv, GoneBehind
    <2>3. Flying => worker.cur.seq # n
        BY <1>5, <2>2 DEF TrackInv, FlightKnown
    <2> QED BY <2>1, <2>2, <2>3
<1>8. worker' = worker
    <2> SUFFICES ASSUME worker.slot = Slot(k + 1) PROVE FALSE
        BY DEF AddFile, k
    <2>1. worker' = [worker EXCEPT !.cur = NewFile]
        BY DEF AddFile, k
    <2>2. worker'.slot = worker.slot /\ worker'.cur = NewFile
        BY <1>t, <2>1 DEF Worker
    <2>3. Slot(k + 1) \in 0..(RingCap - 1)
        <3>1. head + k \in Nat /\ head + (k + 1) - 1 = head + k
            BY <1>t
        <3> QED BY <3>1, DivMod, RingAssumption DEF Slot
    <2>4. worker.slot # RingCap
        BY <2>3, RingAssumption
    <2>5. worker.cur.seq = n
        BY <2>2, <2>4 DEF SlotKept, n
    <2>6. Flying
        BY <2>4 DEF BaseInv, WorkerOK, Flying
    <2> QED BY <1>7, <2>5, <2>6
<1>9. /\ \A t : InFlight(t)' = InFlight(t)
      /\ Type' = Type /\ Flying' = Flying
    BY <1>8 DEF InFlight, Type, Flying
<1>10. /\ Live(toCreate') = Live(toCreate) \union {n} /\ Seqs(toCreate') = Seqs(toCreate) \union {n}
       /\ Dead(toCreate') \subseteq Dead(toCreate)
       /\ Distinct(toCreate) => Distinct(toCreate')
    BY <1>0, <1>1, <1>t, PutKeySets
<1>11. UniqueRows' /\ RowsBehind'
    BY <1>0, <1>4, <1>6 DEF TrackInv, UniqueRows, RowsBehind, Rows
<1>12. GoneBehind'
    BY <1>0, <1>6, <1>9, <1>10 DEF TrackInv, GoneBehind
<1>13. CreateOnce'
    <2>1. InFlight("create")' \intersect Seqs(toCreate') = {}
        BY <1>7, <1>9, <1>10 DEF TrackInv, CreateOnce, InFlight, Flying
    <2> QED BY <1>10, <2>1 DEF TrackInv, CreateOnce
<1>14. NotYetRow'
    BY <1>0, <1>7, <1>9, <1>10 DEF TrackInv, NotYetRow, Rows
<1>15. FlightKnown'
    BY <1>0, <1>4, <1>8, <1>9 DEF TrackInv, FlightKnown
<1>16. ASSUME Flying, NEW i \in DOMAIN files', files'[i].seq = worker.cur.seq
       PROVE  i \in DOMAIN files /\ files'[i] = files[i] /\ Slot(i)' = Slot(i)
    <2>1. i # k + 1
        BY <1>2, <1>7, <1>16 DEF n
    <2> QED BY <1>0, <1>2, <1>3, <1>t, <2>1 DEF Slot
<1>17. PointsAt'
    BY <1>8, <1>9, <1>16 DEF TrackInv, PointsAt
<1>18. StmtOf'
    BY <1>0, <1>8, <1>9, <1>10, <1>16 DEF TrackInv, StmtOf
<1>19. FilesKnown'
    BY <1>0, <1>4, <1>9, <1>10 DEF TrackInv, FilesKnown, Rows
<1>20. UpdatesTracked'
    <2> SUFFICES ASSUME NEW r \in table, NEW i \in DOMAIN files', files'[i].seq = r.seq, files'[i].ver # r.ver
                 PROVE  r.seq \in Live(toUpdate') \union Live(toCreate') \union InFlight("update")'
        BY <1>0 DEF UpdatesTracked
    <2>1. i # k + 1
        BY <1>2, <1>7 DEF n, Rows
    <2>2. i \in DOMAIN files /\ files'[i] = files[i]
        BY <1>2, <1>3, <1>t, <2>1
    <2> QED BY <1>0, <1>9, <1>10, <2>2 DEF TrackInv, UpdatesTracked
<1>21. RowsOwned => RowsOwned'
    BY <1>0, <1>4, <1>9 DEF RowsOwned, Rows
<1> QED BY <1>11, <1>12, <1>13, <1>14, <1>15, <1>17, <1>18, <1>19, <1>20, <1>21 DEF TrackInv

\* UpdateFile: the file waits for a statement, or its pointer is in flight.
LEMMA TrackUpdateFile ==
    ASSUME BaseInv, TrackInv, NEW seq \in 1..MaxFileSeq, UpdateFile(seq), SlotKept
    PROVE  TrackInv' /\ (RowsOwned => RowsOwned')
<1>t. /\ toCreate \in Seq(Entry) /\ toUpdate \in Seq(Entry)
      /\ worker \in Worker /\ worker.cur.seq \in Nat /\ worker.slot \in Nat
      /\ Seqs(files) \subseteq Nat
      /\ \A i, j \in DOMAIN files : files[i].seq = files[j].seq => i = j
      /\ DOMAIN files = 1..Len(files) /\ Len(files) \in Nat /\ head \in Nat
    BY TrackTypes
<1>0. /\ phase = "running" /\ phase' = "running" /\ seq \in Seqs(files) /\ seq \in Nat
      /\ UNCHANGED <<table, head, toCreate, toDelete>>
    BY RingAssumption DEF UpdateFile
<1>1. PICK i \in DOMAIN files :
          /\ files[i].seq = seq
          /\ files' = [files EXCEPT ![i].ver = @ + 1]
          /\ worker' = IF worker.slot = Slot(i) THEN [worker EXCEPT !.cur = files'[i]] ELSE worker
    BY DEF UpdateFile
<1>2. /\ DOMAIN files' = DOMAIN files
      /\ \A j \in DOMAIN files : files'[j].seq = files[j].seq /\ (j # i => files'[j] = files[j])
      /\ Seqs(files') = Seqs(files) /\ \A j : Slot(j)' = Slot(j)
    BY <1>0, <1>1, UpdateFacts DEF Slot
<1>3. \A x : Behind(x)' <=> Behind(x)
    <2>1. files' # <<>> <=> files # <<>>
        BY <1>2
    <2> QED BY <1>2, <2>1 DEF Behind
\* The worker's pointer shows the same file.
<1>4. /\ worker'.pc = worker.pc /\ worker'.batch = worker.batch /\ worker'.slot = worker.slot
      /\ worker'.stmt = worker.stmt
      /\ worker.slot = Slot(i) => worker'.cur = files'[i]
      /\ worker.slot # Slot(i) => worker' = worker
    BY <1>1, <1>t DEF Worker
<1>5. worker'.cur.seq = worker.cur.seq
    <2>1. CASE worker.slot = Slot(i)
        <3>1. Slot(i) \in 0..(RingCap - 1)
            <4>1. head + i - 1 \in Nat
                BY <1>t
            <4> QED BY <4>1, DivMod, RingAssumption DEF Slot
        <3>2. worker.slot # RingCap
            BY <2>1, <3>1, RingAssumption
        <3> QED BY <1>4, <3>2 DEF SlotKept
    <2>2. CASE worker.slot # Slot(i)
        BY <1>4, <2>2
    <2> QED BY <2>1, <2>2
<1>6. /\ \A t : InFlight(t)' = InFlight(t)
      /\ Type' = Type /\ Flying' = Flying
    BY <1>4, <1>5 DEF InFlight, Type, Flying
<1>7. /\ Live(toUpdate) \subseteq Live(toUpdate') /\ Dead(toUpdate') = Dead(toUpdate)
      /\ seq \in Live(toUpdate') \union Live(toCreate)
    <2>1. seq \notin Dead(toCreate) /\ seq \notin Dead(toUpdate)
        BY <1>0 DEF TrackInv, GoneBehind, Behind
    <2>2. seq \in Seqs(toCreate) => seq \in Live(toCreate)
        BY <2>1, LiveOrDead
    <2>3. seq \in Seqs(toUpdate) => seq \in Live(toUpdate)
        BY <2>1, LiveOrDead
    <2>4. CASE seq \in Seqs(toCreate) \/ seq \in Seqs(toUpdate)
        <3>1. toUpdate' = toUpdate
            BY <2>4 DEF UpdateFile
        <3> QED BY <2>2, <2>3, <2>4, <3>1
    <2>5. CASE seq \notin Seqs(toCreate) /\ seq \notin Seqs(toUpdate)
        <3>1. toUpdate' = PutIfAbsent(toUpdate, seq)
            BY <2>5 DEF UpdateFile
        <3> QED BY <1>0, <1>t, <2>5, <3>1, PutIfAbsentKeySets
    <2> QED BY <2>4, <2>5
<1>8. UniqueRows' /\ RowsBehind' /\ GoneBehind'
    BY <1>0, <1>2, <1>3, <1>6, <1>7 DEF TrackInv, UniqueRows, RowsBehind, GoneBehind, Rows
<1>9. CreateOnce' /\ NotYetRow'
    BY <1>0, <1>6 DEF TrackInv, CreateOnce, NotYetRow, Rows
<1>10. FlightKnown'
    BY <1>0, <1>2, <1>5, <1>6 DEF TrackInv, FlightKnown
<1>11. PointsAt'
    <2> SUFFICES ASSUME Flying, NEW j \in DOMAIN files, files[j].seq = worker.cur.seq
                 PROVE  worker'.slot = Slot(j) /\ worker'.cur = files'[j]
        BY <1>2, <1>5, <1>6 DEF PointsAt
    <2>1. worker.slot = Slot(j) /\ worker.cur = files[j]
        BY DEF TrackInv, PointsAt
    <2>2. CASE j = i
        BY <1>4, <2>1, <2>2
    <2>3. CASE j # i
        <3>1. files'[j] = files[j] /\ files'[i].seq # worker.cur.seq
            BY <1>2, <1>t, <2>3
        <3>2. worker.slot # Slot(i)
            BY <1>4, <1>5, <3>1
        <3> QED BY <1>4, <2>1, <3>1, <3>2
    <2> QED BY <2>2, <2>3
<1>12. StmtOf'
    <2> SUFFICES ASSUME worker.pc = "db"
                 PROVE  /\ worker'.stmt.seq = worker'.cur.seq
                        /\ Flying => \A j \in DOMAIN files' :
                              (files'[j].seq = worker'.cur.seq /\ files'[j].ver # worker'.stmt.ver) =>
                                  worker'.cur.seq \in Live(toUpdate') \union Live(toCreate')
        BY <1>4, <1>6 DEF StmtOf
    <2>1. worker.stmt.seq = worker.cur.seq
        BY DEF TrackInv, StmtOf
    <2>2. ASSUME Flying, NEW j \in DOMAIN files, files[j].seq = worker.cur.seq,
                 files'[j].ver # worker.stmt.ver
          PROVE  worker.cur.seq \in Live(toUpdate') \union Live(toCreate)
        <3>1. CASE j = i
            BY <1>1, <1>7, <2>2, <3>1
        <3>2. CASE j # i
            BY <1>2, <1>7, <2>2, <3>2 DEF TrackInv, StmtOf
        <3> QED BY <3>1, <3>2
    <2> QED BY <1>0, <1>2, <1>4, <1>5, <2>1, <2>2
<1>13. FilesKnown'
    BY <1>0, <1>2, <1>6 DEF TrackInv, FilesKnown, Rows
<1>14. UpdatesTracked'
    <2> SUFFICES ASSUME NEW r \in table, NEW j \in DOMAIN files, files[j].seq = r.seq, files'[j].ver # r.ver
                 PROVE  r.seq \in Live(toUpdate') \union Live(toCreate) \union InFlight("update")
        BY <1>0, <1>2, <1>6 DEF UpdatesTracked
    <2>1. CASE j = i
        BY <1>1, <1>7, <2>1
    <2>2. CASE j # i
        BY <1>0, <1>2, <1>7, <2>2 DEF TrackInv, UpdatesTracked
    <2> QED BY <2>1, <2>2
<1>15. RowsOwned => RowsOwned'
    BY <1>0, <1>2, <1>6 DEF RowsOwned, Rows
<1> QED BY <1>8, <1>9, <1>10, <1>11, <1>12, <1>13, <1>14, <1>15 DEF TrackInv

\* DeleteFile: what leaves the ring is older than what stays, and it stays in
\* the ring or goes to needDeletedFiles.
LEMMA TrackDeleteFile ==
    ASSUME BaseInv, TrackInv, NEW seq \in 1..MaxFileSeq, DeleteFile(seq), ~DeleteLast
    PROVE  TrackInv' /\ (RowsOwned => RowsOwned')
<1>t. /\ toCreate \in Seq(Entry) /\ toUpdate \in Seq(Entry) /\ toDelete \in Seq(Nat)
      /\ Seqs(files) \subseteq Nat /\ files \in Seq(File)
      /\ DOMAIN files = 1..Len(files) /\ Len(files) \in Nat /\ head \in Nat
    BY TrackTypes
<1>0. phase = "running" /\ phase' = "running" /\ UNCHANGED <<table, worker>>
    BY DEF DeleteFile
<1>1. PICK n \in 1..Len(files) : n < Len(files) /\ PopFiles(n)
    BY DEF DeleteFile
<1>2. /\ files' = SubSeq(files, n + 1, Len(files))
      /\ head' = (head + n) % RingCap
      /\ toCreate' = Kill(toCreate, Popped(n)) /\ toUpdate' = Kill(toUpdate, Popped(n))
      /\ toDelete' = PutKeys(toDelete, Popped(n))
    BY <1>1 DEF PopFiles
<1> DEFINE gone == Popped(n)
<1>3. /\ Len(files') = Len(files) - n /\ DOMAIN files' = 1..(Len(files) - n)
      /\ \A i \in DOMAIN files' : n + i \in DOMAIN files /\ files'[i] = files[n + i]
      /\ gone \in SUBSET Nat /\ IsFiniteSet(gone)
      /\ Seqs(files') = Seqs(files) \ gone
      /\ gone \subseteq Seqs(files)
      /\ \A g \in gone : \A x \in Seqs(files') : g < x
    BY <1>2, PopFacts
<1>4. files' # <<>>
    BY <1>1, <1>3, <1>t
<1>5. /\ Seqs(toCreate') = Seqs(toCreate) /\ Live(toCreate') = Live(toCreate) \ gone
      /\ Dead(toCreate') \subseteq Dead(toCreate) \union gone
      /\ Distinct(toCreate) => Distinct(toCreate')
      /\ Live(toUpdate') = Live(toUpdate) \ gone
      /\ Dead(toUpdate') \subseteq Dead(toUpdate) \union gone
    BY <1>2, <1>t, KillKeySets
<1>6. ToSet(toDelete') = ToSet(toDelete) \union gone
    BY <1>2, <1>3, <1>t, PutKeysFacts
<1> HIDE DEF gone
<1>7. /\ \A x : Behind(x) => Behind(x)'
      /\ \A x \in gone : Behind(x)'
    BY <1>3, <1>4 DEF Behind
<1>8. \A t : InFlight(t)' = InFlight(t)
    BY <1>0 DEF InFlight, Type
<1>9. Flying' = Flying
    BY <1>0 DEF Flying, Type
<1>10. ASSUME NEW i \in DOMAIN files'
       PROVE  /\ n + i \in DOMAIN files /\ files'[i] = files[n + i] /\ Slot(i)' = Slot(n + i)
              /\ files'[i].seq \notin gone
    <2>1. i \in Nat /\ i >= 1 /\ n \in Nat
        BY <1>3, <1>t
    <2>2. i - 1 \in Nat /\ head + n \in Nat /\ (head + n) + (i - 1) = head + (n + i) - 1
        BY <1>t, <2>1
    <2>3. (((head + n) % RingCap) + (i - 1)) % RingCap = ((head + n) + (i - 1)) % RingCap
        BY <2>2, ModFacts, RingAssumption
    <2>4. Slot(i)' = Slot(n + i)
        BY <1>2, <2>2, <2>3 DEF Slot
    <2>5. files'[i].seq \in Seqs(files')
        BY DEF Seqs
    <2> QED BY <1>3, <2>4, <2>5
<1>11. UniqueRows' /\ RowsBehind'
    BY <1>0, <1>3, <1>7 DEF TrackInv, UniqueRows, RowsBehind, Rows
<1>12. GoneBehind'
    BY <1>5, <1>6, <1>7, <1>8 DEF TrackInv, GoneBehind
<1>13. CreateOnce' /\ NotYetRow'
    BY <1>0, <1>5, <1>8 DEF TrackInv, CreateOnce, NotYetRow, Rows
<1>14. FlightKnown'
    BY <1>0, <1>3, <1>6, <1>9 DEF TrackInv, FlightKnown
<1>15. PointsAt'
    BY <1>0, <1>9, <1>10 DEF TrackInv, PointsAt
<1>16. StmtOf'
    <2> SUFFICES ASSUME worker.pc = "db"
                 PROVE  /\ worker.stmt.seq = worker.cur.seq
                        /\ Flying => \A i \in DOMAIN files' :
                              (files'[i].seq = worker.cur.seq /\ files'[i].ver # worker.stmt.ver) =>
                                  worker.cur.seq \in Live(toUpdate') \union Live(toCreate')
        BY <1>0, <1>9 DEF StmtOf
    <2>1. ASSUME Flying, NEW i \in DOMAIN files', files'[i].seq = worker.cur.seq,
                 files'[i].ver # worker.stmt.ver
          PROVE  worker.cur.seq \in Live(toUpdate') \union Live(toCreate')
        <3>1. worker.cur.seq \in Live(toUpdate) \union Live(toCreate)
            BY <1>10, <2>1 DEF TrackInv, StmtOf
        <3> QED BY <1>5, <1>10, <2>1, <3>1
    <2> QED BY <2>1 DEF TrackInv, StmtOf
<1>17. FilesKnown'
    BY <1>0, <1>3, <1>5, <1>8 DEF TrackInv, FilesKnown, Rows
<1>18. UpdatesTracked'
    <2> SUFFICES ASSUME NEW r \in table, NEW i \in DOMAIN files', files'[i].seq = r.seq, files'[i].ver # r.ver
                 PROVE  r.seq \in Live(toUpdate') \union Live(toCreate') \union InFlight("update")
        BY <1>0, <1>8 DEF UpdatesTracked
    <2>1. r.seq \in Live(toUpdate) \union Live(toCreate) \union InFlight("update")
        BY <1>0, <1>10 DEF TrackInv, UpdatesTracked
    <2> QED BY <1>5, <1>10, <2>1
<1>19. RowsOwned => RowsOwned'
    BY <1>0, <1>3, <1>6, <1>8 DEF RowsOwned, Rows
<1> QED BY <1>11, <1>12, <1>13, <1>14, <1>15, <1>16, <1>17, <1>18, <1>19 DEF TrackInv

\* The first number of needDeletedFiles and the others.
LEMMA TailSet ==
    ASSUME NEW q \in Seq(Nat), q # <<>>
    PROVE  ToSet(q) = ToSet(Tail(q)) \union {Head(q)}
<1> DEFINE p == Tail(q)
           k == Len(p)
<1>1. /\ p \in Seq(Nat) /\ k \in Nat /\ Len(q) = k + 1 /\ Head(q) = q[1]
      /\ \A i \in 1..k : p[i] = q[i + 1]
    BY Z3
<1>2. \A x : x \in ToSet(q) <=> \E i \in 1..Len(q) : q[i] = x
    BY <1>1 DEF ToSet
<1> HIDE DEF p
<1>3. \A x : x \in ToSet(p) <=> \E i \in 1..k : p[i] = x
    BY <1>1 DEF ToSet
<1> HIDE DEF k
<1>4. \A i \in 1..Len(q) : i = 1 \/ (i - 1 \in 1..k /\ p[i - 1] = q[i])
    BY <1>1
<1>5. \A i \in 1..k : i + 1 \in 1..Len(q)
    BY <1>1
<1>6. 1 \in 1..Len(q)
    BY <1>1
<1>7. \A x : x \in ToSet(q) <=> x \in ToSet(p) \/ x = q[1]
    BY <1>1, <1>2, <1>3, <1>4, <1>5, <1>6
<1> QED BY <1>1, <1>7 DEF p

\* The worker takes the next entry: what was waiting is waiting or in flight.
LEMMA TrackNext ==
    ASSUME BaseInv, TrackInv, WorkerNext, worker.left # 0
    PROVE  TrackInv' /\ (RowsOwned => RowsOwned')
<1>t. /\ toCreate \in Seq(Entry) /\ toUpdate \in Seq(Entry) /\ toDelete \in Seq(Nat)
      /\ \A i, j \in DOMAIN files : files[i].seq = files[j].seq => i = j
      /\ \A i \in DOMAIN files : files[i].seq \in Seqs(files)
    BY TrackTypes
<1>0. worker.pc = "next" /\ UNCHANGED <<phase, table, files, head>>
    BY DEF WorkerNext, ring
<1>f. \A t : InFlight(t) = {}
    BY <1>0 DEF InFlight
<1>n. /\ Type \in TaskTypes /\ Type' = Type
      /\ Type = "create" => toCreate # <<>> /\ toCreate' = Tail(toCreate)
      /\ Type # "create" => toCreate' = toCreate
      /\ Type = "update" => toUpdate # <<>> /\ toUpdate' = Tail(toUpdate)
      /\ Type # "update" => toUpdate' = toUpdate
      /\ Type = "delete" => toDelete # <<>> /\ toDelete' = Tail(toDelete)
      /\ Type # "delete" => toDelete' = toDelete
      /\ \/ /\ Type # "delete" /\ ~Head(Waiting(Type)).live
            /\ worker'.pc = "next" /\ worker'.slot = RingCap
         \/ /\ Type # "delete" /\ Head(Waiting(Type)).live
            /\ worker' = Pointing(Head(Waiting(Type)).seq)
            /\ Head(Waiting(Type)).seq \in Nat /\ Head(Waiting(Type)).seq \in Seqs(files)
         \/ Type = "delete" /\ Head(toDelete) \in Nat /\ worker' = Pointing(Head(toDelete))
    BY NextFacts
<1>d. Distinct(toCreate) /\ \A x \in Live(toCreate) : x \notin Rows
    BY DEF TrackInv, CreateOnce, NotYetRow
<1>1. /\ Live(toCreate) \subseteq Live(toCreate') \union InFlight("create")'
      /\ Live(toCreate') \subseteq Live(toCreate) /\ InFlight("create")' \subseteq Live(toCreate)
      /\ InFlight("create")' \intersect Seqs(toCreate') = {} /\ Distinct(toCreate')
      /\ Dead(toCreate') \subseteq Dead(toCreate) /\ Dead(toUpdate') \subseteq Dead(toUpdate)
      /\ Live(toUpdate) \subseteq Live(toUpdate') \union InFlight("update")'
      /\ ToSet(toDelete') \union InFlight("delete")' = ToSet(toDelete)
      /\ worker'.pc # "db"
      /\ Flying' => \E i \in DOMAIN files : worker'.slot = Slot(i) /\ worker'.cur = files[i]
    <2>1. CASE Type # "delete" /\ ~Head(Waiting(Type)).live
        <3>1. worker'.pc = "next" /\ \A t : InFlight(t)' = {}
            BY <1>n, <2>1 DEF InFlight
        <3>2. CASE Type = "create"
            <4>1. ~Head(toCreate).live /\ toCreate # <<>> /\ toCreate' = Tail(toCreate)
                  /\ toUpdate' = toUpdate /\ toDelete' = toDelete
                BY <1>n, <2>1, <3>2 DEF Waiting
            <4>2. /\ Live(toCreate) = Live(toCreate') /\ Distinct(toCreate')
                  /\ Dead(toCreate') \subseteq Dead(toCreate)
                BY <1>d, <1>t, <4>1, TailKeySets
            <4> QED BY <3>1, <4>1, <4>2 DEF Flying
        <3>3. CASE Type = "update"
            <4>1. ~Head(toUpdate).live /\ toUpdate # <<>> /\ toUpdate' = Tail(toUpdate)
                  /\ toCreate' = toCreate /\ toDelete' = toDelete
                BY <1>n, <2>1, <3>3 DEF Waiting
            <4>2. Live(toUpdate) = Live(toUpdate') /\ Dead(toUpdate') \subseteq Dead(toUpdate)
                BY <1>t, <4>1, TailKeySets
            <4> QED BY <1>d, <3>1, <4>1, <4>2 DEF Flying
        <3> QED BY <1>n, <2>1, <3>2, <3>3 DEF TaskTypes
    <2>2. CASE Type # "delete" /\ Head(Waiting(Type)).live
        <3> DEFINE c == Head(Waiting(Type)).seq
        <3>1. worker' = Pointing(c) /\ c \in Nat /\ c \in Seqs(files)
            BY <1>n, <2>2
        <3> HIDE DEF c
        <3>2. /\ worker'.pc = "build" /\ worker'.cur.seq = c
              /\ \E i \in DOMAIN files : worker'.slot = Slot(i) /\ worker'.cur = files[i]
            BY <1>0, <2>2, <3>1, PointingFacts
        <3>3. \A t : InFlight(t)' = IF Type = t THEN {c} ELSE {}
            BY <1>n, <3>2 DEF InFlight
        <3>4. CASE Type = "create"
            <4>1. Head(toCreate).live /\ Head(toCreate).seq = c /\ toCreate # <<>>
                  /\ toCreate' = Tail(toCreate) /\ toUpdate' = toUpdate /\ toDelete' = toDelete
                BY <1>n, <2>2, <3>4 DEF Waiting, c
            <4>2. /\ Live(toCreate) = Live(toCreate') \union {c} /\ Distinct(toCreate')
                  /\ c \notin Seqs(toCreate') /\ Dead(toCreate') \subseteq Dead(toCreate)
                BY <1>d, <1>t, <4>1, TailKeySets
            <4> QED BY <3>2, <3>3, <3>4, <4>1, <4>2
        <3>5. CASE Type = "update"
            <4>1. Head(toUpdate).live /\ Head(toUpdate).seq = c /\ toUpdate # <<>>
                  /\ toUpdate' = Tail(toUpdate) /\ toCreate' = toCreate /\ toDelete' = toDelete
                BY <1>n, <2>2, <3>5 DEF Waiting, c
            <4>2. Live(toUpdate) = Live(toUpdate') \union {c} /\ Dead(toUpdate') \subseteq Dead(toUpdate)
                BY <1>t, <4>1, TailKeySets
            <4> QED BY <1>d, <3>2, <3>3, <3>5, <4>1, <4>2
        <3> QED BY <1>n, <2>2, <3>4, <3>5 DEF TaskTypes
    <2>3. CASE Type = "delete"
        <3> DEFINE c == Head(toDelete)
        <3>1. worker' = Pointing(c) /\ c \in Nat
            BY <1>n, <2>3
        <3>4. ToSet(toDelete) = ToSet(toDelete') \union {c}
            BY <1>n, <1>t, <2>3, TailSet
        <3> HIDE DEF c
        <3>2. worker'.pc = "build" /\ worker'.cur.seq = c
            BY <1>0, <2>3, <3>1, PointingFacts
        <3>3. \A t : InFlight(t)' = IF t = "delete" THEN {c} ELSE {}
            BY <1>n, <2>3, <3>2 DEF InFlight
        <3>5. ~Flying'
            BY <1>n, <2>3 DEF Flying
        <3> QED BY <1>d, <1>n, <2>3, <3>2, <3>3, <3>4, <3>5
    <2> QED BY <1>n, <2>1, <2>2, <2>3
<1>2. UniqueRows' /\ RowsBehind'
    BY <1>0 DEF TrackInv, UniqueRows, RowsBehind, Behind, Rows
<1>3. GoneBehind'
    BY <1>0, <1>1 DEF TrackInv, GoneBehind, Behind
<1>4. CreateOnce' /\ NotYetRow'
    BY <1>0, <1>1, <1>d DEF CreateOnce, NotYetRow, Rows
<1>5. FlightKnown' /\ PointsAt'
    <2> SUFFICES ASSUME Flying'
                 PROVE  /\ worker'.cur.seq \in Seqs(files)
                        /\ \A j \in DOMAIN files :
                              files[j].seq = worker'.cur.seq => worker'.slot = Slot(j) /\ worker'.cur = files[j]
        BY <1>0 DEF FlightKnown, PointsAt, Slot
    <2> QED BY <1>1, <1>t
<1>6. StmtOf'
    BY <1>1 DEF StmtOf
<1>7. FilesKnown'
    BY <1>0, <1>1, <1>f DEF TrackInv, FilesKnown, Rows
<1>8. UpdatesTracked'
    <2> SUFFICES ASSUME phase = "running", NEW r \in table, NEW j \in DOMAIN files,
                        files[j].seq = r.seq, files[j].ver # r.ver
                 PROVE  r.seq \in Live(toUpdate') \union Live(toCreate') \union InFlight("update")'
        BY <1>0 DEF UpdatesTracked
    <2>1. r.seq \in Live(toUpdate) \union Live(toCreate)
        BY <1>f DEF TrackInv, UpdatesTracked
    <2>2. r.seq \in Rows
        BY DEF Rows
    <2> QED BY <1>1, <1>d, <2>1, <2>2
<1>9. RowsOwned => RowsOwned'
    BY <1>0, <1>1, <1>f DEF RowsOwned, Rows
<1> QED BY <1>2, <1>3, <1>4, <1>5, <1>6, <1>7, <1>8, <1>9 DEF TrackInv

\* The statement is built from the record as it is now.
LEMMA TrackBuild ==
    ASSUME BaseInv, TrackInv, WorkerBuild
    PROVE  TrackInv' /\ (RowsOwned => RowsOwned')
<1>0. /\ worker.pc = "build" /\ UNCHANGED <<phase, table, files, head, toCreate, toUpdate, toDelete>>
      /\ worker' = [worker EXCEPT !.pc = "db", !.stmt = worker.cur]
    BY DEF WorkerBuild, ring, maps
<1>1. /\ worker'.pc = "db" /\ worker'.stmt = worker.cur /\ worker'.cur = worker.cur
      /\ worker'.slot = worker.slot /\ worker'.batch = worker.batch
    BY <1>0, TrackTypes DEF Worker
<1>2. (\A t : InFlight(t)' = InFlight(t)) /\ Flying' = Flying
    BY <1>0, <1>1 DEF InFlight, Type, Flying
<1>3. UniqueRows' /\ RowsBehind' /\ GoneBehind'
    BY <1>0, <1>2 DEF TrackInv, UniqueRows, RowsBehind, GoneBehind, Behind, Rows
<1>4. CreateOnce' /\ NotYetRow'
    BY <1>0, <1>2 DEF TrackInv, CreateOnce, NotYetRow, Rows
<1>5. FlightKnown' /\ PointsAt'
    BY <1>0, <1>1, <1>2 DEF TrackInv, FlightKnown, PointsAt, Slot
<1>6. StmtOf'
    BY <1>0, <1>1, <1>2 DEF TrackInv, PointsAt, StmtOf
<1>7. FilesKnown'
    BY <1>0, <1>2 DEF TrackInv, FilesKnown, Rows
<1>8. UpdatesTracked'
    BY <1>0, <1>2 DEF TrackInv, UpdatesTracked
<1>9. RowsOwned => RowsOwned'
    BY <1>0, <1>2 DEF RowsOwned, Rows
<1> QED BY <1>3, <1>4, <1>5, <1>6, <1>7, <1>8, <1>9 DEF TrackInv

\* After a statement nothing is in flight.
LEMMA ContinueFacts ==
    ASSUME BaseInv, WorkerStatement \/ WorkerFail
    PROVE  /\ worker.pc = "db" /\ worker'.pc = "next" /\ \A t : InFlight(t)' = {}
           /\ Type \in TaskTypes /\ ~Flying' /\ UNCHANGED <<phase, files, head>>
<1>1. /\ worker' = [worker EXCEPT !.pc = "next", !.slot = RingCap, !.cur = NoFile, !.stmt = NoFile]
      /\ worker.pc = "db" /\ UNCHANGED <<phase, files, head>>
    BY DEF WorkerStatement, WorkerFail, Continue, ring
<1>2. worker'.pc = "next" /\ worker.batch \in Seq(TaskTypes) /\ worker.batch # <<>>
    BY <1>1, TrackTypes DEF Worker, BaseInv, WorkerOK
<1>3. Type \in TaskTypes
    BY <1>2 DEF Type
<1> QED BY <1>1, <1>2, <1>3 DEF InFlight, Flying

\* What the worker's statement is about.
LEMMA StmtFacts ==
    ASSUME BaseInv, TrackInv, worker.pc = "db", Type \in TaskTypes
    PROVE  /\ worker.stmt.seq = worker.cur.seq /\ InFlight(Type) = {worker.cur.seq}
           /\ \A t : t # Type => InFlight(t) = {}
           /\ Type # "delete" => \/ worker.cur.seq \in Seqs(files)
                                 \/ worker.cur.seq \in ToSet(toDelete) /\ Behind(worker.cur.seq)
           /\ Type = "delete" => Behind(worker.cur.seq)
<1>1. InFlight(Type) = {worker.cur.seq} /\ \A t : t # Type => InFlight(t) = {}
    BY DEF InFlight
<1>2. Type # "delete" => \/ worker.cur.seq \in Seqs(files)
                         \/ worker.cur.seq \in ToSet(toDelete) /\ Behind(worker.cur.seq)
    BY DEF TrackInv, FlightKnown, GoneBehind, Flying
<1>3. Type = "delete" => Behind(worker.cur.seq)
    BY <1>1 DEF TrackInv, GoneBehind
<1> QED BY <1>1, <1>2, <1>3 DEF TrackInv, StmtOf

\* A statement succeeds: the row is the file's, or an update waits for it.
LEMMA TrackStatement ==
    ASSUME BaseInv, TrackInv, WorkerStatement
    PROVE  TrackInv' /\ (RowsOwned => RowsOwned')
<1> DEFINE c == worker.cur.seq
<1>0. /\ worker.pc = "db" /\ worker'.pc = "next" /\ \A t : InFlight(t)' = {}
      /\ Type \in TaskTypes /\ ~Flying' /\ UNCHANGED <<phase, files, head>>
    BY ContinueFacts
<1>m. UNCHANGED <<toCreate, toUpdate, toDelete>>
    BY DEF WorkerStatement, maps
<1>1. /\ worker.stmt.seq = c /\ InFlight(Type) = {c} /\ \A t : t # Type => InFlight(t) = {}
      /\ Type # "delete" => c \in Seqs(files) \/ (c \in ToSet(toDelete) /\ Behind(c))
      /\ Type = "delete" => Behind(c)
    BY <1>0, StmtFacts
<1>t. Seqs(files) \subseteq Nat /\ \A i \in DOMAIN files : files[i].seq \in Seqs(files)
    BY TrackTypes
<1> HIDE DEF c
<1>b. \A x : Behind(x)' <=> Behind(x)
    BY <1>0 DEF Behind
<1>o. \A r : r \in Others <=> r \in table /\ r.seq # c
    BY <1>1 DEF Others
<1>u. UniqueRows
    BY DEF TrackInv
<1>2. GoneBehind'
    BY <1>0, <1>b, <1>m DEF TrackInv, GoneBehind
<1>3. FlightKnown' /\ PointsAt' /\ StmtOf'
    BY <1>0 DEF FlightKnown, PointsAt, StmtOf
<1>4. CreateOnce'
    BY <1>0, <1>m DEF TrackInv, CreateOnce
<1>5. CASE Type = "create"
    <2>1. table' = table \union {worker.stmt} /\ \A r \in table : r.seq # c
        <3>1. table' = table \union {worker.stmt} /\ Others = table
            BY <1>5 DEF WorkerStatement
        <3> QED BY <1>o, <3>1
    <2>2. \A x : x \in Rows' <=> x \in Rows \/ x = c
        BY <1>1, <2>1 DEF Rows
    <2>3. UniqueRows'
        BY <1>1, <1>u, <2>1 DEF UniqueRows
    <2>4. RowsBehind'
        BY <1>0, <1>1, <1>5, <1>b, <2>2 DEF TrackInv, RowsBehind
    <2>5. NotYetRow'
        <3>1. \A n \in Live(toCreate) : n # c
            BY <1>1, <1>5, LiveOrDead DEF TrackInv, CreateOnce
        <3> QED BY <1>0, <1>m, <2>2, <3>1 DEF TrackInv, NotYetRow
    <2>6. FilesKnown'
        BY <1>0, <1>1, <1>5, <1>m, <2>2 DEF TrackInv, FilesKnown
    <2>7. UpdatesTracked'
        <3> SUFFICES ASSUME phase = "running", NEW r \in table', NEW j \in DOMAIN files,
                            files[j].seq = r.seq, files[j].ver # r.ver
                     PROVE  r.seq \in Live(toUpdate) \union Live(toCreate)
            BY <1>0, <1>m DEF UpdatesTracked
        <3>1. CASE r \in table
            BY <1>1, <1>5, <3>1 DEF TrackInv, UpdatesTracked
        <3>2. CASE r = worker.stmt
            BY <1>0, <1>1, <1>5, <3>2 DEF TrackInv, StmtOf, Flying, c
        <3> QED BY <2>1, <3>1, <3>2
    <2>8. RowsOwned => RowsOwned'
        <3>1. phase # "down" /\ RowsOwned => \A x \in Rows : x \in Seqs(files) \union ToSet(toDelete)
            BY <1>1, <1>5 DEF RowsOwned
        <3> QED BY <1>0, <1>1, <1>5, <1>m, <2>2, <3>1 DEF RowsOwned
    <2> QED BY <1>2, <1>3, <1>4, <2>3, <2>4, <2>5, <2>6, <2>7, <2>8 DEF TrackInv
<1>6. CASE Type = "update"
    <2>1. table' = IF Others = table THEN table ELSE Others \union {worker.stmt}
        BY <1>6 DEF WorkerStatement
    <2>2. \A r \in table' : (r \in table /\ r.seq # c) \/ r = worker.stmt
        <3>1. CASE Others = table
            BY <1>o, <2>1, <3>1
        <3>2. CASE Others # table
            BY <1>o, <2>1, <3>2
        <3> QED BY <3>1, <3>2
    <2>3. \A x : x \in Rows' <=> x \in Rows
        <3>1. CASE Others = table
            BY <2>1, <3>1 DEF Rows
        <3>2. CASE Others # table
            <4>1. table' = Others \union {worker.stmt}
                BY <2>1, <3>2
            <4>2. \E r \in table : r.seq = c
                BY <1>o, <3>2
            <4> QED BY <1>1, <1>o, <4>1, <4>2 DEF Rows
        <3> QED BY <3>1, <3>2
    <2>4. UniqueRows'
        BY <1>1, <1>u, <2>2 DEF UniqueRows
    <2>5. RowsBehind' /\ NotYetRow'
        BY <1>0, <1>b, <1>m, <2>3 DEF TrackInv, RowsBehind, NotYetRow
    <2>6. FilesKnown'
        BY <1>0, <1>1, <1>6, <1>m, <2>3 DEF TrackInv, FilesKnown
    <2>7. UpdatesTracked'
        <3> SUFFICES ASSUME phase = "running", NEW r \in table', NEW j \in DOMAIN files,
                            files[j].seq = r.seq, files[j].ver # r.ver
                     PROVE  r.seq \in Live(toUpdate) \union Live(toCreate)
            BY <1>0, <1>m DEF UpdatesTracked
        <3>1. CASE r \in table /\ r.seq # c
            BY <1>1, <1>6, <3>1 DEF TrackInv, UpdatesTracked
        <3>2. CASE r = worker.stmt
            BY <1>0, <1>1, <1>6, <3>2 DEF TrackInv, StmtOf, Flying, c
        <3> QED BY <2>2, <3>1, <3>2
    <2>8. RowsOwned => RowsOwned'
        BY <1>0, <1>1, <1>6, <1>m, <2>3 DEF RowsOwned
    <2> QED BY <1>2, <1>3, <1>4, <2>4, <2>5, <2>6, <2>7, <2>8 DEF TrackInv
<1>7. CASE Type = "delete"
    <2>1. table' = Others
        BY <1>7 DEF WorkerStatement
    <2>2. \A x : x \in Rows' <=> x \in Rows /\ x # c
        BY <1>o, <2>1 DEF Rows
    <2>3. c \notin Seqs(files)
        BY <1>1, <1>7 DEF Behind
    <2>4. UniqueRows'
        BY <1>o, <1>u, <2>1 DEF UniqueRows
    <2>5. RowsBehind' /\ NotYetRow'
        BY <1>0, <1>b, <1>m, <2>2 DEF TrackInv, RowsBehind, NotYetRow
    <2>6. FilesKnown'
        BY <1>0, <1>1, <1>7, <1>m, <2>2, <2>3 DEF TrackInv, FilesKnown
    <2>7. UpdatesTracked'
        BY <1>0, <1>1, <1>7, <1>m, <1>o, <2>1 DEF TrackInv, UpdatesTracked
    <2>8. RowsOwned => RowsOwned'
        BY <1>0, <1>1, <1>7, <1>m, <2>2 DEF RowsOwned
    <2> QED BY <1>2, <1>3, <1>4, <2>4, <2>5, <2>6, <2>7, <2>8 DEF TrackInv
<1> QED BY <1>0, <1>5, <1>6, <1>7 DEF TaskTypes

\* A statement fails: its entry goes back, if its file is still there.
LEMMA TrackFail ==
    ASSUME BaseInv, TrackInv, WorkerFail
    PROVE  TrackInv' /\ (RowsOwned => RowsOwned')
<1> DEFINE c == worker.cur.seq
<1>0. /\ worker.pc = "db" /\ worker'.pc = "next" /\ \A t : InFlight(t)' = {}
      /\ Type \in TaskTypes /\ ~Flying' /\ UNCHANGED <<phase, files, head>>
    BY ContinueFacts
<1>1. /\ InFlight(Type) = {c} /\ \A t : t # Type => InFlight(t) = {}
      /\ Type # "delete" => c \in Seqs(files) \/ (c \in ToSet(toDelete) /\ Behind(c))
      /\ Type = "delete" => Behind(c)
    BY <1>0, StmtFacts
<1>t. /\ toCreate \in Seq(Entry) /\ toUpdate \in Seq(Entry) /\ toDelete \in Seq(Nat) /\ c \in Nat
      /\ Seqs(files) \subseteq Nat /\ \A i \in DOMAIN files : files[i].seq \in Seqs(files)
    BY TrackTypes
<1>2. /\ table' = table
      /\ toCreate' = IF Type = "create" THEN Retried(toCreate, c) ELSE toCreate
      /\ toUpdate' = IF Type = "update" THEN Retried(toUpdate, c) ELSE toUpdate
      /\ toDelete' = IF Type = "delete" THEN PutKeys(toDelete, {c}) ELSE toDelete
    BY DEF WorkerFail
<1> HIDE DEF c
<1>b. \A x : Behind(x)' <=> Behind(x)
    BY <1>0 DEF Behind
<1>d. Distinct(toCreate) /\ InFlight("create") \intersect Seqs(toCreate) = {}
    BY DEF TrackInv, CreateOnce
<1>3. /\ Distinct(toCreate') /\ Dead(toCreate') = Dead(toCreate)
      /\ Live(toCreate) \subseteq Live(toCreate')
      /\ Live(toCreate') \subseteq Live(toCreate) \union InFlight("create")
      /\ \A x \in InFlight("create") : x \in Seqs(files) => x \in Live(toCreate')
    <2>1. CASE Type = "create" /\ c \in Seqs(files)
        <3>1. toCreate' = PutIfAbsent(toCreate, c) /\ InFlight("create") = {c} /\ c \notin Seqs(toCreate)
            BY <1>1, <1>2, <1>d, <2>1 DEF Retried
        <3> QED BY <1>d, <1>t, <3>1, PutIfAbsentKeySets
    <2>2. CASE Type = "create" /\ c \notin Seqs(files)
        BY <1>1, <1>2, <1>d, <2>2 DEF Retried
    <2>3. CASE Type # "create"
        BY <1>1, <1>2, <1>d, <2>3
    <2> QED BY <2>1, <2>2, <2>3
<1>4. /\ Dead(toUpdate') = Dead(toUpdate)
      /\ Live(toUpdate) \subseteq Live(toUpdate')
      /\ \A x \in InFlight("update") : x \in Seqs(files) => x \in Live(toUpdate')
    <2>1. CASE Type = "update" /\ c \in Seqs(files)
        <3>1. toUpdate' = PutIfAbsent(toUpdate, c) /\ InFlight("update") = {c}
            BY <1>1, <1>2, <2>1 DEF Retried
        <3>2. c \notin Dead(toUpdate)
            BY <1>t, <2>1 DEF TrackInv, GoneBehind, Behind
        <3>3. c \in Seqs(toUpdate) => c \in Live(toUpdate)
            BY <3>2, LiveOrDead
        <3> QED BY <1>t, <3>1, <3>3, PutIfAbsentKeySets
    <2>2. CASE Type = "update" /\ c \notin Seqs(files)
        BY <1>1, <1>2, <2>2 DEF Retried
    <2>3. CASE Type # "update"
        BY <1>1, <1>2, <2>3
    <2> QED BY <2>1, <2>2, <2>3
<1>5. ToSet(toDelete') = ToSet(toDelete) \union InFlight("delete")
    <2>1. CASE Type = "delete"
        <3>1. {c} \in SUBSET Nat /\ IsFiniteSet({c})
            BY <1>t, FS_Singleton
        <3> QED BY <1>1, <1>2, <1>t, <2>1, <3>1, PutKeysFacts
    <2>2. CASE Type # "delete"
        BY <1>1, <1>2, <2>2
    <2> QED BY <2>1, <2>2
<1>6. UniqueRows' /\ RowsBehind' /\ NotYetRow'
    BY <1>0, <1>2, <1>3, <1>b DEF TrackInv, UniqueRows, RowsBehind, NotYetRow, Rows
<1>7. GoneBehind' /\ CreateOnce'
    BY <1>0, <1>3, <1>4, <1>5, <1>b DEF TrackInv, GoneBehind, CreateOnce
<1>8. FlightKnown' /\ PointsAt' /\ StmtOf'
    BY <1>0 DEF FlightKnown, PointsAt, StmtOf
<1>9. FilesKnown'
    BY <1>0, <1>2, <1>3 DEF TrackInv, FilesKnown, Rows
<1>10. UpdatesTracked'
    <2> SUFFICES ASSUME phase = "running", NEW r \in table, NEW j \in DOMAIN files,
                        files[j].seq = r.seq, files[j].ver # r.ver
                 PROVE  r.seq \in Live(toUpdate') \union Live(toCreate')
        BY <1>0, <1>2 DEF UpdatesTracked
    <2>1. r.seq \in Live(toUpdate) \union Live(toCreate) \union InFlight("update")
        BY DEF TrackInv, UpdatesTracked
    <2> QED BY <1>3, <1>4, <1>t, <2>1
<1>11. RowsOwned => RowsOwned'
    BY <1>0, <1>2, <1>5 DEF RowsOwned, Rows
<1> QED BY <1>6, <1>7, <1>8, <1>9, <1>10, <1>11 DEF TrackInv

\* A crash leaves the rows only.
LEMMA TrackCrash ==
    ASSUME BaseInv, TrackInv, Crash
    PROVE  TrackInv' /\ RowsOwned'
<1>1. /\ table' = table /\ phase' = "down" /\ files' = <<>> /\ toCreate' = <<>> /\ toUpdate' = <<>>
      /\ toDelete' = <<>> /\ worker'.pc = "idle"
    BY DEF Crash, Empty, Idle
<1>2. /\ \A t : InFlight(t)' = {}
      /\ ~Flying'
    BY <1>1 DEF InFlight, Flying
<1>3. /\ Live(toCreate') = {} /\ Dead(toCreate') = {} /\ Dead(toUpdate') = {} /\ ToSet(toDelete') = {}
      /\ Distinct(toCreate') /\ Seqs(files') = {}
    BY <1>1 DEF Live, Dead, Seqs, Distinct, ToSet
<1>4. UniqueRows' /\ RowsBehind' /\ GoneBehind' /\ CreateOnce' /\ NotYetRow'
    BY <1>1, <1>2, <1>3 DEF TrackInv, UniqueRows, RowsBehind, GoneBehind, CreateOnce, NotYetRow
<1>5. FlightKnown' /\ PointsAt' /\ StmtOf' /\ FilesKnown' /\ UpdatesTracked' /\ RowsOwned'
    BY <1>1, <1>2 DEF FlightKnown, PointsAt, StmtOf, FilesKnown, UpdatesTracked, RowsOwned
<1> QED BY <1>4, <1>5 DEF TrackInv

\* loadFiles: every file it reads is its row.
LEMMA TrackLoad ==
    ASSUME BaseInv, TaskInv, TrackInv, LoadFiles
    PROVE  TrackInv' /\ (AllLoaded => RowsOwned')
<1>1. /\ table' = table /\ phase = "down" /\ phase' = "running" /\ toCreate' = <<>> /\ toUpdate' = <<>>
      /\ toDelete' = <<>> /\ worker' = worker /\ worker.pc = "idle"
    BY DEF LoadFiles, TaskInv
<1>2. /\ \A t : InFlight(t)' = {}
      /\ ~Flying'
    BY <1>1 DEF InFlight, Flying
<1>3. /\ Live(toCreate') = {} /\ Dead(toCreate') = {} /\ Dead(toUpdate') = {} /\ ToSet(toDelete') = {}
      /\ Distinct(toCreate')
    BY <1>1 DEF Live, Dead, Seqs, Distinct, ToSet
<1>4. /\ \A i \in DOMAIN files' : files'[i] \in table
      /\ \A r \in table : \/ r.seq \in Seqs(files')
                          \/ files' # <<>> /\ \A i \in DOMAIN files' : r.seq < files'[i].seq
      /\ Cardinality({r.seq : r \in table}) <= RingCap => \A r \in table : r.seq \in Seqs(files')
    BY LoadFacts DEF BaseInv
<1>5. \A r \in table : r.seq \in Nat
    BY DEF BaseInv, FilesTypeOK, File
<1>6. RowsBehind'
    BY <1>1, <1>4, <1>5 DEF RowsBehind, Rows, Behind, Seqs
<1>7. UniqueRows' /\ GoneBehind' /\ CreateOnce' /\ NotYetRow'
    BY <1>1, <1>2, <1>3 DEF TrackInv, UniqueRows, GoneBehind, CreateOnce, NotYetRow
<1>8. FlightKnown' /\ PointsAt' /\ StmtOf'
    BY <1>1, <1>2 DEF FlightKnown, PointsAt, StmtOf
<1>9. FilesKnown'
    BY <1>1, <1>4 DEF FilesKnown, Rows, Seqs
<1>10. UpdatesTracked'
    BY <1>1, <1>4 DEF UpdatesTracked, TrackInv, UniqueRows
<1>11. AllLoaded => RowsOwned'
    BY <1>1, <1>4 DEF AllLoaded, RowsOwned, Rows
<1> QED BY <1>6, <1>7, <1>8, <1>9, <1>10, <1>11 DEF TrackInv

\* The initial state tracks everything: there is nothing.
LEMMA TrackInit ==
    ASSUME FInit
    PROVE  TrackInv /\ RowsOwned
<1>1. /\ table = {} /\ phase = "down" /\ files = <<>> /\ toCreate = <<>> /\ toUpdate = <<>>
      /\ toDelete = <<>> /\ worker.pc = "idle"
    BY DEF FInit, Idle
<1>2. (\A t : InFlight(t) = {}) /\ ~Flying
    BY <1>1 DEF InFlight, Flying
<1>3. /\ Live(toCreate) = {} /\ Dead(toCreate) = {} /\ Dead(toUpdate) = {} /\ ToSet(toDelete) = {}
      /\ Distinct(toCreate)
    BY <1>1 DEF Live, Dead, Seqs, Distinct, ToSet
<1>4. UniqueRows /\ RowsBehind /\ GoneBehind /\ CreateOnce /\ NotYetRow
    BY <1>1, <1>2, <1>3 DEF UniqueRows, RowsBehind, GoneBehind, CreateOnce, NotYetRow
<1>5. FlightKnown /\ PointsAt /\ StmtOf /\ FilesKnown /\ UpdatesTracked /\ RowsOwned
    BY <1>1, <1>2 DEF FlightKnown, PointsAt, StmtOf, FilesKnown, UpdatesTracked, RowsOwned
<1> QED BY <1>4, <1>5 DEF TrackInv

\* Every step that does not reuse the worker's slot keeps track.
LEMMA TrackStep ==
    ASSUME BaseInv, TaskInv, TrackInv, [FNext]_fvars, [SlotKept]_fvars, ~DeleteLast
    PROVE  TrackInv' /\ (RowsOwned /\ [AllLoaded]_fvars => RowsOwned')
<1>1. CASE UNCHANGED fvars
    <2>1. UNCHANGED <<phase, table, files, head, toCreate, toUpdate, toDelete, worker>>
        BY <1>1 DEF fvars, ring, maps
    <2>2. (\A t : InFlight(t)' = InFlight(t)) /\ Flying' = Flying
        BY <2>1 DEF InFlight, Flying, Type
    <2>3. UniqueRows' /\ RowsBehind' /\ GoneBehind' /\ CreateOnce' /\ NotYetRow' /\ FilesKnown'
        BY <2>1, <2>2 DEF TrackInv, UniqueRows, RowsBehind, GoneBehind, CreateOnce, NotYetRow, FilesKnown,
                          Rows, Behind
    <2>4. FlightKnown' /\ PointsAt' /\ StmtOf' /\ UpdatesTracked'
        BY <2>1, <2>2 DEF TrackInv, FlightKnown, PointsAt, StmtOf, UpdatesTracked, Slot
    <2>5. RowsOwned => RowsOwned'
        BY <2>1, <2>2 DEF RowsOwned, Rows
    <2> QED BY <2>3, <2>4, <2>5 DEF TrackInv
<1>2. CASE FNext /\ ~UNCHANGED fvars
    <2>0. SlotKept /\ worker \in Worker
        BY <1>2 DEF BaseInv, FilesTypeOK
    <2>1. CASE AddFile
        BY <2>0, <2>1, TrackAddFile
    <2>2. ASSUME NEW seq \in 1..MaxFileSeq, UpdateFile(seq) \/ DeleteFile(seq)
          PROVE  TrackInv' /\ (RowsOwned => RowsOwned')
        BY <2>0, <2>2, TrackUpdateFile, TrackDeleteFile
    <2>3. CASE WorkerTake
        <3>1. worker'.pc = "take"
            BY <2>0, <2>3 DEF WorkerTake, Worker
        <3> QED BY <2>3, <3>1, TrackQuiet DEF WorkerTake
    <2>4. CASE WorkerBatch
        <3>1. worker'.pc = "count"
            BY <2>0, <2>4 DEF WorkerBatch, Worker
        <3> QED BY <2>4, <3>1, TrackQuiet DEF WorkerBatch
    <2>5. CASE WorkerCount
        <3>1. worker'.pc \in {"idle", "next"}
            BY <2>0, <2>5 DEF WorkerCount, Idle, Worker
        <3> QED BY <2>5, <3>1, TrackQuiet DEF WorkerCount
    <2>6. CASE WorkerNext
        <3>1. CASE worker.left = 0
            <4>1. worker'.pc = "count" /\ UNCHANGED maps
                BY <2>0, <2>6, <3>1 DEF WorkerNext, Worker
            <4> QED BY <2>6, <4>1, TrackQuiet DEF WorkerNext
        <3>2. CASE worker.left # 0
            BY <2>6, <3>2, TrackNext
        <3> QED BY <3>1, <3>2
    <2>7. CASE WorkerBuild \/ WorkerStatement \/ WorkerFail
        BY <2>7, TrackBuild, TrackStatement, TrackFail
    <2>8. CASE Shutdown
        <3>1. worker'.pc = "count"
            BY <2>8 DEF Shutdown, Idle
        <3> QED BY <2>8, <3>1, TrackQuiet DEF Shutdown
    <2>9. CASE Crash
        BY <2>9, TrackCrash
    <2>10. CASE LoadFiles
        BY <1>2, <2>10, TrackLoad
    <2> QED BY <1>2, <2>1, <2>2, <2>3, <2>4, <2>5, <2>6, <2>7, <2>8, <2>9, <2>10 DEF FNext, Work
<1> QED BY <1>1, <1>2

\* No UpdateFile is lost, for every size of the ring, with failing statements,
\* crashes and restarts, as long as retention leaves the newest file alone and
\* the ring is large enough that AddFile never reuses the slot the worker's
\* pointer shows.
THEOREM UpdatesAreTracked == ~DeleteLast /\ FSpec /\ [][SlotKept]_fvars => []UpdatesTracked
<1> SUFFICES ASSUME ~DeleteLast
             PROVE  FSpec /\ [][SlotKept]_fvars => []UpdatesTracked
    OBVIOUS
<1>1. FInit => BaseInv /\ TaskInv /\ TrackInv
    BY BaseInit, TrackInit
<1>2. BaseInv /\ TaskInv /\ TrackInv /\ [FNext]_fvars /\ [SlotKept]_fvars
      => (BaseInv /\ TaskInv /\ TrackInv)'
    BY BaseStep, TrackStep
<1>3. TrackInv => UpdatesTracked
    BY DEF TrackInv
<1> QED BY <1>1, <1>2, <1>3, PTL DEF FSpec

\* Every file of the ring is in the table or on its way, and no row is without
\* owner, under the same conditions and if loadFiles has room for every row.
THEOREM FilesAreTracked == ~DeleteLast /\ FSpec /\ [][SlotKept /\ AllLoaded]_fvars => []FilesTracked
<1> SUFFICES ASSUME ~DeleteLast
             PROVE  FSpec /\ [][SlotKept /\ AllLoaded]_fvars => []FilesTracked
    OBVIOUS
<1>1. FInit => BaseInv /\ TaskInv /\ TrackInv /\ RowsOwned
    BY BaseInit, TrackInit
<1>2. BaseInv /\ TaskInv /\ TrackInv /\ RowsOwned /\ [FNext]_fvars /\ [SlotKept /\ AllLoaded]_fvars
      => (BaseInv /\ TaskInv /\ TrackInv /\ RowsOwned)'
    BY BaseStep, TrackStep
<1>3. TrackInv /\ RowsOwned => FilesTracked
    BY DEF TrackInv, FilesKnown, RowsOwned, Rows, FilesTracked
<1> QED BY <1>1, <1>2, <1>3, PTL DEF FSpec
=============================================================================
