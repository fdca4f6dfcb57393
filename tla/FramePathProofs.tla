-------------------------- MODULE FramePathProofs --------------------------
(***************************************************************************)
(* RefsExact and GopsWhole, for any number of frames, pushers and streams. *)
(*                                                                         *)
(* A count has two parts: the direct references (the received queue, the   *)
(* GOP, the queues and the sending of the pushers, the hand of the         *)
(* handler), and one for a frame whose packed frame is still alive.  The   *)
(* invariant keeps them apart, because the last direct reference to a      *)
(* packed frame, wherever it is given up, takes two of the second kind     *)
(* with it.  It also has to say that no frame is packed twice, or the      *)
(* second packing would refer to its frames once too often.                *)
(***************************************************************************)
EXTENDS FramePath, FiniteSetTheorems, TLAPS

\* The numbers of the frames.
Numbers == 1..MaxFrames

\* A condition as a number.
One(b) == IF b THEN 1 ELSE 0

\* The places of an object in a sequence.
Positions(o, s) == {i \in DOMAIN s : s[i] = o}

\* Occurrences in a sequence are finitely many.
LEMMA CountType ==
    ASSUME NEW n \in Nat, NEW s, DOMAIN s = 1..n, NEW o
    PROVE  IsFiniteSet(Positions(o, s)) /\ CountOf(o, s) \in Nat /\ CountOf(o, s) = Cardinality(Positions(o, s))
<1>1. IsFiniteSet(1..n)
    BY FS_Interval
<1>2. Positions(o, s) \in SUBSET (1..n)
    BY DEF Positions
<1>3. IsFiniteSet(Positions(o, s))
    BY <1>1, <1>2, FS_Subset
<1>4. CountOf(o, s) = Cardinality(Positions(o, s))
    BY DEF CountOf, Positions
<1> QED
    BY <1>3, <1>4, FS_CardinalityType

\* Nothing occurs in an empty sequence.
LEMMA CountEmpty ==
    ASSUME NEW s, DOMAIN s = {}, NEW o
    PROVE  CountOf(o, s) = 0
<1>1. {i \in DOMAIN s : s[i] = o} = {}
    OBVIOUS
<1> QED
    BY <1>1, FS_EmptySet DEF CountOf

\* One element more at the end.
LEMMA CountGrown ==
    ASSUME NEW n \in Nat, NEW a, NEW b, DOMAIN a = 1..n, DOMAIN b = 1..(n + 1),
           \A i \in 1..n : b[i] = a[i], NEW o
    PROVE  CountOf(o, b) = CountOf(o, a) + One(b[n + 1] = o)
<1> DEFINE A == Positions(o, a)
           B == Positions(o, b)
<1>1. IsFiniteSet(A) /\ Cardinality(A) \in Nat /\ CountOf(o, a) = Cardinality(A)
    BY CountType
<1>2. n + 1 \in Nat
    OBVIOUS
<1>3. CountOf(o, b) = Cardinality(B)
    BY <1>2, CountType
<1>4. n + 1 \notin A
    BY DEF Positions
<1>5. CASE b[n + 1] = o
    <2>1. B = A \cup {n + 1}
        BY <1>5 DEF Positions
    <2>2. Cardinality(B) = Cardinality(A) + 1
        BY <1>1, <1>4, <2>1, FS_AddElement
    <2> QED
        BY <1>1, <1>3, <1>5, <2>2 DEF One
<1>6. CASE b[n + 1] # o
    <2>1. B = A
        BY <1>6 DEF Positions
    <2>2. One(b[n + 1] = o) = 0
        BY <1>6 DEF One
    <2> HIDE DEF A, B
    <2> QED
        BY <1>1, <1>3, <2>1, <2>2
<1> QED
    BY <1>5, <1>6

\* A single element.
LEMMA CountOne ==
    ASSUME NEW x, NEW o
    PROVE  CountOf(o, <<x>>) = One(x = o)
<1> DEFINE B == {i \in DOMAIN <<x>> : <<x>>[i] = o}
<1>0. DOMAIN <<x>> = {1} /\ <<x>>[1] = x
    OBVIOUS
<1>1. CASE x = o
    <2>1. B = {1}
        BY <1>0, <1>1
    <2> QED
        BY <1>1, <2>1, FS_Singleton DEF CountOf, One
<1>2. CASE x # o
    <2>1. B = {}
        BY <1>0, <1>2
    <2> QED
        BY <1>2, <2>1, FS_EmptySet DEF CountOf, One
<1> QED
    BY <1>1, <1>2

\* One element more at the front.
LEMMA CountShifted ==
    ASSUME NEW n \in Nat, NEW a, NEW b, DOMAIN a = 1..n, DOMAIN b = 1..(n + 1),
           \A i \in 1..n : a[i] = b[i + 1], NEW o
    PROVE  CountOf(o, b) = CountOf(o, a) + One(b[1] = o)
<1> DEFINE A == Positions(o, a)
           B == Positions(o, b)
           C == B \ {1}
           f == [i \in C |-> i - 1]
<1>1. CountOf(o, a) = Cardinality(A)
    BY CountType
<1>2. n + 1 \in Nat
    OBVIOUS
<1>3. IsFiniteSet(B) /\ Cardinality(B) \in Nat /\ CountOf(o, b) = Cardinality(B)
    BY <1>2, CountType
<1>4. IsFiniteSet(C) /\ Cardinality(C) = Cardinality(B) - One(b[1] = o)
    <2>1. 1 \in B <=> b[1] = o
        BY DEF Positions
    <2> HIDE DEF B
    <2> QED
        BY <1>3, <2>1, FS_RemoveElement DEF One
<1>5. /\ \A i : i \in C <=> i \in 2..(n + 1) /\ b[i] = o
      /\ \A i : i \in A <=> i \in 1..n /\ b[i + 1] = o
    BY DEF Positions
<1> HIDE DEF A, B, C
<1>6. f \in Bijection(C, A)
    <2>1. f \in [C -> A]
        BY <1>5
    <2>2. \A i, j \in C : f[i] = f[j] => i = j
        BY <1>5
    <2>3. \A j \in A : \E i \in C : f[i] = j
        <3> SUFFICES ASSUME NEW j \in A PROVE \E i \in C : f[i] = j
            OBVIOUS
        <3>1. j + 1 \in C /\ f[j + 1] = j
            BY <1>5
        <3> QED
            BY <3>1
    <2> HIDE DEF f
    <2> QED
        BY ONLY <2>1, <2>2, <2>3 DEF Bijection, Injection, Surjection, IsInjective
<1>7. ExistsBijection(C, A)
    BY ONLY <1>6 DEF ExistsBijection
<1>8. Cardinality(A) = Cardinality(C)
    BY ONLY <1>4, <1>7, FS_Bijection
<1>9. One(b[1] = o) \in {0, 1}
    BY DEF One
<1> QED
    BY <1>1, <1>3, <1>4, <1>8, <1>9

-----------------------------------------------------------------------------

\* The objects of some frames and of one more.
LEMMA CountEachAppend ==
    ASSUME NEW kind, NEW N, NEW fs \in Seq(N), NEW o, NEW f \in N
    PROVE  CountOf(o, Each(kind, Append(fs, f))) = CountOf(o, Each(kind, fs)) + One(<<kind, f>> = o)
<1> DEFINE e == Each(kind, fs)
           n == Len(fs)
<1>1. n \in Nat /\ DOMAIN e = 1..n /\ \A i \in 1..n : e[i] = <<kind, fs[i]>>
    BY DEF Each
<1> DEFINE b == Each(kind, Append(fs, f))
<1>5. DOMAIN b = 1..(n + 1) /\ (\A i \in 1..(n + 1) : b[i] = <<kind, Append(fs, f)[i]>>)
    BY DEF Each
<1>6. b[n + 1] = <<kind, f>> /\ \A i \in 1..n : b[i] = e[i]
    BY <1>1, <1>5
<1> HIDE DEF e, b, n
<1>7. CountOf(o, b) = CountOf(o, e) + One(b[n + 1] = o)
    <2>1. n \in Nat /\ DOMAIN e = 1..n /\ DOMAIN b = 1..(n + 1) /\ \A i \in 1..n : b[i] = e[i]
        BY <1>1, <1>5, <1>6
    <2> QED
        BY ONLY <2>1, CountGrown
<1> QED
    BY <1>6, <1>7 DEF b, e

\* The objects of one kind of some frames: they are counted frame by frame.
LEMMA CountEach ==
    ASSUME NEW kind, NEW N, NEW fs \in Seq(N), NEW o
    PROVE  /\ CountOf(o, Each(kind, fs)) \in Nat
           /\ CountOf(o, Each(kind, <<>>)) = 0
           /\ \A f \in N : CountOf(o, Each(kind, Append(fs, f))) = CountOf(o, Each(kind, fs)) + One(<<kind, f>> = o)
           /\ fs # <<>> => CountOf(o, Each(kind, fs)) = CountOf(o, Each(kind, Tail(fs))) + One(<<kind, Head(fs)>> = o)
<1> DEFINE e == Each(kind, fs)
           n == Len(fs)
<1>1. n \in Nat /\ DOMAIN e = 1..n /\ \A i \in 1..n : e[i] = <<kind, fs[i]>>
    BY DEF Each
<1>2. CountOf(o, e) \in Nat
    BY <1>1, CountType
<1>3. CountOf(o, Each(kind, <<>>)) = 0
    <2>1. DOMAIN Each(kind, <<>>) = {}
        BY DEF Each
    <2> QED
        BY <2>1, CountEmpty
<1>4. ASSUME NEW f \in N
      PROVE  CountOf(o, Each(kind, Append(fs, f))) = CountOf(o, e) + One(<<kind, f>> = o)
    BY CountEachAppend
<1>5. ASSUME fs # <<>>
      PROVE  CountOf(o, e) = CountOf(o, Each(kind, Tail(fs))) + One(<<kind, Head(fs)>> = o)
    <2> DEFINE a == Each(kind, Tail(fs))
               m == n - 1
    <2>1. m \in Nat /\ n = m + 1 /\ DOMAIN Tail(fs) = 1..m /\ Head(fs) = fs[1] /\ \A i \in 1..m : Tail(fs)[i] = fs[i + 1]
        BY <1>5
    <2>2. DOMAIN a = 1..m /\ \A i \in 1..m : a[i] = <<kind, fs[i + 1]>>
        BY <2>1 DEF Each
    <2>3. (\A i \in 1..m : a[i] = e[i + 1]) /\ e[1] = <<kind, Head(fs)>> /\ DOMAIN e = 1..(m + 1)
        BY <1>1, <2>1, <2>2
    <2> HIDE DEF e, a, m, n
    <2>4. CountOf(o, e) = CountOf(o, a) + One(e[1] = o)
        <3>1. m \in Nat /\ DOMAIN a = 1..m /\ DOMAIN e = 1..(m + 1) /\ \A i \in 1..m : a[i] = e[i + 1]
            BY <2>1, <2>2, <2>3
        <3> QED
            BY ONLY <3>1, CountShifted
    <2> QED
        BY <2>3, <2>4 DEF a
<1> QED
    BY <1>2, <1>3, <1>4, <1>5

\* The objects of a queue with one entry more.
LEMMA CountObjectsAppend ==
    ASSUME NEW N, NEW q \in Seq(N), NEW o, NEW f \in N
    PROVE  CountOf(o, ObjectsOf(Append(q, f))) = CountOf(o, ObjectsOf(q)) + One(f.object = o)
<1> DEFINE e == ObjectsOf(q)
           n == Len(q)
<1>1. n \in Nat /\ DOMAIN e = 1..n /\ \A i \in 1..n : e[i] = q[i].object
    BY DEF ObjectsOf
<1> DEFINE b == ObjectsOf(Append(q, f))
<1>5. DOMAIN b = 1..(n + 1) /\ (\A i \in 1..(n + 1) : b[i] = Append(q, f)[i].object)
    BY DEF ObjectsOf
<1>6. b[n + 1] = f.object /\ \A i \in 1..n : b[i] = e[i]
    BY <1>1, <1>5
<1> HIDE DEF e, b, n
<1>7. CountOf(o, b) = CountOf(o, e) + One(b[n + 1] = o)
    <2>1. n \in Nat /\ DOMAIN e = 1..n /\ DOMAIN b = 1..(n + 1) /\ \A i \in 1..n : b[i] = e[i]
        BY <1>1, <1>5, <1>6
    <2> QED
        BY ONLY <2>1, CountGrown
<1> QED
    BY <1>6, <1>7 DEF b, e

\* The objects of a queue are counted entry by entry.
LEMMA CountObjects ==
    ASSUME NEW N, NEW q \in Seq(N), NEW o
    PROVE  /\ CountOf(o, ObjectsOf(q)) \in Nat
           /\ CountOf(o, ObjectsOf(<<>>)) = 0
           /\ \A e \in N : CountOf(o, ObjectsOf(Append(q, e))) = CountOf(o, ObjectsOf(q)) + One(e.object = o)
           /\ q # <<>> => CountOf(o, ObjectsOf(q)) = CountOf(o, ObjectsOf(Tail(q))) + One(Head(q).object = o)
<1> DEFINE e == ObjectsOf(q)
           n == Len(q)
<1>1. n \in Nat /\ DOMAIN e = 1..n /\ \A i \in 1..n : e[i] = q[i].object
    BY DEF ObjectsOf
<1>2. CountOf(o, e) \in Nat
    BY <1>1, CountType
<1>3. CountOf(o, ObjectsOf(<<>>)) = 0
    <2>1. DOMAIN ObjectsOf(<<>>) = {}
        BY DEF ObjectsOf
    <2> QED
        BY <2>1, CountEmpty
<1>4. ASSUME NEW f \in N
      PROVE  CountOf(o, ObjectsOf(Append(q, f))) = CountOf(o, e) + One(f.object = o)
    BY CountObjectsAppend
<1>5. ASSUME q # <<>>
      PROVE  CountOf(o, e) = CountOf(o, ObjectsOf(Tail(q))) + One(Head(q).object = o)
    <2> DEFINE a == ObjectsOf(Tail(q))
               m == n - 1
    <2>1. m \in Nat /\ n = m + 1 /\ DOMAIN Tail(q) = 1..m /\ Head(q) = q[1] /\ \A i \in 1..m : Tail(q)[i] = q[i + 1]
        BY <1>5
    <2>2. DOMAIN a = 1..m /\ \A i \in 1..m : a[i] = q[i + 1].object
        BY <2>1 DEF ObjectsOf
    <2>3. (\A i \in 1..m : a[i] = e[i + 1]) /\ e[1] = Head(q).object /\ DOMAIN e = 1..(m + 1)
        BY <1>1, <2>1, <2>2
    <2> HIDE DEF e, a, m, n
    <2>4. CountOf(o, e) = CountOf(o, a) + One(e[1] = o)
        <3>1. m \in Nat /\ DOMAIN a = 1..m /\ DOMAIN e = 1..(m + 1) /\ \A i \in 1..m : a[i] = e[i + 1]
            BY <2>1, <2>2, <2>3
        <3> QED
            BY ONLY <3>1, CountShifted
    <2> QED
        BY <2>3, <2>4 DEF a
<1> QED
    BY <1>2, <1>3, <1>4, <1>5

\* A frame has three objects, and the packed one relates to the other two.
LEMMA ObjectFacts ==
    /\ \A o \in Objects : /\ o[2] \in Numbers /\ Out(o[2]) \in Objects /\ Out(o[2])[1] = "out"
                          /\ o[1] = "out" => Out(o[2]) = o
    /\ \A f \in Numbers : /\ Rtp(f) \in Objects /\ Ps(f) \in Objects /\ Out(f) \in Objects
                          /\ Rtp(f) # Ps(f) /\ Rtp(f) # Out(f) /\ Ps(f) # Out(f)
                          /\ Rtp(f)[1] = "rtp" /\ Ps(f)[1] = "ps" /\ Out(f)[1] = "out"
                          /\ Rtp(f)[2] = f /\ Ps(f)[2] = f /\ Out(f)[2] = f
BY DEF Objects, Numbers, Rtp, Ps, Out

\* What a count is made of: b[o] is the number of direct references.
Exact(r, b) ==
    /\ r \in [Objects -> Int]
    /\ b \in [Objects -> Nat]
    /\ \A o \in Objects : r[o] = b[o] + One(Related(r, o))

\* What ReleaseAll makes of one count.
LEMMA ReleasedValue ==
    ASSUME NEW r, NEW objs, NEW o \in Objects
    PROVE  ReleaseAll(r, objs)[o] =
             IF o[1] # "out" /\ r[Out(o[2])] > 0 /\ r[Out(o[2])] - CountOf(Out(o[2]), objs) = 0
             THEN r[o] - CountOf(o, objs) - 1 ELSE r[o] - CountOf(o, objs)
BY DEF ReleaseAll

\* Releasing what direct references there are keeps the counts exact, also when a
\* packed frame ends with them and lets go of the frames it relates to.
LEMMA ReleaseExact ==
    ASSUME NEW r, NEW b, Exact(r, b), NEW objs, NEW c \in [Objects -> Nat], NEW b2 \in [Objects -> Nat],
           \A o \in Objects : CountOf(o, objs) = c[o] /\ b[o] = b2[o] + c[o]
    PROVE  Exact(ReleaseAll(r, objs), b2)
<1> DEFINE n == ReleaseAll(r, objs)
<1>1. \A o \in Objects : r[o] \in Int /\ b[o] \in Nat /\ b2[o] \in Nat /\ c[o] \in Nat /\ b[o] = b2[o] + c[o]
    BY DEF Exact
<1>2. \A o \in Objects : o[1] = "out" => r[o] = b[o] /\ n[o] = b2[o]
    <2> SUFFICES ASSUME NEW o \in Objects, o[1] = "out" PROVE r[o] = b[o] /\ n[o] = b2[o]
        OBVIOUS
    <2>1. r[o] = b[o]
        <3>1. r[o] = b[o] + One(Related(r, o))
            BY DEF Exact
        <3>2. One(Related(r, o)) = 0
            BY DEF One, Related
        <3> QED
            BY <1>1, <3>1, <3>2
    <2>2. n[o] = r[o] - c[o]
        BY ReleasedValue
    <2> HIDE DEF n
    <2> QED
        BY <1>1, <2>1, <2>2
<1>3. ASSUME NEW o \in Objects, o[1] # "out"
      PROVE  n[o] = b2[o] + One(Related(n, o))
    <2> DEFINE w == Out(o[2])
    <2>1. w \in Objects /\ w[1] = "out"
        BY ObjectFacts
    <2>2. r[w] = b[w] /\ n[w] = b2[w]
        BY <2>1, <1>2
    <2>3. /\ r[o] = b[o] + One(Related(r, o))
          /\ Related(r, o) <=> r[w] > 0
          /\ Related(n, o) <=> n[w] > 0
        BY <1>3 DEF Exact, Related
    <2>4. n[o] = IF r[w] > 0 /\ r[w] - c[w] = 0 THEN r[o] - c[o] - 1 ELSE r[o] - c[o]
        <3>1. CountOf(w, objs) = c[w] /\ CountOf(o, objs) = c[o]
            BY <2>1
        <3> QED
            BY <1>3, <3>1, ReleasedValue
    <2>5. One(Related(r, o)) = IF r[w] > 0 THEN 1 ELSE 0
        BY <2>3 DEF One
    <2>6. One(Related(n, o)) = IF n[w] > 0 THEN 1 ELSE 0
        BY <2>3 DEF One
    <2>7. /\ b[o] \in Nat /\ b2[o] \in Nat /\ c[o] \in Nat /\ b[o] = b2[o] + c[o]
          /\ b[w] \in Nat /\ b2[w] \in Nat /\ c[w] \in Nat /\ b[w] = b2[w] + c[w]
        BY <1>1, <2>1
    <2> HIDE DEF n, w
    <2>8. r[o] = b[o] + One(Related(r, o))
        BY <2>3
    <2> QED
        BY ONLY <2>2, <2>4, <2>5, <2>6, <2>7, <2>8
<1>4. \A o \in Objects : n[o] \in Int
    <2> SUFFICES ASSUME NEW o \in Objects PROVE n[o] \in Int
        OBVIOUS
    <2>1. c[o] \in Nat /\ r[o] \in Int /\ CountOf(o, objs) = c[o]
        BY <1>1
    <2> QED
        BY <2>1, ReleasedValue
<1>5. n \in [Objects -> Int]
    BY <1>4 DEF ReleaseAll
<1>6. ASSUME NEW o \in Objects, o[1] = "out"
      PROVE  n[o] = b2[o] + One(Related(n, o))
    <2>1. One(Related(n, o)) = 0
        BY <1>6 DEF One, Related
    <2> HIDE DEF n
    <2> QED
        BY <2>1, <1>1, <1>2, <1>6
<1> HIDE DEF n
<1>7. Exact(n, b2)
    BY <1>3, <1>5, <1>6 DEF Exact
<1> QED
    BY <1>7 DEF n

\* A further reference to an object that is alive, or relates to nothing.
LEMMA UseExact ==
    ASSUME NEW r, NEW b, Exact(r, b), NEW x \in Objects, x[1] = "out" => b[x] > 0
    PROVE  Exact(Use(r, x), [b EXCEPT ![x] = @ + 1])
<1> DEFINE n == Use(r, x)
           b2 == [b EXCEPT ![x] = @ + 1]
<1>1. n \in [Objects -> Int] /\ b2 \in [Objects -> Nat]
    BY DEF Exact, Use
<1>2. \A o \in Objects : n[o] = r[o] + One(x = o) /\ b2[o] = b[o] + One(x = o)
    BY DEF Exact, Use, One
<1>3. \A o \in Objects : r[o] \in Int /\ b[o] \in Nat /\ r[o] = b[o] + One(Related(r, o)) /\ One(x = o) \in {0, 1}
    BY DEF Exact, One
<1> HIDE DEF n, b2
<1>4. ASSUME NEW o \in Objects
      PROVE  Related(n, o) <=> Related(r, o)
    <2> DEFINE w == Out(o[2])
    <2>1. w \in Objects /\ w[1] = "out"
        BY ObjectFacts
    <2>2. r[w] = b[w] /\ b[w] \in Nat
        <3>1. One(Related(r, w)) = 0
            BY <2>1 DEF One, Related
        <3> HIDE DEF w
        <3> QED
            BY <2>1, <3>1, <1>3
    <2>3. CASE w = x
        BY <2>1, <2>2, <2>3, <1>2 DEF Related, One
    <2>4. CASE w # x
        <3>1. One(x = w) = 0
            BY <2>4 DEF One
        <3>2. n[w] = r[w]
            BY <2>1, <2>2, <3>1, <1>2
        <3> QED
            BY <3>2 DEF Related
    <2> QED
        BY <2>3, <2>4
<1>5. \A o \in Objects : n[o] = b2[o] + One(Related(n, o))
    <2> SUFFICES ASSUME NEW o \in Objects PROVE n[o] = b2[o] + One(Related(n, o))
        OBVIOUS
    <2>1. One(Related(n, o)) = One(Related(r, o)) /\ One(Related(r, o)) \in {0, 1}
        BY <1>4 DEF One
    <2> QED
        BY <2>1, <1>2, <1>3
<1>6. Exact(n, b2)
    BY <1>1, <1>5 DEF Exact
<1> QED
    BY <1>6 DEF n, b2

\* A packed frame comes to life and refers to its two frames.
LEMMA PackExact ==
    ASSUME NEW r, NEW b, Exact(r, b), NEW f \in Numbers, b[Out(f)] = 0
    PROVE  Exact(Use(Use(Use(r, Out(f)), Ps(f)), Rtp(f)), [b EXCEPT ![Out(f)] = @ + 1])
<1> DEFINE n == Use(Use(Use(r, Out(f)), Ps(f)), Rtp(f))
           b2 == [b EXCEPT ![Out(f)] = @ + 1]
           x == Out(f)
           y == Ps(f)
           z == Rtp(f)
<1>0. /\ x \in Objects /\ y \in Objects /\ z \in Objects /\ x # y /\ x # z /\ y # z
      /\ x[1] = "out" /\ y[1] # "out" /\ z[1] # "out" /\ x[2] = f /\ y[2] = f /\ z[2] = f
    BY ObjectFacts
<1>1. n \in [Objects -> Int] /\ b2 \in [Objects -> Nat]
    BY <1>0 DEF Exact, Use
<1>2. \A o \in Objects : /\ n[o] = IF o \in {x, y, z} THEN r[o] + 1 ELSE r[o]
                         /\ b2[o] = IF o = x THEN b[o] + 1 ELSE b[o]
    <2> HIDE DEF x, y, z
    <2> QED
        BY <1>0 DEF Exact, Use, x, y, z
<1>3. \A o \in Objects : r[o] \in Int /\ b[o] \in Nat /\ r[o] = b[o] + One(Related(r, o))
    BY DEF Exact
<1>4. \A o \in Objects : o[2] = f => o \in {x, y, z}
    BY DEF Objects, Out, Ps, Rtp
<1>4a. \A o \in Objects : o[2] # f => Out(o[2]) # x /\ Out(o[2]) \in Objects /\ Out(o[2])[1] = "out"
    BY ObjectFacts DEF Out
<1>4b. r[x] = 0
    <2>1. One(Related(r, x)) = 0
        BY <1>0 DEF One, Related
    <2> HIDE DEF x
    <2>2. b[x] = 0
        BY DEF x
    <2> QED
        BY <2>1, <2>2, <1>0, <1>3
<1> HIDE DEF n, b2
<1>5. ASSUME NEW o \in Objects
      PROVE  n[o] = b2[o] + One(Related(n, o))
    <2>1. CASE o = x
        <3>1. One(Related(n, o)) = 0
            BY <2>1, <1>0 DEF One, Related
        <3>2. One(Related(r, o)) = 0
            BY <2>1, <1>0 DEF One, Related
        <3> HIDE DEF x, y, z
        <3> QED
            BY <2>1, <3>1, <3>2, <1>0, <1>2, <1>3
    <2>2. CASE o \in {y, z}
        <3>1. Out(o[2]) = x
            BY <2>2, <1>0
        <3>2. n[x] = 1
            BY <1>0, <1>2, <1>4b
        <3>3. One(Related(n, o)) = 1 /\ One(Related(r, o)) = 0
            <4>1. ~Related(r, o) /\ Related(n, o)
                BY <2>2, <3>1, <3>2, <1>4b, <1>0 DEF Related
            <4> QED
                BY <4>1 DEF One
        <3> HIDE DEF x, y, z
        <3>4. n[o] = r[o] + 1 /\ b2[o] = b[o]
            BY <2>2, <1>0, <1>2
        <3> QED
            BY <3>3, <3>4, <1>3
    <2>3. CASE o \notin {x, y, z}
        <3>1. o[2] # f
            BY <2>3, <1>4
        <3>2. Out(o[2]) \notin {x, y, z} /\ Out(o[2]) \in Objects
            BY <3>1, <1>4a, <1>0
        <3>3. n[Out(o[2])] = r[Out(o[2])]
            BY <3>2, <1>2
        <3>4. One(Related(n, o)) = One(Related(r, o))
            BY <3>3 DEF One, Related
        <3> HIDE DEF x, y, z
        <3>5. n[o] = r[o] /\ b2[o] = b[o]
            BY <2>3, <1>2
        <3> QED
            BY <3>4, <3>5, <1>3
    <2> QED
        BY <2>1, <2>2, <2>3
<1>6. Exact(n, b2)
    BY <1>1, <1>5 DEF Exact
<1> QED
    BY <1>6 DEF n, b2

\* References as functions of the objects.
Plus(b, c) == [o \in Objects |-> b[o] + c[o]]
GopFn(fs)  == [o \in Objects |-> CountOf(o, Each("ps", fs)) + CountOf(o, Each("rtp", fs))]

\* The references of the received queue.
QueueFn(fs) == [o \in Objects |-> CountOf(o, Each("rtp", fs))]

\* One reference to x.
Just(x) == [o \in Objects |-> One(x = o)]

\* The numbers of references to each object.
Counts == [Objects -> Nat]

\* Sums, object by object.
LEMMA PlusFacts ==
    ASSUME NEW b \in Counts, NEW c \in Counts
    PROVE  Plus(b, c) \in Counts /\ \A o \in Objects : Plus(b, c)[o] = b[o] + c[o]
BY DEF Plus, Counts

\* A single reference, object by object.
LEMMA JustFacts ==
    ASSUME NEW x
    PROVE  Just(x) \in Counts /\ \A o \in Objects : Just(x)[o] = One(x = o)
BY DEF Just, Counts, One

\* Two tables that agree on every object are the same.
LEMMA SameCounts ==
    ASSUME NEW b \in Counts, NEW c \in Counts, \A o \in Objects : b[o] = c[o]
    PROVE  b = c
BY DEF Counts

\* Releasing the second part of a sum leaves the first.
LEMMA ReleasePlus ==
    ASSUME NEW r, NEW rest \in Counts, NEW c \in Counts, Exact(r, Plus(rest, c)), NEW objs,
           \A o \in Objects : CountOf(o, objs) = c[o]
    PROVE  Exact(ReleaseAll(r, objs), rest)
<1>1. \A o \in Objects : Plus(rest, c)[o] = rest[o] + c[o]
    BY PlusFacts
<1>2. \A o \in Objects : CountOf(o, objs) = c[o] /\ Plus(rest, c)[o] = rest[o] + c[o]
    BY <1>1
<1>3. rest \in [Objects -> Nat] /\ c \in [Objects -> Nat]
    BY DEF Counts
<1> QED
    BY <1>2, <1>3, ReleaseExact

\* Using an object adds one reference to it.
LEMMA UsePlus ==
    ASSUME NEW r, NEW b \in Counts, Exact(r, b), NEW x \in Objects, x[1] = "out" => b[x] > 0
    PROVE  Exact(Use(r, x), Plus(b, Just(x)))
<1>1. Exact(Use(r, x), [b EXCEPT ![x] = @ + 1])
    BY UseExact
<1>2. Just(x) \in Counts /\ \A o \in Objects : Just(x)[o] = One(x = o)
    BY JustFacts
<1>3. Plus(b, Just(x)) \in Counts /\ \A o \in Objects : Plus(b, Just(x))[o] = b[o] + One(x = o)
    BY <1>2, PlusFacts
<1>4. [b EXCEPT ![x] = @ + 1] \in Counts /\ \A o \in Objects : [b EXCEPT ![x] = @ + 1][o] = b[o] + One(x = o)
    <2>1. b \in [Objects -> Nat] /\ b[x] \in Nat
        BY DEF Counts
    <2>2. [b EXCEPT ![x] = @ + 1] \in Counts
        BY <2>1 DEF Counts
    <2>3. ASSUME NEW o \in Objects
          PROVE  [b EXCEPT ![x] = @ + 1][o] = b[o] + One(x = o)
        BY <2>1 DEF One
    <2> QED
        BY <2>2, <2>3
<1> DEFINE b2 == [b EXCEPT ![x] = @ + 1]
           b3 == Plus(b, Just(x))
<1>5. /\ b2 \in Counts /\ b3 \in Counts
      /\ \A o \in Objects : b2[o] = b3[o]
    BY <1>3, <1>4
<1> HIDE DEF b2, b3
<1>6. b2 = b3
    BY ONLY <1>5, SameCounts
<1> QED
    BY <1>1, <1>6 DEF b2, b3

\* The references of the received queue, when it is empty, grows and moves up.
LEMMA QueueFnFacts ==
    ASSUME NEW fs \in Seq(Numbers)
    PROVE  /\ QueueFn(fs) \in Counts
           /\ \A o \in Objects : QueueFn(fs)[o] = CountOf(o, Each("rtp", fs))
           /\ QueueFn(<<>>) \in Counts /\ \A o \in Objects : QueueFn(<<>>)[o] = 0
           /\ \A f \in Numbers : QueueFn(Append(fs, f)) = Plus(QueueFn(fs), Just(Rtp(f)))
           /\ fs # <<>> => QueueFn(fs) = Plus(QueueFn(Tail(fs)), Just(Rtp(Head(fs))))
<1>1. ASSUME NEW s \in Seq(Numbers)
      PROVE  QueueFn(s) \in Counts /\ \A o \in Objects : QueueFn(s)[o] = CountOf(o, Each("rtp", s))
    <2>1. \A o : CountOf(o, Each("rtp", s)) \in Nat
        BY CountEach
    <2> QED
        BY <2>1 DEF QueueFn, Counts
<1>2. \A o \in Objects : QueueFn(<<>>)[o] = 0
    <2>1. \A o : CountOf(o, Each("rtp", <<>>)) = 0
        BY CountEach
    <2> QED
        BY <2>1 DEF QueueFn
<1>3. ASSUME NEW f \in Numbers
      PROVE  QueueFn(Append(fs, f)) = Plus(QueueFn(fs), Just(Rtp(f)))
    <2>1. Append(fs, f) \in Seq(Numbers)
        OBVIOUS
    <2>2. \A o \in Objects : QueueFn(Append(fs, f))[o] = QueueFn(fs)[o] + One(Rtp(f) = o)
        <3> SUFFICES ASSUME NEW o \in Objects
                     PROVE  QueueFn(Append(fs, f))[o] = QueueFn(fs)[o] + One(Rtp(f) = o)
            OBVIOUS
        <3>1. CountOf(o, Each("rtp", Append(fs, f))) = CountOf(o, Each("rtp", fs)) + One(<<"rtp", f>> = o)
            BY CountEachAppend
        <3>2. CountOf(o, Each("rtp", Append(fs, f))) = CountOf(o, Each("rtp", fs)) + One(Rtp(f) = o)
            BY <3>1 DEF Rtp
        <3>3. QueueFn(Append(fs, f))[o] = CountOf(o, Each("rtp", Append(fs, f)))
            BY <1>1, <2>1
        <3>4. QueueFn(fs)[o] = CountOf(o, Each("rtp", fs))
            BY <1>1
        <3> QED
            BY ONLY <3>2, <3>3, <3>4
    <2>3. QueueFn(Append(fs, f)) \in Counts /\ QueueFn(fs) \in Counts /\ Just(Rtp(f)) \in Counts
        BY <1>1, <2>1, JustFacts
    <2>4. \A o \in Objects : QueueFn(Append(fs, f))[o] = Plus(QueueFn(fs), Just(Rtp(f)))[o]
        BY <2>2, <2>3, PlusFacts, JustFacts
    <2> QED
        BY <2>3, <2>4, PlusFacts, SameCounts
<1>4. ASSUME fs # <<>>
      PROVE  QueueFn(fs) = Plus(QueueFn(Tail(fs)), Just(Rtp(Head(fs))))
    <2>1. Tail(fs) \in Seq(Numbers)
        BY <1>4
    <2>2. \A o \in Objects : QueueFn(fs)[o] = QueueFn(Tail(fs))[o] + One(Rtp(Head(fs)) = o)
        <3> SUFFICES ASSUME NEW o \in Objects
                     PROVE  QueueFn(fs)[o] = QueueFn(Tail(fs))[o] + One(Rtp(Head(fs)) = o)
            OBVIOUS
        <3>1. CountOf(o, Each("rtp", fs)) = CountOf(o, Each("rtp", Tail(fs))) + One(<<"rtp", Head(fs)>> = o)
            BY <1>4, CountEach
        <3>2. CountOf(o, Each("rtp", fs)) = CountOf(o, Each("rtp", Tail(fs))) + One(Rtp(Head(fs)) = o)
            BY <3>1 DEF Rtp
        <3>3. QueueFn(Tail(fs))[o] = CountOf(o, Each("rtp", Tail(fs)))
            BY <1>1, <2>1
        <3>4. QueueFn(fs)[o] = CountOf(o, Each("rtp", fs))
            BY <1>1
        <3> QED
            BY ONLY <3>2, <3>3, <3>4
    <2>3. QueueFn(Tail(fs)) \in Counts /\ QueueFn(fs) \in Counts /\ Just(Rtp(Head(fs))) \in Counts
        BY <1>1, <2>1, JustFacts
    <2>4. \A o \in Objects : QueueFn(fs)[o] = Plus(QueueFn(Tail(fs)), Just(Rtp(Head(fs))))[o]
        BY <2>2, <2>3, PlusFacts, JustFacts
    <2> QED
        BY <2>3, <2>4, PlusFacts, SameCounts
<1>5. QueueFn(<<>>) \in Counts
    <2>1. <<>> \in Seq(Numbers)
        OBVIOUS
    <2> QED
        BY <1>1, <2>1
<1> QED
    BY <1>1, <1>2, <1>3, <1>4, <1>5

\* The references of the GOP, when it is empty and grows.
LEMMA GopFnFacts ==
    ASSUME NEW fs \in Seq(Numbers)
    PROVE  /\ GopFn(fs) \in Counts
           /\ \A o \in Objects : GopFn(fs)[o] = CountOf(o, Each("ps", fs)) + CountOf(o, Each("rtp", fs))
           /\ GopFn(<<>>) \in Counts /\ \A o \in Objects : GopFn(<<>>)[o] = 0
           /\ \A f \in Numbers : \A o \in Objects :
                GopFn(Append(fs, f))[o] = GopFn(fs)[o] + One(Ps(f) = o) + One(Rtp(f) = o)
<1>1. ASSUME NEW s \in Seq(Numbers)
      PROVE  GopFn(s) \in Counts /\ \A o \in Objects : GopFn(s)[o] = CountOf(o, Each("ps", s)) + CountOf(o, Each("rtp", s))
    <2>1. \A o : CountOf(o, Each("ps", s)) \in Nat /\ CountOf(o, Each("rtp", s)) \in Nat
        BY CountEach
    <2> QED
        BY <2>1 DEF GopFn, Counts
<1>2. \A o \in Objects : GopFn(<<>>)[o] = 0
    <2>1. \A o : CountOf(o, Each("rtp", <<>>)) = 0 /\ CountOf(o, Each("ps", <<>>)) = 0
        BY CountEach
    <2> QED
        BY <2>1 DEF GopFn
<1>3. ASSUME NEW f \in Numbers, NEW o \in Objects
      PROVE  GopFn(Append(fs, f))[o] = GopFn(fs)[o] + One(Ps(f) = o) + One(Rtp(f) = o)
    <2>1. Append(fs, f) \in Seq(Numbers)
        OBVIOUS
    <2>2. /\ CountOf(o, Each("rtp", Append(fs, f))) = CountOf(o, Each("rtp", fs)) + One(Rtp(f) = o)
          /\ CountOf(o, Each("ps", Append(fs, f))) = CountOf(o, Each("ps", fs)) + One(Ps(f) = o)
          /\ CountOf(o, Each("rtp", fs)) \in Nat /\ CountOf(o, Each("ps", fs)) \in Nat
        <3>1. CountOf(o, Each("rtp", Append(fs, f))) = CountOf(o, Each("rtp", fs)) + One(<<"rtp", f>> = o)
            BY CountEachAppend
        <3>2. CountOf(o, Each("ps", Append(fs, f))) = CountOf(o, Each("ps", fs)) + One(<<"ps", f>> = o)
            BY CountEachAppend
        <3>3. CountOf(o, Each("rtp", fs)) \in Nat /\ CountOf(o, Each("ps", fs)) \in Nat
            BY CountEach
        <3> QED
            BY <3>1, <3>2, <3>3 DEF Rtp, Ps
    <2>3. One(Ps(f) = o) \in {0, 1} /\ One(Rtp(f) = o) \in {0, 1}
        BY DEF One
    <2>4. GopFn(Append(fs, f))[o] = CountOf(o, Each("ps", Append(fs, f))) + CountOf(o, Each("rtp", Append(fs, f)))
        BY <1>1, <2>1
    <2>5. GopFn(fs)[o] = CountOf(o, Each("ps", fs)) + CountOf(o, Each("rtp", fs))
        BY <1>1
    <2> QED
        BY ONLY <2>2, <2>3, <2>4, <2>5
<1>4. GopFn(<<>>) \in Counts
    <2>1. <<>> \in Seq(Numbers)
        OBVIOUS
    <2> QED
        BY <1>1, <2>1
<1> QED
    BY <1>1, <1>2, <1>3, <1>4

\* PsGOP.Clear gives up exactly the references of the GOP.
LEMMA ClearedExact ==
    ASSUME NEW r, NEW rest \in Counts, NEW g, g.frames \in Seq(Numbers), Exact(r, Plus(rest, GopFn(g.frames)))
    PROVE  Exact(Cleared(r, g), rest)
<1> DEFINE fs == g.frames
           a == [o \in Objects |-> CountOf(o, Each("ps", fs))]
           c == QueueFn(fs)
<1>1. \A o : CountOf(o, Each("ps", fs)) \in Nat
    BY CountEach
<1>2. a \in Counts /\ \A o \in Objects : CountOf(o, Each("ps", fs)) = a[o]
    BY <1>1 DEF Counts
<1>3. c \in Counts /\ \A o \in Objects : CountOf(o, Each("rtp", fs)) = c[o]
    BY QueueFnFacts
<1>4. GopFn(fs) \in Counts /\ \A o \in Objects : GopFn(fs)[o] = a[o] + c[o]
    BY <1>2, <1>3, GopFnFacts
<1> HIDE DEF a, c
<1>5. Plus(rest, GopFn(fs)) = Plus(Plus(rest, c), a)
    <2>1. Plus(rest, c) \in Counts /\ \A o \in Objects : Plus(rest, c)[o] = rest[o] + c[o]
        BY <1>3, PlusFacts
    <2>2. Plus(Plus(rest, c), a) \in Counts /\ \A o \in Objects : Plus(Plus(rest, c), a)[o] = rest[o] + c[o] + a[o]
        BY <2>1, <1>2, PlusFacts
    <2>3. Plus(rest, GopFn(fs)) \in Counts /\ \A o \in Objects : Plus(rest, GopFn(fs))[o] = rest[o] + (a[o] + c[o])
        BY <1>4, PlusFacts
    <2>4. \A o \in Objects : rest[o] \in Nat /\ a[o] \in Nat /\ c[o] \in Nat
        BY <1>2, <1>3 DEF Counts
    <2>5. \A o \in Objects : Plus(rest, GopFn(fs))[o] = Plus(Plus(rest, c), a)[o]
        BY <2>2, <2>3, <2>4
    <2> QED
        BY <2>2, <2>3, <2>5, SameCounts
<1>6. Plus(rest, c) \in Counts
    BY <1>3, PlusFacts
<1>7. Exact(ReleaseAll(r, Each("ps", fs)), Plus(rest, c))
    BY <1>2, <1>5, <1>6, ReleasePlus
<1>8. Exact(ReleaseAll(ReleaseAll(r, Each("ps", fs)), Each("rtp", fs)), rest)
    BY <1>3, <1>7, ReleasePlus
<1> QED
    BY <1>8 DEF Cleared

\* psFrame.Use and UseFrame are the references of the frame that the GOP gets.
LEMMA UsedExact ==
    ASSUME NEW r, NEW rest \in Counts, NEW fs \in Seq(Numbers), NEW f \in Numbers,
           Exact(r, Plus(rest, GopFn(fs)))
    PROVE  Exact(Used(r, f), Plus(rest, GopFn(Append(fs, f))))
<1> DEFINE b == Plus(rest, GopFn(fs))
           b1 == Plus(b, Just(Ps(f)))
           b2 == Plus(b1, Just(Rtp(f)))
<1>0. Ps(f) \in Objects /\ Ps(f)[1] # "out" /\ Rtp(f) \in Objects /\ Rtp(f)[1] # "out"
    BY ObjectFacts
<1>1. GopFn(fs) \in Counts /\ b \in Counts /\ \A o \in Objects : b[o] = rest[o] + GopFn(fs)[o]
    BY GopFnFacts, PlusFacts
<1> HIDE DEF b
<1>2. Just(Ps(f)) \in Counts /\ \A o \in Objects : Just(Ps(f))[o] = One(Ps(f) = o)
    BY JustFacts
<1>3. Just(Rtp(f)) \in Counts /\ \A o \in Objects : Just(Rtp(f))[o] = One(Rtp(f) = o)
    BY JustFacts
<1>4. b1 \in Counts /\ \A o \in Objects : b1[o] = b[o] + One(Ps(f) = o)
    BY <1>1, <1>2, PlusFacts
<1>5. Exact(Use(r, Ps(f)), b1)
    BY <1>0, <1>1, UsePlus DEF b
<1> HIDE DEF b1
<1>6. b2 \in Counts /\ \A o \in Objects : b2[o] = b1[o] + One(Rtp(f) = o)
    BY <1>3, <1>4, PlusFacts
<1>7. Exact(Use(Use(r, Ps(f)), Rtp(f)), b2)
    BY <1>0, <1>4, <1>5, UsePlus
<1> HIDE DEF b2
<1>8. Append(fs, f) \in Seq(Numbers)
    OBVIOUS
<1>9. GopFn(Append(fs, f)) \in Counts
    BY <1>8, GopFnFacts
<1>10. Plus(rest, GopFn(Append(fs, f))) \in Counts
      /\ \A o \in Objects : Plus(rest, GopFn(Append(fs, f)))[o] = rest[o] + GopFn(Append(fs, f))[o]
    BY <1>9, PlusFacts
<1>11. \A o \in Objects : GopFn(Append(fs, f))[o] = GopFn(fs)[o] + One(Ps(f) = o) + One(Rtp(f) = o)
    BY GopFnFacts
<1>12. \A o \in Objects : rest[o] \in Nat /\ GopFn(fs)[o] \in Nat /\ One(Ps(f) = o) \in Nat /\ One(Rtp(f) = o) \in Nat
    BY <1>1 DEF Counts, One
<1>13. ASSUME NEW o \in Objects
       PROVE  b2[o] = Plus(rest, GopFn(Append(fs, f)))[o]
    BY <1>1, <1>4, <1>6, <1>10, <1>11, <1>12
<1>14. b2 = Plus(rest, GopFn(Append(fs, f)))
    BY <1>6, <1>10, <1>13, SameCounts
<1> QED
    BY <1>7, <1>14 DEF Used

\* A table of zeros adds nothing.
LEMMA PlusNothing ==
    ASSUME NEW rest \in Counts, NEW c \in Counts, \A o \in Objects : c[o] = 0
    PROVE  Plus(rest, c) = rest
<1>1. Plus(rest, c) \in Counts /\ \A o \in Objects : Plus(rest, c)[o] = rest[o] + c[o]
    BY PlusFacts
<1>2. \A o \in Objects : rest[o] \in Nat
    BY DEF Counts
<1>3. \A o \in Objects : Plus(rest, c)[o] = rest[o]
    BY <1>1, <1>2
<1> QED
    BY <1>1, <1>3, SameCounts

\* appendGOP, of a GOP that still fits and of one that is given up.
LEMMA AppendGOPExact ==
    ASSUME NEW r, NEW rest \in Counts, NEW g, g.frames \in Seq(Numbers), NEW f \in Numbers,
           Exact(r, Plus(rest, GopFn(g.frames))), AppendGOP(r, g, f)
    PROVE  /\ Exact(refs', Plus(rest, GopFn(gop'.frames)))
           /\ gop'.frames = Append(g.frames, f) \/ gop' = NoGop
<1> DEFINE range == TimeRangeExpandRange(g, Times[f][1], Times[f][2], Len(g.frames) + 1)
           grown == [frames |-> Append(g.frames, f), start |-> range[1], end |-> range[2]]
<1>1. \/ gop' = NoGop /\ refs' = Cleared(Used(r, f), grown)
      \/ gop' = grown /\ refs' = Used(r, f)
    BY DEF AppendGOP
<1>2. grown.frames = Append(g.frames, f)
    OBVIOUS
<1> HIDE DEF grown
<1>3. Exact(Used(r, f), Plus(rest, GopFn(grown.frames)))
    BY <1>2, UsedExact
<1>4. CASE gop' = grown /\ refs' = Used(r, f)
    BY <1>2, <1>3, <1>4
<1>5. CASE gop' = NoGop /\ refs' = Cleared(Used(r, f), grown)
    <2>1. grown.frames \in Seq(Numbers)
        BY <1>2
    <2>2. Exact(refs', rest)
        BY <1>3, <1>5, <2>1, ClearedExact
    <2>3. gop'.frames = <<>>
        BY <1>5 DEF NoGop
    <2>4. Plus(rest, GopFn(<<>>)) = rest
        BY GopFnFacts, PlusNothing
    <2> QED
        BY <1>5, <2>2, <2>3, <2>4
<1> QED
    BY <1>1, <1>4, <1>5

\* Storing a frame changes the references of the GOP only, whatever its outcome.
LEMMA StoreExact ==
    ASSUME NEW r, NEW rest \in Counts, gop.frames \in Seq(Numbers), NEW f \in Numbers, NEW key \in BOOLEAN,
           Exact(r, Plus(rest, GopFn(gop.frames))), Store(r, f, key)
    PROVE  Exact(refs', Plus(rest, GopFn(gop'.frames))) /\ gop'.frames \in Seq(Numbers)
<1>00. <<>> \in Seq(Numbers)
    OBVIOUS
<1>0. Plus(rest, GopFn(<<>>)) = rest /\ NoGop.frames = <<>>
    <2>1. <<>> \in Seq(Numbers)
        OBVIOUS
    <2>2. GopFn(<<>>) \in Counts /\ \A o \in Objects : GopFn(<<>>)[o] = 0
        BY <2>1, GopFnFacts
    <2> QED
        BY <2>2, PlusNothing DEF NoGop
<1>1. Exact(Cleared(r, gop), rest)
    BY ClearedExact
<1>2. CASE gop' = gop /\ refs' = r
    BY <1>2
<1>3. CASE AppendGOP(r, gop, f)
    <2>1. /\ Exact(refs', Plus(rest, GopFn(gop'.frames)))
          /\ gop'.frames = Append(gop.frames, f) \/ gop' = NoGop
        BY <1>3, AppendGOPExact
    <2>2. gop'.frames \in Seq(Numbers)
        <3>1. CASE gop'.frames = Append(gop.frames, f)
            BY <3>1
        <3>2. CASE gop' = NoGop
            BY <3>2, <1>0, <1>00
        <3> QED
            BY <2>1, <3>1, <3>2
    <2> QED
        BY <2>1, <2>2
<1>4. CASE AppendGOP(Cleared(r, gop), NoGop, f)
    <2>1. NoGop.frames \in Seq(Numbers) /\ Exact(Cleared(r, gop), Plus(rest, GopFn(NoGop.frames)))
        BY <1>0, <1>00, <1>1
    <2>2. /\ Exact(refs', Plus(rest, GopFn(gop'.frames)))
          /\ gop'.frames = Append(NoGop.frames, f) \/ gop' = NoGop
        BY <1>4, <2>1, AppendGOPExact
    <2>3. gop'.frames \in Seq(Numbers)
        <3>1. CASE gop'.frames = Append(NoGop.frames, f)
            BY <3>1, <2>1
        <3>2. CASE gop' = NoGop
            BY <3>2, <2>1
        <3> QED
            BY <2>2, <3>1, <3>2
    <2> QED
        BY <2>2, <2>3
<1>5. CASE NotRecorded(r)
    <2>1. gop' = NoGop /\ refs' = Cleared(r, gop)
        BY <1>5 DEF NotRecorded
    <2>2. gop'.frames = <<>> /\ <<>> \in Seq(Numbers)
        BY <2>1, <1>0
    <2> QED
        BY <2>1, <2>2, <1>0, <1>1
<1> QED
    BY <1>2, <1>3, <1>4, <1>5 DEF Store

\* An entry of the queue of a pusher.
Entry == [object : Objects, stream : Nat]

\* The references of a queue of entries.
ObjFn(q) == [o \in Objects |-> CountOf(o, ObjectsOf(q))]

\* The places in queues where the pushers pu hold o.
QueuesOf(pu, o) == {x \in Pushers \X (1..MaxCached) : x[2] <= Len(pu[x[1]].queue) /\ pu[x[1]].queue[x[2]].object = o}

\* The pushers of pu that are sending o.
SendersOf(pu, o) == {p \in Pushers : pu[p].sending # <<>> /\ pu[p].sending[1].object = o}

\* The references of the pushers pu.
Held(pu) == [o \in Objects |-> Cardinality(QueuesOf(pu, o)) + Cardinality(SendersOf(pu, o))]

\* The queue of a pusher holds no more than it may.
Queues(q) == q.queue \in Seq(Entry) /\ Len(q.queue) <= MaxCached /\ q.sending \in Seq(Entry) /\ Len(q.sending) <= 1

\* There are finitely many pushers and places in their queues.
LEMMA FinitePushers == IsFiniteSet(Pushers) /\ MaxCached \in Nat
BY FrameAssumption DEF FrameAssumption

\* The references of a queue, object by object.
LEMMA ObjFnFacts ==
    ASSUME NEW q \in Seq(Entry)
    PROVE  /\ ObjFn(q) \in Counts
           /\ \A o \in Objects : ObjFn(q)[o] = CountOf(o, ObjectsOf(q))
<1>1. \A o : CountOf(o, ObjectsOf(q)) \in Nat
    BY CountObjects
<1> QED
    BY <1>1 DEF ObjFn, Counts

\* An empty queue refers to nothing.
LEMMA ObjFnEmpty == ObjFn(<<>>) \in Counts /\ \A o \in Objects : ObjFn(<<>>)[o] = 0
<1>1. <<>> \in Seq(Entry)
    OBVIOUS
<1>2. \A o : CountOf(o, ObjectsOf(<<>>)) = 0
    BY <1>1, CountObjects
<1> QED
    BY <1>1, <1>2, ObjFnFacts

\* A queue with one entry refers to its object.
LEMMA ObjFnOne ==
    ASSUME NEW e \in Entry
    PROVE  \A o \in Objects : ObjFn(<<e>>)[o] = One(e.object = o)
<1>1. ObjectsOf(<<e>>) = <<e.object>>
    BY DEF ObjectsOf
<1>2. \A o : CountOf(o, <<e.object>>) = One(e.object = o)
    BY CountOne
<1> QED
    BY <1>1, <1>2 DEF ObjFn

\* RtpPusher.push adds one reference to the queue.
LEMMA ObjFnAppend ==
    ASSUME NEW q \in Seq(Entry), NEW e \in Entry
    PROVE  Append(q, e) \in Seq(Entry) /\ \A o \in Objects : ObjFn(Append(q, e))[o] = ObjFn(q)[o] + One(e.object = o)
<1>1. Append(q, e) \in Seq(Entry)
    OBVIOUS
<1>2. ASSUME NEW o \in Objects
      PROVE  ObjFn(Append(q, e))[o] = ObjFn(q)[o] + One(e.object = o)
    <2>1. CountOf(o, ObjectsOf(Append(q, e))) = CountOf(o, ObjectsOf(q)) + One(e.object = o)
        BY CountObjectsAppend
    <2>2. ObjFn(Append(q, e))[o] = CountOf(o, ObjectsOf(Append(q, e))) /\ ObjFn(q)[o] = CountOf(o, ObjectsOf(q))
        BY <1>1, ObjFnFacts
    <2> QED
        BY ONLY <2>1, <2>2
<1> QED
    BY <1>1, <1>2

\* Taking an entry removes one reference from the queue.
LEMMA ObjFnTail ==
    ASSUME NEW q \in Seq(Entry), q # <<>>
    PROVE  /\ Tail(q) \in Seq(Entry) /\ Head(q) \in Entry
           /\ \A o \in Objects : ObjFn(q)[o] = ObjFn(Tail(q))[o] + One(Head(q).object = o)
<1>1. Tail(q) \in Seq(Entry) /\ Head(q) \in Entry
    OBVIOUS
<1>2. ASSUME NEW o \in Objects
      PROVE  ObjFn(q)[o] = ObjFn(Tail(q))[o] + One(Head(q).object = o)
    <2>1. CountOf(o, ObjectsOf(q)) = CountOf(o, ObjectsOf(Tail(q))) + One(Head(q).object = o)
        BY CountObjects
    <2>2. ObjFn(Tail(q))[o] = CountOf(o, ObjectsOf(Tail(q))) /\ ObjFn(q)[o] = CountOf(o, ObjectsOf(q))
        BY <1>1, ObjFnFacts
    <2> QED
        BY ONLY <2>1, <2>2
<1> QED
    BY <1>1, <1>2

\* A sequence of length one.
LEMMA CountSingle ==
    ASSUME NEW s \in Seq(Entry), Len(s) = 1, NEW o \in Objects
    PROVE  CountOf(o, ObjectsOf(s)) = One(s[1].object = o)
<1> DEFINE n == 0
           a == ObjectsOf(<<>>)
           b == ObjectsOf(s)
<1>1. DOMAIN a = {} /\ DOMAIN b = 1..1 /\ b[1] = s[1].object
    BY DEF ObjectsOf
<1>2. n \in Nat /\ DOMAIN a = 1..n /\ DOMAIN b = 1..(n + 1) /\ \A i \in 1..n : b[i] = a[i]
    BY <1>1
<1>3. b[n + 1] = s[1].object
    BY <1>1
<1>4. CountOf(o, a) = 0
    BY CountObjects
<1> HIDE DEF a, b, n
<1>5. CountOf(o, b) = CountOf(o, a) + One(b[n + 1] = o)
    BY ONLY <1>2, CountGrown
<1>6. One(s[1].object = o) \in {0, 1}
    BY DEF One
<1> QED
    BY <1>3, <1>4, <1>5, <1>6 DEF b

\* The entries of one queue are as many as its objects.
LEMMA SlotsOfQueue ==
    ASSUME NEW p, NEW q \in Seq(Entry), Len(q) <= MaxCached, NEW o \in Objects
    PROVE  LET S == {x \in {p} \X (1..MaxCached) : x[2] <= Len(q) /\ q[x[2]].object = o}
           IN  IsFiniteSet(S) /\ Cardinality(S) = CountOf(o, ObjectsOf(q))
<1> DEFINE S == {x \in {p} \X (1..MaxCached) : x[2] <= Len(q) /\ q[x[2]].object = o}
           s == ObjectsOf(q)
           n == Len(q)
           A == Positions(o, s)
           f == [i \in A |-> <<p, i>>]
<1>0. MaxCached \in Nat /\ n \in Nat /\ n <= MaxCached
    BY FinitePushers
<1>1. DOMAIN s = 1..n /\ \A i \in 1..n : s[i] = q[i].object
    BY DEF ObjectsOf
<1>2. IsFiniteSet(A) /\ CountOf(o, s) = Cardinality(A)
    BY <1>0, <1>1, CountType
<1>3. \A i : i \in A <=> i \in 1..n /\ q[i].object = o
    BY <1>1 DEF Positions
<1>4. \A x : x \in S <=> \E i \in 1..n : x = <<p, i>> /\ q[i].object = o
    BY <1>0
<1> HIDE DEF A, S, s, n
<1>5. f \in Bijection(A, S)
    <2>1. f \in [A -> S]
        BY <1>3, <1>4
    <2>2. \A i, j \in A : f[i] = f[j] => i = j
        OBVIOUS
    <2>3. \A x \in S : \E i \in A : f[i] = x
        BY <1>3, <1>4
    <2> HIDE DEF f
    <2> QED
        BY ONLY <2>1, <2>2, <2>3 DEF Bijection, Injection, Surjection, IsInjective
<1>6. ExistsBijection(A, S)
    BY ONLY <1>5 DEF ExistsBijection
<1>7. IsFiniteSet(S) /\ Cardinality(S) = Cardinality(A)
    BY ONLY <1>2, <1>6, FS_Bijection
<1> QED
    BY <1>2, <1>7 DEF S, s

\* What the other pushers hold.
OtherQueues(pu, p, o) == {x \in QueuesOf(pu, o) : x[1] # p}

\* The other pushers that are sending o.
OtherSenders(pu, p, o) == SendersOf(pu, o) \ {p}

\* The references of the other pushers.
Others(pu, p) == [o \in Objects |-> Cardinality(OtherQueues(pu, p, o)) + Cardinality(OtherSenders(pu, p, o))]

\* The places of an object with the pushers are finitely many.
LEMMA FiniteHeld ==
    ASSUME NEW pu, NEW o
    PROVE  IsFiniteSet(QueuesOf(pu, o)) /\ IsFiniteSet(SendersOf(pu, o))
<1>1. IsFiniteSet(1..MaxCached)
    BY FinitePushers, FS_Interval
<1>2. IsFiniteSet(Pushers \X (1..MaxCached))
    BY <1>1, FinitePushers, FS_Product
<1>3. QueuesOf(pu, o) \subseteq Pushers \X (1..MaxCached) /\ SendersOf(pu, o) \subseteq Pushers
    BY DEF QueuesOf, SendersOf
<1> QED
    BY <1>2, <1>3, FinitePushers, FS_Subset

\* The places in all queues are those in one queue and in the others.
LEMMA HeldQueues ==
    ASSUME NEW pu, NEW p \in Pushers, Queues(pu[p]), NEW o \in Objects
    PROVE  /\ Cardinality(OtherQueues(pu, p, o)) \in Nat
           /\ Cardinality(QueuesOf(pu, o)) = Cardinality(OtherQueues(pu, p, o)) + CountOf(o, ObjectsOf(pu[p].queue))
<1> DEFINE q == pu[p].queue
           S == {x \in {p} \X (1..MaxCached) : x[2] <= Len(q) /\ q[x[2]].object = o}
           R == OtherQueues(pu, p, o)
           Q == QueuesOf(pu, o)
<1>1. q \in Seq(Entry) /\ Len(q) <= MaxCached
    BY DEF Queues
<1>2. IsFiniteSet(S) /\ Cardinality(S) = CountOf(o, ObjectsOf(q))
    <2> HIDE DEF q
    <2> QED
        BY <1>1, SlotsOfQueue
<1>3. Q = R \cup S /\ R \cap S = {}
    BY DEF OtherQueues, QueuesOf
<1>4. IsFiniteSet(R)
    <2>1. R \subseteq Q
        BY DEF OtherQueues
    <2> QED
        BY <2>1, FiniteHeld, FS_Subset
<1>5. CountOf(o, ObjectsOf(q)) \in Nat
    BY <1>1, CountObjects
<1> HIDE DEF S, R, Q, q
<1>6. Cardinality(Q) = Cardinality(R) + Cardinality(S) - Cardinality(R \cap S)
    BY <1>2, <1>3, <1>4, FS_Union
<1>7. Cardinality(R \cap S) = 0
    BY <1>3, FS_EmptySet
<1>8. Cardinality(R) \in Nat
    BY <1>4, FS_CardinalityType
<1>9. Cardinality(R) \in Nat /\ Cardinality(Q) = Cardinality(R) + CountOf(o, ObjectsOf(q))
    BY <1>2, <1>5, <1>6, <1>7, <1>8
<1> QED
    BY <1>9 DEF R, Q, q

\* The senders are this one and the others.
LEMMA HeldSenders ==
    ASSUME NEW pu, NEW p \in Pushers, Queues(pu[p]), NEW o \in Objects
    PROVE  /\ Cardinality(OtherSenders(pu, p, o)) \in Nat
           /\ Cardinality(SendersOf(pu, o)) = Cardinality(OtherSenders(pu, p, o)) + CountOf(o, ObjectsOf(pu[p].sending))
<1> DEFINE s == pu[p].sending
           Q == SendersOf(pu, o)
           R == OtherSenders(pu, p, o)
<1>1. s \in Seq(Entry) /\ Len(s) <= 1
    BY DEF Queues
<1>2. IsFiniteSet(Q) /\ Cardinality(Q) \in Nat
    BY FiniteHeld, FS_CardinalityType
<1>3. p \in Q <=> s # <<>> /\ s[1].object = o
    BY DEF SendersOf
<1>4. R = Q \ {p}
    BY DEF OtherSenders
<1> HIDE DEF Q, R, s
<1>5. IsFiniteSet(R) /\ Cardinality(R) \in Nat
    BY <1>2, <1>4, FS_RemoveElement, FS_CardinalityType
<1>6. Cardinality(Q) = Cardinality(R) + One(p \in Q)
    <2>1. CASE p \in Q
        <3>1. Cardinality(R) = Cardinality(Q) - 1
            BY <2>1, <1>2, <1>4, FS_RemoveElement
        <3> QED
            BY <3>1, <2>1, <1>2 DEF One
    <2>2. CASE p \notin Q
        <3>1. R = Q
            BY <2>2, <1>4
        <3> QED
            BY <3>1, <2>2, <1>2 DEF One
    <2> QED
        BY <2>1, <2>2
<1>7. CountOf(o, ObjectsOf(s)) = One(p \in Q)
    <2>1. CASE s = <<>>
        <3>1. CountOf(o, ObjectsOf(<<>>)) = 0
            BY <1>1, CountObjects
        <3> QED
            BY <3>1, <2>1, <1>3 DEF One
    <2>2. CASE s # <<>>
        <3>1. Len(s) = 1
            <4> DEFINE n == Len(s)
            <4>1. n \in Nat /\ n # 0 /\ n <= 1
                BY <2>2, <1>1
            <4> HIDE DEF n
            <4>2. n = 1
                BY ONLY <4>1
            <4> QED
                BY <4>2 DEF n
        <3>3. CountOf(o, ObjectsOf(s)) = One(s[1].object = o)
            BY <3>1, <1>1, CountSingle
        <3> QED
            BY <3>3, <2>2, <1>3 DEF One
    <2> QED
        BY <2>1, <2>2
<1>8. Cardinality(R) \in Nat /\ Cardinality(Q) = Cardinality(R) + CountOf(o, ObjectsOf(s))
    BY <1>5, <1>6, <1>7
<1> QED
    BY <1>8 DEF R, Q, s

\* The references of all pushers are those of one and of the others.
LEMMA HeldSplit ==
    ASSUME NEW pu, NEW p \in Pushers, Queues(pu[p])
    PROVE  /\ Held(pu) \in Counts /\ Others(pu, p) \in Counts
           /\ \A o \in Objects : Held(pu)[o] = Others(pu, p)[o] + ObjFn(pu[p].queue)[o] + ObjFn(pu[p].sending)[o]
<1>1. pu[p].queue \in Seq(Entry) /\ pu[p].sending \in Seq(Entry)
    BY DEF Queues
<1>2. ASSUME NEW o \in Objects
      PROVE  /\ Held(pu)[o] = Others(pu, p)[o] + ObjFn(pu[p].queue)[o] + ObjFn(pu[p].sending)[o]
             /\ Held(pu)[o] \in Nat /\ Others(pu, p)[o] \in Nat
    <2> DEFINE a == Cardinality(OtherQueues(pu, p, o))
               b == Cardinality(OtherSenders(pu, p, o))
               c == CountOf(o, ObjectsOf(pu[p].queue))
               d == CountOf(o, ObjectsOf(pu[p].sending))
    <2>1. a \in Nat /\ Cardinality(QueuesOf(pu, o)) = a + c
        BY HeldQueues
    <2>2. b \in Nat /\ Cardinality(SendersOf(pu, o)) = b + d
        BY HeldSenders
    <2>3. c \in Nat /\ d \in Nat
        BY <1>1, CountObjects
    <2>4. Held(pu)[o] = Cardinality(QueuesOf(pu, o)) + Cardinality(SendersOf(pu, o)) /\ Others(pu, p)[o] = a + b
        BY DEF Held, Others
    <2>5. ObjFn(pu[p].queue)[o] = c /\ ObjFn(pu[p].sending)[o] = d
        BY DEF ObjFn
    <2> HIDE DEF a, b, c, d
    <2> QED
        BY ONLY <2>1, <2>2, <2>3, <2>4, <2>5
<1>3. (\A o \in Objects : Held(pu)[o] \in Nat) /\ \A o \in Objects : Others(pu, p)[o] \in Nat
    BY <1>2
<1>4. Held(pu) \in Counts /\ Others(pu, p) \in Counts
    BY <1>3 DEF Held, Others, Counts
<1> QED
    BY <1>2, <1>4

\* What one pusher does leaves the references of the others alone.
LEMMA OthersSame ==
    ASSUME NEW pu, NEW pu2, NEW p \in Pushers,
           \A x \in Pushers \ {p} : pu2[x].queue = pu[x].queue /\ pu2[x].sending = pu[x].sending
    PROVE  Others(pu2, p) = Others(pu, p)
<1>1. ASSUME NEW o \in Objects
      PROVE  OtherQueues(pu2, p, o) = OtherQueues(pu, p, o) /\ OtherSenders(pu2, p, o) = OtherSenders(pu, p, o)
    <2>1. OtherQueues(pu2, p, o) = OtherQueues(pu, p, o)
        BY DEF OtherQueues, QueuesOf
    <2>2. OtherSenders(pu2, p, o) = OtherSenders(pu, p, o)
        BY DEF OtherSenders, SendersOf
    <2> QED
        BY <2>1, <2>2
<1> QED
    BY <1>1 DEF Others

\* The references depend on the queues and the frames being sent only.
LEMMA HeldSame ==
    ASSUME NEW pu, NEW pu2, \A x \in Pushers : pu2[x].queue = pu[x].queue /\ pu2[x].sending = pu[x].sending
    PROVE  Held(pu2) = Held(pu)
<1>1. ASSUME NEW o \in Objects
      PROVE  QueuesOf(pu2, o) = QueuesOf(pu, o) /\ SendersOf(pu2, o) = SendersOf(pu, o)
    BY DEF QueuesOf, SendersOf
<1> QED
    BY <1>1 DEF Held

\* The references of the pushers are numbers.
LEMMA HeldType ==
    ASSUME NEW pu
    PROVE  Held(pu) \in Counts
<1>1. \A o \in Objects : Cardinality(QueuesOf(pu, o)) \in Nat /\ Cardinality(SendersOf(pu, o)) \in Nat
    BY FiniteHeld, FS_CardinalityType
<1> QED
    BY <1>1 DEF Held, Counts

\* What a pusher is.
PusherSet ==
    [pc : {"new", "select", "paused", "send", "empty", "drain", "streams", "closed"},
     streams : SUBSET [id : Nat, kind : {"ps", "h264"}], ids : Nat, queue : Seq(Entry), canPush : BOOLEAN,
     push : BOOLEAN, pause : BOOLEAN, sending : Seq(Entry), asked : BOOLEAN, emptied : BOOLEAN]

\* A pusher holds a frame outside its queue while it sends, and only then.
PusherOK(q) ==
    /\ q \in PusherSet /\ Len(q.queue) <= MaxCached
    /\ q.pc = "send" => Len(q.sending) = 1
    /\ q.pc # "send" => q.sending = <<>>

\* What the handler is.
HandlerSet ==
    [pc : {"run", "pushers", "output", "closed", "ended"}, frame : Nat,
     left : SUBSET Pushers, targets : SUBSET (Pushers \X Nat)]

\* What the GOP is.
GopSet == [frames : Seq(Numbers), start : Int, end : Int]

\* A GOP with the frames since a key frame: what GopsWhole says of it.
Whole(g, since) ==
    g.frames # <<>> => g.frames = since /\ g.start <= g.end /\ g.end = Times[Last(g.frames)][2]

\* What the variables are; of the GOP, that it is whole.
Kinds ==
    /\ received \in 0..MaxFrames /\ input \in Seq(Numbers) /\ sinceKey \in Seq(Numbers)
    /\ handler \in HandlerSet /\ gop \in GopSet /\ Whole(gop, sinceKey)
    /\ pusher \in [Pushers -> PusherSet] /\ \A p \in Pushers : PusherOK(pusher[p])

\* Frame f is still in the received queue.
Waits(f) == \E i \in DOMAIN input : input[i] = f

\* Frame g has been packed already, if it ever will be.
Passed(g) == g \in 1..received /\ ~Waits(g) /\ (handler.pc = "pushers" => g # handler.frame)

\* A packed frame is of a frame that has been packed.
Settled(o) == o[1] = "out" => Passed(o[2])

\* The pusher holds such packed frames only.
SettledIn(q) == (\A i \in DOMAIN q.queue : Settled(q.queue[i].object)) /\ (\A i \in DOMAIN q.sending : Settled(q.sending[i].object))

\* The received queue holds received frames, each once.
Arrived == \A i, j \in DOMAIN input : input[i] \in 1..received /\ (input[i] = input[j] => i = j)

\* The frame in hand has been received and has left the queue.
Current == handler.pc \in {"pushers", "output"} => handler.frame \in 1..received /\ ~Waits(handler.frame)

\* No frame is packed twice: a packed frame that a pusher still holds, however
\* long, is never the one that the handler is about to pack.
Fresh == Arrived /\ Current /\ \A p \in Pushers : SettledIn(pusher[p])

\* The objects in the hand of handler h.
HandOf(h) ==
    CASE h.pc \in {"run", "closed", "ended"} -> {}
      [] h.pc = "output" -> {Rtp(h.frame), Ps(h.frame), Out(h.frame)}
      [] OTHER -> {Rtp(h.frame), Ps(h.frame)}

\* The direct references: the queue, the GOP, the pushers and the hand.
DirectOf(i, fs, h, pu) ==
    [o \in Objects |-> QueueFn(i)[o] + GopFn(fs)[o] + Held(pu)[o] + One(o \in HandOf(h))]

\* The direct references of the state.
Direct == DirectOf(input, gop.frames, handler, pusher)

\* The inductive invariant: every count is its direct references, and one more for
\* a frame whose packed frame is alive.
PathInv == Kinds /\ Fresh /\ Exact(refs, Direct)

\* The direct references, object by object.
LEMMA DirectFacts ==
    ASSUME NEW i \in Seq(Numbers), NEW fs \in Seq(Numbers), NEW h, NEW pu
    PROVE  /\ DirectOf(i, fs, h, pu) \in Counts
           /\ \A o \in Objects :
                /\ DirectOf(i, fs, h, pu)[o] = QueueFn(i)[o] + GopFn(fs)[o] + Held(pu)[o] + One(o \in HandOf(h))
                /\ QueueFn(i)[o] \in Nat /\ GopFn(fs)[o] \in Nat /\ Held(pu)[o] \in Nat /\ One(o \in HandOf(h)) \in Nat
<1>1. QueueFn(i) \in Counts /\ GopFn(fs) \in Counts /\ Held(pu) \in Counts
    BY QueueFnFacts, GopFnFacts, HeldType
<1>2. \A o \in Objects : QueueFn(i)[o] \in Nat /\ GopFn(fs)[o] \in Nat /\ Held(pu)[o] \in Nat /\ One(o \in HandOf(h)) \in Nat
    BY <1>1 DEF Counts, One
<1>3. \A o \in Objects : DirectOf(i, fs, h, pu)[o] = QueueFn(i)[o] + GopFn(fs)[o] + Held(pu)[o] + One(o \in HandOf(h))
    BY DEF DirectOf
<1>4. \A o \in Objects : DirectOf(i, fs, h, pu)[o] \in Nat
    BY <1>2, <1>3
<1>5. DirectOf(i, fs, h, pu) \in Counts
    BY <1>4 DEF DirectOf, Counts
<1> QED
    BY <1>2, <1>3, <1>5

\* One release for one direct reference less.
LEMMA TakenOne ==
    ASSUME NEW r, NEW d, Exact(r, d), NEW d2 \in Counts, NEW x,
           \A o \in Objects : d[o] = d2[o] + One(x = o)
    PROVE  Exact(Release(r, x), d2)
<1> DEFINE c == Just(x)
<1>1. c \in Counts /\ \A o \in Objects : c[o] = One(x = o)
    BY JustFacts
<1> HIDE DEF c
<1>2. c \in [Objects -> Nat] /\ d2 \in [Objects -> Nat]
    BY <1>1 DEF Counts
<1>3. \A o \in Objects : CountOf(o, <<x>>) = c[o] /\ d[o] = d2[o] + c[o]
    BY <1>1, CountOne
<1>4. Exact(ReleaseAll(r, <<x>>), d2)
    BY ONLY <1>2, <1>3, ReleaseExact, Exact(r, d)
<1> QED
    BY <1>4 DEF Release

\* Two releases for two direct references less.
LEMMA TakenTwo ==
    ASSUME NEW r, NEW d, Exact(r, d), NEW d2 \in Counts, NEW x, NEW y,
           \A o \in Objects : d[o] = d2[o] + One(x = o) + One(y = o)
    PROVE  Exact(Release(Release(r, x), y), d2)
<1> DEFINE d1 == Plus(d2, Just(y))
<1>1. Just(y) \in Counts /\ \A o \in Objects : Just(y)[o] = One(y = o)
    BY JustFacts
<1>2. d1 \in Counts /\ \A o \in Objects : d1[o] = d2[o] + One(y = o)
    BY <1>1, PlusFacts
<1> HIDE DEF d1
<1>3. \A o \in Objects : d2[o] \in Nat /\ One(x = o) \in Nat /\ One(y = o) \in Nat
    BY DEF Counts, One
<1>4. \A o \in Objects : d[o] = d1[o] + One(x = o)
    BY <1>2, <1>3
<1>5. Exact(Release(r, x), d1)
    BY <1>2, <1>4, TakenOne
<1> QED
    BY <1>2, <1>5, TakenOne

\* One use for one direct reference more.
LEMMA AddedOne ==
    ASSUME NEW r, NEW d \in Counts, Exact(r, d), NEW d2 \in Counts, NEW x \in Objects, x[1] = "out" => d[x] > 0,
           \A o \in Objects : d2[o] = d[o] + One(x = o)
    PROVE  Exact(Use(r, x), d2)
<1> DEFINE b == Plus(d, Just(x))
<1>1. Exact(Use(r, x), b)
    BY UsePlus
<1>2. Just(x) \in Counts /\ \A o \in Objects : Just(x)[o] = One(x = o)
    BY JustFacts
<1>3. b \in Counts /\ \A o \in Objects : b[o] = d[o] + One(x = o)
    BY <1>2, PlusFacts
<1> HIDE DEF b
<1>4. b = d2
    BY <1>3, SameCounts
<1> QED
    BY <1>1, <1>4

-----------------------------------------------------------------------------

\* A pusher q becomes q2, which holds a more and b less.
Balanced(q, q2, a, b) ==
    \A o \in Objects : ObjFn(q.queue)[o] + ObjFn(q.sending)[o] + a[o] = ObjFn(q2.queue)[o] + ObjFn(q2.sending)[o] + b[o]

\* The queues of a pusher are bounded.
LEMMA OkQueues ==
    ASSUME NEW q, PusherOK(q)
    PROVE  Queues(q)
<1>2. q.queue \in Seq(Entry) /\ q.sending \in Seq(Entry) /\ Len(q.queue) <= MaxCached
    BY DEF PusherOK, PusherSet
<1>3. CASE q.pc = "send"
    <2>1. Len(q.sending) = 1
        BY <1>3 DEF PusherOK
    <2>2. Len(q.sending) <= 1
        BY ONLY <2>1
    <2> QED
        BY ONLY <1>2, <2>2 DEF Queues
<1>4. CASE q.pc # "send"
    <2>1. q.sending = <<>>
        BY <1>4 DEF PusherOK
    <2>2. Len(q.sending) <= 1
        BY ONLY <2>1
    <2> QED
        BY ONLY <1>2, <2>2 DEF Queues
<1> QED
    BY <1>3, <1>4

\* What one pusher gains or loses, all of them gain or lose.
LEMMA HeldChange ==
    ASSUME Kinds, NEW p \in Pushers, NEW q2, Queues(q2), pusher' = [pusher EXCEPT ![p] = q2],
           NEW a \in Counts, NEW b \in Counts,
           Balanced(pusher[p], q2, a, b)
    PROVE  \A o \in Objects : Held(pusher)[o] + a[o] = Held(pusher')[o] + b[o]
<1> DEFINE pu == pusher
           pu2 == pusher'
           q == pusher[p]
<1>1. pu2[p] = q2 /\ \A x \in Pushers \ {p} : pu2[x] = pu[x]
    BY DEF Kinds
<1>2. Queues(q)
    <2>1. PusherOK(q) /\ q \in PusherSet
        BY DEF Kinds
    <2> QED
        BY <2>1, OkQueues
<1>3. Others(pu2, p) = Others(pu, p)
    <2> HIDE DEF pu, pu2
    <2> QED
        BY <1>1, OthersSame
<1>4. Held(pu) \in Counts /\ Others(pu, p) \in Counts
      /\ \A o \in Objects : Held(pu)[o] = Others(pu, p)[o] + ObjFn(q.queue)[o] + ObjFn(q.sending)[o]
    BY <1>2, HeldSplit
<1>5. Held(pu2) \in Counts
      /\ \A o \in Objects : Held(pu2)[o] = Others(pu, p)[o] + ObjFn(q2.queue)[o] + ObjFn(q2.sending)[o]
    <2> HIDE DEF pu, pu2
    <2>1. Queues(pu2[p])
        BY <1>1
    <2>2. Held(pu2) \in Counts
          /\ \A o \in Objects : Held(pu2)[o] = Others(pu2, p)[o] + ObjFn(pu2[p].queue)[o] + ObjFn(pu2[p].sending)[o]
        BY <2>1, HeldSplit
    <2> QED
        BY <2>2, <1>1, <1>3
<1>6. \A o \in Objects : /\ ObjFn(q.queue)[o] \in Nat /\ ObjFn(q.sending)[o] \in Nat
                         /\ ObjFn(q2.queue)[o] \in Nat /\ ObjFn(q2.sending)[o] \in Nat
    <2>1. q.queue \in Seq(Entry) /\ q.sending \in Seq(Entry) /\ q2.queue \in Seq(Entry) /\ q2.sending \in Seq(Entry)
        BY <1>2 DEF Queues
    <2>2. ObjFn(q.queue) \in Counts /\ ObjFn(q.sending) \in Counts /\ ObjFn(q2.queue) \in Counts /\ ObjFn(q2.sending) \in Counts
        BY <2>1, ObjFnFacts
    <2> QED
        BY <2>2 DEF Counts
<1> SUFFICES ASSUME NEW o \in Objects PROVE Held(pusher)[o] + a[o] = Held(pusher')[o] + b[o]
    OBVIOUS
<1> DEFINE h == Held(pu)[o]
           h2 == Held(pu2)[o]
           w == Others(pu, p)[o]
           s1 == ObjFn(q.queue)[o]
           s2 == ObjFn(q.sending)[o]
           t1 == ObjFn(q2.queue)[o]
           t2 == ObjFn(q2.sending)[o]
           x == a[o]
           y == b[o]
<1>7. /\ h = w + s1 + s2 /\ h2 = w + t1 + t2 /\ s1 + s2 + x = t1 + t2 + y
      /\ w \in Nat /\ s1 \in Nat /\ s2 \in Nat /\ t1 \in Nat /\ t2 \in Nat /\ x \in Nat /\ y \in Nat
    <2>1. w \in Nat /\ x \in Nat /\ y \in Nat
        BY <1>4 DEF Counts
    <2>2. h = w + s1 + s2
        BY <1>4
    <2>3. h2 = w + t1 + t2
        BY <1>5
    <2>4. s1 \in Nat /\ s2 \in Nat /\ t1 \in Nat /\ t2 \in Nat
        BY <1>6
    <2>5. s1 + s2 + x = t1 + t2 + y
        BY DEF Balanced
    <2> QED
        BY <2>1, <2>2, <2>3, <2>4, <2>5
<1> HIDE DEF h, h2, w, s1, s2, t1, t2, x, y
<1>8. h + x = h2 + y
    BY ONLY <1>7
<1> QED
    BY <1>8 DEF h, h2, x, y

\* A step that changes what one pusher holds and nothing else of the places.
LEMMA DirectChange ==
    ASSUME Kinds, NEW p \in Pushers, NEW q2, Queues(q2), pusher' = [pusher EXCEPT ![p] = q2],
           input' = input, gop' = gop, HandOf(handler') = HandOf(handler),
           NEW a \in Counts, NEW b \in Counts,
           Balanced(pusher[p], q2, a, b)
    PROVE  Direct \in Counts /\ Direct' \in Counts /\ \A o \in Objects : Direct[o] + a[o] = Direct'[o] + b[o]
<1> DEFINE hd == handler
           hd2 == handler'
           fs == gop.frames
           d == DirectOf(input, fs, hd, pusher)
           d2 == DirectOf(input, fs, hd2, pusher')
<1>0. Direct = d /\ Direct' = d2
    BY DEF Direct
<1>1. input \in Seq(Numbers) /\ fs \in Seq(Numbers) /\ HandOf(hd2) = HandOf(hd)
    BY DEF Kinds, GopSet
<1> HIDE DEF hd, hd2, fs
<1>2. \A o \in Objects : Held(pusher)[o] + a[o] = Held(pusher')[o] + b[o]
    BY HeldChange
<1>3. d \in Counts /\ d2 \in Counts
    BY <1>1, DirectFacts
<1>4. ASSUME NEW o \in Objects
      PROVE  d[o] + a[o] = d2[o] + b[o]
    <2> DEFINE i == QueueFn(input)[o]
               g == GopFn(fs)[o]
               h == Held(pusher)[o]
               h2 == Held(pusher')[o]
               w == One(o \in HandOf(hd))
               w2 == One(o \in HandOf(hd2))
               x == a[o]
               y == b[o]
    <2> HIDE DEF i, g, h, h2, w, w2, x, y
    <2>1. d[o] = i + g + h + w /\ i \in Nat /\ g \in Nat /\ h \in Nat /\ w \in Nat
        <3>1. \A z \in Objects :
                /\ d[z] = QueueFn(input)[z] + GopFn(fs)[z] + Held(pusher)[z] + One(z \in HandOf(hd))
                /\ QueueFn(input)[z] \in Nat /\ GopFn(fs)[z] \in Nat /\ Held(pusher)[z] \in Nat /\ One(z \in HandOf(hd)) \in Nat
            BY ONLY <1>1, DirectFacts
        <3> HIDE DEF d
        <3> QED
            BY <3>1 DEF i, g, h, w
    <2>2. d2[o] = i + g + h2 + w2 /\ h2 \in Nat
        <3>1. \A z \in Objects :
                /\ d2[z] = QueueFn(input)[z] + GopFn(fs)[z] + Held(pusher')[z] + One(z \in HandOf(hd2))
                /\ Held(pusher')[z] \in Nat
            BY ONLY <1>1, DirectFacts
        <3> HIDE DEF d2
        <3> QED
            BY <3>1 DEF i, g, h2, w2
    <2>3. x \in Nat /\ y \in Nat
        BY DEF Counts, x, y
    <2>4. w2 = w
        BY <1>1 DEF w, w2
    <2>5. h + x = h2 + y
        BY <1>2 DEF h, h2, x, y
    <2> HIDE DEF d, d2
    <2>6. d[o] + x = d2[o] + y
        BY ONLY <2>1, <2>2, <2>3, <2>4, <2>5
    <2> QED
        BY <2>6 DEF x, y
<1> HIDE DEF d, d2
<1> QED
    BY <1>0, <1>3, <1>4

\* What a step may do with the received frames without spoiling what is settled.
Onward ==
    /\ received' \in Nat /\ received <= received'
    /\ \A f : Waits(f)' => Waits(f) \/ (f \in Nat /\ f > received)
    /\ handler'.pc = "pushers" => (handler.pc = "pushers" /\ handler'.frame = handler.frame) \/ Waits(handler'.frame)

\* Settled stays settled.
LEMMA SettledOnward ==
    ASSUME Kinds, Onward, NEW o, Settled(o)
    PROVE  Settled(o)'
<1> DEFINE g == o[2]
<1> SUFFICES ASSUME o[1] = "out" PROVE Passed(g)'
    BY DEF Settled
<1>1. Passed(g)
    BY DEF Settled
<1> HIDE DEF g
<1>2. received \in Nat
    BY DEF Kinds
<1>3. g \in 1..received'
    BY <1>1, <1>2 DEF Onward, Passed
<1>4. ~Waits(g)'
    <2>1. g <= received /\ ~Waits(g) /\ g \in Nat
        BY <1>1, <1>2 DEF Passed
    <2>2. ~(g > received)
        BY <2>1, <1>2
    <2> QED
        BY <2>1, <2>2 DEF Onward
<1>5. handler'.pc = "pushers" => g # handler'.frame
    BY <1>1 DEF Onward, Passed
<1> QED
    BY <1>3, <1>4, <1>5 DEF Passed

\* The frames that a pusher holds stay settled.
LEMMA SettledInOnward ==
    ASSUME Kinds, Onward, NEW q, SettledIn(q)
    PROVE  SettledIn(q)'
<1>1. ASSUME NEW i \in DOMAIN q.queue
      PROVE  Settled(q.queue[i].object)'
    <2>1. Settled(q.queue[i].object)
        BY DEF SettledIn
    <2> QED
        BY <2>1, SettledOnward
<1>2. ASSUME NEW i \in DOMAIN q.sending
      PROVE  Settled(q.sending[i].object)'
    <2>1. Settled(q.sending[i].object)
        BY DEF SettledIn
    <2> QED
        BY <2>1, SettledOnward
<1> QED
    BY <1>1, <1>2 DEF SettledIn

\* The same of the pusher in the next state.
LEMMA SettledNext ==
    ASSUME Kinds, Onward, NEW x, NEW q, SettledIn(q), pusher'[x] = q
    PROVE  SettledIn(pusher[x])'
<1>1. SettledIn(q)'
    BY SettledInOnward
<1> QED
    BY <1>1 DEF SettledIn, Settled, Passed, Waits

\* A step that receives, takes and parses nothing is such a step.
LEMMA OnwardSame ==
    ASSUME Kinds, received' = received, input' = input,
           handler'.pc = "pushers" => handler.pc = "pushers" /\ handler'.frame = handler.frame
    PROVE  Onward
<1>1. received \in Nat
    BY DEF Kinds
<1>2. \A f : Waits(f)' <=> Waits(f)
    BY DEF Waits
<1> QED
    BY <1>1, <1>2 DEF Onward

\* A step of one pusher keeps the invariant if the counts stay exact.
LEMMA PusherStep ==
    ASSUME PathInv, NEW p \in Pushers, NEW q2, PusherOK(q2), With(p, q2), SettledIn(q2), Exact(refs', Direct')
    PROVE  PathInv'
<1>1. /\ pusher' = [pusher EXCEPT ![p] = q2] /\ received' = received /\ input' = input /\ gop' = gop
      /\ sinceKey' = sinceKey /\ handler' = handler
    BY DEF With, channel
<1>2. Kinds /\ Fresh
    BY DEF PathInv
<1>3. pusher'[p] = q2 /\ \A x \in Pushers : x # p => pusher'[x] = pusher[x]
    BY <1>1, <1>2 DEF Kinds
<1>4. Kinds'
    <2>1. q2 \in PusherSet
        BY DEF PusherOK
    <2>2. pusher' \in [Pushers -> PusherSet]
        BY <1>1, <1>2, <2>1 DEF Kinds
    <2>3. \A x \in Pushers : PusherOK(pusher'[x])
        BY <1>2, <1>3 DEF Kinds
    <2> QED
        BY <1>1, <1>2, <2>2, <2>3 DEF Kinds
<1>5. Onward
    BY <1>1, <1>2, OnwardSame
<1>6. \A x \in Pushers : SettledIn(pusher[x])'
    <2> SUFFICES ASSUME NEW x \in Pushers PROVE SettledIn(pusher[x])'
        OBVIOUS
    <2>1. SettledIn(pusher[x])
        BY <1>2 DEF Fresh
    <2>2. CASE x = p
        BY <1>2, <1>3, <1>5, <2>2, SettledNext
    <2>3. CASE x # p
        BY <1>2, <1>3, <1>5, <2>1, <2>3, SettledNext
    <2> QED
        BY <2>2, <2>3
<1>7. Arrived' /\ Current'
    BY <1>1, <1>2 DEF Fresh, Arrived, Current, Waits
<1> QED
    BY <1>4, <1>6, <1>7 DEF PathInv, Fresh

\* The same queue holds the same frames.
LEMMA SettledSame ==
    ASSUME NEW q, SettledIn(q), NEW q2, q2.queue = q.queue, q2.sending = q.sending
    PROVE  SettledIn(q2)
BY DEF SettledIn

\* A step of one pusher that touches no frame keeps the invariant.
LEMMA QuietStep ==
    ASSUME PathInv, NEW p \in Pushers, NEW q2, With(p, q2), refs' = refs, PusherOK(q2),
           q2.queue = pusher[p].queue, q2.sending = pusher[p].sending
    PROVE  PathInv'
<1>1. Kinds /\ Fresh /\ Exact(refs, Direct)
    BY DEF PathInv
<1>2. pusher' = [pusher EXCEPT ![p] = q2] /\ input' = input /\ gop' = gop /\ handler' = handler
    BY DEF With, channel
<1>3. \A x \in Pushers : pusher'[x].queue = pusher[x].queue /\ pusher'[x].sending = pusher[x].sending
    <2> SUFFICES ASSUME NEW x \in Pushers PROVE pusher'[x].queue = pusher[x].queue /\ pusher'[x].sending = pusher[x].sending
        OBVIOUS
    <2>1. CASE x = p
        BY <1>1, <1>2, <2>1 DEF Kinds
    <2>2. CASE x # p
        BY <1>1, <1>2, <2>2 DEF Kinds
    <2> QED
        BY <2>1, <2>2
<1>4. Held(pusher') = Held(pusher)
    BY <1>3, HeldSame
<1>5. Direct' = Direct
    BY <1>2, <1>4 DEF Direct, DirectOf
<1>6. SettledIn(pusher[p])
    BY <1>1 DEF Fresh
<1>7. SettledIn(q2)
    BY <1>6, SettledSame
<1>8. Exact(refs', Direct')
    BY <1>1, <1>5
<1> QED
    BY <1>7, <1>8, PusherStep

\* What the invariant says of one pusher.
LEMMA PusherFacts ==
    ASSUME PathInv, NEW p \in Pushers
    PROVE  PusherOK(pusher[p]) /\ pusher[p] \in PusherSet /\ SettledIn(pusher[p]) /\ Kinds /\ Fresh /\ Exact(refs, Direct)
BY DEF PathInv, Kinds, Fresh

\* A pusher starts.
LEMMA PusherTakePushStep ==
    ASSUME PathInv, NEW p \in Pushers, PusherTakePush(p)
    PROVE  PathInv'
<1> DEFINE q == pusher[p]
           q2 == [q EXCEPT !.push = FALSE, !.pc = "select"]
<1>1. PusherOK(q) /\ q \in PusherSet
    BY PusherFacts
<1>2. q.pc # "send" /\ With(p, q2) /\ refs' = refs
    BY DEF PusherTakePush, Waiting
<1> HIDE DEF q
<1>3. PusherOK(q2) /\ q2.queue = q.queue /\ q2.sending = q.sending
    BY <1>1, <1>2 DEF PusherOK, PusherSet
<1> HIDE DEF q2
<1> QED
    BY <1>2, <1>3, QuietStep DEF q

\* A pusher pauses.
LEMMA PusherTakePauseStep ==
    ASSUME PathInv, NEW p \in Pushers, PusherTakePause(p)
    PROVE  PathInv'
<1> DEFINE q == pusher[p]
           q2 == [q EXCEPT !.pause = FALSE, !.pc = "paused"]
<1>1. PusherOK(q) /\ q \in PusherSet
    BY PusherFacts
<1>2. q.pc # "send" /\ With(p, q2) /\ refs' = refs
    BY DEF PusherTakePause, Waiting
<1> HIDE DEF q
<1>3. PusherOK(q2) /\ q2.queue = q.queue /\ q2.sending = q.sending
    BY <1>1, <1>2 DEF PusherOK, PusherSet
<1> HIDE DEF q2
<1> QED
    BY <1>2, <1>3, QuietStep DEF q

\* A pusher closes itself after its last stream failed.
LEMMA PusherEmptyStep ==
    ASSUME PathInv, NEW p \in Pushers, PusherEmpty(p)
    PROVE  PathInv'
<1> DEFINE q == pusher[p]
           q2 == [q EXCEPT !.pc = "select", !.asked = TRUE]
<1>1. PusherOK(q) /\ q \in PusherSet
    BY PusherFacts
<1>2. q.pc # "send" /\ With(p, q2) /\ refs' = refs
    BY DEF PusherEmpty
<1> HIDE DEF q
<1>3. PusherOK(q2) /\ q2.queue = q.queue /\ q2.sending = q.sending
    BY <1>1, <1>2 DEF PusherOK, PusherSet
<1> HIDE DEF q2
<1> QED
    BY <1>2, <1>3, QuietStep DEF q

\* A pusher notices that it is to close.
LEMMA PusherInterruptedStep ==
    ASSUME PathInv, NEW p \in Pushers, PusherInterrupted(p)
    PROVE  PathInv'
<1> DEFINE q == pusher[p]
           q2 == [q EXCEPT !.pc = "drain"]
<1>1. PusherOK(q) /\ q \in PusherSet
    BY PusherFacts
<1>2. q.pc # "send" /\ With(p, q2) /\ refs' = refs
    BY DEF PusherInterrupted, Waiting
<1> HIDE DEF q
<1>3. PusherOK(q2) /\ q2.queue = q.queue /\ q2.sending = q.sending
    BY <1>1, <1>2 DEF PusherOK, PusherSet
<1> HIDE DEF q2
<1> QED
    BY <1>2, <1>3, QuietStep DEF q

\* A pusher removes its streams.
LEMMA PusherClosedStep ==
    ASSUME PathInv, NEW p \in Pushers, PusherClosed(p)
    PROVE  PathInv'
<1> DEFINE q == pusher[p]
           q2 == [q EXCEPT !.pc = "closed", !.streams = {}]
<1>1. PusherOK(q) /\ q \in PusherSet
    BY PusherFacts
<1>2. q.pc # "send" /\ With(p, q2) /\ refs' = refs
    BY DEF PusherClosed
<1> HIDE DEF q
<1>3. PusherOK(q2) /\ q2.queue = q.queue /\ q2.sending = q.sending
    BY <1>1, <1>2 DEF PusherOK, PusherSet
<1> HIDE DEF q2
<1> QED
    BY <1>2, <1>3, QuietStep DEF q

\* OpenRtpPusher.
LEMMA OpenRtpPusherStep ==
    ASSUME PathInv, NEW p \in Pushers, OpenRtpPusher(p), refs' = refs
    PROVE  PathInv'
<1> DEFINE q == pusher[p]
           q2 == [q EXCEPT !.pc = "select"]
<1>1. PusherOK(q) /\ q \in PusherSet
    BY PusherFacts
<1>2. With(p, q2) /\ q.pc = "new"
    BY DEF OpenRtpPusher
<1> HIDE DEF q
<1>3. PusherOK(q2) /\ q2.queue = q.queue /\ q2.sending = q.sending
    BY <1>1, <1>2 DEF PusherOK, PusherSet
<1> HIDE DEF q2
<1> QED
    BY <1>2, <1>3, QuietStep DEF q

\* RemoveStream closes the pusher.
LEMMA RemoveClosesStep ==
    ASSUME PathInv, NEW p \in Pushers, RemoveCloses(p), refs' = refs
    PROVE  PathInv'
<1> DEFINE q == pusher[p]
           q2 == [q EXCEPT !.asked = TRUE, !.emptied = FALSE]
<1>1. PusherOK(q) /\ q \in PusherSet
    BY PusherFacts
<1>2. With(p, q2)
    BY DEF RemoveCloses
<1> HIDE DEF q
<1>3. PusherOK(q2) /\ q2.queue = q.queue /\ q2.sending = q.sending
    BY <1>1, <1>2 DEF PusherOK, PusherSet
<1> HIDE DEF q2
<1> QED
    BY <1>2, <1>3, QuietStep DEF q

\* CloseRtpPusher.
LEMMA CloseRtpPusherStep ==
    ASSUME PathInv, NEW p \in Pushers, CloseRtpPusher(p), refs' = refs
    PROVE  PathInv'
<1> DEFINE q == pusher[p]
           q2 == [q EXCEPT !.asked = TRUE]
<1>1. PusherOK(q) /\ q \in PusherSet
    BY PusherFacts
<1>2. With(p, q2)
    BY DEF CloseRtpPusher
<1> HIDE DEF q
<1>3. PusherOK(q2) /\ q2.queue = q.queue /\ q2.sending = q.sending
    BY <1>1, <1>2 DEF PusherOK, PusherSet
<1> HIDE DEF q2
<1> QED
    BY <1>2, <1>3, QuietStep DEF q

\* StartPush.
LEMMA StartPushStep ==
    ASSUME PathInv, NEW p \in Pushers, StartPush(p), refs' = refs
    PROVE  PathInv'
<1> DEFINE q == pusher[p]
           q2 == [q EXCEPT !.push = TRUE, !.canPush = TRUE]
<1>1. PusherOK(q) /\ q \in PusherSet
    BY PusherFacts
<1>2. With(p, q2)
    BY DEF StartPush
<1> HIDE DEF q
<1>3. PusherOK(q2) /\ q2.queue = q.queue /\ q2.sending = q.sending
    BY <1>1, <1>2 DEF PusherOK, PusherSet
<1> HIDE DEF q2
<1> QED
    BY <1>2, <1>3, QuietStep DEF q

\* Pause.
LEMMA PauseStep ==
    ASSUME PathInv, NEW p \in Pushers, Pause(p), refs' = refs
    PROVE  PathInv'
<1> DEFINE q == pusher[p]
           q2 == [q EXCEPT !.pause = TRUE, !.canPush = FALSE]
<1>1. PusherOK(q) /\ q \in PusherSet
    BY PusherFacts
<1>2. With(p, q2)
    BY DEF Pause
<1> HIDE DEF q
<1>3. PusherOK(q2) /\ q2.queue = q.queue /\ q2.sending = q.sending
    BY <1>1, <1>2 DEF PusherOK, PusherSet
<1> HIDE DEF q2
<1> QED
    BY <1>2, <1>3, QuietStep DEF q

\* AddStream.
LEMMA AddStreamStep ==
    ASSUME PathInv, NEW p \in Pushers, NEW kind \in {"ps", "h264"}, AddStream(p, kind), refs' = refs
    PROVE  PathInv'
<1> DEFINE q == pusher[p]
           n == q.ids + 1
           ss == q.streams \union {[id |-> n, kind |-> kind]}
           q2 == [q EXCEPT !.ids = n, !.streams = ss]
<1>1. PusherOK(q) /\ q \in PusherSet
    BY PusherFacts
<1>2. With(p, q2)
    BY DEF AddStream, Added
<1> HIDE DEF q
<1>3. n \in Nat
    BY <1>1 DEF PusherSet
<1>4. ss \in SUBSET [id : Nat, kind : {"ps", "h264"}]
    <2>1. q.streams \in SUBSET [id : Nat, kind : {"ps", "h264"}]
        BY <1>1 DEF PusherSet
    <2> HIDE DEF n
    <2> QED
        BY <1>3, <2>1
<1> HIDE DEF n, ss
<1>5. q2 \in PusherSet /\ q2.queue = q.queue /\ q2.sending = q.sending /\ q2.pc = q.pc
    BY <1>1, <1>3, <1>4 DEF PusherSet
<1> HIDE DEF q2
<1>6. PusherOK(q2)
    BY <1>1, <1>5 DEF PusherOK
<1> QED
    BY <1>2, <1>5, <1>6, QuietStep DEF q

\* RemoveStream.
LEMMA RemoveStreamStep ==
    ASSUME PathInv, NEW p \in Pushers, NEW id, RemoveStream(p, id), refs' = refs
    PROVE  PathInv'
<1> DEFINE q == pusher[p]
           q2 == [[q EXCEPT !.streams = {s \in @ : s.id # id}] EXCEPT !.emptied = @ \/ Emptied(q, id)]
<1>1. PusherOK(q) /\ q \in PusherSet
    BY PusherFacts
<1>2. With(p, q2)
    BY DEF RemoveStream, Without
<1> HIDE DEF q
<1>3. PusherOK(q2) /\ q2.queue = q.queue /\ q2.sending = q.sending
    BY <1>1, <1>2 DEF PusherOK, PusherSet
<1> HIDE DEF q2
<1> QED
    BY <1>2, <1>3, QuietStep DEF q

\* Whatever a client calls keeps the invariant.
LEMMA ClientStep ==
    ASSUME PathInv, NEW p \in Pushers, Client(p) \/ RemoveCloses(p), refs' = refs
    PROVE  PathInv'
BY OpenRtpPusherStep, RemoveClosesStep, CloseRtpPusherStep, StartPushStep, PauseStep, AddStreamStep, RemoveStreamStep DEF Client

\* No references.
Nothing == [o \in Objects |-> 0]

\* No references, object by object.
LEMMA NothingFacts == Nothing \in Counts /\ \A o \in Objects : Nothing[o] = 0
BY DEF Nothing, Counts

\* Taking the next frame, to send it or to drop it, leaves settled frames.
LEMMA SettledTail ==
    ASSUME NEW q, SettledIn(q), q.queue \in Seq(Entry), q.queue # <<>>, NEW q2, q2.queue = Tail(q.queue),
           q2.sending = q.sending \/ q2.sending = <<Head(q.queue)>>
    PROVE  SettledIn(q2)
<1> DEFINE s == q.queue
           t == q2.queue
<1>1. DOMAIN s = 1..Len(s) /\ Len(s) \in Nat /\ Len(s) >= 1 /\ Head(s) = s[1]
    OBVIOUS
<1>2. \A i \in DOMAIN t : i + 1 \in DOMAIN s /\ t[i] = s[i + 1]
    <2>1. t = Tail(s) /\ s \in Seq(Entry) /\ s # <<>>
        OBVIOUS
    <2> HIDE DEF s, t
    <2> QED
        BY <2>1
<1>3. \A i \in DOMAIN s : Settled(s[i].object)
    BY DEF SettledIn
<1> HIDE DEF s, t
<1>4. \A i \in DOMAIN t : Settled(t[i].object)
    BY <1>2, <1>3
<1>5. \A i \in DOMAIN q2.sending : Settled(q2.sending[i].object)
    <2>1. CASE q2.sending = q.sending
        BY <2>1 DEF SettledIn
    <2>2. CASE q2.sending = <<Head(q.queue)>>
        <3>1. Settled(s[1].object)
            BY <1>1, <1>3
        <3>2. DOMAIN q2.sending = {1} /\ q2.sending[1] = s[1]
            BY <2>2, <1>1 DEF s
        <3> QED
            BY <3>1, <3>2
    <2> QED
        BY <2>1, <2>2
<1> QED
    BY <1>4, <1>5 DEF SettledIn, t

\* Letting go of frames leaves settled frames.
LEMMA SettledDrop ==
    ASSUME NEW q, SettledIn(q), NEW q2, q2.queue = q.queue \/ q2.queue = <<>>,
           q2.sending = q.sending \/ q2.sending = <<>>
    PROVE  SettledIn(q2)
BY DEF SettledIn

\* A condition is 0 or 1.
LEMMA OneFacts ==
    ASSUME NEW b
    PROVE  One(b) \in {0, 1} /\ One(b) \in Nat
BY DEF One

\* The references of a queue are numbers.
LEMMA ObjNat ==
    ASSUME NEW q \in Seq(Entry)
    PROVE  \A o \in Objects : ObjFn(q)[o] \in Nat
BY ObjFnFacts DEF Counts

\* A step in which a pusher lets go of some objects.
LEMMA ReleasingStep ==
    ASSUME PathInv, NEW p \in Pushers, NEW q2, PusherOK(q2), SettledIn(q2), With(p, q2),
           NEW objs, NEW c \in Counts, \A o \in Objects : CountOf(o, objs) = c[o],
           Balanced(pusher[p], q2, Nothing, c), refs' = ReleaseAll(refs, objs)
    PROVE  PathInv'
<1>1. Kinds /\ Exact(refs, Direct)
    BY DEF PathInv
<1>2. Direct \in Counts /\ Direct' \in Counts /\ \A o \in Objects : Direct[o] + Nothing[o] = Direct'[o] + c[o]
    <2>1. Queues(q2)
        BY OkQueues
    <2>2. pusher' = [pusher EXCEPT ![p] = q2] /\ input' = input /\ gop' = gop /\ handler' = handler
        BY DEF With, channel
    <2> QED
        BY <1>1, <2>1, <2>2, NothingFacts, DirectChange
<1> DEFINE d == Direct
           d2 == Direct'
<1>3. Exact(refs, d) /\ d \in Counts /\ d2 \in Counts /\ \A o \in Objects : d[o] + Nothing[o] = d2[o] + c[o]
    BY <1>1, <1>2
<1> HIDE DEF d, d2
<1>4. \A o \in Objects : d[o] = d2[o] + c[o]
    <2>1. \A o \in Objects : d[o] \in Nat /\ d2[o] \in Nat /\ c[o] \in Nat
        BY <1>3 DEF Counts
    <2> QED
        BY <1>3, <2>1, NothingFacts
<1>5. c \in [Objects -> Nat] /\ d2 \in [Objects -> Nat] /\ \A o \in Objects : CountOf(o, objs) = c[o] /\ d[o] = d2[o] + c[o]
    BY <1>3, <1>4 DEF Counts
<1>6. Exact(ReleaseAll(refs, objs), d2)
    BY ONLY <1>3, <1>5, ReleaseExact
<1>7. Exact(refs', Direct')
    BY <1>6 DEF d2
<1> QED
    BY <1>7, PusherStep

\* A pusher takes a frame: it is sent, or its stream is gone and it is released.
LEMMA PusherTakeStep ==
    ASSUME PathInv, NEW p \in Pushers, PusherTake(p)
    PROVE  PathInv'
<1> DEFINE q == pusher[p]
           e == Head(q.queue)
           s == q.queue
<1>1. PusherOK(q) /\ q \in PusherSet /\ SettledIn(q) /\ Kinds /\ Exact(refs, Direct)
    BY PusherFacts
<1>2. q.pc = "select" /\ s # <<>>
    BY DEF PusherTake
<1> HIDE DEF q
<1>3. s \in Seq(Entry) /\ Len(s) <= MaxCached /\ q.sending = <<>>
    BY <1>1, <1>2 DEF PusherOK, PusherSet
<1>4. /\ Tail(s) \in Seq(Entry) /\ e \in Entry /\ Len(Tail(s)) <= MaxCached
      /\ \A o \in Objects : ObjFn(s)[o] = ObjFn(Tail(s))[o] + One(e.object = o)
    <2>1. /\ Tail(s) \in Seq(Entry) /\ e \in Entry
          /\ \A o \in Objects : ObjFn(s)[o] = ObjFn(Tail(s))[o] + One(e.object = o)
        BY <1>2, <1>3, ObjFnTail
    <2>2. Len(Tail(s)) <= MaxCached
        <3>1. Len(Tail(s)) = Len(s) - 1 /\ Len(s) \in Nat
            BY <1>2, <1>3
        <3> QED
            BY <3>1, <1>3, FinitePushers
    <2> QED
        BY <2>1, <2>2
<1>5. /\ \A o \in Objects : ObjFn(<<>>)[o] = 0 /\ ObjFn(Tail(s))[o] \in Nat /\ ObjFn(s)[o] \in Nat
      /\ \A o \in Objects : ObjFn(<<e>>)[o] = One(e.object = o)
      /\ \A o \in Objects : One(e.object = o) \in Nat
    BY <1>3, <1>4, ObjFnEmpty, ObjFnOne, ObjNat, OneFacts
<1>6. CASE With(p, [q EXCEPT !.pc = "send", !.queue = Tail(@), !.sending = <<e>>]) /\ refs' = refs
    <2> DEFINE q2 == [q EXCEPT !.pc = "send", !.queue = Tail(@), !.sending = <<e>>]
    <2>1. <<e>> \in Seq(Entry) /\ Len(<<e>>) = 1
        BY <1>4
    <2>2. q2 \in PusherSet /\ q2.queue = Tail(s) /\ q2.sending = <<e>> /\ q2.pc = "send"
        <3> HIDE DEF e
        <3> QED
            BY <1>1, <1>4, <2>1 DEF PusherSet
    <2> HIDE DEF q2
    <2>3. PusherOK(q2)
        BY <1>4, <2>1, <2>2 DEF PusherOK
    <2>4. SettledIn(q2)
        BY <1>1, <1>2, <1>3, <2>2, SettledTail
    <2>5. Balanced(q, q2, Nothing, Nothing)
        <3> HIDE DEF e, s
        <3>1. ASSUME NEW o \in Objects
              PROVE  ObjFn(s)[o] + ObjFn(<<>>)[o] + Nothing[o] = ObjFn(Tail(s))[o] + ObjFn(<<e>>)[o] + Nothing[o]
            BY <1>4, <1>5, NothingFacts
        <3> QED
            BY <1>3, <2>2, <3>1 DEF Balanced, s
    <2>6. Direct \in Counts /\ Direct' \in Counts /\ \A o \in Objects : Direct[o] + Nothing[o] = Direct'[o] + Nothing[o]
        <3>1. Queues(q2)
            BY <2>3, OkQueues
        <3>2. pusher' = [pusher EXCEPT ![p] = q2] /\ input' = input /\ gop' = gop /\ handler' = handler
            BY <1>6 DEF With, channel, q2
        <3> QED
            BY <1>1, <2>5, <3>1, <3>2, NothingFacts, DirectChange DEF q
    <2>7. \A o \in Objects : Direct[o] = Direct'[o]
        <3>1. \A o \in Objects : Direct[o] \in Nat /\ Direct'[o] \in Nat
            BY <2>6 DEF Counts
        <3> QED
            BY <2>6, <3>1, NothingFacts
    <2>8. Direct = Direct'
        BY <2>6, <2>7, SameCounts
    <2>9. Exact(refs', Direct')
        BY <1>1, <1>6, <2>8
    <2> QED
        BY <1>6, <2>3, <2>4, <2>9, PusherStep DEF q2
<1>7. CASE With(p, [q EXCEPT !.queue = Tail(@)]) /\ refs' = Release(refs, e.object)
    <2> DEFINE q2 == [q EXCEPT !.queue = Tail(@)]
               x == e.object
    <2>2. q2 \in PusherSet /\ q2.queue = Tail(s) /\ q2.sending = q.sending /\ q2.pc = "select"
        BY <1>1, <1>2, <1>4 DEF PusherSet
    <2> HIDE DEF q2
    <2>3. PusherOK(q2)
        BY <1>3, <1>4, <2>2 DEF PusherOK
    <2>4. SettledIn(q2)
        BY <1>1, <1>2, <1>3, <2>2, SettledTail
    <2>5. Balanced(q, q2, Nothing, Just(x))
        <3>1. \A o \in Objects : Just(x)[o] = One(x = o)
            BY JustFacts
        <3>2. \A o \in Objects : ObjFn(s)[o] = ObjFn(Tail(s))[o] + One(x = o) /\ One(x = o) \in Nat
            BY <1>4, <1>5
        <3> HIDE DEF e, s, x
        <3>3. ASSUME NEW o \in Objects
              PROVE  ObjFn(s)[o] + ObjFn(<<>>)[o] + Nothing[o] = ObjFn(Tail(s))[o] + ObjFn(<<>>)[o] + Just(x)[o]
            BY <1>5, <3>1, <3>2, NothingFacts
        <3> QED
            BY <1>3, <2>2, <3>3 DEF Balanced, s
    <2>6. Just(x) \in Counts /\ \A o \in Objects : CountOf(o, <<x>>) = Just(x)[o]
        BY JustFacts, CountOne
    <2>7. With(p, q2) /\ refs' = ReleaseAll(refs, <<x>>)
        BY <1>7 DEF q2, Release
    <2> HIDE DEF x
    <2> QED
        BY <2>3, <2>4, <2>5, <2>6, <2>7, ReleasingStep DEF q
<1> QED
    BY <1>6, <1>7 DEF PusherTake, q

\* A pusher has sent a frame, or failed to.
LEMMA PusherSendStep ==
    ASSUME PathInv, NEW p \in Pushers, PusherSend(p)
    PROVE  PathInv'
<1> DEFINE q == pusher[p]
           e == q.sending[1]
           x == e.object
<1>1. PusherOK(q) /\ q \in PusherSet /\ SettledIn(q)
    BY PusherFacts
<1>2. q.pc = "send" /\ refs' = Release(refs, x)
    BY DEF PusherSend
<1>3. \E q2 : /\ With(p, q2) /\ q2 \in PusherSet /\ q2.pc # "send" /\ q2.queue = q.queue /\ q2.sending = <<>>
    <2> DEFINE w == [q EXCEPT !.pc = "select", !.sending = <<>>]
               v == [Without(w, e.stream) EXCEPT !.pc = IF Emptied(w, e.stream) THEN "empty" ELSE "select"]
    <2>1. With(p, w) \/ With(p, v)
        BY DEF PusherSend
    <2> HIDE DEF q, e
    <2>2. w \in PusherSet /\ w.pc # "send" /\ w.queue = q.queue /\ w.sending = <<>>
        <3> DEFINE no == <<>>
        <3>1. no \in Seq(Entry)
            OBVIOUS
        <3> HIDE DEF no
        <3>2. w = [q EXCEPT !.pc = "select", !.sending = no]
            BY DEF no
        <3> HIDE DEF w
        <3>3. w \in PusherSet /\ w.pc # "send" /\ w.queue = q.queue /\ w.sending = no
            BY <1>1, <3>1, <3>2 DEF PusherSet
        <3> QED
            BY <3>3 DEF no
    <2> HIDE DEF w
    <2>3. v \in PusherSet /\ v.pc # "send" /\ v.queue = q.queue /\ v.sending = <<>>
        <3> DEFINE ss == {s \in w.streams : s.id # e.stream}
                   pc == IF Emptied(w, e.stream) THEN "empty" ELSE "select"
        <3>1. v = [[w EXCEPT !.streams = ss] EXCEPT !.pc = pc]
            BY DEF Without
        <3>2. ss \in SUBSET [id : Nat, kind : {"ps", "h264"}]
            BY <2>2 DEF PusherSet
        <3>3. pc \in {"empty", "select"}
            OBVIOUS
        <3> HIDE DEF v, ss, pc
        <3> QED
            BY <2>2, <3>1, <3>2, <3>3 DEF PusherSet
    <2> HIDE DEF v
    <2> QED
        BY <2>1, <2>2, <2>3
<1>4. PICK q2 : /\ With(p, q2) /\ q2 \in PusherSet /\ q2.pc # "send" /\ q2.queue = q.queue /\ q2.sending = <<>>
    BY <1>3
<1> HIDE DEF q
<1>5. PusherOK(q2)
    BY <1>1, <1>4 DEF PusherOK
<1>6. SettledIn(q2)
    BY <1>1, <1>4, SettledDrop
<1>7. Queues(q) /\ Len(q.sending) = 1
    BY <1>1, <1>2, OkQueues DEF PusherOK
<1>8. q.sending \in Seq(Entry) /\ q.queue \in Seq(Entry)
    BY <1>7 DEF Queues
<1>9. \A o \in Objects : ObjFn(q.sending)[o] = One(x = o)
    BY <1>7, <1>8, CountSingle DEF ObjFn
<1>10. \A o \in Objects : ObjFn(q.queue)[o] \in Nat /\ ObjFn(<<>>)[o] = 0 /\ One(x = o) \in Nat /\ Just(x)[o] = One(x = o)
    BY <1>8, ObjNat, ObjFnEmpty, OneFacts, JustFacts
<1> HIDE DEF x, e
<1>11. Balanced(q, q2, Nothing, Just(x))
    <2>1. ASSUME NEW o \in Objects
          PROVE  ObjFn(q.queue)[o] + ObjFn(q.sending)[o] + Nothing[o] = ObjFn(q.queue)[o] + ObjFn(<<>>)[o] + Just(x)[o]
        BY <1>9, <1>10, NothingFacts
    <2> QED
        BY <1>4, <2>1 DEF Balanced
<1>12. Just(x) \in Counts /\ \A o \in Objects : CountOf(o, <<x>>) = Just(x)[o]
    BY JustFacts, CountOne
<1>13. refs' = ReleaseAll(refs, <<x>>)
    BY <1>2 DEF Release
<1> QED
    BY <1>4, <1>5, <1>6, <1>11, <1>12, <1>13, ReleasingStep DEF q

\* A pusher that closes releases its whole queue.
LEMMA PusherDrainStep ==
    ASSUME PathInv, NEW p \in Pushers, PusherDrain(p)
    PROVE  PathInv'
<1> DEFINE q == pusher[p]
           q2 == [q EXCEPT !.pc = "streams", !.queue = <<>>]
           c == ObjFn(q.queue)
           objs == ObjectsOf(q.queue)
<1>1. PusherOK(q) /\ q \in PusherSet /\ SettledIn(q)
    BY PusherFacts
<1>2. q.pc = "drain" /\ refs' = ReleaseAll(refs, objs) /\ With(p, q2)
    BY DEF PusherDrain
<1> HIDE DEF q
<1>3. q2 \in PusherSet /\ q2.pc = "streams" /\ q2.queue = <<>> /\ q2.sending = q.sending /\ q.sending = <<>>
    BY <1>1, <1>2 DEF PusherSet, PusherOK
<1> HIDE DEF q2
<1>4. PusherOK(q2)
    BY <1>3, FinitePushers DEF PusherOK
<1>5. SettledIn(q2)
    BY <1>1, <1>3, SettledDrop
<1>6. q.queue \in Seq(Entry)
    BY <1>1 DEF PusherSet
<1>7. c \in Counts /\ \A o \in Objects : CountOf(o, objs) = c[o]
    BY <1>6, ObjFnFacts
<1>8. \A o \in Objects : ObjFn(q.queue)[o] \in Nat /\ ObjFn(<<>>)[o] = 0
    BY <1>6, ObjNat, ObjFnEmpty
<1>9. Balanced(q, q2, Nothing, c)
    <2>1. ASSUME NEW o \in Objects
          PROVE  ObjFn(q.queue)[o] + ObjFn(<<>>)[o] + Nothing[o] = ObjFn(<<>>)[o] + ObjFn(<<>>)[o] + ObjFn(q.queue)[o]
        BY <1>8, NothingFacts
    <2> QED
        BY <1>3, <2>1 DEF Balanced
<1> HIDE DEF c, objs
<1> QED
    BY <1>2, <1>4, <1>5, <1>7, <1>9, ReleasingStep DEF q

\* A step that leaves everything settled and the counts exact keeps the invariant.
LEMMA HandlerStep ==
    ASSUME Kinds, Kinds', Onward, Arrived', Current', \A x \in Pushers : SettledIn(pusher'[x]), Exact(refs', Direct')
    PROVE  PathInv'
<1>1. ASSUME NEW x \in Pushers
      PROVE  SettledIn(pusher[x])'
    <2> DEFINE q == pusher'[x]
    <2>1. SettledIn(q) /\ pusher'[x] = q
        OBVIOUS
    <2> HIDE DEF q
    <2> QED
        BY <2>1, SettledNext
<1> QED
    BY <1>1 DEF PathInv, Fresh

\* Direct, as a sum.
LEMMA DirectSum ==
    ASSUME Kinds
    PROVE  /\ Direct \in Counts
           /\ \A o \in Objects :
                /\ Direct[o] = QueueFn(input)[o] + GopFn(gop.frames)[o] + Held(pusher)[o] + One(o \in HandOf(handler))
                /\ QueueFn(input)[o] \in Nat /\ GopFn(gop.frames)[o] \in Nat /\ Held(pusher)[o] \in Nat
                /\ One(o \in HandOf(handler)) \in Nat /\ Direct[o] \in Nat
<1> DEFINE fs == gop.frames
           h == handler
           d == DirectOf(input, fs, h, pusher)
<1>1. input \in Seq(Numbers) /\ fs \in Seq(Numbers)
    BY DEF Kinds, GopSet
<1>2. Direct = d
    BY DEF Direct
<1> HIDE DEF fs, h
<1>3. /\ d \in Counts
      /\ \A o \in Objects :
                /\ d[o] = QueueFn(input)[o] + GopFn(fs)[o] + Held(pusher)[o] + One(o \in HandOf(h))
                /\ QueueFn(input)[o] \in Nat /\ GopFn(fs)[o] \in Nat /\ Held(pusher)[o] \in Nat
                /\ One(o \in HandOf(h)) \in Nat
    BY ONLY <1>1, DirectFacts
<1> HIDE DEF d
<1>4. \A o \in Objects : d[o] \in Nat
    BY <1>3 DEF Counts
<1> QED
    BY <1>2, <1>3, <1>4 DEF fs, h

\* The same in the next state.
LEMMA DirectSumNext ==
    ASSUME Kinds'
    PROVE  /\ Direct' \in Counts
           /\ \A o \in Objects :
                /\ Direct'[o] = QueueFn(input')[o] + GopFn(gop'.frames)[o] + Held(pusher')[o] + One(o \in HandOf(handler'))
                /\ QueueFn(input')[o] \in Nat /\ GopFn(gop'.frames)[o] \in Nat /\ Held(pusher')[o] \in Nat
                /\ One(o \in HandOf(handler')) \in Nat /\ Direct'[o] \in Nat
<1> DEFINE i == input'
           fs == gop'.frames
           h == handler'
           pu == pusher'
           d == DirectOf(i, fs, h, pu)
<1>1. i \in Seq(Numbers) /\ fs \in Seq(Numbers)
    BY DEF Kinds, GopSet
<1>2. Direct' = d
    BY DEF Direct
<1> HIDE DEF fs, h, i, pu
<1>3. /\ d \in Counts
      /\ \A o \in Objects :
                /\ d[o] = QueueFn(i)[o] + GopFn(fs)[o] + Held(pu)[o] + One(o \in HandOf(h))
                /\ QueueFn(i)[o] \in Nat /\ GopFn(fs)[o] \in Nat /\ Held(pu)[o] \in Nat
                /\ One(o \in HandOf(h)) \in Nat
    BY ONLY <1>1, DirectFacts
<1> HIDE DEF d
<1>4. \A o \in Objects : d[o] \in Nat
    BY <1>3 DEF Counts
<1> QED
    BY <1>2, <1>3, <1>4 DEF fs, h, i, pu

\* What the handler has in hand in each state.
LEMMA HandFacts ==
    ASSUME NEW h \in HandlerSet
    PROVE  /\ h.pc \in {"run", "closed", "ended"} => HandOf(h) = {}
           /\ h.pc = "output" => HandOf(h) = {Rtp(h.frame), Ps(h.frame), Out(h.frame)}
           /\ h.pc = "pushers" => HandOf(h) = {Rtp(h.frame), Ps(h.frame)}
<1>1. h.pc \in {"run", "pushers", "output", "closed", "ended"}
    BY DEF HandlerSet
<1> QED
    BY <1>1 DEF HandOf

\* The handler without a frame, and closed.
LEMMA IdleFacts == Idle \in HandlerSet /\ Idle.pc = "run" /\ [Idle EXCEPT !.pc = "closed"] \in HandlerSet /\ [Idle EXCEPT !.pc = "closed"].pc = "closed"
BY DEF Idle, HandlerSet

\* The handler gives up: its queue and the GOP are released.
LEMMA ClosedStep ==
    ASSUME PathInv, NEW r, NEW queue \in Seq(Numbers), HandleClosed(r, queue), NEW d \in Counts, Exact(r, d),
           \A o \in Objects : d[o] = QueueFn(queue)[o] + GopFn(gop.frames)[o] + Held(pusher)[o],
           received' = received, sinceKey' = sinceKey, pusher' = pusher
    PROVE  PathInv'
<1>1. Kinds /\ Fresh
    BY DEF PathInv
<1>2. /\ refs' = ReleaseAll(Cleared(r, gop), Each("rtp", queue))
      /\ input' = <<>> /\ gop' = NoGop /\ handler' \in HandlerSet /\ handler'.pc = "closed"
    BY IdleFacts DEF HandleClosed
<1>3. Kinds'
    <2>1. <<>> \in Seq(Numbers) /\ NoGop \in GopSet /\ Whole(NoGop, sinceKey')
        BY DEF NoGop, GopSet, Whole
    <2> QED
        BY <1>1, <1>2, <2>1 DEF Kinds
<1>4. \A f : ~Waits(f)'
    BY <1>2 DEF Waits
<1>5. Onward
    BY <1>1, <1>2, <1>4 DEF Onward, Kinds
<1>6. Arrived' /\ Current'
    BY <1>2 DEF Arrived, Current
<1>7. \A x \in Pushers : SettledIn(pusher'[x])
    BY <1>1 DEF Fresh
<1> DEFINE fs == gop.frames
           h == Held(pusher)
           c == QueueFn(queue)
           rest == Plus(h, c)
<1>8. fs \in Seq(Numbers)
    BY <1>1 DEF Kinds, GopSet
<1>9. h \in Counts /\ c \in Counts /\ GopFn(fs) \in Counts /\ rest \in Counts /\ \A o \in Objects : rest[o] = h[o] + c[o]
    BY <1>8, HeldType, QueueFnFacts, GopFnFacts, PlusFacts
<1>10. \A o \in Objects : CountOf(o, Each("rtp", queue)) = c[o]
    BY QueueFnFacts
<1>11. d = Plus(rest, GopFn(fs))
    <2>1. Plus(rest, GopFn(fs)) \in Counts /\ \A o \in Objects : Plus(rest, GopFn(fs))[o] = rest[o] + GopFn(fs)[o]
        BY <1>9, PlusFacts
    <2>2. \A o \in Objects : d[o] = c[o] + GopFn(fs)[o] + h[o]
        OBVIOUS
    <2>3. \A o \in Objects : c[o] \in Nat /\ GopFn(fs)[o] \in Nat /\ h[o] \in Nat
        BY <1>9 DEF Counts
    <2> HIDE DEF c, h, rest, fs
    <2>4. \A o \in Objects : d[o] = Plus(rest, GopFn(fs))[o]
        BY <1>9, <2>1, <2>2, <2>3
    <2> QED
        BY <2>1, <2>4, SameCounts
<1>12. Exact(Cleared(r, gop), rest)
    BY <1>8, <1>9, <1>11, ClearedExact
<1>13. Exact(refs', h)
    <2> HIDE DEF c, h
    <2> QED
        BY <1>2, <1>9, <1>10, <1>12, ReleasePlus
<1>14. Direct' = h
    <2>1. HandOf(handler') = {}
        BY <1>2, HandFacts
    <2>2. \A o \in Objects : QueueFn(<<>>)[o] = 0 /\ GopFn(<<>>)[o] = 0 /\ One(o \in {}) = 0
        BY <1>8, QueueFnFacts, GopFnFacts DEF One
    <2>3. gop'.frames = <<>>
        BY <1>2 DEF NoGop
    <2>4. Direct' \in Counts /\ \A o \in Objects :
            Direct'[o] = QueueFn(input')[o] + GopFn(gop'.frames)[o] + Held(pusher')[o] + One(o \in HandOf(handler'))
        BY <1>3, DirectSumNext
    <2>5. \A o \in Objects : h[o] \in Nat
        BY <1>9 DEF Counts
    <2>6. \A o \in Objects : Direct'[o] = 0 + 0 + h[o] + 0
        BY <1>2, <2>1, <2>2, <2>3, <2>4
    <2> HIDE DEF h
    <2>7. \A o \in Objects : Direct'[o] = h[o]
        BY <2>5, <2>6
    <2> QED
        BY <1>9, <2>4, <2>7, SameCounts
<1>15. Exact(refs', Direct')
    BY <1>13, <1>14
<1> QED
    BY <1>1, <1>3, <1>5, <1>6, <1>7, <1>15, HandlerStep

\* The player shuts the handler down.
LEMMA HandleInterruptedStep ==
    ASSUME PathInv, HandleInterrupted
    PROVE  PathInv'
<1>1. Kinds /\ Exact(refs, Direct)
    BY DEF PathInv
<1>2. handler.pc = "run" /\ HandleClosed(refs, input) /\ received' = received /\ sinceKey' = sinceKey /\ pusher' = pusher
    BY DEF HandleInterrupted
<1>3. HandOf(handler) = {} /\ input \in Seq(Numbers)
    BY <1>1, <1>2, HandFacts DEF Kinds
<1>4. Direct \in Counts
    BY <1>1, DirectSum
<1>5. \A o \in Objects : Direct[o] = QueueFn(input)[o] + GopFn(gop.frames)[o] + Held(pusher)[o]
    <2>1. \A o \in Objects :
                /\ Direct[o] = QueueFn(input)[o] + GopFn(gop.frames)[o] + Held(pusher)[o] + One(o \in HandOf(handler))
                /\ QueueFn(input)[o] \in Nat /\ GopFn(gop.frames)[o] \in Nat /\ Held(pusher)[o] \in Nat
        BY <1>1, DirectSum
    <2>2. \A o \in Objects : One(o \in HandOf(handler)) = 0
        BY <1>3 DEF One
    <2> QED
        BY <2>1, <2>2
<1> QED
    BY <1>1, <1>2, <1>3, <1>4, <1>5, ClosedStep

\* The frame at the head of the queue.
LEMMA HeadFacts ==
    ASSUME Kinds, Arrived, input # <<>>
    PROVE  /\ Head(input) \in Numbers /\ Head(input) \in 1..received /\ Tail(input) \in Seq(Numbers)
           /\ Waits(Head(input))
           /\ \A i \in DOMAIN Tail(input) : i + 1 \in DOMAIN input /\ i \in Nat /\ Tail(input)[i] = input[i + 1]
           /\ \A i \in DOMAIN Tail(input) : Tail(input)[i] # Head(input)
<1>1. input \in Seq(Numbers)
    BY DEF Kinds
<1>2. Head(input) = input[1] /\ 1 \in DOMAIN input /\ Tail(input) \in Seq(Numbers) /\ Head(input) \in Numbers
    BY <1>1
<1>3. \A i \in DOMAIN Tail(input) : i + 1 \in DOMAIN input /\ i \in Nat /\ i # 0 /\ Tail(input)[i] = input[i + 1]
    BY <1>1
<1>4. ASSUME NEW i \in DOMAIN Tail(input)
      PROVE  Tail(input)[i] # Head(input)
    <2>1. i + 1 \in DOMAIN input /\ i + 1 # 1 /\ Tail(input)[i] = input[i + 1]
        BY <1>3
    <2> QED
        BY <2>1, <1>2 DEF Arrived
<1> QED
    BY <1>2, <1>3, <1>4 DEF Arrived, Waits

\* The queue moves up.
LEMMA TailFacts ==
    ASSUME Kinds, Arrived, input # <<>>, input' = Tail(input), received' = received
    PROVE  Arrived' /\ \A f : (Waits(f)' => Waits(f)) /\ (f = Head(input) => ~Waits(f)')
<1>1. \A i \in DOMAIN Tail(input) : i + 1 \in DOMAIN input /\ i \in Nat /\ Tail(input)[i] = input[i + 1]
    BY HeadFacts
<1>2. Arrived'
    <2> SUFFICES ASSUME NEW i \in DOMAIN Tail(input), NEW j \in DOMAIN Tail(input)
                 PROVE  Tail(input)[i] \in 1..received /\ (Tail(input)[i] = Tail(input)[j] => i = j)
        BY DEF Arrived
    <2>1. /\ i + 1 \in DOMAIN input /\ i \in Nat /\ Tail(input)[i] = input[i + 1]
          /\ j + 1 \in DOMAIN input /\ j \in Nat /\ Tail(input)[j] = input[j + 1]
        BY <1>1
    <2>2. input[i + 1] \in 1..received /\ (input[i + 1] = input[j + 1] => i + 1 = j + 1)
        BY <2>1 DEF Arrived
    <2> QED
        BY <2>1, <2>2
<1>3. ASSUME NEW f, Waits(f)'
      PROVE  Waits(f)
    BY <1>1, <1>3 DEF Waits
<1>4. \A i \in DOMAIN Tail(input) : Tail(input)[i] # Head(input)
    BY HeadFacts
<1>5. ASSUME NEW f, f = Head(input)
      PROVE  ~Waits(f)'
    BY <1>4, <1>5 DEF Waits
<1> QED
    BY <1>2, <1>3, <1>5

\* The times of a received frame.
LEMMA TimesFacts ==
    ASSUME NEW f \in Numbers
    PROVE  Times[f][1] \in Nat /\ Times[f][2] \in Nat /\ Times[f][1] <= Times[f][2]
BY FrameAssumption DEF FrameAssumption, Numbers

\* The range of a GOP ends with its last frame and does not start after it, also
\* when the frame starts before the end.
LEMMA RangeFacts ==
    ASSUME NEW g, g.start \in Int, g.end \in Int, NEW s \in Nat, NEW e \in Nat, s <= e, NEW n \in Nat
    PROVE  LET range == TimeRangeExpandRange(g, s, e, n)
           IN  /\ range[1] \in Int /\ range[2] = e
               /\ n > 1 /\ g.start <= g.end => range[1] <= e
               /\ g.start = 0 => range[1] <= e
<1> DEFINE guess == IF n > 2 THEN (g.end - g.start) \div (n - 2) ELSE IF n = 2 THEN e - s ELSE 0
           range == TimeRangeExpandRange(g, s, e, n)
           a == g.start
           b == g.end
<1>1. guess \in Int /\ (a <= b => guess >= 0)
    <2>1. CASE n > 2
        <3> DEFINE k == n - 2
                   w == b - a
        <3>1. k \in Nat /\ k > 0 /\ w \in Int /\ guess = w \div k /\ (a <= b => w \in Nat)
            BY <2>1
        <3> HIDE DEF k, w, guess
        <3>2. w \div k \in Int
            BY <3>1
        <3>3. w \in Nat => w \div k \in Nat
            BY <3>1
        <3> QED
            BY <3>1, <3>2, <3>3
    <2>2. CASE n <= 2
        BY <2>2
    <2> QED
        BY <2>1, <2>2
<1>2. /\ a = 0 => range[1] = s /\ range[2] = e
      /\ a # 0 => range[2] = e /\ range[1] = IF s < b THEN a + (s - b) - guess ELSE a
    BY DEF TimeRangeExpandRange
<1>3. a \in Int /\ b \in Int
    OBVIOUS
<1> HIDE DEF guess, range, a, b
<1>4. /\ range[1] \in Int /\ range[2] = e
      /\ a <= b => range[1] <= e
      /\ a = 0 => range[1] <= e
    BY <1>1, <1>2, <1>3
<1> QED
    BY <1>4 DEF range, a, b

\* appendGOP makes a whole GOP of a whole one, or none.
LEMMA AppendWhole ==
    ASSUME NEW r, NEW g \in GopSet, NEW f \in Numbers, AppendGOP(r, g, f),
           g.frames # <<>> => g.start <= g.end, g.frames = <<>> => g.start = 0, NEW since, since = Append(g.frames, f)
    PROVE  gop' \in GopSet /\ Whole(gop', since)
<1> DEFINE n == Len(g.frames) + 1
           range == TimeRangeExpandRange(g, Times[f][1], Times[f][2], n)
           grown == [frames |-> Append(g.frames, f), start |-> range[1], end |-> range[2]]
           s == Times[f][1]
           e == Times[f][2]
<1>1. s \in Nat /\ e \in Nat /\ s <= e
    BY TimesFacts
<1>2. g.frames \in Seq(Numbers) /\ g.start \in Int /\ g.end \in Int
    BY DEF GopSet
<1>3. n \in Nat /\ (g.frames # <<>> => n > 1)
    BY <1>2
<1>4. range = TimeRangeExpandRange(g, s, e, n)
    OBVIOUS
<1>5. gop' = NoGop \/ gop' = grown
    BY DEF AppendGOP
<1>6. Append(g.frames, f) \in Seq(Numbers) /\ Last(Append(g.frames, f)) = f
    BY <1>2 DEF Last
<1>7. grown.frames = Append(g.frames, f) /\ grown.start = range[1] /\ grown.end = range[2]
    OBVIOUS
<1> HIDE DEF s, e, n, range
<1>8. /\ range[1] \in Int /\ range[2] = e
      /\ n > 1 /\ g.start <= g.end => range[1] <= e
      /\ g.start = 0 => range[1] <= e
    BY <1>1, <1>2, <1>3, <1>4, RangeFacts
<1>9. range[1] <= e
    BY <1>3, <1>8
<1>10. grown \in GopSet
    BY <1>1, <1>6, <1>8 DEF GopSet
<1> HIDE DEF grown
<1>11. Whole(grown, since)
    BY <1>6, <1>7, <1>8, <1>9 DEF Whole, e
<1>12. NoGop \in GopSet /\ Whole(NoGop, since)
    <2>1. <<>> \in Seq(Numbers)
        OBVIOUS
    <2> QED
        BY <2>1 DEF NoGop, GopSet, Whole
<1> QED
    BY <1>5, <1>10, <1>11, <1>12

\* Whatever becomes of a frame, the GOP stays whole.
LEMMA StoreWhole ==
    ASSUME NEW r, gop \in GopSet, sinceKey \in Seq(Numbers), NEW f \in Numbers, NEW key \in BOOLEAN, Store(r, f, key),
           sinceKey' = CASE key -> <<f>> [] ~key /\ sinceKey = <<>> -> <<>> [] OTHER -> Append(sinceKey, f)
    PROVE  /\ gop' \in GopSet => sinceKey' \in Seq(Numbers)
           /\ Whole(gop, sinceKey) => gop' \in GopSet /\ Whole(gop', sinceKey')
<1>0. /\ key => sinceKey' = <<f>>
      /\ ~key /\ sinceKey = <<>> => sinceKey' = <<>>
      /\ ~key /\ sinceKey # <<>> => sinceKey' = Append(sinceKey, f)
    OBVIOUS
<1>1. sinceKey' \in Seq(Numbers)
    <2>1. CASE key
        BY <1>0, <2>1
    <2>2. CASE ~key /\ sinceKey = <<>>
        BY <1>0, <2>2
    <2>3. CASE ~key /\ sinceKey # <<>>
        BY <1>0, <2>3
    <2> QED
        BY <2>1, <2>2, <2>3
<1>2. NoGop \in GopSet /\ Whole(NoGop, sinceKey') /\ NoGop.frames = <<>> /\ NoGop.start = 0
    <2>1. <<>> \in Seq(Numbers)
        OBVIOUS
    <2> QED
        BY <2>1 DEF NoGop, GopSet, Whole
<1>3. ASSUME Whole(gop, sinceKey)
      PROVE  gop' \in GopSet /\ Whole(gop', sinceKey')
    <2>1. CASE recording /\ gop.frames = <<>> /\ ~key /\ gop' = gop /\ refs' = r
        BY <2>1 DEF Whole
    <2>2. CASE recording /\ gop.frames # <<>> /\ ~key /\ AppendGOP(r, gop, f)
        <3>1. gop.frames = sinceKey /\ gop.start <= gop.end
            BY <1>3, <2>2 DEF Whole
        <3>2. sinceKey' = Append(gop.frames, f)
            BY <1>0, <2>2, <3>1
        <3> DEFINE since == sinceKey'
        <3>3. since = Append(gop.frames, f)
            BY <3>2
        <3> HIDE DEF since
        <3>4. gop' \in GopSet /\ Whole(gop', since)
            BY <2>2, <3>1, <3>3, AppendWhole
        <3> QED
            BY <3>4 DEF since
    <2>3. CASE recording /\ key /\ AppendGOP(Cleared(r, gop), NoGop, f)
        <3> DEFINE since == sinceKey'
                   r2 == Cleared(r, gop)
        <3>1. since = Append(NoGop.frames, f)
            BY <1>0, <1>2, <2>3
        <3>2. AppendGOP(r2, NoGop, f)
            BY <2>3
        <3> HIDE DEF since, r2
        <3>4. gop' \in GopSet /\ Whole(gop', since)
            BY <1>2, <3>1, <3>2, AppendWhole
        <3> QED
            BY <3>4 DEF since
    <2>4. CASE ~recording /\ NotRecorded(r)
        BY <1>2, <2>4 DEF NotRecorded
    <2> QED
        BY <2>1, <2>2, <2>3, <2>4 DEF Store
<1> QED
    BY <1>1, <1>3

\* The head of the queue, apart.
LEMMA RunSum ==
    ASSUME Kinds, Arrived, handler.pc = "run", input # <<>>, NEW f, f = Head(input)
    PROVE  /\ f \in Numbers
           /\ \A o \in Objects :
                /\ Direct[o] = QueueFn(Tail(input))[o] + One(Rtp(f) = o) + GopFn(gop.frames)[o] + Held(pusher)[o]
                /\ QueueFn(Tail(input))[o] \in Nat /\ GopFn(gop.frames)[o] \in Nat /\ Held(pusher)[o] \in Nat
                /\ One(Rtp(f) = o) \in Nat
<1> DEFINE t == Tail(input)
<1>1. input \in Seq(Numbers) /\ t \in Seq(Numbers) /\ f \in Numbers
    BY HeadFacts DEF Kinds
<1>2. QueueFn(input) = Plus(QueueFn(t), Just(Rtp(f)))
    BY <1>1, QueueFnFacts
<1> HIDE DEF t
<1>3. QueueFn(t) \in Counts /\ Just(Rtp(f)) \in Counts /\ \A o \in Objects : Just(Rtp(f))[o] = One(Rtp(f) = o)
    BY <1>1, QueueFnFacts, JustFacts
<1>4. \A o \in Objects : QueueFn(input)[o] = QueueFn(t)[o] + One(Rtp(f) = o) /\ QueueFn(t)[o] \in Nat
    <2>1. \A o \in Objects : Plus(QueueFn(t), Just(Rtp(f)))[o] = QueueFn(t)[o] + Just(Rtp(f))[o]
        BY <1>3, PlusFacts
    <2>2. \A o \in Objects : QueueFn(t)[o] \in Nat
        BY <1>3 DEF Counts
    <2> QED
        BY <1>2, <1>3, <2>1, <2>2
<1>5. HandOf(handler) = {}
    BY HandFacts DEF Kinds
<1>6. \A o \in Objects : One(o \in HandOf(handler)) = 0 /\ One(Rtp(f) = o) \in Nat
    BY <1>5 DEF One
<1>7. \A o \in Objects :
                /\ Direct[o] = QueueFn(input)[o] + GopFn(gop.frames)[o] + Held(pusher)[o] + One(o \in HandOf(handler))
                /\ GopFn(gop.frames)[o] \in Nat /\ Held(pusher)[o] \in Nat
    BY DirectSum
<1>8. ASSUME NEW o \in Objects
      PROVE  /\ Direct[o] = QueueFn(t)[o] + One(Rtp(f) = o) + GopFn(gop.frames)[o] + Held(pusher)[o]
             /\ QueueFn(t)[o] \in Nat /\ GopFn(gop.frames)[o] \in Nat /\ Held(pusher)[o] \in Nat
             /\ One(Rtp(f) = o) \in Nat
    <2> DEFINE i == QueueFn(input)[o]
               u == QueueFn(t)[o]
               g == GopFn(gop.frames)[o]
               h == Held(pusher)[o]
               w == One(o \in HandOf(handler))
               x == One(Rtp(f) = o)
    <2>1. i = u + x /\ u \in Nat /\ x \in Nat /\ w = 0
        BY <1>4, <1>6
    <2>2. Direct[o] = i + g + h + w /\ g \in Nat /\ h \in Nat
        BY <1>7
    <2> HIDE DEF i, u, g, h, w, x
    <2>3. Direct[o] = u + x + g + h
        BY ONLY <2>1, <2>2
    <2> QED
        BY <2>1, <2>2, <2>3 DEF u, x, g, h
<1> QED
    BY <1>1, <1>8 DEF t

\* Nothing comes of a frame.
LEMMA FrameDropped ==
    ASSUME PathInv, handler.pc = "run", input # <<>>, refs' = Release(refs, Rtp(Head(input))), input' = Tail(input),
           received' = received, gop' = gop, sinceKey' = sinceKey, handler' = handler, pusher' = pusher
    PROVE  PathInv'
<1> DEFINE f == Head(input)
           x == Rtp(f)
<1>1. Kinds /\ Fresh /\ Arrived /\ Exact(refs, Direct)
    BY DEF PathInv, Fresh
<1>2. f \in Numbers /\ Tail(input) \in Seq(Numbers)
    BY <1>1, HeadFacts
<1>3. Kinds'
    BY <1>1, <1>2 DEF Kinds
<1>4. Arrived' /\ \A y : Waits(y)' => Waits(y)
    BY <1>1, TailFacts
<1>5. Onward
    BY <1>1, <1>4 DEF Onward, Kinds
<1>6. Current'
    BY DEF Current
<1>7. \A y \in Pushers : SettledIn(pusher'[y])
    BY <1>1 DEF Fresh
<1>8. Exact(refs', Direct')
    <2>1. \A o \in Objects :
            /\ Direct[o] = QueueFn(Tail(input))[o] + One(x = o) + GopFn(gop.frames)[o] + Held(pusher)[o]
            /\ QueueFn(Tail(input))[o] \in Nat /\ GopFn(gop.frames)[o] \in Nat /\ Held(pusher)[o] \in Nat
            /\ One(x = o) \in Nat
        BY <1>1, RunSum
    <2>2. Direct' \in Counts /\ \A o \in Objects :
            Direct'[o] = QueueFn(input')[o] + GopFn(gop'.frames)[o] + Held(pusher')[o] + One(o \in HandOf(handler'))
        BY <1>3, DirectSumNext
    <2>3. HandOf(handler') = {}
        BY <1>1, HandFacts DEF Kinds
    <2>4. \A o \in Objects : One(o \in HandOf(handler')) = 0
        BY <2>3 DEF One
    <2> HIDE DEF x
    <2>5. ASSUME NEW o \in Objects
          PROVE  Direct[o] = Direct'[o] + One(x = o)
        <3> DEFINE u == QueueFn(Tail(input))[o]
                   g == GopFn(gop.frames)[o]
                   h == Held(pusher)[o]
                   k == One(x = o)
        <3>1. Direct[o] = u + k + g + h /\ u \in Nat /\ k \in Nat /\ g \in Nat /\ h \in Nat
            BY <2>1
        <3>2. Direct'[o] = u + g + h + 0
            BY <2>2, <2>4
        <3> HIDE DEF u, g, h, k
        <3>3. Direct[o] = Direct'[o] + k
            BY ONLY <3>1, <3>2
        <3> QED
            BY <3>3 DEF k
    <2>6. Exact(Release(refs, x), Direct')
        BY <1>1, <2>2, <2>5, TakenOne
    <2> QED
        BY <2>6 DEF x
<1> QED
    BY <1>1, <1>3, <1>4, <1>5, <1>6, <1>7, <1>8, HandlerStep

\* The keepChooser gives up.
LEMMA FrameStops ==
    ASSUME PathInv, handler.pc = "run", input # <<>>, HandleClosed(Release(refs, Rtp(Head(input))), Tail(input)),
           received' = received, sinceKey' = sinceKey, pusher' = pusher
    PROVE  PathInv'
<1> DEFINE f == Head(input)
           x == Rtp(f)
           t == Tail(input)
           d == [o \in Objects |-> QueueFn(t)[o] + GopFn(gop.frames)[o] + Held(pusher)[o]]
           r == Release(refs, x)
<1>1. Kinds /\ Arrived /\ Exact(refs, Direct)
    BY DEF PathInv, Fresh
<1>2. t \in Seq(Numbers)
    BY <1>1, HeadFacts
<1>3. \A o \in Objects :
        /\ Direct[o] = QueueFn(t)[o] + One(x = o) + GopFn(gop.frames)[o] + Held(pusher)[o]
        /\ QueueFn(t)[o] \in Nat /\ GopFn(gop.frames)[o] \in Nat /\ Held(pusher)[o] \in Nat
        /\ One(x = o) \in Nat
    BY <1>1, RunSum
<1>4. \A o \in Objects : d[o] = QueueFn(t)[o] + GopFn(gop.frames)[o] + Held(pusher)[o]
    OBVIOUS
<1> HIDE DEF t, x
<1>5. d \in Counts
    BY <1>3 DEF Counts
<1> HIDE DEF d
<1>6. \A o \in Objects : Direct[o] = d[o] + One(x = o)
    BY <1>3, <1>4
<1>7. Exact(r, d)
    BY <1>1, <1>5, <1>6, TakenOne
<1>8. HandleClosed(r, t)
    BY DEF t, x
<1> HIDE DEF r
<1> QED
    BY <1>2, <1>4, <1>5, <1>7, <1>8, ClosedStep

\* A frame is parsed and stored, and in the handler's hand from here on.
LEMMA FrameParsed ==
    ASSUME PathInv, handler.pc = "run", input # <<>>, NEW f, f = Head(input), NEW key \in BOOLEAN,
           Store(Use(refs, Ps(f)), f, key),
           sinceKey' = CASE key -> <<f>> [] ~key /\ sinceKey = <<>> -> <<>> [] OTHER -> Append(sinceKey, f),
           handler' = [pc |-> "pushers", frame |-> f, left |-> Open, targets |-> {}],
           input' = Tail(input), received' = received, pusher' = pusher
    PROVE  PathInv'
<1> DEFINE t == Tail(input)
           x == Ps(f)
           y == Rtp(f)
           r == Use(refs, x)
           fs == gop.frames
           fs2 == gop'.frames
           rest == [o \in Objects |-> QueueFn(t)[o] + One(y = o) + Held(pusher)[o] + One(x = o)]
           d2 == Plus(rest, GopFn(fs))
<1>1. Kinds /\ Fresh /\ Arrived /\ Exact(refs, Direct) /\ Direct \in Counts
    BY DirectSum DEF PathInv, Fresh
<1>2. f \in Numbers /\ t \in Seq(Numbers) /\ Waits(f) /\ f \in 1..received
    BY <1>1, HeadFacts
<1>3. x \in Objects /\ x[1] # "out"
    BY <1>2, ObjectFacts
<1>4. fs \in Seq(Numbers) /\ gop \in GopSet /\ Whole(gop, sinceKey) /\ sinceKey \in Seq(Numbers)
    BY <1>1 DEF Kinds, GopSet
<1>5. gop' \in GopSet /\ Whole(gop', sinceKey') /\ sinceKey' \in Seq(Numbers)
    BY <1>2, <1>4, StoreWhole
<1>6. \A o \in Objects :
        /\ Direct[o] = QueueFn(t)[o] + One(y = o) + GopFn(fs)[o] + Held(pusher)[o]
        /\ QueueFn(t)[o] \in Nat /\ GopFn(fs)[o] \in Nat /\ Held(pusher)[o] \in Nat /\ One(y = o) \in Nat
    BY <1>1, RunSum
<1>7. \A o \in Objects : One(x = o) \in Nat
    BY DEF One
<1> HIDE DEF t, x, y
<1>8. rest \in Counts /\ \A o \in Objects : rest[o] = QueueFn(t)[o] + One(y = o) + Held(pusher)[o] + One(x = o)
    BY <1>6, <1>7 DEF Counts
<1> HIDE DEF rest
<1>9. Exact(r, d2)
    <2>1. GopFn(fs) \in Counts /\ d2 \in Counts /\ \A o \in Objects : d2[o] = rest[o] + GopFn(fs)[o]
        BY <1>4, <1>8, GopFnFacts, PlusFacts
    <2> HIDE DEF d2, fs
    <2>2. ASSUME NEW o \in Objects
          PROVE  d2[o] = Direct[o] + One(x = o)
        BY <1>6, <1>7, <1>8, <2>1
    <2> QED
        BY <1>1, <1>3, <2>1, <2>2, AddedOne
<1>10. Exact(refs', Plus(rest, GopFn(fs2))) /\ fs2 \in Seq(Numbers)
    <2>1. Store(r, f, key)
        BY DEF x
    <2> HIDE DEF r
    <2> QED
        BY <1>2, <1>4, <1>8, <1>9, <2>1, StoreExact
<1>11. handler' \in HandlerSet /\ handler'.pc = "pushers" /\ handler'.frame = f
    BY <1>2 DEF HandlerSet, Open, Numbers
<1>12. Kinds'
    <2>1. input' \in Seq(Numbers)
        BY <1>2 DEF t
    <2> QED
        BY <1>1, <1>5, <1>11, <2>1 DEF Kinds
<1>13. Arrived' /\ ~Waits(f)' /\ \A z : Waits(z)' => Waits(z)
    BY <1>1, TailFacts
<1>14. Onward
    BY <1>1, <1>2, <1>11, <1>13 DEF Onward, Kinds
<1>15. Current'
    <2>1. f \in 1..received'
        BY <1>2
    <2>2. ~Waits(handler.frame)'
        BY <1>11, <1>13 DEF Waits
    <2> QED
        BY <1>11, <2>1, <2>2 DEF Current
<1>16. \A z \in Pushers : SettledIn(pusher'[z])
    BY <1>1 DEF Fresh
<1>17. Direct' = Plus(rest, GopFn(fs2))
    <2>1. Direct' \in Counts /\ \A o \in Objects :
            Direct'[o] = QueueFn(input')[o] + GopFn(gop'.frames)[o] + Held(pusher')[o] + One(o \in HandOf(handler'))
        BY <1>12, DirectSumNext
    <2>2. HandOf(handler') = {y, x}
        <3> DEFINE w == handler'
        <3>1. w \in HandlerSet /\ w.pc = "pushers" /\ w.frame = f
            BY <1>11
        <3> HIDE DEF w
        <3>2. HandOf(w) = {Rtp(w.frame), Ps(w.frame)}
            BY ONLY <3>1, HandFacts
        <3> QED
            BY <3>1, <3>2 DEF x, y, w
    <2>3. \A o : One(o \in {y, x}) = One(x = o) + One(y = o)
        <3>1. x # y
            BY <1>2, ObjectFacts DEF x, y
        <3> QED
            BY ONLY <3>1 DEF One
    <2>4. GopFn(fs2) \in Counts
        BY <1>10, GopFnFacts
    <2>5. Plus(rest, GopFn(fs2)) \in Counts /\ \A o \in Objects : Plus(rest, GopFn(fs2))[o] = rest[o] + GopFn(fs2)[o]
        BY <1>8, <2>4, PlusFacts
    <2>6. ASSUME NEW o \in Objects
          PROVE  Direct'[o] = Plus(rest, GopFn(fs2))[o]
        <3> DEFINE u == QueueFn(t)[o]
                   g == GopFn(fs2)[o]
                   h == Held(pusher)[o]
                   k == One(x = o)
                   l == One(y = o)
        <3>1. u \in Nat /\ g \in Nat /\ h \in Nat /\ k \in Nat /\ l \in Nat
            BY <1>6, <1>7, <2>4 DEF Counts
        <3>2. Direct'[o] = u + g + h + (k + l)
            <4>1. Direct'[o] = QueueFn(t)[o] + GopFn(fs2)[o] + Held(pusher)[o] + One(o \in HandOf(handler'))
                BY <2>1 DEF t
            <4>2. One(o \in HandOf(handler')) = k + l
                BY <2>2, <2>3
            <4> QED
                BY <4>1, <4>2
        <3>3. Plus(rest, GopFn(fs2))[o] = (u + l + h + k) + g
            BY <1>8, <2>5
        <3> HIDE DEF u, g, h, k, l
        <3> QED
            BY ONLY <3>1, <3>2, <3>3
    <2> QED
        BY <2>1, <2>5, <2>6, SameCounts
<1>18. Exact(refs', Direct')
    BY <1>10, <1>17
<1> QED
    BY <1>1, <1>12, <1>13, <1>14, <1>15, <1>16, <1>18, HandlerStep

\* The next frame is handled.
LEMMA HandleFrameStep ==
    ASSUME PathInv, HandleFrame
    PROVE  PathInv'
<1> DEFINE f == Head(input)
<1>1. handler.pc = "run" /\ input # <<>> /\ received' = received /\ pusher' = pusher
    BY DEF HandleFrame
<1>2. \/ \E key \in BOOLEAN :
                /\ Store(Use(refs, Ps(f)), f, key)
                /\ sinceKey' = CASE key -> <<f>> [] ~key /\ sinceKey = <<>> -> <<>> [] OTHER -> Append(sinceKey, f)
                /\ handler' = [pc |-> "pushers", frame |-> f, left |-> Open, targets |-> {}]
                /\ input' = Tail(input)
      \/ /\ refs' = Release(refs, Rtp(f))
         /\ input' = Tail(input)
         /\ gop' = gop /\ sinceKey' = sinceKey /\ handler' = handler
      \/ HandleClosed(Release(refs, Rtp(f)), Tail(input)) /\ sinceKey' = sinceKey
    BY DEF HandleFrame
<1>3. CASE \E key \in BOOLEAN :
                /\ Store(Use(refs, Ps(f)), f, key)
                /\ sinceKey' = CASE key -> <<f>> [] ~key /\ sinceKey = <<>> -> <<>> [] OTHER -> Append(sinceKey, f)
                /\ handler' = [pc |-> "pushers", frame |-> f, left |-> Open, targets |-> {}]
                /\ input' = Tail(input)
    <2>1. PICK key \in BOOLEAN :
                /\ Store(Use(refs, Ps(f)), f, key)
                /\ sinceKey' = CASE key -> <<f>> [] ~key /\ sinceKey = <<>> -> <<>> [] OTHER -> Append(sinceKey, f)
                /\ handler' = [pc |-> "pushers", frame |-> f, left |-> Open, targets |-> {}]
                /\ input' = Tail(input)
        BY <1>3
    <2>2. f = Head(input)
        OBVIOUS
    <2> HIDE DEF f
    <2> QED
        BY <1>1, <2>1, <2>2, FrameParsed
<1>4. CASE /\ refs' = Release(refs, Rtp(f))
           /\ input' = Tail(input)
           /\ gop' = gop /\ sinceKey' = sinceKey /\ handler' = handler
    BY <1>1, <1>4, FrameDropped
<1>5. CASE HandleClosed(Release(refs, Rtp(f)), Tail(input)) /\ sinceKey' = sinceKey
    BY <1>1, <1>5, FrameStops
<1> QED
    BY <1>2, <1>3, <1>4, <1>5

\* FrameHandler.Push: the frame is queued with a reference, or dropped without.
LEMMA ReceiveStep ==
    ASSUME PathInv, Receive
    PROVE  PathInv'
<1> DEFINE f == received + 1
           x == Rtp(f)
<1>1. Kinds /\ Fresh /\ Arrived /\ Current /\ Exact(refs, Direct) /\ Direct \in Counts
    BY DirectSum DEF PathInv, Fresh
<1>2. /\ received' = f /\ f <= MaxFrames /\ handler' = handler /\ gop' = gop /\ sinceKey' = sinceKey /\ pusher' = pusher
      /\ \/ input' = input /\ refs' = refs
         \/ input' = Append(input, f) /\ refs' = Use(refs, x)
    BY DEF Receive
<1>3. f \in Numbers /\ received \in Nat /\ f = received + 1 /\ input \in Seq(Numbers) /\ f \in 0..MaxFrames
    BY <1>1, <1>2 DEF Kinds, Numbers
<1> HIDE DEF f
<1>4. \A z \in Pushers : SettledIn(pusher'[z])
    BY <1>1, <1>2 DEF Fresh
<1>5. CASE input' = input /\ refs' = refs
    <2>1. Kinds'
        BY <1>1, <1>2, <1>3, <1>5 DEF Kinds
    <2>2. \A z : Waits(z)' <=> Waits(z)
        BY <1>5 DEF Waits
    <2>3. Onward
        BY <1>1, <1>2, <1>3, <2>2 DEF Onward
    <2>4. Arrived'
        BY <1>1, <1>2, <1>3, <1>5 DEF Arrived
    <2>5. Current'
        <3>1. CASE handler.pc \in {"pushers", "output"}
            <4>1. handler.frame \in 1..received /\ ~Waits(handler.frame)
                BY <1>1, <3>1 DEF Current
            <4>2. handler'.frame \in 1..received' /\ ~Waits(handler.frame)'
                BY <1>2, <1>3, <1>5, <4>1 DEF Waits
            <4> QED
                BY <4>2 DEF Current
        <3>2. CASE handler.pc \notin {"pushers", "output"}
            BY <1>2, <3>2 DEF Current
        <3> QED
            BY <3>1, <3>2
    <2>6. Direct' = Direct
        BY <1>2, <1>5 DEF Direct
    <2>7. Exact(refs', Direct')
        BY <1>1, <1>5, <2>6
    <2> QED
        BY <1>1, <1>4, <2>1, <2>3, <2>4, <2>5, <2>7, HandlerStep
<1>6. CASE input' = Append(input, f) /\ refs' = Use(refs, x)
    <2>00. input' \in Seq(Numbers) /\ input' = Append(input, f)
        BY <1>3, <1>6
    <2>0. \A i \in DOMAIN input' : (i \in DOMAIN input /\ input'[i] = input[i]) \/ (input'[i] = f /\ i = Len(input) + 1)
        BY <1>3, <2>00
    <2>1. Kinds'
        BY <1>1, <1>2, <1>3, <2>00 DEF Kinds
    <2>2. \A z : Waits(z)' => Waits(z) \/ z = f
        BY <2>0 DEF Waits
    <2>3. Onward
        BY <1>1, <1>2, <1>3, <2>2 DEF Onward
    <2>4. Arrived'
        <3> SUFFICES ASSUME NEW i \in DOMAIN input', NEW j \in DOMAIN input'
                     PROVE  input'[i] \in 1..received' /\ (input'[i] = input'[j] => i = j)
            BY DEF Arrived
        <3>1. \A k \in DOMAIN input : input[k] \in 1..received /\ \A l \in DOMAIN input : input[k] = input[l] => k = l
            BY <1>1 DEF Arrived
        <3>2. \A k \in DOMAIN input : input[k] # f /\ input[k] \in 1..received'
            BY <1>2, <1>3, <3>1
        <3>3. f \in 1..received'
            BY <1>2, <1>3
        <3> QED
            BY <2>0, <3>1, <3>2, <3>3
    <2>5. Current'
        <3>1. CASE handler.pc \in {"pushers", "output"}
            <4>1. handler.frame \in 1..received /\ ~Waits(handler.frame)
                BY <1>1, <3>1 DEF Current
            <4> DEFINE w == handler.frame
            <4>2. w \in 1..received' /\ w # f /\ ~Waits(w) /\ handler'.frame = w
                BY <1>2, <1>3, <4>1
            <4>3. ~(\E i \in DOMAIN input' : input'[i] = handler'.frame)
                BY <2>0, <4>2 DEF Waits
            <4> QED
                BY <4>2, <4>3 DEF Current, Waits
        <3>2. CASE handler.pc \notin {"pushers", "output"}
            BY <1>2, <3>2 DEF Current
        <3> QED
            BY <3>1, <3>2
    <2>6. x \in Objects /\ x[1] # "out"
        BY <1>3, ObjectFacts
    <2>7. \A o \in Objects : QueueFn(input')[o] = QueueFn(input)[o] + One(x = o)
        <3>1. QueueFn(Append(input, f)) = Plus(QueueFn(input), Just(x)) /\ QueueFn(input) \in Counts
            BY <1>3, QueueFnFacts
        <3>2. Just(x) \in Counts /\ \A o \in Objects : Just(x)[o] = One(x = o)
            BY JustFacts
        <3> HIDE DEF x
        <3>3. \A o \in Objects : Plus(QueueFn(input), Just(x))[o] = QueueFn(input)[o] + Just(x)[o]
            BY <3>1, <3>2, PlusFacts
        <3> QED
            BY <1>6, <3>1, <3>2, <3>3
    <2>8. \A o \in Objects : Direct'[o] = Direct[o] + One(x = o)
        <3> SUFFICES ASSUME NEW o \in Objects PROVE Direct'[o] = Direct[o] + One(x = o)
            OBVIOUS
        <3> DEFINE i == QueueFn(input)[o]
                   i2 == QueueFn(input')[o]
                   g == GopFn(gop.frames)[o]
                   h == Held(pusher)[o]
                   w == One(o \in HandOf(handler))
                   k == One(x = o)
        <3>1. Direct[o] = i + g + h + w /\ i \in Nat /\ g \in Nat /\ h \in Nat /\ w \in Nat
            BY <1>1, DirectSum
        <3>2. Direct'[o] = i2 + g + h + w
            BY <1>2, <2>1, DirectSumNext
        <3>3. i2 = i + k
            BY <2>7
        <3>4. k \in Nat
            BY DEF One
        <3> HIDE DEF i, i2, g, h, w, k
        <3>5. Direct'[o] = Direct[o] + k
            BY ONLY <3>1, <3>2, <3>3, <3>4
        <3> QED
            BY <3>5 DEF k
    <2>9. Direct' \in Counts
        BY <2>1, DirectSumNext
    <2> HIDE DEF x
    <2>10. Exact(Use(refs, x), Direct')
        BY <1>1, <2>6, <2>8, <2>9, AddedOne
    <2>11. Exact(refs', Direct')
        BY <1>6, <2>10
    <2> QED
        BY <1>1, <1>4, <2>1, <2>3, <2>4, <2>5, <2>11, HandlerStep
<1> QED
    BY <1>2, <1>5, <1>6

\* Only the handler's hand changes.
LEMMA HandChange ==
    ASSUME Kinds, Kinds', input' = input, gop' = gop, pusher' = pusher
    PROVE  /\ Direct \in Counts /\ Direct' \in Counts
           /\ \A o \in Objects : /\ Direct[o] + One(o \in HandOf(handler')) = Direct'[o] + One(o \in HandOf(handler))
                                 /\ Direct[o] \in Nat /\ Direct'[o] \in Nat
<1>1. Direct \in Counts /\ Direct' \in Counts
    BY DirectSum, DirectSumNext
<1>2. ASSUME NEW o \in Objects
      PROVE  Direct[o] + One(o \in HandOf(handler')) = Direct'[o] + One(o \in HandOf(handler))
    <2> DEFINE i == QueueFn(input)[o]
               g == GopFn(gop.frames)[o]
               h == Held(pusher)[o]
               w == One(o \in HandOf(handler))
               w2 == One(o \in HandOf(handler'))
    <2>1. Direct[o] = i + g + h + w /\ i \in Nat /\ g \in Nat /\ h \in Nat /\ w \in Nat
        BY DirectSum
    <2>2. Direct'[o] = i + g + h + w2 /\ w2 \in Nat
        BY DirectSumNext
    <2> HIDE DEF i, g, h, w, w2
    <2>3. Direct[o] + w2 = Direct'[o] + w
        BY ONLY <2>1, <2>2
    <2> QED
        BY <2>3 DEF w, w2
<1>3. \A o \in Objects : Direct[o] \in Nat /\ Direct'[o] \in Nat
    BY <1>1 DEF Counts
<1> QED
    BY <1>1, <1>2, <1>3

\* The handler works on a frame that was received.
LEMMA FrameFacts ==
    ASSUME PathInv, handler.pc \in {"pushers", "output"}
    PROVE  /\ f0 \in Numbers /\ Kinds /\ Fresh /\ Arrived /\ Current /\ Exact(refs, Direct) /\ Direct \in Counts
           /\ handler.pc = "pushers" => HandOf(handler) = {Rtp(f0), Ps(f0)}
           /\ handler.pc = "output" => HandOf(handler) = {Rtp(f0), Ps(f0), Out(f0)}
           /\ f0 \in 1..received /\ ~Waits(f0)
<1>1. Kinds /\ Fresh /\ Arrived /\ Current /\ Exact(refs, Direct) /\ Direct \in Counts
    BY DirectSum DEF PathInv, Fresh
<1>2. f0 \in 1..received /\ ~Waits(f0) /\ received \in 0..MaxFrames
    BY <1>1 DEF Current, f0, Kinds
<1>3. f0 \in Numbers
    BY <1>2, FrameAssumption DEF Numbers, FrameAssumption
<1>4. handler \in HandlerSet
    BY <1>1 DEF Kinds
<1>5. /\ handler.pc = "pushers" => HandOf(handler) = {Rtp(handler.frame), Ps(handler.frame)}
      /\ handler.pc = "output" => HandOf(handler) = {Rtp(handler.frame), Ps(handler.frame), Out(handler.frame)}
    BY <1>4, HandFacts
<1> QED
    BY <1>1, <1>2, <1>3, <1>5 DEF f0

\* The frame is given back.
LEMMA HandleNothingStep ==
    ASSUME PathInv, HandleNothing
    PROVE  PathInv'
<1> DEFINE x == Ps(f0)
           y == Rtp(f0)
<1>1. /\ handler.pc = "pushers" /\ refs' = Release(Release(refs, x), y) /\ handler' = Idle
      /\ received' = received /\ input' = input /\ gop' = gop /\ sinceKey' = sinceKey /\ pusher' = pusher
    BY DEF HandleNothing
<1>2. /\ f0 \in Numbers /\ Kinds /\ Fresh /\ Arrived /\ Exact(refs, Direct) /\ HandOf(handler) = {y, x}
    BY <1>1, FrameFacts
<1>3. handler' \in HandlerSet /\ handler'.pc = "run" /\ HandOf(handler') = {}
    <2>1. Idle \in HandlerSet /\ Idle.pc = "run"
        BY IdleFacts
    <2>2. HandOf(Idle) = {}
        BY <2>1, HandFacts
    <2> QED
        BY <1>1, <2>1, <2>2
<1>4. Kinds'
    BY <1>1, <1>2, <1>3 DEF Kinds
<1>5. Onward
    BY <1>1, <1>2, <1>3, OnwardSame
<1>6. Arrived' /\ Current'
    BY <1>1, <1>2, <1>3 DEF Arrived, Current
<1>7. \A z \in Pushers : SettledIn(pusher'[z])
    BY <1>1, <1>2 DEF Fresh
<1>8. x # y
    BY <1>2, ObjectFacts
<1> HIDE DEF x, y
<1>9. \A o \in Objects : Direct[o] = Direct'[o] + One(x = o) + One(y = o)
    <2> SUFFICES ASSUME NEW o \in Objects PROVE Direct[o] = Direct'[o] + One(x = o) + One(y = o)
        OBVIOUS
    <2>1. Direct[o] + One(o \in HandOf(handler')) = Direct'[o] + One(o \in HandOf(handler)) /\ Direct[o] \in Nat /\ Direct'[o] \in Nat
        BY <1>1, <1>2, <1>4, HandChange
    <2>2. One(o \in HandOf(handler')) = 0
        BY <1>3 DEF One
    <2>3. One(o \in HandOf(handler)) = One(x = o) + One(y = o) /\ One(x = o) \in Nat /\ One(y = o) \in Nat
        BY <1>2, <1>8 DEF One
    <2> QED
        BY ONLY <2>1, <2>2, <2>3
<1>10. Direct' \in Counts
    BY <1>4, DirectSumNext
<1>11. Exact(refs', Direct')
    BY <1>1, <1>2, <1>9, <1>10, TakenTwo
<1> QED
    BY <1>2, <1>4, <1>5, <1>6, <1>7, <1>11, HandlerStep

\* The packed frame has been handed out.
LEMMA HandleDoneStep ==
    ASSUME PathInv, HandleDone
    PROVE  PathInv'
<1> DEFINE x == Ps(f0)
           y == Rtp(f0)
           z == Out(f0)
           d == Plus(Plus(Direct', Just(y)), Just(x))
<1>1. /\ handler.pc = "output" /\ refs' = Release(Release(Release(refs, z), x), y) /\ handler' = Idle
      /\ received' = received /\ input' = input /\ gop' = gop /\ sinceKey' = sinceKey /\ pusher' = pusher
    BY DEF HandleDone
<1>2. /\ f0 \in Numbers /\ Kinds /\ Fresh /\ Arrived /\ Exact(refs, Direct) /\ HandOf(handler) = {y, x, z}
    BY <1>1, FrameFacts
<1>3. handler' \in HandlerSet /\ handler'.pc = "run" /\ HandOf(handler') = {}
    <2>1. Idle \in HandlerSet /\ Idle.pc = "run"
        BY IdleFacts
    <2>2. HandOf(Idle) = {}
        BY <2>1, HandFacts
    <2> QED
        BY <1>1, <2>1, <2>2
<1>4. Kinds'
    BY <1>1, <1>2, <1>3 DEF Kinds
<1>5. Onward
    BY <1>1, <1>2, <1>3, OnwardSame
<1>6. Arrived' /\ Current'
    BY <1>1, <1>2, <1>3 DEF Arrived, Current
<1>7. \A p \in Pushers : SettledIn(pusher'[p])
    BY <1>1, <1>2 DEF Fresh
<1>8. x # y /\ x # z /\ y # z
    BY <1>2, ObjectFacts
<1> HIDE DEF x, y, z
<1>9. \A o \in Objects : /\ Direct[o] = Direct'[o] + One(x = o) + One(y = o) + One(z = o) /\ Direct'[o] \in Nat
                         /\ One(x = o) \in Nat /\ One(y = o) \in Nat /\ One(z = o) \in Nat
    <2> SUFFICES ASSUME NEW o \in Objects
                 PROVE  /\ Direct[o] = Direct'[o] + One(x = o) + One(y = o) + One(z = o) /\ Direct'[o] \in Nat
                        /\ One(x = o) \in Nat /\ One(y = o) \in Nat /\ One(z = o) \in Nat
        OBVIOUS
    <2>1. Direct[o] + One(o \in HandOf(handler')) = Direct'[o] + One(o \in HandOf(handler)) /\ Direct[o] \in Nat /\ Direct'[o] \in Nat
        BY <1>1, <1>2, <1>4, HandChange
    <2>2. One(o \in HandOf(handler')) = 0
        BY <1>3 DEF One
    <2>3. /\ One(o \in HandOf(handler)) = One(x = o) + One(y = o) + One(z = o)
          /\ One(x = o) \in Nat /\ One(y = o) \in Nat /\ One(z = o) \in Nat
        BY <1>2, <1>8 DEF One
    <2> QED
        BY ONLY <2>1, <2>2, <2>3
<1>10. Direct' \in Counts
    BY <1>4, DirectSumNext
<1>11. d \in Counts /\ \A o \in Objects : d[o] = Direct'[o] + One(y = o) + One(x = o)
    <2>1. Just(x) \in Counts /\ Just(y) \in Counts /\ \A o \in Objects : Just(x)[o] = One(x = o) /\ Just(y)[o] = One(y = o)
        BY JustFacts
    <2> DEFINE e == Plus(Direct', Just(y))
    <2>2. e \in Counts /\ \A o \in Objects : e[o] = Direct'[o] + Just(y)[o]
        BY <1>10, <2>1, PlusFacts
    <2> HIDE DEF e
    <2>3. Plus(e, Just(x)) \in Counts /\ \A o \in Objects : Plus(e, Just(x))[o] = e[o] + Just(x)[o]
        BY <2>1, <2>2, PlusFacts
    <2> QED
        BY <2>1, <2>2, <2>3 DEF e
<1> HIDE DEF d
<1>12. \A o \in Objects : Direct[o] = d[o] + One(z = o)
    BY <1>9, <1>11
<1>13. Exact(Release(refs, z), d)
    BY <1>2, <1>11, <1>12, TakenOne
<1>14. \A o \in Objects : d[o] = Direct'[o] + One(x = o) + One(y = o)
    BY <1>9, <1>11
<1>15. Exact(refs', Direct')
    <2> DEFINE r == Release(refs, z)
    <2>1. Exact(r, d) /\ refs' = Release(Release(r, x), y)
        BY <1>1, <1>13
    <2> HIDE DEF r
    <2> QED
        BY <1>10, <1>14, <2>1, TakenTwo
<1> QED
    BY <1>2, <1>4, <1>5, <1>6, <1>7, <1>15, HandlerStep

\* No queue of received frames and no GOP holds a packed frame.
LEMMA NoOutIn ==
    ASSUME NEW kind, kind # "out", NEW fs, NEW g
    PROVE  CountOf(Out(g), Each(kind, fs)) = 0
<1>1. {i \in DOMAIN Each(kind, fs) : Each(kind, fs)[i] = Out(g)} = {}
    BY DEF Each, Out
<1> QED
    BY <1>1, FS_EmptySet DEF CountOf

\* What has not been packed yet is nowhere.
LEMMA NotPacked ==
    ASSUME PathInv, handler.pc = "pushers"
    PROVE  Direct[Out(f0)] = 0
<1> DEFINE z == Out(f0)
<1>1. f0 \in Numbers /\ Kinds /\ Fresh /\ HandOf(handler) = {Rtp(f0), Ps(f0)}
    BY FrameFacts
<1>2. z \in Objects /\ z[1] = "out" /\ z[2] = f0 /\ z # Rtp(f0) /\ z # Ps(f0)
    BY <1>1, ObjectFacts
<1>3. ~Settled(z)
    BY <1>2 DEF Settled, Passed, f0
<1>4. \A p \in Pushers : PusherOK(pusher[p]) /\ SettledIn(pusher[p])
    BY <1>1 DEF Kinds, Fresh
<1>5. QueueFn(input)[z] = 0 /\ GopFn(gop.frames)[z] = 0
    <2>1. CountOf(z, Each("rtp", input)) = 0 /\ CountOf(z, Each("rtp", gop.frames)) = 0 /\ CountOf(z, Each("ps", gop.frames)) = 0
        BY NoOutIn
    <2> HIDE DEF z
    <2> QED
        BY <1>2, <2>1 DEF QueueFn, GopFn
<1>6. One(z \in HandOf(handler)) = 0
    BY <1>1, <1>2 DEF One
<1> HIDE DEF z
<1>7. QueuesOf(pusher, z) = {}
    <2> SUFFICES ASSUME NEW p \in Pushers, NEW i \in 1..MaxCached, i <= Len(pusher[p].queue), pusher[p].queue[i].object = z
                 PROVE  FALSE
        BY DEF QueuesOf
    <2>1. pusher[p].queue \in Seq(Entry)
        BY <1>4 DEF PusherOK, PusherSet
    <2>2. i \in DOMAIN pusher[p].queue
        BY <2>1, FinitePushers
    <2> QED
        BY <1>3, <1>4, <2>2 DEF SettledIn
<1>8. SendersOf(pusher, z) = {}
    <2> SUFFICES ASSUME NEW p \in Pushers, pusher[p].sending # <<>>, pusher[p].sending[1].object = z
                 PROVE  FALSE
        BY DEF SendersOf
    <2>1. pusher[p].sending \in Seq(Entry)
        BY <1>4 DEF PusherOK, PusherSet
    <2>2. 1 \in DOMAIN pusher[p].sending
        BY <2>1
    <2> QED
        BY <1>3, <1>4, <2>2 DEF SettledIn
<1>9. Held(pusher)[z] = 0
    BY <1>2, <1>7, <1>8, FS_EmptySet DEF Held
<1>10. Direct[z] = QueueFn(input)[z] + GopFn(gop.frames)[z] + Held(pusher)[z] + One(z \in HandOf(handler))
    BY <1>1, <1>2, DirectSum
<1> QED
    BY <1>5, <1>6, <1>9, <1>10 DEF z

\* The frame is packed.
LEMMA FramePacked ==
    ASSUME PathInv, handler.pc = "pushers", refs' = Use(Use(Use(refs, Out(f0)), Ps(f0)), Rtp(f0)),
           handler' = [handler EXCEPT !.pc = "output"], input' = input, gop' = gop,
           received' = received, sinceKey' = sinceKey, pusher' = pusher
    PROVE  PathInv'
<1> DEFINE x == Ps(f0)
           y == Rtp(f0)
           z == Out(f0)
           b == [Direct EXCEPT ![z] = @ + 1]
<1>1. /\ f0 \in Numbers /\ Kinds /\ Fresh /\ Arrived /\ Current /\ Exact(refs, Direct) /\ HandOf(handler) = {y, x}
      /\ Direct \in Counts /\ f0 \in 1..received /\ ~Waits(f0)
    BY FrameFacts
<1>2. handler \in HandlerSet /\ handler' \in HandlerSet /\ handler'.pc = "output" /\ handler'.frame = handler.frame
    BY <1>1 DEF Kinds, HandlerSet
<1>3. HandOf(handler') = {y, x, z}
    <2> DEFINE w == handler'
    <2>1. w \in HandlerSet /\ w.pc = "output" /\ w.frame = f0
        BY <1>2 DEF f0
    <2> HIDE DEF w
    <2>2. HandOf(w) = {Rtp(w.frame), Ps(w.frame), Out(w.frame)}
        BY ONLY <2>1, HandFacts
    <2> QED
        BY <2>1, <2>2 DEF w
<1>4. Kinds'
    BY <1>1, <1>2 DEF Kinds
<1>5. Onward
    BY <1>1, <1>2, OnwardSame
<1>6. Arrived' /\ Current'
    BY <1>1, <1>2 DEF Arrived, Current, Waits
<1>7. \A p \in Pushers : SettledIn(pusher'[p])
    BY <1>1 DEF Fresh
<1>8. x # y /\ x # z /\ y # z /\ z \in Objects
    BY <1>1, ObjectFacts
<1>9. Direct[z] = 0
    BY NotPacked
<1>10. Exact(refs', b)
    BY <1>1, <1>9, PackExact
<1> HIDE DEF x, y, z
<1>11. Direct' = b
    <2>1. b \in Counts /\ \A o \in Objects : b[o] = Direct[o] + One(z = o)
        <3>1. Direct \in [Objects -> Nat]
            BY <1>1 DEF Counts
        <3>2. b \in [Objects -> Nat]
            BY <1>8, <3>1
        <3>3. \A o \in Objects : b[o] = Direct[o] + One(z = o)
            BY <1>8, <3>1 DEF One
        <3> HIDE DEF b
        <3> QED
            BY <3>2, <3>3 DEF Counts
    <2> HIDE DEF b
    <2>2. ASSUME NEW o \in Objects
          PROVE  Direct'[o] = b[o]
        <3>1. /\ Direct[o] + One(o \in HandOf(handler')) = Direct'[o] + One(o \in HandOf(handler))
              /\ Direct[o] \in Nat /\ Direct'[o] \in Nat
            BY <1>1, <1>4, HandChange
        <3>2. One(o \in HandOf(handler')) = One(o \in HandOf(handler)) + One(z = o)
              /\ One(o \in HandOf(handler)) \in Nat /\ One(z = o) \in Nat
            <4>1. One(o \in {y, x, z}) = One(o \in {y, x}) + One(z = o) /\ One(o \in {y, x}) \in Nat /\ One(z = o) \in Nat
                BY ONLY <1>8 DEF One
            <4> QED
                BY <1>1, <1>3, <4>1
        <3>3. b[o] = Direct[o] + One(z = o)
            BY <2>1
        <3> DEFINE k == One(z = o)
                   w == One(o \in HandOf(handler))
                   w2 == One(o \in HandOf(handler'))
                   e == Direct[o]
                   e2 == Direct'[o]
        <3>4. e + w2 = e2 + w /\ e \in Nat /\ e2 \in Nat /\ w2 = w + k /\ w \in Nat /\ k \in Nat /\ b[o] = e + k
            BY <3>1, <3>2, <3>3
        <3> HIDE DEF k, w, w2, e, e2
        <3>5. e2 = b[o]
            BY ONLY <3>4
        <3> QED
            BY <3>5 DEF e2
    <2>3. Direct' \in Counts
        BY <1>4, DirectSumNext
    <2> QED
        BY <2>1, <2>2, <2>3, SameCounts
<1>12. Exact(refs', Direct')
    BY <1>10, <1>11
<1> QED
    BY <1>1, <1>4, <1>5, <1>6, <1>7, <1>12, HandlerStep

\* Packing fails for good.
LEMMA PackStops ==
    ASSUME PathInv, handler.pc = "pushers", HandleClosed(Release(Release(refs, Ps(f0)), Rtp(f0)), input),
           received' = received, sinceKey' = sinceKey, pusher' = pusher
    PROVE  PathInv'
<1> DEFINE x == Ps(f0)
           y == Rtp(f0)
           d == [o \in Objects |-> QueueFn(input)[o] + GopFn(gop.frames)[o] + Held(pusher)[o]]
           r == Release(Release(refs, x), y)
<1>1. /\ f0 \in Numbers /\ Kinds /\ Exact(refs, Direct) /\ HandOf(handler) = {y, x}
    BY FrameFacts
<1>2. \A o \in Objects :
        /\ Direct[o] = QueueFn(input)[o] + GopFn(gop.frames)[o] + Held(pusher)[o] + One(o \in HandOf(handler))
        /\ QueueFn(input)[o] \in Nat /\ GopFn(gop.frames)[o] \in Nat /\ Held(pusher)[o] \in Nat
    BY <1>1, DirectSum
<1>3. x # y
    BY <1>1, ObjectFacts
<1> HIDE DEF x, y
<1>4. \A o \in Objects : One(o \in HandOf(handler)) = One(x = o) + One(y = o) /\ One(x = o) \in Nat /\ One(y = o) \in Nat
    BY <1>1, <1>3 DEF One
<1>5. d \in Counts
    BY <1>2 DEF Counts
<1>6. \A o \in Objects : d[o] = QueueFn(input)[o] + GopFn(gop.frames)[o] + Held(pusher)[o]
    OBVIOUS
<1> HIDE DEF d
<1>7. \A o \in Objects : Direct[o] = d[o] + One(x = o) + One(y = o)
    BY <1>2, <1>4, <1>6
<1>8. Exact(r, d)
    BY <1>1, <1>5, <1>7, TakenTwo
<1>9. HandleClosed(r, input) /\ input \in Seq(Numbers)
    BY <1>1 DEF x, y, Kinds
<1> HIDE DEF r
<1> QED
    BY <1>5, <1>6, <1>8, <1>9, ClosedStep

\* Packing succeeds or stops the handler.
LEMMA HandlePackStep ==
    ASSUME PathInv, HandlePack
    PROVE  PathInv'
<1>1. handler.pc = "pushers" /\ received' = received /\ sinceKey' = sinceKey /\ pusher' = pusher
    BY DEF HandlePack
<1>2. CASE /\ refs' = Use(Use(Use(refs, Out(f0)), Ps(f0)), Rtp(f0))
           /\ handler' = [handler EXCEPT !.pc = "output"]
           /\ UNCHANGED <<input, gop>>
    BY <1>1, <1>2, FramePacked
<1>3. CASE HandleClosed(Release(Release(refs, Ps(f0)), Rtp(f0)), input)
    BY <1>1, <1>3, PackStops
<1> QED
    BY <1>2, <1>3 DEF HandlePack

\* Pushing a settled frame leaves settled frames.
LEMMA SettledAppend ==
    ASSUME NEW q, SettledIn(q), q.queue \in Seq(Entry), NEW e \in Entry, Settled(e.object), NEW q2,
           q2.queue = Append(q.queue, e), q2.sending = q.sending
    PROVE  SettledIn(q2)
<1> DEFINE s == q.queue
           t == q2.queue
<1>1. \A i \in DOMAIN s : Settled(s[i].object)
    BY DEF SettledIn
<1>2. t = Append(s, e) /\ s \in Seq(Entry)
    OBVIOUS
<1> HIDE DEF s, t
<1>3. \A i \in DOMAIN t : (i \in DOMAIN s /\ t[i] = s[i]) \/ t[i] = e
    BY <1>2
<1>4. \A i \in DOMAIN t : Settled(t[i].object)
    BY <1>1, <1>3
<1> QED
    BY <1>4 DEF SettledIn, t

\* RtpPusher.push: the reference is taken if and only if the frame is queued.
LEMMA PushedExact ==
    ASSUME PathInv, NEW p \in Pushers, NEW stream \in Nat, NEW x \in Objects, x[1] = "out" => Direct[x] > 0, Settled(x),
           Push(p, stream, x), input' = input, gop' = gop, HandOf(handler') = HandOf(handler)
    PROVE  /\ pusher' \in [Pushers -> PusherSet] /\ \A y \in Pushers : PusherOK(pusher'[y]) /\ SettledIn(pusher'[y])
           /\ Exact(refs', Direct')
<1> DEFINE q == pusher[p]
           e == [object |-> x, stream |-> stream]
           q2 == [q EXCEPT !.queue = Append(q.queue, e)]
<1>1. PusherOK(q) /\ q \in PusherSet /\ SettledIn(q) /\ Kinds /\ Fresh /\ Exact(refs, Direct) /\ Direct \in Counts
    BY PusherFacts, DirectSum
<1>2. \/ refs' = refs /\ pusher' = pusher
      \/ refs' = Use(refs, x) /\ pusher' = [pusher EXCEPT ![p] = q2] /\ Len(q.queue) < MaxCached
    BY DEF Push
<1>3. CASE refs' = refs /\ pusher' = pusher
    <2>1. Direct' = Direct
        BY <1>3 DEF Direct, DirectOf
    <2> QED
        BY <1>1, <1>3, <2>1 DEF Kinds, Fresh
<1>4. CASE refs' = Use(refs, x) /\ pusher' = [pusher EXCEPT ![p] = q2] /\ Len(q.queue) < MaxCached
    <2>1. e \in Entry /\ e.object = x
        BY DEF Entry
    <2> HIDE DEF e
    <2>2. q.queue \in Seq(Entry) /\ q.sending \in Seq(Entry)
        BY <1>1 DEF PusherSet
    <2>3. Append(q.queue, e) \in Seq(Entry) /\ Len(Append(q.queue, e)) <= MaxCached
        <3>1. Append(q.queue, e) \in Seq(Entry) /\ Len(Append(q.queue, e)) = Len(q.queue) + 1 /\ Len(q.queue) \in Nat
            BY <2>1, <2>2
        <3> QED
            BY <1>4, <3>1, FinitePushers
    <2>4. q2 \in PusherSet /\ q2.queue = Append(q.queue, e) /\ q2.sending = q.sending /\ q2.pc = q.pc
        <3> DEFINE s == Append(q.queue, e)
        <3>1. s \in Seq(Entry) /\ q2 = [q EXCEPT !.queue = s]
            BY <2>3
        <3> HIDE DEF s, q2, q
        <3>2. q2 \in PusherSet /\ q2.queue = s /\ q2.sending = q.sending /\ q2.pc = q.pc
            BY <1>1, <3>1 DEF PusherSet
        <3> QED
            BY <3>2 DEF s
    <2> HIDE DEF q2
    <2>5. PusherOK(q2)
        BY <1>1, <2>3, <2>4 DEF PusherOK
    <2>6. SettledIn(q2)
        BY <1>1, <2>1, <2>2, <2>4, SettledAppend
    <2>7. pusher' \in [Pushers -> PusherSet] /\ pusher'[p] = q2 /\ \A y \in Pushers : y # p => pusher'[y] = pusher[y]
        BY <1>1, <1>4, <2>4 DEF Kinds
    <2>8. \A y \in Pushers : PusherOK(pusher'[y]) /\ SettledIn(pusher'[y])
        <3> SUFFICES ASSUME NEW y \in Pushers PROVE PusherOK(pusher'[y]) /\ SettledIn(pusher'[y])
            OBVIOUS
        <3>1. CASE y = p
            BY <2>5, <2>6, <2>7, <3>1
        <3>2. CASE y # p
            <4>1. pusher'[y] = pusher[y] /\ PusherOK(pusher[y]) /\ SettledIn(pusher[y])
                BY <1>1, <2>7, <3>2 DEF Kinds, Fresh
            <4> QED
                BY <4>1
        <3> QED
            BY <3>1, <3>2
    <2>9. Balanced(q, q2, Just(x), Nothing)
        <3>1. \A o \in Objects : ObjFn(Append(q.queue, e))[o] = ObjFn(q.queue)[o] + One(x = o)
            BY <2>1, <2>2, ObjFnAppend
        <3>2. \A o \in Objects : ObjFn(q.queue)[o] \in Nat /\ ObjFn(q.sending)[o] \in Nat /\ One(x = o) \in Nat /\ Just(x)[o] = One(x = o)
            BY <2>2, ObjNat, OneFacts, JustFacts
        <3> HIDE DEF q
        <3>3. ASSUME NEW o \in Objects
              PROVE  ObjFn(q.queue)[o] + ObjFn(q.sending)[o] + Just(x)[o] = ObjFn(Append(q.queue, e))[o] + ObjFn(q.sending)[o] + Nothing[o]
            BY <3>1, <3>2, NothingFacts
        <3> QED
            BY <2>4, <3>3 DEF Balanced
    <2>10. Direct \in Counts /\ Direct' \in Counts /\ \A o \in Objects : Direct[o] + Just(x)[o] = Direct'[o] + Nothing[o]
        <3>1. Queues(q2)
            BY <2>5, OkQueues
        <3>2. Just(x) \in Counts /\ pusher' = [pusher EXCEPT ![p] = q2]
            BY <1>4, JustFacts
        <3> QED
            BY <1>1, <2>9, <3>1, <3>2, NothingFacts, DirectChange
    <2>11. \A o \in Objects : Direct'[o] = Direct[o] + One(x = o)
        <3>1. \A o \in Objects : Direct[o] \in Nat /\ Direct'[o] \in Nat /\ Just(x)[o] = One(x = o) /\ One(x = o) \in Nat
            BY <2>10, JustFacts, OneFacts DEF Counts
        <3> QED
            BY <2>10, <3>1, NothingFacts
    <2>12. Exact(Use(refs, x), Direct')
        BY <1>1, <2>10, <2>11, AddedOne
    <2> QED
        BY <1>4, <2>7, <2>8, <2>12
<1> QED
    BY <1>2, <1>3, <1>4

\* A step of the handler that keeps its frame.
LEMMA KeepsFrame ==
    ASSUME PathInv, handler.pc \in {"pushers", "output"}, handler' \in HandlerSet, handler'.pc = handler.pc,
           handler'.frame = handler.frame, received' = received, input' = input, gop' = gop, sinceKey' = sinceKey,
           pusher' \in [Pushers -> PusherSet], \A y \in Pushers : PusherOK(pusher'[y]) /\ SettledIn(pusher'[y]),
           Exact(refs', Direct')
    PROVE  PathInv'
<1>1. Kinds /\ Arrived /\ Current
    BY DEF PathInv, Fresh
<1>2. Kinds'
    BY <1>1 DEF Kinds
<1>3. Onward
    BY <1>1, OnwardSame
<1>4. Arrived' /\ Current'
    BY <1>1 DEF Arrived, Current, Waits
<1> QED
    BY <1>1, <1>2, <1>3, <1>4, HandlerStep

\* The hand depends on the state of the handler and its frame.
LEMMA SameHand ==
    ASSUME handler'.pc = handler.pc, handler'.frame = handler.frame
    PROVE  HandOf(handler') = HandOf(handler)
BY DEF HandOf

\* The handler turns to one pusher.
LEMMA HandlePusherStep ==
    ASSUME PathInv, NEW p \in Pushers, HandlePusher(p)
    PROVE  PathInv'
<1>1. /\ handler.pc = "pushers" /\ received' = received /\ input' = input /\ gop' = gop /\ sinceKey' = sinceKey
    BY DEF HandlePusher
<1>2. f0 \in Numbers /\ Kinds /\ Fresh /\ Exact(refs, Direct)
    BY <1>1, FrameFacts
<1>3. handler \in HandlerSet /\ pusher[p] \in PusherSet
    BY <1>2 DEF Kinds
<1>4. CASE /\ \E s \in StreamsOf(p, "ps") : Push(p, s.id, Rtp(f0))
           /\ handler' = [handler EXCEPT !.left = @ \ {p}]
    <2>1. PICK s \in StreamsOf(p, "ps") : Push(p, s.id, Rtp(f0))
        BY <1>4
    <2>2. s.id \in Nat
        BY <1>3 DEF StreamsOf, PusherSet
    <2>3. handler' \in HandlerSet /\ handler'.pc = handler.pc /\ handler'.frame = handler.frame
        BY <1>3, <1>4 DEF HandlerSet
    <2>4. HandOf(handler') = HandOf(handler)
        BY <2>3, SameHand
    <2>5. Rtp(f0) \in Objects /\ Rtp(f0)[1] # "out" /\ Settled(Rtp(f0))
        BY <1>2, ObjectFacts DEF Settled
    <2>6. /\ pusher' \in [Pushers -> PusherSet] /\ \A y \in Pushers : PusherOK(pusher'[y]) /\ SettledIn(pusher'[y])
          /\ Exact(refs', Direct')
        BY <1>1, <2>1, <2>2, <2>4, <2>5, PushedExact
    <2> QED
        BY <1>1, <2>3, <2>6, KeepsFrame
<1>5. CASE /\ handler' = [handler EXCEPT
                !.left = @ \ {p},
                !.targets = IF CanPush(p)
                            THEN @ \union {<<p, s.id>> : s \in StreamsOf(p, "h264")} ELSE @]
           /\ UNCHANGED <<refs, pusher>>
    <2> DEFINE l == handler.left \ {p}
               t == IF CanPush(p) THEN handler.targets \union {<<p, s.id>> : s \in StreamsOf(p, "h264")} ELSE handler.targets
    <2>1. l \in SUBSET Pushers
        BY <1>3 DEF HandlerSet
    <2>2. t \in SUBSET (Pushers \X Nat)
        <3>1. \A s \in StreamsOf(p, "h264") : s.id \in Nat
            BY <1>3 DEF StreamsOf, PusherSet
        <3>2. handler.targets \in SUBSET (Pushers \X Nat)
            BY <1>3 DEF HandlerSet
        <3> QED
            BY <3>1, <3>2
    <2>3. handler' = [handler EXCEPT !.left = l, !.targets = t]
        BY <1>5
    <2> HIDE DEF l, t
    <2>4. handler' \in HandlerSet /\ handler'.pc = handler.pc /\ handler'.frame = handler.frame
        BY <1>3, <2>1, <2>2, <2>3 DEF HandlerSet
    <2>5. HandOf(handler') = HandOf(handler)
        BY <2>4, SameHand
    <2>6. Direct' = Direct
        BY <1>1, <1>5, <2>5 DEF Direct, DirectOf
    <2>7. pusher' \in [Pushers -> PusherSet] /\ \A y \in Pushers : PusherOK(pusher'[y]) /\ SettledIn(pusher'[y])
        BY <1>2, <1>5 DEF Kinds, Fresh
    <2>8. Exact(refs', Direct')
        BY <1>2, <1>5, <2>6
    <2> QED
        BY <1>1, <2>4, <2>7, <2>8, KeepsFrame
<1> QED
    BY <1>4, <1>5 DEF HandlePusher

\* The packed frame goes to one stream.
LEMMA HandleOutputStep ==
    ASSUME PathInv, HandleOutput
    PROVE  PathInv'
<1> DEFINE x == Out(f0)
<1>1. /\ handler.pc = "output" /\ received' = received /\ input' = input /\ gop' = gop /\ sinceKey' = sinceKey
    BY DEF HandleOutput
<1>2. PICK t \in handler.targets : Push(t[1], t[2], x) /\ handler' = [handler EXCEPT !.targets = @ \ {t}]
    BY DEF HandleOutput
<1>3. /\ f0 \in Numbers /\ Kinds /\ Exact(refs, Direct) /\ HandOf(handler) = {Rtp(f0), Ps(f0), x}
      /\ f0 \in 1..received /\ ~Waits(f0)
    BY <1>1, FrameFacts
<1>4. handler \in HandlerSet /\ t[1] \in Pushers /\ t[2] \in Nat
    BY <1>3 DEF Kinds, HandlerSet
<1>5. handler' \in HandlerSet /\ handler'.pc = handler.pc /\ handler'.frame = handler.frame
    BY <1>2, <1>4 DEF HandlerSet
<1>6. HandOf(handler') = HandOf(handler)
    BY <1>5, SameHand
<1>7. x \in Objects /\ x[1] = "out" /\ x[2] = f0
    BY <1>3, ObjectFacts
<1>8. Settled(x)
    BY <1>1, <1>3, <1>7 DEF Settled, Passed
<1>9. Direct[x] > 0
    <2>1. One(x \in HandOf(handler)) = 1
        BY <1>3 DEF One
    <2>2. /\ Direct[x] = QueueFn(input)[x] + GopFn(gop.frames)[x] + Held(pusher)[x] + One(x \in HandOf(handler))
          /\ QueueFn(input)[x] \in Nat /\ GopFn(gop.frames)[x] \in Nat /\ Held(pusher)[x] \in Nat
        BY <1>3, <1>7, DirectSum
    <2> HIDE DEF x
    <2> QED
        BY <2>1, <2>2
<1> HIDE DEF x
<1>10. /\ pusher' \in [Pushers -> PusherSet] /\ \A y \in Pushers : PusherOK(pusher'[y]) /\ SettledIn(pusher'[y])
       /\ Exact(refs', Direct')
    BY <1>1, <1>2, <1>4, <1>6, <1>7, <1>8, <1>9, PushedExact
<1> QED
    BY <1>1, <1>5, <1>10, KeepsFrame

\* The player closes the pushers.
LEMMA PlayerClosesPushersStep ==
    ASSUME PathInv, PlayerClosesPushers, refs' = refs
    PROVE  PathInv'
<1>1. /\ handler.pc = "closed" /\ handler' = [handler EXCEPT !.pc = "ended"]
      /\ pusher' = [p \in Pushers |-> [pusher[p] EXCEPT !.asked = pusher[p].asked \/ p \in Open]]
      /\ received' = received /\ input' = input /\ gop' = gop /\ sinceKey' = sinceKey
    BY DEF PlayerClosesPushers, channel
<1>2. Kinds /\ Fresh /\ Arrived /\ Exact(refs, Direct)
    BY DEF PathInv, Fresh
<1>3. handler \in HandlerSet /\ handler' \in HandlerSet /\ handler'.pc = "ended"
    BY <1>1, <1>2 DEF Kinds, HandlerSet
<1>4. ASSUME NEW p \in Pushers
      PROVE  /\ pusher'[p] \in PusherSet /\ PusherOK(pusher'[p]) /\ SettledIn(pusher'[p])
             /\ pusher'[p].queue = pusher[p].queue /\ pusher'[p].sending = pusher[p].sending
    <2> DEFINE q == pusher[p]
               b == q.asked \/ p \in Open
               q2 == [q EXCEPT !.asked = b]
    <2>1. pusher'[p] = q2 /\ b \in BOOLEAN
        BY <1>1
    <2>2. q \in PusherSet /\ PusherOK(q) /\ SettledIn(q)
        BY <1>2 DEF Kinds, Fresh
    <2> HIDE DEF q, b
    <2>3. q2 \in PusherSet /\ q2.queue = q.queue /\ q2.sending = q.sending /\ q2.pc = q.pc
        BY <2>1, <2>2 DEF PusherSet
    <2> HIDE DEF q2
    <2>4. PusherOK(q2)
        BY <2>2, <2>3 DEF PusherOK
    <2>5. SettledIn(q2)
        BY <2>2, <2>3, SettledSame
    <2> QED
        BY <2>1, <2>3, <2>4, <2>5 DEF q
<1>5. pusher' \in [Pushers -> PusherSet]
    <2>1. \A p \in Pushers : pusher'[p] \in PusherSet
        BY <1>4
    <2>2. DOMAIN pusher' = Pushers /\ pusher' = [p \in Pushers |-> pusher'[p]]
        BY <1>1
    <2> QED
        BY <2>1, <2>2
<1>6. Kinds'
    BY <1>1, <1>2, <1>3, <1>4, <1>5 DEF Kinds
<1>7. Onward
    BY <1>1, <1>2, <1>3, OnwardSame
<1>8. Arrived' /\ Current'
    BY <1>1, <1>2, <1>3 DEF Arrived, Current
<1>9. Held(pusher') = Held(pusher)
    BY <1>4, HeldSame
<1>10. HandOf(handler') = HandOf(handler)
    <2>1. HandOf(handler) = {}
        BY <1>1, <1>3, HandFacts
    <2> DEFINE w == handler'
    <2>2. w \in HandlerSet /\ w.pc = "ended"
        BY <1>3
    <2> HIDE DEF w
    <2>3. HandOf(w) = {}
        BY ONLY <2>2, HandFacts
    <2> QED
        BY <2>1, <2>3 DEF w
<1>11. Direct' = Direct
    BY <1>1, <1>9, <1>10 DEF Direct, DirectOf
<1>12. Exact(refs', Direct')
    BY <1>2, <1>11
<1>13. \A x \in Pushers : SettledIn(pusher'[x])
    BY <1>4
<1> QED
    BY <1>2, <1>6, <1>7, <1>8, <1>12, <1>13, HandlerStep

\* What does not touch the frames at all.
LEMMA SameStep ==
    ASSUME PathInv, received' = received, input' = input, gop' = gop, sinceKey' = sinceKey,
           handler' = handler, pusher' = pusher, refs' = refs
    PROVE  PathInv'
<1>1. Direct' = Direct
    BY DEF Direct
<1>2. Exact(refs', Direct')
    BY <1>1 DEF PathInv
<1>3. Kinds'
    BY DEF PathInv, Kinds
<1>4. Kinds /\ Arrived /\ Current /\ \A x \in Pushers : SettledIn(pusher[x])
    BY DEF PathInv, Fresh
<1>5. Arrived' /\ Current'
    BY <1>4 DEF Arrived, Current, Waits
<1>6. Onward
    BY <1>4, OnwardSame
<1> QED
    BY <1>2, <1>3, <1>4, <1>5, <1>6, HandlerStep

\* The invariant holds at first.
LEMMA PathInit == PInit => PathInv
<1> SUFFICES ASSUME PInit PROVE PathInv
    OBVIOUS
<1>1. /\ received = 0 /\ input = <<>> /\ sinceKey = <<>> /\ refs = [o \in Objects |-> 0] /\ handler = Idle /\ gop = NoGop
      /\ pusher = [p \in Pushers |-> NewPusher]
    BY DEF PInit
<1>2. <<>> \in Seq(Numbers) /\ <<>> \in Seq(Entry)
    OBVIOUS
<1>3. NewPusher \in PusherSet /\ NewPusher.queue = <<>> /\ NewPusher.sending = <<>> /\ NewPusher.pc = "new"
    BY <1>2 DEF NewPusher, PusherSet
<1>4. PusherOK(NewPusher)
    BY <1>3, FinitePushers DEF PusherOK
<1>5. \A p \in Pushers : pusher[p] = NewPusher
    BY <1>1
<1>6. NoGop \in GopSet /\ Whole(NoGop, sinceKey) /\ NoGop.frames = <<>>
    BY <1>2 DEF NoGop, GopSet, Whole
<1>7. Kinds
    <2>1. received \in 0..MaxFrames
        BY <1>1, FrameAssumption DEF FrameAssumption
    <2>2. pusher \in [Pushers -> PusherSet]
        BY <1>1, <1>3
    <2> QED
        BY <1>1, <1>2, <1>4, <1>5, <1>6, <2>1, <2>2, IdleFacts DEF Kinds
<1>8. Fresh
    <2>1. Arrived /\ Current
        BY <1>1, IdleFacts DEF Arrived, Current
    <2>2. SettledIn(NewPusher)
        BY <1>3 DEF SettledIn
    <2> QED
        BY <1>5, <2>1, <2>2 DEF Fresh
<1>9. \A o \in Objects : Direct[o] = 0
    <2>1. \A o \in Objects : QueueFn(input)[o] = 0 /\ GopFn(gop.frames)[o] = 0
        BY <1>1, <1>2, <1>6, QueueFnFacts, GopFnFacts
    <2>2. HandOf(handler) = {}
        BY <1>1, IdleFacts, HandFacts
    <2>3. \A o : QueuesOf(pusher, o) = {} /\ SendersOf(pusher, o) = {}
        <3> SUFFICES ASSUME NEW o PROVE QueuesOf(pusher, o) = {} /\ SendersOf(pusher, o) = {}
            OBVIOUS
        <3>1. \A p \in Pushers : pusher[p].sending = <<>> /\ Len(pusher[p].queue) = 0
            BY <1>3, <1>5
        <3>2. SendersOf(pusher, o) = {}
            BY <3>1 DEF SendersOf
        <3>3. QueuesOf(pusher, o) = {}
            <4> SUFFICES ASSUME NEW p \in Pushers, NEW i \in 1..MaxCached, i <= Len(pusher[p].queue) PROVE FALSE
                BY DEF QueuesOf
            <4> QED
                BY <3>1, FinitePushers
        <3> QED
            BY <3>2, <3>3
    <2>4. \A o \in Objects : Held(pusher)[o] = 0
        BY <2>3, FS_EmptySet DEF Held
    <2>5. \A o \in Objects : One(o \in HandOf(handler)) = 0
        BY <2>2 DEF One
    <2>6. \A o \in Objects : Direct[o] = QueueFn(input)[o] + GopFn(gop.frames)[o] + Held(pusher)[o] + One(o \in HandOf(handler))
        BY <1>7, DirectSum
    <2> QED
        BY <2>1, <2>4, <2>5, <2>6
<1>10. Exact(refs, Direct)
    <2>1. refs \in [Objects -> Int] /\ \A o \in Objects : refs[o] = 0
        BY <1>1
    <2>2. Direct \in [Objects -> Nat]
        BY <1>7, DirectSum DEF Counts
    <2>3. \A o \in Objects : One(Related(refs, o)) = 0
        <3> SUFFICES ASSUME NEW o \in Objects PROVE One(Related(refs, o)) = 0
            OBVIOUS
        <3>1. Out(o[2]) \in Objects
            BY ObjectFacts
        <3>2. ~Related(refs, o)
            BY <2>1, <3>1 DEF Related
        <3> QED
            BY <3>2 DEF One
    <2>4. \A o \in Objects : refs[o] = Direct[o] + One(Related(refs, o))
        BY <1>9, <2>1, <2>3
    <2> QED
        BY <2>1, <2>2, <2>4 DEF Exact
<1> QED
    BY <1>7, <1>8, <1>10 DEF PathInv

\* Every step keeps the invariant.
LEMMA PathNext == PathInv /\ [PNext]_pvars => PathInv'
<1> SUFFICES ASSUME PathInv, [PNext]_pvars PROVE PathInv'
    OBVIOUS
<1>1. CASE Receive
    BY <1>1, ReceiveStep
<1>2. CASE Handling
    <2>1. CASE HandleFrame
        BY <2>1, HandleFrameStep
    <2>2. CASE HandleNothing
        BY <2>2, HandleNothingStep
    <2>3. CASE HandlePack
        BY <2>3, HandlePackStep
    <2>4. CASE HandleOutput
        BY <2>4, HandleOutputStep
    <2>5. CASE HandleDone
        BY <2>5, HandleDoneStep
    <2>6. CASE \E p \in Pushers : HandlePusher(p)
        BY <2>6, HandlePusherStep
    <2> QED
        BY <1>2, <2>1, <2>2, <2>3, <2>4, <2>5, <2>6 DEF Handling
<1>3. CASE HandleInterrupted
    BY <1>3, HandleInterruptedStep
<1>4. ASSUME NEW p \in Pushers, Pushing(p)
      PROVE  PathInv'
    BY <1>4, PusherTakePushStep, PusherTakePauseStep, PusherTakeStep, PusherSendStep, PusherEmptyStep, PusherDrainStep,
       PusherClosedStep DEF Pushing
<1>5. ASSUME NEW p \in Pushers, PusherInterrupted(p)
      PROVE  PathInv'
    BY <1>5, PusherInterruptedStep
<1>6. ASSUME NEW p \in Pushers, Client(p) \/ RemoveCloses(p), refs' = refs
      PROVE  PathInv'
    BY <1>6, ClientStep
<1>7. CASE PlayerClosesPushers /\ refs' = refs
    BY <1>7, PlayerClosesPushersStep
<1>8. CASE Record /\ refs' = refs
    <2>1. received' = received /\ input' = input /\ gop' = gop /\ sinceKey' = sinceKey /\ handler' = handler /\ pusher' = pusher
        BY <1>8 DEF Record
    <2> QED
        BY <1>8, <2>1, SameStep
<1>9. CASE UNCHANGED pvars
    <2>1. received' = received /\ input' = input /\ gop' = gop /\ sinceKey' = sinceKey /\ handler' = handler /\ pusher' = pusher /\ refs' = refs
        BY <1>9 DEF pvars, channel
    <2> QED
        BY <2>1, SameStep
<1> QED
    BY <1>1, <1>2, <1>3, <1>4, <1>5, <1>6, <1>7, <1>8, <1>9 DEF PNext

\* RefsExact is what the invariant says of the counts.
LEMMA PathRefs == PathInv => RefsExact
<1> SUFFICES ASSUME PathInv, NEW o \in Objects PROVE refs[o] = Places(o)
    BY DEF RefsExact
<1>1. Kinds /\ Exact(refs, Direct)
    BY DEF PathInv
<1>2. input \in Seq(Numbers) /\ gop.frames \in Seq(Numbers)
    BY <1>1 DEF Kinds, GopSet
<1> DEFINE i == CountOf(o, Each("rtp", input))
           a == CountOf(o, Each("ps", gop.frames))
           b == CountOf(o, Each("rtp", gop.frames))
           c == Cardinality(InQueues(o))
           d == Cardinality(Sending(o))
           e == IF o \in InHand THEN 1 ELSE 0
           k == IF Related(refs, o) THEN 1 ELSE 0
<1>3. QueueFn(input)[o] = i /\ GopFn(gop.frames)[o] = a + b
    BY <1>2, QueueFnFacts, GopFnFacts
<1>4. InQueues(o) = QueuesOf(pusher, o) /\ Sending(o) = SendersOf(pusher, o)
    BY DEF InQueues, QueuesOf, Sending, SendersOf
<1>5. Held(pusher)[o] = c + d
    BY <1>4 DEF Held
<1>6. InHand = HandOf(handler)
    BY DEF InHand, HandOf, f0
<1>7. One(o \in HandOf(handler)) = e /\ One(Related(refs, o)) = k
    BY <1>6 DEF One
<1>8. Places(o) = i + a + b + c + d + e + k
    BY DEF Places
<1>9. i \in Nat /\ a \in Nat /\ b \in Nat
    BY <1>2, CountEach
<1>10. c \in Nat /\ d \in Nat
    BY <1>4, FiniteHeld, FS_CardinalityType
<1>11. e \in Nat /\ k \in Nat
    OBVIOUS
<1>12. Direct[o] = QueueFn(input)[o] + GopFn(gop.frames)[o] + Held(pusher)[o] + One(o \in HandOf(handler))
    BY <1>1, DirectSum
<1>13. refs[o] = Direct[o] + One(Related(refs, o))
    BY <1>1 DEF Exact
<1> HIDE DEF i, a, b, c, d, e, k
<1>14. Direct[o] = i + (a + b) + (c + d) + e /\ refs[o] = Direct[o] + k
    BY <1>3, <1>5, <1>7, <1>12, <1>13
<1> QED
    BY ONLY <1>8, <1>9, <1>10, <1>11, <1>14

\* GopsWhole is what the invariant says of the GOP.
LEMMA PathWhole == PathInv => GopsWhole
BY DEF PathInv, Kinds, Whole, GopsWhole

\* The invariant holds always.
LEMMA PathAlways == PSpec => []PathInv
BY PathInit, PathNext, PTL DEF PSpec

\* The count of every pooled frame is exactly the number of places that hold it:
\* no path of the handler, the pushers, the clients or the player leaks a frame or
\* hands one in use back to its pool, with any number of frames, pushers and streams.
THEOREM RefsAreExact == PSpec => []RefsExact
BY PathAlways, PathRefs, PTL

\* A GOP that will be written is a key frame with every frame parsed since, and its
\* range ends with its last frame and does not start after it.
THEOREM GopsAreWhole == PSpec => []GopsWhole
BY PathAlways, PathWhole, PTL
=============================================================================
