---------------------------- MODULE OrderLemmas ----------------------------
(***************************************************************************)
(* Facts about natural numbers that the proofs need: least elements,       *)
(* induction over the members of a set, what Ascending returns, and        *)
(* numbers that stand in line.                                             *)
(***************************************************************************)
EXTENDS Timelines, FiniteSetTheorems, TLAPS

\* A set of numbers that is not empty has a least element.
LEMMA LeastNat ==
    ASSUME NEW S, S \subseteq Nat, S # {}
    PROVE  \E m \in S : \A n \in S : m <= n
<1> DEFINE R == OpToRel(<, Nat)
<1>1. IsWellFoundedOn(R, Nat)
    BY NatLessThanWellFounded
<1>2. \A x, y \in Nat : x < y => <<x, y>> \in R
    BY DEF OpToRel
<1> HIDE DEF R
<1>3. PICK x \in S : \A y \in S : ~(<<y, x>> \in R)
    BY <1>1, WFMin
<1>4. \A y \in S : ~(y < x)
    BY <1>2, <1>3
<1> QED BY <1>3, <1>4

\* Induction, for a property given as the set of the numbers that have it.
LEMMA SetInduction ==
    ASSUME NEW S, S \subseteq Nat, 0 \in S, \A n \in S : n + 1 \in S
    PROVE  S = Nat
<1> SUFFICES ASSUME Nat \ S # {} PROVE FALSE
    OBVIOUS
<1>1. PICK m \in Nat \ S : \A n \in Nat \ S : m <= n
    BY LeastNat
<1>2. m # 0
    OBVIOUS
<1>3. m - 1 \in Nat /\ m - 1 < m /\ m = (m - 1) + 1
    BY <1>2
<1>4. m - 1 \in S
    BY <1>1, <1>3
<1> QED BY <1>3, <1>4

\* A finite set of numbers can be put in order.
LEMMA AscendingExists ==
    ASSUME NEW n \in Nat, NEW S \in SUBSET Nat, IsFiniteSet(S), Cardinality(S) = n
    PROVE  \E q \in [1..n -> S] : \A i, j \in 1..n : i < j => q[i] < q[j]
<1> DEFINE Ordered(m, T) == \E q \in [1..m -> T] : \A i, j \in 1..m : i < j => q[i] < q[j]
           Good == {m \in Nat : \A T \in SUBSET Nat : (IsFiniteSet(T) /\ Cardinality(T) = m) => Ordered(m, T)}
<1>1. 0 \in Good
    <2> SUFFICES ASSUME NEW T \in SUBSET Nat PROVE Ordered(0, T)
        OBVIOUS
    <2> DEFINE q == [i \in 1..0 |-> 0]
    <2>1. q \in [1..0 -> T] /\ \A i, j \in 1..0 : i < j => q[i] < q[j]
        OBVIOUS
    <2> HIDE DEF q
    <2> QED BY <2>1
<1>2. ASSUME NEW m \in Good PROVE m + 1 \in Good
    <2> SUFFICES ASSUME NEW T \in SUBSET Nat, IsFiniteSet(T), Cardinality(T) = m + 1
                 PROVE  Ordered(m + 1, T)
        OBVIOUS
    <2>1. T # {}
        BY FS_EmptySet
    <2>2. PICK x \in T : \A y \in T : x <= y
        BY <2>1, LeastNat
    <2>3. IsFiniteSet(T \ {x}) /\ Cardinality(T \ {x}) = m
        BY FS_RemoveElement
    <2>4. Ordered(m, T \ {x})
        BY <2>3
    <2>5. PICK q \in [1..m -> T \ {x}] : \A i, j \in 1..m : i < j => q[i] < q[j]
        BY <2>4
    <2> DEFINE p == [i \in 1..(m + 1) |-> IF i = 1 THEN x ELSE q[i - 1]]
    <2>6. \A i \in 1..(m + 1) : i # 1 => i - 1 \in 1..m /\ q[i - 1] \in T /\ x < q[i - 1]
        <3> SUFFICES ASSUME NEW i \in 1..(m + 1), i # 1
                     PROVE  i - 1 \in 1..m /\ q[i - 1] \in T /\ x < q[i - 1]
            OBVIOUS
        <3>1. m \in Nat /\ i - 1 \in 1..m
            OBVIOUS
        <3>2. q[i - 1] \in T \ {x}
            BY <3>1, <2>5
        <3>3. q[i - 1] \in Nat /\ x \in Nat /\ x <= q[i - 1] /\ x # q[i - 1]
            BY <2>2, <3>2
        <3> QED BY <3>1, <3>2, <3>3
    <2>7. p \in [1..(m + 1) -> T]
        BY <2>6
    <2>8. ASSUME NEW i \in 1..(m + 1), NEW j \in 1..(m + 1), i < j PROVE p[i] < p[j]
        <3>1. j # 1 /\ p[j] = q[j - 1]
            BY <2>8
        <3>2. CASE i = 1
            BY <2>6, <3>1, <3>2
        <3>3. CASE i # 1
            BY <2>5, <2>6, <2>8, <3>1, <3>3
        <3> QED BY <3>2, <3>3
    <2> QED BY <2>7, <2>8
<1> HIDE DEF Ordered
<1>3. Good = Nat
    <2> SUFFICES 0 \in Good /\ Good \subseteq Nat /\ \A m \in Good : m + 1 \in Good
        BY SetInduction
    <2> QED BY <1>1, <1>2
<1> QED BY <1>3 DEF Ordered

\* Ascending lists exactly the numbers of the set, each before the larger ones.
LEMMA AscendingFacts ==
    ASSUME NEW S \in SUBSET Nat, IsFiniteSet(S)
    PROVE  /\ Cardinality(S) \in Nat
           /\ Ascending(S) \in [1..Cardinality(S) -> S]
           /\ \A i, j \in 1..Cardinality(S) : i < j => Ascending(S)[i] < Ascending(S)[j]
           /\ \A x \in S : \E i \in 1..Cardinality(S) : Ascending(S)[i] = x
<1> DEFINE n == Cardinality(S)
           q == Ascending(S)
<1>1. n \in Nat
    BY FS_CardinalityType
<1>2. \E r \in [1..n -> S] : \A i, j \in 1..n : i < j => r[i] < r[j]
    BY <1>1, AscendingExists
<1>3. q \in [1..n -> S] /\ \A i, j \in 1..n : i < j => q[i] < q[j]
    BY <1>2 DEF Ascending
<1> HIDE DEF q
<1>4. \A i, j \in 1..n : q[i] = q[j] => i = j
    <2> SUFFICES ASSUME NEW i \in 1..n, NEW j \in 1..n, i < j PROVE q[i] # q[j]
        BY <1>1
    <2>1. q[i] \in Nat /\ q[j] \in Nat /\ q[i] < q[j]
        BY <1>3
    <2> QED BY <2>1
<1>5. q \in Injection(1..n, S)
    BY <1>3, <1>4 DEF Injection, IsInjective
<1>6. Cardinality(1..n) = n
    BY <1>1, FS_Interval
<1>7. q \in Surjection(1..n, S)
    BY <1>5, <1>6, FS_Injection
<1> QED BY <1>1, <1>3, <1>7 DEF Surjection, q
\* The values of a finite sequence are a finite set.
LEMMA FiniteValues ==
    ASSUME NEW n \in Nat, NEW f, DOMAIN f = 1..n
    PROVE  IsFiniteSet({f[i] : i \in 1..n})
<1> DEFINE T == {f[i] : i \in 1..n}
           g == [i \in 1..n |-> f[i]]
<1>1. g \in Surjection(1..n, T)
    BY DEF Surjection
<1>2. IsFiniteSet(1..n)
    BY FS_Interval
<1> QED BY <1>1, <1>2, FS_Surjection

\* A multiple of R that is smaller than R is zero.
LEMMA SmallMultiple ==
    ASSUME NEW R \in Nat \ {0}, NEW t \in Int, R * t < R, -R < R * t
    PROVE  t = 0
<1>1. CASE t >= 1
    <2>1. R * t >= R * 1
        BY <1>1
    <2> QED BY <2>1
<1>2. CASE t <= -1
    <2>1. R * t <= R * (-1)
        BY <1>2
    <2> QED BY <2>1
<1> QED BY <1>1, <1>2

\* Division with remainder.
LEMMA DivMod ==
    ASSUME NEW R \in Nat \ {0}, NEW a \in Nat
    PROVE  a % R \in 0..(R - 1) /\ \E k \in Int : a = R * k + (a % R)
<1>1. a % R \in 0..(R - 1)
    OBVIOUS
<1>2. a = R * (a \div R) + (a % R) /\ a \div R \in Int
    OBVIOUS
<1> QED BY <1>1, <1>2

\* The slots of a ring: going on from a slot that was reached by a steps is
\* going on from a itself.
LEMMA ModFacts ==
    ASSUME NEW R \in Nat \ {0}, NEW a \in Nat, NEW b \in Nat
    PROVE  ((a % R) + b) % R = (a + b) % R
<1> DEFINE x == a % R
           y == (x + b) % R
           z == (a + b) % R
<1>1. x \in Nat /\ x + b \in Nat /\ a + b \in Nat
    BY DivMod
<1>2. PICK k \in Int : a = R * k + x
    BY DivMod
<1>3. y \in 0..(R - 1) /\ \E m \in Int : x + b = R * m + y
    BY <1>1, DivMod
<1>4. PICK m \in Int : x + b = R * m + y
    BY <1>3
<1>5. z \in 0..(R - 1) /\ \E p \in Int : a + b = R * p + z
    BY <1>1, DivMod
<1>6. PICK p \in Int : a + b = R * p + z
    BY <1>5
<1> HIDE DEF x, y, z
<1>7. R * (k + m - p) = R * k + R * m - R * p
    OBVIOUS
<1>8. R * k \in Int /\ R * m \in Int /\ R * p \in Int
    OBVIOUS
<1>9. R * (k + m - p) = z - y
    BY <1>1, <1>2, <1>3, <1>4, <1>5, <1>6, <1>7, <1>8
<1>10. k + m - p = 0
    BY <1>3, <1>5, <1>9, SmallMultiple
<1>11. z - y = R * 0
    BY <1>9, <1>10
<1>12. z = y
    BY <1>3, <1>5, <1>11
<1> QED BY <1>12 DEF x, y, z

-----------------------------------------------------------------------------
(* Numbers in line.                                                        *)

\* f[i][k], for k up to d[i] and i up to n, are the numbers of M in ascending order.
Line(f, d, n, M) ==
    /\ \A i, j \in 0..n : \A k \in 1..d[i], l \in 1..d[j] :
          (i < j \/ (i = j /\ k < l)) => f[i][k] < f[j][l]
    /\ \A i \in 0..n : \A k \in 1..d[i] : f[i][k] \in M
    /\ \A b \in M : \E i \in 0..n : \E k \in 1..d[i] : f[i][k] = b

\* The map from <<i, k>> to <<I[i][k], K[i][k]>> leads from the places of one
\* line to those places of another that have a number in N, in order.
Carried(f, d, n, g, e, m, N, I, K) ==
    /\ \A i \in 0..m : \A k \in 1..e[i] :
          /\ I[i][k] \in 0..n /\ K[i][k] \in 1..d[I[i][k]] /\ g[i][k] = f[I[i][k]][K[i][k]]
          /\ g[i][k] \in N
    /\ \A i, j \in 0..m : \A k \in 1..e[i], l \in 1..e[j] :
          (i < j \/ (i = j /\ k < l)) =>
              (I[i][k] < I[j][l] \/ (I[i][k] = I[j][l] /\ K[i][k] < K[j][l]))
    /\ \A i \in 0..n : \A k \in 1..d[i] : f[i][k] \in N =>
          \E j \in 0..m : \E l \in 1..e[j] : I[j][l] = i /\ K[j][l] = k

\* With such a map the second line is in order and complete if the first is.
LEMMA LineMapped ==
    ASSUME NEW n \in Nat, NEW d \in [0..n -> Nat], NEW f, NEW M, Line(f, d, n, M),
           NEW m \in Nat, NEW e \in [0..m -> Nat], NEW g, NEW N \in SUBSET M,
           NEW I, NEW K, Carried(f, d, n, g, e, m, N, I, K)
    PROVE  Line(g, e, m, N)
<1>0. /\ \A i \in 0..m : \A k \in 1..e[i] :
             /\ I[i][k] \in 0..n /\ K[i][k] \in 1..d[I[i][k]] /\ g[i][k] = f[I[i][k]][K[i][k]]
             /\ g[i][k] \in N
      /\ \A i, j \in 0..m : \A k \in 1..e[i], l \in 1..e[j] :
             (i < j \/ (i = j /\ k < l)) =>
                 (I[i][k] < I[j][l] \/ (I[i][k] = I[j][l] /\ K[i][k] < K[j][l]))
      /\ \A i \in 0..n : \A k \in 1..d[i] : f[i][k] \in N =>
             \E j \in 0..m : \E l \in 1..e[j] : I[j][l] = i /\ K[j][l] = k
    BY DEF Carried
<1>1. ASSUME NEW i \in 0..m, NEW j \in 0..m, NEW k \in 1..e[i], NEW l \in 1..e[j],
             i < j \/ (i = j /\ k < l)
      PROVE  g[i][k] < g[j][l]
    <2>1. PICK p \in 0..n : p = I[i][k]
        BY <1>0
    <2>2. PICK q \in 1..d[p] : q = K[i][k]
        BY <1>0, <2>1
    <2>3. PICK r \in 0..n : r = I[j][l]
        BY <1>0
    <2>4. PICK s \in 1..d[r] : s = K[j][l]
        BY <1>0, <2>3
    <2>5. g[i][k] = f[p][q] /\ g[j][l] = f[r][s]
        BY <1>0, <2>1, <2>2, <2>3, <2>4
    <2>6. p < r \/ (p = r /\ q < s)
        <3>1. I[i][k] < I[j][l] \/ (I[i][k] = I[j][l] /\ K[i][k] < K[j][l])
            BY <1>0, <1>1
        <3> QED BY ONLY <3>1, <2>1, <2>2, <2>3, <2>4
    <2>7. f[p][q] < f[r][s]
        BY ONLY <2>6, Line(f, d, n, M), p \in 0..n, r \in 0..n, q \in 1..d[p], s \in 1..d[r] DEF Line
    <2> QED BY ONLY <2>5, <2>7
<1>2. ASSUME NEW b \in N
      PROVE  \E i \in 0..m : \E k \in 1..e[i] : g[i][k] = b
    <2>1. PICK i \in 0..n : \E k \in 1..d[i] : f[i][k] = b
        BY DEF Line
    <2>2. PICK k \in 1..d[i] : f[i][k] = b
        BY <2>1
    <2>3. PICK j \in 0..m : \E l \in 1..e[j] : I[j][l] = i /\ K[j][l] = k
        BY <1>0, <2>2
    <2>4. PICK l \in 1..e[j] : I[j][l] = i /\ K[j][l] = k
        BY <2>3
    <2> QED BY <1>0, <2>2, <2>4
<1>3. \A i \in 0..m : \A k \in 1..e[i] : g[i][k] \in N
    BY <1>0
<1> QED BY <1>1, <1>2, <1>3 DEF Line

\* g is f with the second group behind the first and the others moved up.
Shifted(f, d, n, g, e) ==
    /\ e[0] = d[0] + d[1]
    /\ \A k \in 1..d[0] : g[0][k] = f[0][k]
    /\ \A k \in 1..d[1] : g[0][d[0] + k] = f[1][k]
    /\ \A i \in 1..(n - 1) : e[i] = d[i + 1] /\ \A k \in 1..e[i] : g[i][k] = f[i + 1][k]

\* The numbers of the second group join the first, the others move up.
LEMMA LineShift ==
    ASSUME NEW n \in Nat \ {0}, NEW d \in [0..n -> Nat], NEW f, NEW M, Line(f, d, n, M),
           NEW e \in [0..(n - 1) -> Nat], NEW g, Shifted(f, d, n, g, e)
    PROVE  Line(g, e, n - 1, M)
<1> SUFFICES ASSUME e[0] = d[0] + d[1],
                    \A k \in 1..d[0] : g[0][k] = f[0][k], \A k \in 1..d[1] : g[0][d[0] + k] = f[1][k],
                    \A i \in 1..(n - 1) : e[i] = d[i + 1] /\ \A k \in 1..e[i] : g[i][k] = f[i + 1][k]
             PROVE  Line(g, e, n - 1, M)
    BY DEF Shifted
<1> DEFINE m == n - 1
           I == [i \in 0..m |-> [k \in Nat |-> IF i = 0 THEN (IF k <= d[0] THEN 0 ELSE 1) ELSE i + 1]]
           K == [i \in 0..m |-> [k \in Nat |-> IF i = 0 THEN (IF k <= d[0] THEN k ELSE k - d[0]) ELSE k]]
<1>1. m \in Nat /\ n \in Nat /\ n = m + 1 /\ d[0] \in Nat /\ d[1] \in Nat /\ 0 \in 0..n /\ 1 \in 0..n
    OBVIOUS
<1>2. \A i \in 0..m : \A k \in Nat :
          /\ i = 0 => I[i][k] = (IF k <= d[0] THEN 0 ELSE 1) /\ K[i][k] = (IF k <= d[0] THEN k ELSE k - d[0])
          /\ i # 0 => I[i][k] = i + 1 /\ K[i][k] = k
    OBVIOUS
<1> HIDE DEF I, K, m
<1>3. e \in [0..m -> Nat] /\ \A i \in 0..m : \A k \in 1..e[i] : k \in Nat /\ i \in Nat
    BY DEF m
<1>4. ASSUME NEW i \in 0..m, NEW k \in 1..e[i]
      PROVE  /\ I[i][k] \in 0..n /\ K[i][k] \in 1..d[I[i][k]] /\ g[i][k] = f[I[i][k]][K[i][k]]
             /\ g[i][k] \in M
    <2>1. CASE i = 0 /\ k <= d[0]
        <3>1. I[i][k] = 0 /\ K[i][k] = k /\ k \in 1..d[0]
            BY <1>1, <1>2, <1>3, <2>1
        <3>2. g[i][k] = f[0][k] /\ f[0][k] \in M
            BY <3>1, <2>1, <1>1 DEF Line
        <3> QED BY <3>1, <3>2, <1>1
    <2>2. CASE i = 0 /\ ~(k <= d[0])
        <3>1. I[i][k] = 1 /\ K[i][k] = k - d[0]
            BY <1>1, <1>2, <1>3, <2>2
        <3>2. k \in 1..(d[0] + d[1])
            BY <2>2
        <3>3. k - d[0] \in 1..d[1] /\ d[0] + (k - d[0]) = k
            BY ONLY <3>2, <1>1, <2>2
        <3>4. g[i][k] = f[1][k - d[0]]
            BY <3>3, <2>2
        <3>5. f[1][k - d[0]] \in M
            BY <3>3, <1>1 DEF Line
        <3> QED BY ONLY <3>1, <3>3, <3>4, <3>5, <1>1
    <2>3. CASE i # 0
        <3>1. I[i][k] = i + 1 /\ K[i][k] = k
            BY <1>2, <1>3, <2>3
        <3>2. i \in 1..m /\ i + 1 \in 0..n
            BY <1>1, <2>3
        <3>3. e[i] = d[i + 1] /\ g[i][k] = f[i + 1][k]
            BY <3>2 DEF m
        <3>4. f[i + 1][k] \in M
            BY <3>2, <3>3 DEF Line
        <3> QED BY ONLY <3>1, <3>2, <3>3, <3>4, k \in 1..e[i]
    <2> QED BY <2>1, <2>2, <2>3
<1>5. ASSUME NEW i \in 0..m, NEW j \in 0..m, NEW k \in 1..e[i], NEW l \in 1..e[j],
             i < j \/ (i = j /\ k < l)
      PROVE  I[i][k] < I[j][l] \/ (I[i][k] = I[j][l] /\ K[i][k] < K[j][l])
    <2>1. i \in Nat /\ j \in Nat /\ k \in Nat /\ l \in Nat
        BY <1>3
    <2>2. i < j \/ (i = j /\ k < l)
        BY <1>5
    <2>3. /\ i = 0 => I[i][k] = (IF k <= d[0] THEN 0 ELSE 1) /\ K[i][k] = (IF k <= d[0] THEN k ELSE k - d[0])
          /\ i # 0 => I[i][k] = i + 1 /\ K[i][k] = k
        BY ONLY <1>2, <2>1, i \in 0..m
    <2>4. /\ j = 0 => I[j][l] = (IF l <= d[0] THEN 0 ELSE 1) /\ K[j][l] = (IF l <= d[0] THEN l ELSE l - d[0])
          /\ j # 0 => I[j][l] = j + 1 /\ K[j][l] = l
        BY ONLY <1>2, <2>1, j \in 0..m
    <2>5. d[0] \in Nat
        BY <1>1
    <2>6. CASE j = 0
        <3>1. i = 0 /\ k < l
            BY ONLY <2>1, <2>2, <2>6
        <3>2. CASE l <= d[0]
            <4>1. I[i][k] = 0 /\ K[i][k] = k /\ I[j][l] = 0 /\ K[j][l] = l
                BY ONLY <2>1, <2>3, <2>4, <2>5, <2>6, <3>1, <3>2
            <4> QED BY <4>1, <3>1
        <3>3. CASE ~(l <= d[0]) /\ k <= d[0]
            <4>1. I[i][k] = 0 /\ I[j][l] = 1
                BY ONLY <2>1, <2>3, <2>4, <2>5, <2>6, <3>1, <3>3
            <4> QED BY <4>1
        <3>4. CASE ~(k <= d[0])
            <4>1. I[i][k] = 1 /\ K[i][k] = k - d[0] /\ I[j][l] = 1 /\ K[j][l] = l - d[0]
                BY ONLY <2>1, <2>3, <2>4, <2>5, <2>6, <3>1, <3>4
            <4>2. k - d[0] < l - d[0]
                BY ONLY <2>1, <2>5, <3>1
            <4> QED BY <4>1, <4>2
        <3> QED BY <3>2, <3>3, <3>4
    <2>7. CASE j # 0 /\ i = 0
        <3>1. I[i][k] \in {0, 1} /\ I[j][l] = j + 1 /\ j + 1 > 1
            BY ONLY <2>1, <2>3, <2>4, <2>7
        <3> QED BY ONLY <3>1, <2>1
    <2>8. CASE i # 0 /\ j # 0
        <3>1. I[i][k] = i + 1 /\ K[i][k] = k /\ I[j][l] = j + 1 /\ K[j][l] = l
            BY ONLY <2>3, <2>4, <2>8
        <3> QED BY ONLY <3>1, <2>1, <2>2
    <2>9. j = 0 \/ i = 0 \/ (i # 0 /\ j # 0)
        OBVIOUS
    <2> QED BY <2>6, <2>7, <2>8, <2>9
<1>6. ASSUME NEW i \in 0..n, NEW k \in 1..d[i], f[i][k] \in M
      PROVE  \E j \in 0..m : \E l \in 1..e[j] : I[j][l] = i /\ K[j][l] = k
    <2>1. k \in Nat /\ d[i] \in Nat /\ i \in Nat /\ 0 \in 0..m
        BY <1>1
    <2>2. CASE i = 0
        <3>1. k \in 1..e[0] /\ k <= d[0]
            BY <1>1, <2>2
        <3> QED BY <2>1, <2>2, <3>1, <1>2
    <2>3. CASE i = 1
        <3>1. d[0] + k \in 1..e[0] /\ ~(d[0] + k <= d[0]) /\ (d[0] + k) - d[0] = k /\ d[0] + k \in Nat
            BY <1>1, <2>3
        <3>2. I[0][d[0] + k] = 1 /\ K[0][d[0] + k] = k
            BY ONLY <2>1, <3>1, <1>2
        <3> QED BY <2>1, <2>3, <3>1, <3>2
    <2>4. CASE i \in 2..n
        <3>1. i - 1 \in 1..m /\ i - 1 \in 0..m /\ i - 1 # 0 /\ (i - 1) + 1 = i
            BY ONLY <2>4, <1>1
        <3>2. e[i - 1] = d[i]
            BY <3>1 DEF m
        <3>3. I[i - 1][k] = i /\ K[i - 1][k] = k
            BY ONLY <3>1, <2>1, <1>2
        <3> QED BY <3>1, <3>2, <3>3
    <2>5. i \in {0, 1} \union 2..n
        BY ONLY i \in 0..n, n \in Nat
    <2> QED BY <2>2, <2>3, <2>4, <2>5
<1>7. Carried(f, d, n, g, e, m, M, I, K)
    BY ONLY <1>4, <1>5, <1>6 DEF Carried
<1>8. Line(g, e, m, M)
    <2>1. n \in Nat /\ d \in [0..n -> Nat] /\ M \in SUBSET M
        BY <1>1
    <2> QED BY ONLY <2>1, <1>1, <1>3, <1>7, LineMapped, Line(f, d, n, M) 
<1> QED BY <1>8 DEF m

\* g is f with the first number of the second group behind the first group.
Moved(f, d, n, g, e) ==
    /\ d[1] # 0 /\ e[0] = d[0] + 1 /\ e[1] = d[1] - 1
    /\ \A k \in 1..d[0] : g[0][k] = f[0][k]
    /\ g[0][d[0] + 1] = f[1][1]
    /\ \A k \in 1..e[1] : g[1][k] = f[1][k + 1]
    /\ \A i \in 2..n : e[i] = d[i] /\ \A k \in 1..e[i] : g[i][k] = f[i][k]

\* The first number of the second group joins the first group.
LEMMA LineMove ==
    ASSUME NEW n \in Nat \ {0}, NEW d \in [0..n -> Nat], NEW f, NEW M, Line(f, d, n, M),
           NEW e \in [0..n -> Nat], NEW g, Moved(f, d, n, g, e)
    PROVE  Line(g, e, n, M)
<1> SUFFICES ASSUME d[1] # 0, e[0] = d[0] + 1, e[1] = d[1] - 1,
                    \A k \in 1..d[0] : g[0][k] = f[0][k], g[0][d[0] + 1] = f[1][1],
                    \A k \in 1..e[1] : g[1][k] = f[1][k + 1],
                    \A i \in 2..n : e[i] = d[i] /\ \A k \in 1..e[i] : g[i][k] = f[i][k]
             PROVE  Line(g, e, n, M)
    BY DEF Moved
<1> DEFINE a == d[0] + 1
           I == [i \in 0..n |-> [k \in Nat |-> IF i = 0 /\ k = a THEN 1 ELSE i]]
           K == [i \in 0..n |-> [k \in Nat |-> IF i = 0 /\ k = a THEN 1 ELSE IF i = 1 THEN k + 1 ELSE k]]
<1>1. n \in Nat /\ d[0] \in Nat /\ d[1] \in Nat \ {0} /\ 0 \in 0..n /\ 1 \in 0..n /\ a \in Nat /\ a = d[0] + 1
    OBVIOUS
<1>2. \A i \in 0..n : \A k \in Nat :
          /\ (i = 0 /\ k = a) => I[i][k] = 1 /\ K[i][k] = 1
          /\ (i = 0 /\ k # a) => I[i][k] = 0 /\ K[i][k] = k
          /\ i = 1 => I[i][k] = 1 /\ K[i][k] = k + 1
          /\ i > 1 => I[i][k] = i /\ K[i][k] = k
    OBVIOUS
<1> HIDE DEF I, K, a
<1>3. ASSUME NEW i \in 0..n, NEW k \in 1..e[i]
      PROVE  k \in Nat \ {0} /\ i \in Nat /\ (i = 0 => k <= a)
    <2>1. k \in Nat \ {0} /\ i \in Nat
        OBVIOUS
    <2>2. CASE i = 0
        BY <1>1, <1>3, <2>1, <2>2
    <2> QED BY <2>1, <2>2
<1>4. ASSUME NEW i \in 0..n, NEW k \in 1..e[i]
      PROVE  /\ I[i][k] \in 0..n /\ K[i][k] \in 1..d[I[i][k]] /\ g[i][k] = f[I[i][k]][K[i][k]]
             /\ g[i][k] \in M
    <2>0. k \in Nat \ {0} /\ i \in Nat /\ (i = 0 => k <= a)
        BY <1>3
    <2>1. CASE i = 0 /\ k = a
        <3>1. I[i][k] = 1 /\ K[i][k] = 1 /\ 1 \in 1..d[1]
            BY ONLY <1>1, <1>2, <2>0, <2>1
        <3>2. g[i][k] = f[1][1]
            BY <2>1 DEF a
        <3>3. f[1][1] \in M
            BY <3>1, <1>1 DEF Line
        <3> QED BY ONLY <3>1, <3>2, <3>3, <1>1
    <2>2. CASE i = 0 /\ k # a
        <3>1. I[i][k] = 0 /\ K[i][k] = k /\ k \in 1..d[0]
            BY ONLY <1>1, <1>2, <2>0, <2>2
        <3>2. g[i][k] = f[0][k] /\ f[0][k] \in M
            BY <3>1, <2>2, <1>1 DEF Line
        <3> QED BY ONLY <3>1, <3>2, <1>1
    <2>3. CASE i = 1
        <3>1. I[i][k] = 1 /\ K[i][k] = k + 1
            BY ONLY <1>1, <1>2, <2>0, <2>3
        <3>2. k \in 1..(d[1] - 1)
            BY <2>3
        <3>3. k + 1 \in 1..d[1]
            BY ONLY <3>2, <1>1
        <3>4. g[i][k] = f[1][k + 1]
            BY <2>3
        <3>5. f[1][k + 1] \in M
            BY <3>3, <1>1 DEF Line
        <3> QED BY ONLY <3>1, <3>3, <3>4, <3>5, <1>1
    <2>4. CASE i > 1
        <3>1. I[i][k] = i /\ K[i][k] = k /\ i \in 2..n
            BY ONLY <1>1, <1>2, <2>0, <2>4, i \in 0..n
        <3>2. e[i] = d[i] /\ g[i][k] = f[i][k]
            BY <3>1
        <3>3. f[i][k] \in M
            BY <3>2 DEF Line
        <3> QED BY ONLY <3>1, <3>2, <3>3, i \in 0..n, k \in 1..e[i]
    <2>5. i = 0 \/ i = 1 \/ i > 1
        BY ONLY <2>0
    <2> QED BY <2>1, <2>2, <2>3, <2>4, <2>5
<1>5. ASSUME NEW i \in 0..n, NEW j \in 0..n, NEW k \in 1..e[i], NEW l \in 1..e[j],
             i < j \/ (i = j /\ k < l)
      PROVE  I[i][k] < I[j][l] \/ (I[i][k] = I[j][l] /\ K[i][k] < K[j][l])
    <2>1. k \in Nat \ {0} /\ i \in Nat /\ (i = 0 => k <= a)
        BY <1>3
    <2>2. l \in Nat \ {0} /\ j \in Nat /\ (j = 0 => l <= a)
        BY <1>3
    <2>3. i < j \/ (i = j /\ k < l)
        BY <1>5
    <2>4. CASE j = 0
        <3>1. i = 0 /\ k < l /\ k # a
            BY ONLY <2>1, <2>2, <2>3, <2>4, <1>1
        <3>2. I[i][k] = 0 /\ K[i][k] = k
            BY ONLY <2>1, <3>1, <1>2, i \in 0..n
        <3>3. (I[j][l] = 1 /\ K[j][l] = 1) \/ (I[j][l] = 0 /\ K[j][l] = l)
            BY ONLY <2>2, <2>4, <1>2, j \in 0..n
        <3> QED BY ONLY <3>1, <3>2, <3>3, <2>1, <2>2
    <2>5. CASE j = 1
        <3>1. I[j][l] = 1 /\ K[j][l] = l + 1
            BY ONLY <2>2, <2>5, <1>2, j \in 0..n
        <3>2. i = 0 \/ (i = 1 /\ k < l)
            BY ONLY <2>1, <2>3, <2>5
        <3>3. CASE i = 0
            <4>1. (I[i][k] = 1 /\ K[i][k] = 1) \/ (I[i][k] = 0 /\ K[i][k] = k)
                BY ONLY <2>1, <3>3, <1>2, i \in 0..n
            <4> QED BY ONLY <4>1, <3>1, <2>2
        <3>4. CASE i = 1 /\ k < l
            <4>1. I[i][k] = 1 /\ K[i][k] = k + 1
                BY ONLY <2>1, <3>4, <1>2, i \in 0..n
            <4> QED BY ONLY <4>1, <3>1, <3>4, <2>1, <2>2
        <3> QED BY <3>2, <3>3, <3>4
    <2>6. CASE j > 1
        <3>1. I[j][l] = j /\ K[j][l] = l
            BY ONLY <2>2, <2>6, <1>2, j \in 0..n
        <3>2. CASE i <= 1
            <4>1. I[i][k] \in {0, 1}
                <5>1. i = 0 \/ i = 1
                    BY ONLY <2>1, <3>2
                <5>2. k = a \/ k # a
                    OBVIOUS
                <5> QED BY ONLY <5>1, <5>2, <2>1, <1>2, i \in 0..n
            <4> QED BY ONLY <4>1, <3>1, <2>6, <2>2
        <3>3. CASE i > 1
            <4>1. I[i][k] = i /\ K[i][k] = k
                BY ONLY <2>1, <3>3, <1>2, i \in 0..n
            <4> QED BY ONLY <4>1, <3>1, <2>1, <2>2, <2>3
        <3>4. i <= 1 \/ i > 1
            BY ONLY <2>1
        <3> QED BY <3>2, <3>3, <3>4
    <2>7. j = 0 \/ j = 1 \/ j > 1
        BY ONLY <2>2
    <2> QED BY <2>4, <2>5, <2>6, <2>7
<1>6. ASSUME NEW i \in 0..n, NEW k \in 1..d[i], f[i][k] \in M
      PROVE  \E j \in 0..n : \E l \in 1..e[j] : I[j][l] = i /\ K[j][l] = k
    <2>1. k \in Nat \ {0} /\ d[i] \in Nat /\ i \in Nat
        BY <1>1
    <2>2. CASE i = 0
        <3>1. k \in 1..e[0] /\ k # a
            BY <1>1, <2>2
        <3> QED BY <2>1, <2>2, <3>1, <1>1, <1>2
    <2>3. CASE i = 1 /\ k = 1
        <3>1. a \in 1..e[0]
            BY <1>1
        <3>2. I[0][a] = 1 /\ K[0][a] = 1
            BY ONLY <1>1, <1>2
        <3> QED BY <2>3, <3>1, <3>2, <1>1
    <2>4. CASE i = 1 /\ k # 1
        <3>1. k \in 1..d[1]
            BY <2>4
        <3>2. k - 1 \in 1..(d[1] - 1) /\ k - 1 \in Nat /\ (k - 1) + 1 = k
            BY ONLY <3>1, <2>1, <2>4, <1>1
        <3>3. k - 1 \in 1..e[1]
            BY <3>2
        <3>4. I[1][k - 1] = 1 /\ K[1][k - 1] = k
            BY ONLY <1>1, <1>2, <3>2
        <3> QED BY <2>4, <3>3, <3>4, <1>1
    <2>5. CASE i > 1
        <3>1. i \in 2..n
            BY <2>1, <2>5
        <3>2. e[i] = d[i]
            BY <3>1
        <3>3. I[i][k] = i /\ K[i][k] = k
            BY ONLY <2>1, <2>5, <1>2, i \in 0..n
        <3> QED BY <3>2, <3>3
    <2>6. i = 0 \/ i = 1 \/ i > 1
        BY ONLY <2>1
    <2> QED BY <2>2, <2>3, <2>4, <2>5, <2>6
<1>7. Carried(f, d, n, g, e, n, M, I, K)
    BY ONLY <1>4, <1>5, <1>6 DEF Carried
<1> QED
    <2>1. n \in Nat /\ d \in [0..n -> Nat] /\ e \in [0..n -> Nat] /\ M \in SUBSET M
        BY <1>1
    <2> QED BY ONLY <2>1, <1>7, LineMapped, Line(f, d, n, M)

\* g has the places of f whose numbers are in N.
Sifted(f, d, n, g, e, m, N) ==
    /\ \A i \in 0..m : \A k \in 1..e[i] : i \in 0..n /\ k \in 1..d[i] /\ g[i][k] = f[i][k] /\ g[i][k] \in N
    /\ \A i \in 0..n : \A k \in 1..d[i] : f[i][k] \in N => i \in 0..m /\ k \in 1..e[i]

\* Some places are left out, with their numbers, and empty ones may be added.
LEMMA LineKept ==
    ASSUME NEW n \in Nat, NEW d \in [0..n -> Nat], NEW f, NEW M, Line(f, d, n, M),
           NEW m \in Nat, NEW e \in [0..m -> Nat], NEW g, NEW N \in SUBSET M, Sifted(f, d, n, g, e, m, N)
    PROVE  Line(g, e, m, N)
<1> SUFFICES ASSUME \A i \in 0..m : \A k \in 1..e[i] : i \in 0..n /\ k \in 1..d[i] /\ g[i][k] = f[i][k] /\ g[i][k] \in N,
                    \A i \in 0..n : \A k \in 1..d[i] : f[i][k] \in N => i \in 0..m /\ k \in 1..e[i]
             PROVE  Line(g, e, m, N)
    BY DEF Sifted
<1>1. ASSUME NEW i \in 0..m, NEW j \in 0..m, NEW k \in 1..e[i], NEW l \in 1..e[j],
             i < j \/ (i = j /\ k < l)
      PROVE  g[i][k] < g[j][l]
    <2>1. i \in 0..n /\ k \in 1..d[i] /\ g[i][k] = f[i][k]
        OBVIOUS
    <2>2. j \in 0..n /\ l \in 1..d[j] /\ g[j][l] = f[j][l]
        OBVIOUS
    <2>3. i < j \/ (i = j /\ k < l)
        BY <1>1
    <2>4. f[i][k] < f[j][l]
        BY ONLY <2>1, <2>2, <2>3, Line(f, d, n, M) DEF Line
    <2> QED BY ONLY <2>1, <2>2, <2>4
<1>2. ASSUME NEW b \in N
      PROVE  \E i \in 0..m : \E k \in 1..e[i] : g[i][k] = b
    <2>1. PICK i \in 0..n : \E k \in 1..d[i] : f[i][k] = b
        BY DEF Line
    <2>2. PICK k \in 1..d[i] : f[i][k] = b
        BY <2>1
    <2>3. i \in 0..m /\ k \in 1..e[i]
        BY <2>2
    <2>4. g[i][k] = b
        BY <2>2, <2>3
    <2> QED BY ONLY <2>3, <2>4
<1>3. \A i \in 0..m : \A k \in 1..e[i] : g[i][k] \in N
    OBVIOUS
<1> QED BY ONLY <1>1, <1>2, <1>3 DEF Line

\* g is f without the first m numbers of the first group.
Forgotten(f, d, n, g, e, m) ==
    /\ e[0] = d[0] - m /\ \A k \in 1..e[0] : g[0][k] = f[0][m + k]
    /\ \A i \in 1..n : e[i] = d[i] /\ \A k \in 1..e[i] : g[i][k] = f[i][k]

\* The first numbers of all are forgotten.
LEMMA LineForget ==
    ASSUME NEW n \in Nat, NEW d \in [0..n -> Nat], NEW f, NEW M, Line(f, d, n, M), M \subseteq Nat,
           NEW m \in 0..d[0], NEW N, N = M \ {f[0][k] : k \in 1..m},
           NEW e \in [0..n -> Nat], NEW g, Forgotten(f, d, n, g, e, m)
    PROVE  Line(g, e, n, N)
<1> SUFFICES ASSUME e[0] = d[0] - m, \A k \in 1..e[0] : g[0][k] = f[0][m + k],
                    \A i \in 1..n : e[i] = d[i] /\ \A k \in 1..e[i] : g[i][k] = f[i][k]
             PROVE  Line(g, e, n, N)
    BY DEF Forgotten
<1> DEFINE I == [i \in 0..n |-> [k \in Nat |-> i]]
           K == [i \in 0..n |-> [k \in Nat |-> IF i = 0 THEN m + k ELSE k]]
<1>1. m \in Nat /\ d[0] \in Nat /\ m <= d[0] /\ 0 \in 0..n
    OBVIOUS
<1>2. \A i \in 0..n : \A k \in Nat :
          /\ I[i][k] = i /\ (i = 0 => K[i][k] = m + k) /\ (i # 0 => K[i][k] = k)
    OBVIOUS
<1> HIDE DEF I, K
<1>3. \A i \in 0..n : \A k \in 1..e[i] : k \in Nat \ {0} /\ i \in Nat
    OBVIOUS
<1>4. ASSUME NEW i \in 0..n, NEW k \in 1..e[i]
      PROVE  /\ K[i][k] \in 1..d[i] /\ g[i][k] = f[i][K[i][k]] /\ K[i][k] \in Nat
             /\ i = 0 => K[i][k] > m
    <2>0. k \in Nat \ {0} /\ i \in Nat
        BY <1>3
    <2>1. CASE i = 0
        <3>1. K[i][k] = m + k
            BY ONLY <1>2, <2>0, <2>1, i \in 0..n
        <3>2. k \in 1..(d[0] - m)
            BY <2>1
        <3>3. m + k \in 1..d[0] /\ m + k > m /\ m + k \in Nat
            BY ONLY <3>2, <1>1, <2>0
        <3>4. g[i][k] = f[0][m + k]
            BY <2>1
        <3> QED BY ONLY <3>1, <3>3, <3>4, <2>1
    <2>2. CASE i # 0
        <3>1. K[i][k] = k
            BY ONLY <1>2, <2>0, <2>2, i \in 0..n
        <3>2. i \in 1..n
            BY <2>2
        <3>3. e[i] = d[i] /\ g[i][k] = f[i][k]
            BY <3>2
        <3> QED BY ONLY <3>1, <3>3, <2>0, <2>2, k \in 1..e[i]
    <2> QED BY <2>1, <2>2
<1>5. ASSUME NEW i \in 0..n, NEW k \in 1..e[i]
      PROVE  g[i][k] \in N
    <2>1. K[i][k] \in 1..d[i] /\ g[i][k] = f[i][K[i][k]] /\ (i = 0 => K[i][k] > m) /\ K[i][k] \in Nat
        BY <1>4
    <2>2. PICK q \in 1..d[i] : q = K[i][k]
        BY <2>1
    <2>3. f[i][q] \in M /\ f[i][q] \in Nat
        BY DEF Line
    <2>4. ASSUME NEW h \in 1..m PROVE f[i][q] # f[0][h]
        <3>1. h \in 1..d[0] /\ h \in Nat /\ i \in Nat
            BY <1>1
        <3>2. 0 < i \/ (0 = i /\ h < q)
            BY ONLY <3>1, <2>1, <2>2, <1>1, h \in 1..m
        <3>3. f[0][h] < f[i][q]
            BY ONLY <3>1, <3>2, <1>1, i \in 0..n, q \in 1..d[i], Line(f, d, n, M) DEF Line
        <3>4. f[0][h] \in Nat
            BY <3>1, <1>1 DEF Line
        <3> QED BY ONLY <3>3, <3>4, <2>3
    <2>5. g[i][k] = f[i][q]
        BY ONLY <2>1, <2>2
    <2>6. f[i][q] \notin {f[0][h] : h \in 1..m}
        BY ONLY <2>4
    <2>7. f[i][q] \in N
        BY ONLY <2>3, <2>6, N = M \ {f[0][h] : h \in 1..m}
    <2> QED BY ONLY <2>5, <2>7
<1>6. ASSUME NEW i \in 0..n, NEW j \in 0..n, NEW k \in 1..e[i], NEW l \in 1..e[j],
             i < j \/ (i = j /\ k < l)
      PROVE  I[i][k] < I[j][l] \/ (I[i][k] = I[j][l] /\ K[i][k] < K[j][l])
    <2>1. i \in Nat /\ j \in Nat /\ k \in Nat /\ l \in Nat
        BY <1>3
    <2>2. I[i][k] = i /\ I[j][l] = j
        BY ONLY <1>2, <2>1, i \in 0..n, j \in 0..n
    <2>3. CASE i = j
        <3>1. k < l
            BY ONLY <2>1, <2>3, <1>6
        <3>2. (K[i][k] = m + k /\ K[j][l] = m + l) \/ (K[i][k] = k /\ K[j][l] = l)
            BY ONLY <1>2, <2>1, <2>3, i \in 0..n, j \in 0..n
        <3> QED BY ONLY <3>1, <3>2, <2>2, <2>3, <2>1, <1>1
    <2>4. CASE i # j
        BY <2>2, <2>4, <1>6
    <2> QED BY <2>3, <2>4
<1>7. ASSUME NEW i \in 0..n, NEW k \in 1..d[i], f[i][k] \in N
      PROVE  \E j \in 0..n : \E l \in 1..e[j] : I[j][l] = i /\ K[j][l] = k
    <2>1. k \in Nat \ {0} /\ i \in Nat
        OBVIOUS
    <2>2. CASE i = 0
        <3>1. k \notin 1..m
            BY <1>7, <2>2
        <3>2. k \in 1..d[0]
            BY <2>2
        <3>3. k - m \in 1..(d[0] - m) /\ k - m \in Nat /\ m + (k - m) = k
            BY ONLY <3>1, <3>2, <2>1, <1>1
        <3>4. k - m \in 1..e[0]
            BY <3>3
        <3>5. I[0][k - m] = 0 /\ K[0][k - m] = k
            BY ONLY <1>1, <1>2, <3>3
        <3> QED BY <2>2, <3>4, <3>5, <1>1
    <2>3. CASE i # 0
        <3>1. i \in 1..n
            BY <2>3
        <3>2. e[i] = d[i]
            BY <3>1
        <3>3. I[i][k] = i /\ K[i][k] = k
            BY ONLY <2>1, <2>3, <1>2, i \in 0..n
        <3> QED BY <3>2, <3>3
    <2> QED BY <2>2, <2>3
<1>8. ASSUME NEW i \in 0..n, NEW k \in 1..e[i]
      PROVE  /\ I[i][k] \in 0..n /\ K[i][k] \in 1..d[I[i][k]] /\ g[i][k] = f[I[i][k]][K[i][k]]
             /\ g[i][k] \in N
    <2>1. I[i][k] = i
        BY <1>2, <1>3
    <2> QED BY <2>1, <1>4, <1>5
<1>9. Carried(f, d, n, g, e, n, N, I, K)
    BY ONLY <1>8, <1>6, <1>7 DEF Carried
<1> QED
    <2>1. n \in Nat /\ d \in [0..n -> Nat] /\ e \in [0..n -> Nat] /\ N \in SUBSET M
        OBVIOUS
    <2> QED BY ONLY <2>1, <1>9, LineMapped, Line(f, d, n, M)

\* g is f with x behind the last group.
Grown(f, d, n, g, e, x) ==
    /\ e[n] = d[n] + 1 /\ g[n][d[n] + 1] = x
    /\ \A k \in 1..d[n] : g[n][k] = f[n][k]
    /\ \A i \in 0..(n - 1) : e[i] = d[i] /\ \A k \in 1..e[i] : g[i][k] = f[i][k]

\* A new number, greater than all others, joins the last group.
LEMMA LineAdd ==
    ASSUME NEW n \in Nat, NEW d \in [0..n -> Nat], NEW f, NEW M, Line(f, d, n, M), NEW x \in Nat,
           \A b \in M : b < x, NEW N, N = M \union {x},
           NEW e \in [0..n -> Nat], NEW g, Grown(f, d, n, g, e, x)
    PROVE  Line(g, e, n, N)
<1> SUFFICES ASSUME e[n] = d[n] + 1, g[n][d[n] + 1] = x,
                    \A k \in 1..d[n] : g[n][k] = f[n][k],
                    \A i \in 0..(n - 1) : e[i] = d[i] /\ \A k \in 1..e[i] : g[i][k] = f[i][k]
             PROVE  Line(g, e, n, N)
    BY DEF Grown
<1>1. d[n] \in Nat /\ n \in 0..n
    OBVIOUS
<1>2. ASSUME NEW i \in 0..n, NEW k \in 1..e[i]
      PROVE  \/ i = n /\ k = d[n] + 1 /\ g[i][k] = x
             \/ k \in 1..d[i] /\ g[i][k] = f[i][k] /\ f[i][k] \in M
    <2>1. CASE i = n /\ k = d[n] + 1
        BY <2>1
    <2>2. CASE i = n /\ k # d[n] + 1
        <3>1. k \in 1..(d[n] + 1)
            BY <2>2
        <3>2. k \in 1..d[n]
            BY ONLY <3>1, <2>2, <1>1
        <3> QED BY <3>2, <2>2 DEF Line
    <2>3. CASE i # n
        <3>1. i \in 0..(n - 1)
            BY <2>3
        <3>2. e[i] = d[i] /\ g[i][k] = f[i][k]
            BY <3>1
        <3> QED BY <3>2 DEF Line
    <2> QED BY <2>1, <2>2, <2>3
<1>3. ASSUME NEW i \in 0..n, NEW j \in 0..n, NEW k \in 1..e[i], NEW l \in 1..e[j],
             i < j \/ (i = j /\ k < l)
      PROVE  g[i][k] < g[j][l]
    <2>1. CASE i = n /\ k = d[n] + 1
        <3>1. j = n /\ l > d[n] + 1
            BY <1>3, <2>1
        <3>2. l \in 1..(d[n] + 1)
            BY <3>1
        <3> QED BY ONLY <3>1, <3>2, <1>1
    <2>2. CASE ~(i = n /\ k = d[n] + 1)
        <3>1. k \in 1..d[i] /\ g[i][k] = f[i][k] /\ f[i][k] \in M
            BY <1>2, <2>2
        <3>2. CASE j = n /\ l = d[n] + 1
            <4>1. g[j][l] = x
                BY <3>2
            <4> QED BY <4>1, <3>1
        <3>3. CASE ~(j = n /\ l = d[n] + 1)
            <4>1. l \in 1..d[j] /\ g[j][l] = f[j][l]
                BY <1>2, <3>3
            <4>2. f[i][k] < f[j][l]
                BY ONLY <4>1, <3>1, <1>3, i \in 0..n, j \in 0..n, Line(f, d, n, M) DEF Line
            <4> QED BY ONLY <4>1, <4>2, <3>1
        <3> QED BY <3>2, <3>3
    <2> QED BY <2>1, <2>2
<1>4. ASSUME NEW b \in N
      PROVE  \E i \in 0..n : \E k \in 1..e[i] : g[i][k] = b
    <2>1. CASE b = x
        <3>1. d[n] + 1 \in 1..e[n]
            BY <1>1
        <3> QED BY <2>1, <3>1, <1>1
    <2>2. CASE b \in M
        <3>1. PICK i \in 0..n : \E k \in 1..d[i] : f[i][k] = b
            BY <2>2 DEF Line
        <3>2. PICK k \in 1..d[i] : f[i][k] = b
            BY <3>1
        <3>3. CASE i = n
            <4>1. k \in 1..e[n] /\ g[n][k] = b
                BY <1>1, <3>2, <3>3
            <4> QED BY <4>1, <1>1
        <3>4. CASE i # n
            <4>1. i \in 0..(n - 1)
                BY <3>4
            <4>2. e[i] = d[i] /\ g[i][k] = f[i][k]
                BY <4>1
            <4> QED BY <4>2, <3>2
        <3> QED BY <3>3, <3>4
    <2> QED BY <2>1, <2>2
<1>5. \A i \in 0..n : \A k \in 1..e[i] : g[i][k] \in N
    BY <1>2
<1> QED BY ONLY <1>3, <1>4, <1>5 DEF Line
=============================================================================
