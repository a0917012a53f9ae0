------------------------------ MODULE FoldProofs ------------------------------
(***************************************************************************)
(* What the folds of the community modules compute.  Each is defined by a  *)
(* recursive function, so what a sum or a concatenation is follows by      *)
(* induction, over the subsets of a finite set or over the naturals, from  *)
(* the fact that < is well-founded.                                        *)
(***************************************************************************)
EXTENDS Integers, FiniteSetsExt, SequencesExt, FiniteSetTheorems, TLAPS

(* A set of naturals that has zero and every successor is all of them.     *)
LEMMA Upwards ==
    ASSUME NEW I \in SUBSET Nat, 0 \in I, \A n \in I : n + 1 \in I
    PROVE  I = Nat
<1>. DEFINE T == Nat \ I
<1>1. SUFFICES ASSUME T # {} PROVE FALSE
    OBVIOUS
<1>2. PICK n \in T : \A x \in T : <<x, n>> \notin OpToRel(<, Nat)
    BY <1>1, NatLessThanWellFounded, WFMin
<1>3. \A x \in T : ~(x < n)
    BY <1>2 DEF OpToRel
<1>4. n - 1 \in I /\ (n - 1) + 1 = n
    BY <1>3
<1> QED BY <1>4

(* A set of naturals that is not empty has a least element, and Min is it. *)
LEMMA Least ==
    ASSUME NEW S \in SUBSET Nat, S # {}
    PROVE  Min(S) \in S /\ \A x \in S : Min(S) <= x
<1>1. PICK n \in S : \A x \in S : <<x, n>> \notin OpToRel(<, Nat)
    BY NatLessThanWellFounded, WFMin
<1>2. \A x \in S : ~(x < n)
    BY <1>1 DEF OpToRel
<1>3. \A x \in S : n <= x
    BY <1>2
<1> QED BY <1>3 DEF Min

(* A bounded one has a greatest element, and Max is it.                    *)
LEMMA Greatest ==
    ASSUME NEW S \in SUBSET Nat, S # {}, NEW n \in Nat, \A x \in S : x <= n
    PROVE  Max(S) \in S /\ \A x \in S : x <= Max(S)
<1>. DEFINE D == {n - x : x \in S}
<1>1. D \in SUBSET Nat /\ D # {}
    <2>1. \A x \in S : n - x \in Nat
        OBVIOUS
    <2>2. PICK x \in S : TRUE
        OBVIOUS
    <2>3. n - x \in D
        BY <2>2
    <2>4. D \subseteq Nat
        BY <2>1
    <2> QED BY <2>3, <2>4
<1>. HIDE DEF D
<1>2. Min(D) \in D /\ \A d \in D : Min(D) <= d
    BY <1>1, Least
<1>3. PICK m \in S : Min(D) = n - m
    BY <1>2 DEF D
<1>4. \A x \in S : n - x \in D
    BY DEF D
<1>5. \A x \in S : x <= m
    BY <1>2, <1>3, <1>4
<1> QED BY <1>5 DEF Max

(* A function that begins with a and goes on with G.                       *)
Begun(h, a, G, n) ==
    h[0] = a /\ \A k \in 0..n - 1 : h[k + 1] = G[k][h[k]]

LEMMA BegunAlike ==
    ASSUME NEW a, NEW G, NEW n \in Nat, NEW g, NEW h, Begun(g, a, G, n), Begun(h, a, G, n)
    PROVE  g[n] = h[n]
<1>. DEFINE I == {k \in Nat : k <= n => g[k] = h[k]}
<1>1. 0 \in I
    BY DEF Begun
<1>2. ASSUME NEW k \in I PROVE k + 1 \in I
    <2>1. ASSUME k + 1 <= n PROVE g[k + 1] = h[k + 1]
        <3>1. k \in 0..n - 1 /\ g[k] = h[k]
            BY <2>1
        <3> QED BY <3>1 DEF Begun
    <2> QED BY <2>1
<1>3. I \in SUBSET Nat
    OBVIOUS
<1>. HIDE DEF I
<1>4. I = Nat
    BY <1>1, <1>2, <1>3, Upwards
<1> QED BY <1>4 DEF I

Recurs(f, a, G) == f = [n \in Nat |-> IF n = 0 THEN a ELSE G[n - 1][f[n - 1]]]

(* There is such a function on all the naturals.                           *)
LEMMA Recursion ==
    ASSUME NEW S, NEW a \in S, NEW G \in [Nat -> [S -> S]]
    PROVE  \E f \in [Nat -> S] : Recurs(f, a, G)
<1>. DEFINE I == {n \in Nat : \E h \in [0..n -> S] : Begun(h, a, G, n)}
<1>1. 0 \in I
    <2>. DEFINE h == [k \in 0..0 |-> a]
    <2>1. h \in [0..0 -> S] /\ Begun(h, a, G, 0)
        BY DEF Begun
    <2> QED BY <2>1
<1>2. ASSUME NEW n \in I PROVE n + 1 \in I
    <2>1. PICK h \in [0..n -> S] : Begun(h, a, G, n)
        OBVIOUS
    <2>. DEFINE g == [k \in 0..n + 1 |-> IF k = n + 1 THEN G[n][h[n]] ELSE h[k]]
    <2>2. n \in Nat /\ n + 1 \in Nat
        OBVIOUS
    <2>3. h[n] \in S /\ G[n][h[n]] \in S
        BY <2>2
    <2>4. \A k \in 0..n : g[k] = h[k] /\ h[k] \in S
        BY <2>2
    <2>5. g[n + 1] = G[n][h[n]]
        BY <2>2
    <2>6. g \in [0..n + 1 -> S]
        BY <2>2, <2>3
    <2>. HIDE DEF g
    <2>7. ASSUME NEW k \in 0..(n + 1) - 1 PROVE g[k + 1] = G[k][g[k]]
        <3>1. CASE k = n
            BY <2>2, <2>4, <2>5, <3>1
        <3>2. CASE k # n
            <4>1. k \in 0..n - 1 /\ k + 1 \in 0..n /\ k \in 0..n
                BY <2>2, <3>2
            <4> QED BY <2>1, <2>4, <4>1 DEF Begun
        <3> QED BY <3>1, <3>2
    <2>8. g[0] = a
        BY <2>1, <2>2, <2>4 DEF Begun
    <2>9. Begun(g, a, G, n + 1)
        BY <2>7, <2>8 DEF Begun
    <2> QED BY <2>2, <2>6, <2>9
<1>3. I = Nat
    <2>1. I \in SUBSET Nat
        OBVIOUS
    <2>. HIDE DEF I
    <2> QED BY <1>1, <1>2, <2>1, Upwards
<1>. DEFINE H == [n \in Nat |-> CHOOSE h : h \in [0..n -> S] /\ Begun(h, a, G, n)]
            f == [n \in Nat |-> H[n][n]]
<1>4. ASSUME NEW n \in Nat PROVE H[n] \in [0..n -> S] /\ Begun(H[n], a, G, n)
    <2>1. \E h : h \in [0..n -> S] /\ Begun(h, a, G, n)
        BY <1>3
    <2>2. H[n] = CHOOSE h : h \in [0..n -> S] /\ Begun(h, a, G, n)
        OBVIOUS
    <2>. HIDE DEF H
    <2> QED BY <2>1, <2>2
<1>. HIDE DEF H, I
<1>5. f \in [Nat -> S]
    BY <1>4
<1>6. ASSUME NEW n \in Nat PROVE f[n] = IF n = 0 THEN a ELSE G[n - 1][f[n - 1]]
    <2>1. CASE n = 0
        BY <1>4, <2>1 DEF Begun
    <2>2. CASE n # 0
        <3>1. n - 1 \in Nat /\ n - 1 \in 0..n - 1 /\ (n - 1) + 1 = n
            BY <2>2
        <3>2. Begun(H[n], a, G, n) /\ Begun(H[n - 1], a, G, n - 1)
            BY <1>4, <3>1
        <3>3. Begun(H[n], a, G, n - 1)
            BY <3>1, <3>2 DEF Begun
        <3>4. H[n][n - 1] = H[n - 1][n - 1]
            BY <3>1, <3>2, <3>3, BegunAlike
        <3>5. H[n][n] = G[n - 1][H[n][n - 1]]
            BY <3>1, <3>2 DEF Begun
        <3>6. f[n] = H[n][n] /\ f[n - 1] = H[n - 1][n - 1]
            BY <3>1
        <3>. HIDE DEF f
        <3> QED BY <2>2, <3>4, <3>5, <3>6
    <2> QED BY <2>1, <2>2
<1>7. f = [n \in Nat |-> IF n = 0 THEN a ELSE G[n - 1][f[n - 1]]]
    <2>1. f = [n \in Nat |-> f[n]]
        OBVIOUS
    <2>. HIDE DEF f
    <2> QED BY <1>6, <2>1
<1> QED BY <1>5, <1>7 DEF Recurs

(* Whatever has the empty set and survives one more element has every      *)
(* finite set.                                                             *)
LEMMA OneByOne ==
    ASSUME NEW S, IsFiniteSet(S), NEW P \in SUBSET (SUBSET S), {} \in P,
           \A T \in P : \A x \in S \ T : T \cup {x} \in P
    PROVE  S \in P
<1>. DEFINE I == {n \in Nat : \A T \in SUBSET S : Cardinality(T) = n => T \in P}
<1>0. \A T \in SUBSET S : IsFiniteSet(T) /\ Cardinality(T) \in Nat
    BY FS_Subset, FS_CardinalityType
<1>1. 0 \in I
    BY <1>0, FS_EmptySet
<1>2. ASSUME NEW n \in I, NEW T \in SUBSET S, Cardinality(T) = n + 1
      PROVE  T \in P
    <2>1. T # {}
        <3>1. n + 1 # 0
            OBVIOUS
        <3> QED BY <1>2, <3>1, FS_EmptySet
    <2>2. PICK x \in T : TRUE
        BY <2>1
    <2>3. Cardinality(T \ {x}) = n
        BY <1>0, <1>2, FS_RemoveElement
    <2>4. T \ {x} \in P
        BY <2>3
    <2> QED BY <2>4
<1>3. I = Nat
    <2>. HIDE DEF I
    <2>1. I \in SUBSET Nat
        BY DEF I
    <2>2. \A n \in I : n + 1 \in I
        BY <1>2, <2>1 DEF I
    <2> QED BY <1>1, <2>1, <2>2, Upwards
<1> QED BY <1>0, <1>3

-----------------------------------------------------------------------------
(* What the folds of the library compute: the elements of a set are taken  *)
(* in the order of the choices c, and what f makes of them is added up.    *)
Picks(c, S) == \A s \in SUBSET S : s # {} => c[s] \in s

Summed(g, f, c, S) ==
    g = [s \in SUBSET S |-> IF s = {} THEN 0 ELSE f[c[s]] + g[s \ {c[s]}]]

(* There is such a sum: one over all the sets of up to n elements, n by n. *)
LEMMA SumExists ==
    ASSUME NEW S, IsFiniteSet(S), NEW f, \A x \in S : f[x] \in Int, NEW c, Picks(c, S)
    PROVE  \E g : Summed(g, f, c, S)
<1>. DEFINE Up(n) == {s \in SUBSET S : Cardinality(s) <= n}
            Step(h, s) == IF s = {} THEN 0 ELSE f[c[s]] + h[s \ {c[s]}]
            Fits(h, n) == h = [s \in Up(n) |-> Step(h, s)]
            I == {n \in Nat : \E h : Fits(h, n)}
<1>0. \A s \in SUBSET S : IsFiniteSet(s) /\ Cardinality(s) \in Nat
    BY FS_Subset, FS_CardinalityType
<1>1. 0 \in I
    <2>. DEFINE h == [s \in Up(0) |-> 0]
    <2>1. \A s \in Up(0) : s = {}
        BY <1>0, FS_EmptySet
    <2>2. Fits(h, 0)
        BY <2>1
    <2> QED BY <2>2
<1>2. ASSUME NEW n \in I PROVE n + 1 \in I
    <2>1. PICK h : Fits(h, n)
        OBVIOUS
    <2>. DEFINE k == [s \in Up(n + 1) |-> Step(h, s)]
    <2>2. ASSUME NEW s \in Up(n + 1), s # {} PROVE s \ {c[s]} \in Up(n)
        BY <1>0, <2>2, FS_RemoveElement DEF Picks
    <2>3. \A s \in Up(n) : s \in Up(n + 1) /\ k[s] = h[s]
        <3>1. n \in Nat /\ \A s \in Up(n) : s \in Up(n + 1)
            BY <1>0
        <3>2. \A s \in Up(n) : h[s] = Step(h, s)
            BY <2>1
        <3> QED BY <3>1, <3>2
    <2>4. \A s \in Up(n + 1) : Step(k, s) = Step(h, s)
        BY <2>2, <2>3
    <2>5. Fits(k, n + 1)
        BY <2>4
    <2>6. n + 1 \in Nat
        OBVIOUS
    <2>. HIDE DEF k, Fits
    <2> QED BY <2>5, <2>6
<1>3. I = Nat
    <2>. HIDE DEF I
    <2>1. I \in SUBSET Nat
        BY DEF I
    <2> QED BY <1>1, <1>2, <2>1, Upwards
<1>4. Cardinality(S) \in I
    BY <1>0, <1>3
<1>5. PICK h : Fits(h, Cardinality(S))
    BY <1>4
<1>6. Up(Cardinality(S)) = SUBSET S
    BY <1>0, FS_Subset
<1> QED BY <1>5, <1>6 DEF Summed

(* The sum does not depend on the order: one element more adds its value.  *)
LEMMA SumFacts ==
    ASSUME NEW S, IsFiniteSet(S), NEW f, \A x \in S : f[x] \in Int, NEW c, Picks(c, S),
           NEW g, Summed(g, f, c, S)
    PROVE  /\ g[{}] = 0
           /\ \A T \in SUBSET S : g[T] \in Int
           /\ \A T \in SUBSET S : \A x \in S \ T : g[T \cup {x}] = g[T] + f[x]
<1>0. \A s \in SUBSET S : g[s] = IF s = {} THEN 0 ELSE f[c[s]] + g[s \ {c[s]}]
    BY DEF Summed
<1>1. g[{}] = 0
    BY <1>0
<1>a. \A s \in SUBSET S : IsFiniteSet(s) /\ Cardinality(s) \in Nat
    BY FS_Subset, FS_CardinalityType
<1>b. \A s \in SUBSET S : s # {} => Cardinality(s \ {c[s]}) + 1 = Cardinality(s) /\ c[s] \in s
    BY <1>a, FS_RemoveElement DEF Picks
<1>. DEFINE Good(T) == g[T] \in Int /\ \A x \in T : g[T] = g[T \ {x}] + f[x]
            I == {n \in Nat : \A T \in SUBSET S : Cardinality(T) <= n => Good(T)}
<1>2. 0 \in I
    <2>1. \A T \in SUBSET S : Cardinality(T) <= 0 => T = {}
        BY <1>a, FS_EmptySet
    <2>2. Good({})
        BY <1>1
    <2>3. \A T \in SUBSET S : Cardinality(T) <= 0 => Good(T)
        BY <2>1, <2>2
    <2>. HIDE DEF Good
    <2> QED BY <2>3
<1>3. ASSUME NEW n \in I PROVE n + 1 \in I
    <2>0. n \in Nat /\ \A T \in SUBSET S : Cardinality(T) <= n => Good(T)
        OBVIOUS
    <2>1. ASSUME NEW T \in SUBSET S, Cardinality(T) <= n + 1, T # {} PROVE Good(T)
        <3>. DEFINE y == c[T]  U == T \ {y}
        <3>1. y \in T /\ U \in SUBSET S /\ Cardinality(U) <= n /\ f[y] \in Int
            BY <1>a, <1>b, <2>0, <2>1
        <3>2. g[T] = f[y] + g[U] /\ Good(U)
            BY <1>0, <2>0, <2>1, <3>1
        <3>3. ASSUME NEW x \in T PROVE g[T] = g[T \ {x}] + f[x]
            <4>1. CASE x = y
                BY <3>1, <3>2, <4>1
            <4>2. CASE x # y
                <5>. DEFINE V == T \ {x}
                <5>1. x \in U /\ f[x] \in Int
                    BY <4>2
                <5>2. g[U] = g[U \ {x}] + f[x]
                    BY <3>2, <5>1
                <5>3. y \in V /\ V \in SUBSET S /\ V \ {y} = U \ {x}
                    BY <3>1, <4>2
                <5>4. Cardinality(V) <= n
                    BY <1>a, <2>0, <2>1, FS_RemoveElement
                <5>5. Good(V)
                    BY <2>0, <5>3, <5>4
                <5>6. g[V] = g[U \ {x}] + f[y]
                    BY <5>3, <5>5
                <5>7. U \ {x} \in SUBSET S /\ Cardinality(U \ {x}) <= n
                    BY <1>a, <2>0, <3>1, <5>1, FS_RemoveElement
                <5>8. g[U \ {x}] \in Int
                    BY <2>0, <5>7
                <5>. HIDE DEF U, V, y
                <5>9. g[T] = g[V] + f[x]
                    BY <3>1, <3>2, <5>1, <5>2, <5>6, <5>8
                <5> QED BY <5>9 DEF V
            <4> QED BY <4>1, <4>2
        <3>4. g[T] \in Int
            BY <3>1, <3>2
        <3> QED BY <3>3, <3>4
    <2>2. Good({})
        BY <1>1
    <2>. HIDE DEF Good
    <2> QED BY <2>0, <2>1, <2>2
<1>4. I = Nat
    <2>. HIDE DEF I
    <2>1. I \in SUBSET Nat
        BY DEF I
    <2> QED BY <1>2, <1>3, <2>1, Upwards
<1>5. \A T \in SUBSET S : Good(T)
    BY <1>a, <1>4
<1>6. ASSUME NEW T \in SUBSET S, NEW x \in S \ T PROVE g[T \cup {x}] = g[T] + f[x]
    <2>1. T \cup {x} \in SUBSET S /\ (T \cup {x}) \ {x} = T /\ x \in T \cup {x}
        OBVIOUS
    <2> QED BY <1>5, <2>1
<1> QED BY <1>1, <1>5, <1>6

(* Two sums of the same values agree, whatever the order of each.          *)
LEMMA SumUnique ==
    ASSUME NEW S, IsFiniteSet(S), NEW f, NEW e, \A x \in S : f[x] \in Int /\ e[x] = f[x],
           NEW c, Picks(c, S), NEW d, Picks(d, S),
           NEW g, Summed(g, f, c, S), NEW h, Summed(h, e, d, S)
    PROVE  \A T \in SUBSET S : g[T] = h[T]
<1>1. \A R \in SUBSET S : IsFiniteSet(R)
    BY FS_Subset
<1>2. /\ g[{}] = 0 /\ h[{}] = 0
      /\ \A T \in SUBSET S : \A x \in S \ T : g[T \cup {x}] = g[T] + f[x]
      /\ \A T \in SUBSET S : \A x \in S \ T : h[T \cup {x}] = h[T] + e[x]
    BY SumFacts
<1>3. ASSUME NEW R \in SUBSET S PROVE g[R] = h[R]
    <2>. DEFINE P == {T \in SUBSET R : g[T] = h[T]}
    <2>1. {} \in P
        BY <1>2
    <2>2. ASSUME NEW T \in P, NEW x \in R \ T PROVE T \cup {x} \in P
        <3>1. /\ T \in SUBSET S /\ x \in S \ T /\ f[x] = e[x] /\ g[T] = h[T]
              /\ T \cup {x} \in SUBSET R
            OBVIOUS
        <3>2. g[T \cup {x}] = g[T] + f[x] /\ h[T \cup {x}] = h[T] + e[x]
            BY <1>2, <3>1
        <3>3. g[T \cup {x}] = h[T \cup {x}]
            BY <3>1, <3>2
        <3> QED BY <3>1, <3>3
    <2>. HIDE DEF P
    <2>3. P \in SUBSET (SUBSET R)
        BY DEF P
    <2>4. R \in P
        BY <1>1, <2>1, <2>2, <2>3, OneByOne
    <2> QED BY <2>4 DEF P
<1> QED BY <1>3

-----------------------------------------------------------------------------
(* The sum of f over the set S, as the library folds it.                   *)
SumOver(f, S) == FoldFunctionOnSet(+, 0, f, S)

Picking(S) == [s \in SUBSET S |-> CHOOSE x \in s : TRUE]

(* FoldFunctionOnSet chooses one of the recursive functions that fit, and  *)
(* as one does, its value is that sum.                                     *)
LEMMA SumOverIs ==
    ASSUME NEW S, IsFiniteSet(S), NEW f, \A x \in S : f[x] \in Int
    PROVE  /\ Picks(Picking(S), S)
           /\ \E g : Summed(g, f, Picking(S), S) /\ SumOver(f, S) = g[S]
<1>. DEFINE Fits(g) == g = [s \in SUBSET S |->
                IF s = {} THEN 0 ELSE f[CHOOSE x \in s : TRUE] + g[s \ {CHOOSE x \in s : TRUE}]]
            iter == CHOOSE g : Fits(g)
<1>1. Picks(Picking(S), S)
    BY DEF Picks, Picking
<1>2. ASSUME NEW g PROVE Summed(g, f, Picking(S), S) <=> Fits(g)
    BY DEF Summed, Picking
<1>3. \E g : Fits(g)
    <2>. DEFINE c == Picking(S)
    <2>. HIDE DEF c, Fits
    <2>1. Picks(c, S)
        BY <1>1 DEF c
    <2>2. PICK g : Summed(g, f, c, S)
        BY <2>1, SumExists
    <2> QED BY <1>2, <2>2 DEF c
<1>4. Fits(iter)
    BY <1>3
<1>5. SumOver(f, S) = iter[S]
    BY DEF SumOver, FoldFunctionOnSet, MapThenFoldSet
<1> QED BY <1>1, <1>2, <1>4, <1>5

(* A sum over a set is the sum of its parts over any larger set.           *)
LEMMA SumWithin ==
    ASSUME NEW R, IsFiniteSet(R), NEW S \in SUBSET R, NEW f, NEW e,
           \A x \in R : e[x] \in Int, \A x \in S : f[x] = e[x],
           NEW d, Picks(d, R), NEW h, Summed(h, e, d, R)
    PROVE  SumOver(f, S) = h[S]
<1>. DEFINE k == [s \in SUBSET S |-> h[s]]
<1>0. IsFiniteSet(S) /\ SUBSET S \subseteq SUBSET R /\ \A x \in S : f[x] \in Int
    BY FS_Subset
<1>1. PICK g : Summed(g, f, Picking(S), S) /\ SumOver(f, S) = g[S]
    BY <1>0, SumOverIs
<1>2. Picks(Picking(S), S) /\ Picks(d, S)
    BY <1>0, SumOverIs DEF Picks
<1>3. Summed(k, e, d, S)
    <2>1. ASSUME NEW s \in SUBSET S
          PROVE  k[s] = IF s = {} THEN 0 ELSE e[d[s]] + k[s \ {d[s]}]
        <3>1. s \in SUBSET R /\ s \ {d[s]} \in SUBSET S
            BY <1>0
        <3>2. h[s] = IF s = {} THEN 0 ELSE e[d[s]] + h[s \ {d[s]}]
            BY <3>1 DEF Summed
        <3> QED BY <3>1, <3>2
    <2> QED BY <2>1 DEF Summed
<1>. HIDE DEF k
<1>4. g[S] = k[S]
    <2>1. \A x \in S : f[x] \in Int /\ e[x] = f[x]
        BY <1>0
    <2>. DEFINE c == Picking(S)
    <2>2. Picks(c, S) /\ Summed(g, f, c, S)
        BY <1>1, <1>2
    <2>. HIDE DEF c
    <2> QED BY <1>0, <1>2, <1>3, <2>1, <2>2, SumUnique
<1> QED BY <1>1, <1>4 DEF k

(* What a reader expects of a sum.                                         *)
LEMMA SumEmpty == ASSUME NEW f PROVE SumOver(f, {}) = 0
<1>1. IsFiniteSet({}) /\ {} \in SUBSET {} /\ \A x \in {} : f[x] \in Int
    BY FS_EmptySet
<1>2. PICK g : Summed(g, f, Picking({}), {}) /\ SumOver(f, {}) = g[{}]
    BY <1>1, SumOverIs
<1>3. g[{}] = 0
    BY <1>1, <1>2 DEF Summed
<1> QED BY <1>2, <1>3

(* A sum of integers is one.                                               *)
LEMMA SumInt ==
    ASSUME NEW S, IsFiniteSet(S), NEW f, \A x \in S : f[x] \in Int
    PROVE  SumOver(f, S) \in Int
<1>. DEFINE c == Picking(S)
<1>1. Picks(c, S) /\ \E g : Summed(g, f, c, S) /\ SumOver(f, S) = g[S]
    BY SumOverIs
<1>. HIDE DEF c
<1>2. PICK g : Summed(g, f, c, S) /\ SumOver(f, S) = g[S]
    BY <1>1
<1>3. g[S] \in Int
    BY <1>1, <1>2, SumFacts
<1> QED BY <1>2, <1>3

(* One element more adds its value.                                        *)
LEMMA SumAdd ==
    ASSUME NEW S, IsFiniteSet(S), NEW x, x \notin S, NEW f, \A y \in S \cup {x} : f[y] \in Int
    PROVE  SumOver(f, S \cup {x}) = SumOver(f, S) + f[x]
<1>. DEFINE R == S \cup {x}
            c == Picking(R)
<1>0. IsFiniteSet(R) /\ \A y \in R : f[y] \in Int
    BY FS_AddElement
<1>1. Picks(c, R) /\ \E g : Summed(g, f, c, R) /\ SumOver(f, R) = g[R]
    BY <1>0, SumOverIs
<1>2. S \in SUBSET R /\ x \in R \ S
    OBVIOUS
<1>. HIDE DEF c
<1>3. PICK g : Summed(g, f, c, R) /\ SumOver(f, R) = g[R]
    BY <1>1
<1>4. \A T \in SUBSET R : \A y \in R \ T : g[T \cup {y}] = g[T] + f[y]
    <2>. HIDE DEF R
    <2>1. /\ g[{}] = 0
          /\ \A T \in SUBSET R : g[T] \in Int
          /\ \A T \in SUBSET R : \A y \in R \ T : g[T \cup {y}] = g[T] + f[y]
        BY <1>0, <1>1, <1>3, SumFacts
    <2> QED BY <2>1
<1>5. SumOver(f, S) = g[S]
    <2>. HIDE DEF R
    <2> QED BY <1>0, <1>1, <1>2, <1>3, SumWithin
<1>6. g[R] = g[S] + f[x]
    BY <1>2, <1>4
<1> QED BY <1>3, <1>5, <1>6

(* It depends on the values of the elements only.                          *)
LEMMA SumSame ==
    ASSUME NEW S, IsFiniteSet(S), NEW f, NEW e, \A x \in S : f[x] \in Int /\ f[x] = e[x]
    PROVE  SumOver(f, S) = SumOver(e, S)
<1>. DEFINE c == Picking(S)
<1>1. Picks(c, S) /\ \E g : Summed(g, e, c, S) /\ SumOver(e, S) = g[S]
    BY SumOverIs
<1>. HIDE DEF c
<1>2. PICK g : Summed(g, e, c, S) /\ SumOver(e, S) = g[S]
    BY <1>1
<1>3. SumOver(f, S) = g[S]
    BY <1>1, <1>2, SumWithin
<1> QED BY <1>2, <1>3

(* A member that weighs d more, or joins the set weighing d, adds d.       *)
LEMMA SumGrow ==
    ASSUME NEW S, IsFiniteSet(S), NEW x, NEW d \in Int, NEW f, NEW e,
           \A y \in S \cup {x} : f[y] \in Int,
           \A y \in S \ {x} : e[y] = f[y],
           e[x] = f[x] + d, x \notin S => f[x] = 0
    PROVE  SumOver(e, S \cup {x}) = SumOver(f, S) + d
<1>. DEFINE R == S \ {x}
<1>1. IsFiniteSet(R) /\ x \notin R /\ S \cup {x} = R \cup {x}
    BY FS_RemoveElement
<1>2. \A y \in R \cup {x} : f[y] \in Int /\ e[y] \in Int
    OBVIOUS
<1>3. \A y \in R : f[y] \in Int /\ f[y] = e[y]
    OBVIOUS
<1>4. f[x] \in Int /\ (x \in S => S = R \cup {x}) /\ (x \notin S => S = R /\ f[x] = 0)
    OBVIOUS
<1>. HIDE DEF R
<1>5. SumOver(e, R \cup {x}) = SumOver(e, R) + e[x]
    BY <1>1, <1>2, SumAdd
<1>6. SumOver(f, R \cup {x}) = SumOver(f, R) + f[x]
    BY <1>1, <1>2, SumAdd
<1>7. SumOver(f, R) = SumOver(e, R) /\ SumOver(f, R) \in Int
    BY <1>1, <1>3, SumSame, SumInt
<1>8. SumOver(f, S) = SumOver(f, R) + f[x]
    BY <1>4, <1>6, <1>7
<1>9. SumOver(e, R \cup {x}) = SumOver(f, R) + f[x] + d
    BY <1>4, <1>5, <1>7
<1>10. SumOver(e, S \cup {x}) = SumOver(f, R) + f[x] + d
    BY <1>1, <1>9
<1> QED BY <1>8, <1>10

(* A larger set of naturals has no smaller sum.                            *)
LEMMA SumUp ==
    ASSUME NEW T, IsFiniteSet(T), NEW S \in SUBSET T, NEW f, \A x \in T : f[x] \in Nat
    PROVE  SumOver(f, S) \in Nat /\ SumOver(f, S) <= SumOver(f, T)
<1>0. \A R \in SUBSET T : IsFiniteSet(R) /\ SumOver(f, R) \in Int
    <2> SUFFICES ASSUME NEW R \in SUBSET T PROVE IsFiniteSet(R) /\ SumOver(f, R) \in Int
        OBVIOUS
    <2>1. IsFiniteSet(R) /\ \A x \in R : f[x] \in Int
        BY FS_Subset
    <2> QED BY <2>1, SumInt
<1>1. ASSUME NEW R \in SUBSET T, NEW U \in SUBSET (T \ R) PROVE SumOver(f, R) <= SumOver(f, R \cup U)
    <2>. DEFINE P == {V \in SUBSET U : SumOver(f, R) <= SumOver(f, R \cup V)}
    <2>1. {} \in P
        <3>1. R \cup {} = R /\ SumOver(f, R) \in Int
            BY <1>0
        <3> QED BY <3>1
    <2>2. ASSUME NEW V \in P, NEW x \in U \ V PROVE V \cup {x} \in P
        <3>. DEFINE W == R \cup V
        <3>1. /\ W \in SUBSET T /\ x \notin W /\ x \in T /\ R \cup (V \cup {x}) = W \cup {x}
              /\ V \cup {x} \in SUBSET U /\ \A y \in W \cup {x} : f[y] \in Int
            OBVIOUS
        <3>2. SumOver(f, R) <= SumOver(f, W)
            OBVIOUS
        <3>. HIDE DEF W
        <3>3. SumOver(f, W \cup {x}) = SumOver(f, W) + f[x]
            BY <1>0, <3>1, SumAdd
        <3>4. SumOver(f, W) \in Int /\ SumOver(f, R) \in Int /\ f[x] \in Nat
            BY <1>0, <3>1
        <3>5. SumOver(f, R) <= SumOver(f, W \cup {x})
            BY <3>2, <3>3, <3>4
        <3> QED BY <3>1, <3>5
    <2>3. IsFiniteSet(U)
        BY FS_Subset
    <2>. HIDE DEF P
    <2>4. P \in SUBSET (SUBSET U)
        BY DEF P
    <2>5. U \in P
        BY <2>1, <2>2, <2>3, <2>4, OneByOne
    <2> QED BY <2>5 DEF P
<1>2. SumOver(f, S) <= SumOver(f, T)
    <2>1. S \cup (T \ S) = T /\ T \ S \in SUBSET (T \ S)
        OBVIOUS
    <2> QED BY <1>1, <2>1
<1>3. 0 <= SumOver(f, S)
    <2>1. {} \cup S = S /\ S \in SUBSET (T \ {}) /\ {} \in SUBSET T
        OBVIOUS
    <2>2. SumOver(f, {}) <= SumOver(f, {} \cup S)
        BY <1>1, <2>1
    <2> QED BY <2>1, <2>2, SumEmpty
<1> QED BY <1>0, <1>2, <1>3

-----------------------------------------------------------------------------
(* What the first p members of the sequence s weigh.                       *)
Weights(w, s)  == [k \in DOMAIN s |-> w[s[k]]]
Tally(w, s, p) == SumOver(Weights(w, s), 1..p)

(* The first n numbers are finitely many.                                  *)
LEMMA Interval ==
    ASSUME NEW n \in Int
    PROVE  IsFiniteSet(1..n)
<1>1. 1 \in Int
    OBVIOUS
<1> QED BY <1>1, FS_Interval

(* Nothing weighs nothing.                                                 *)
LEMMA TallyEmpty == ASSUME NEW w, NEW s PROVE Tally(w, s, 0) = 0
<1>1. 1..0 = {}
    OBVIOUS
<1> QED BY <1>1, SumEmpty DEF Tally

(* Each member adds its weight.                                            *)
LEMMA TallyStep ==
    ASSUME NEW L, NEW w \in [L -> Nat], NEW s \in Seq(L), NEW p \in 1..Len(s)
    PROVE  Tally(w, s, p) = Tally(w, s, p - 1) + w[s[p]]
<1>. DEFINE f == Weights(w, s)
<1>1. \A k \in 1..Len(s) : f[k] = w[s[k]] /\ f[k] \in Int
    BY DEF Weights
<1>2. 1..p = (1..p - 1) \cup {p} /\ p \notin 1..p - 1 /\ IsFiniteSet(1..p - 1)
    <2>1. p \in Int /\ p - 1 \in Int /\ p >= 1
        OBVIOUS
    <2>2. 1..p = (1..p - 1) \cup {p} /\ p \notin 1..p - 1
        BY <2>1
    <2> QED BY <2>1, <2>2, Interval
<1>3. \A y \in 1..p : f[y] \in Int
    BY <1>1
<1>. HIDE DEF f
<1>4. SumOver(f, (1..p - 1) \cup {p}) = SumOver(f, 1..p - 1) + f[p]
    BY <1>2, <1>3, SumAdd
<1> QED BY <1>1, <1>2, <1>4 DEF Tally, f

(* Tallies of natural weights are natural.                                 *)
LEMMA TallyNat ==
    ASSUME NEW L, NEW w \in [L -> Nat], NEW s \in Seq(L)
    PROVE  \A p \in 0..Len(s) : Tally(w, s, p) \in Nat
<1>. DEFINE I == {p \in Nat : p <= Len(s) => Tally(w, s, p) \in Nat}
<1>1. 0 \in I
    BY TallyEmpty
<1>2. ASSUME NEW p \in I PROVE p + 1 \in I
    <2>1. ASSUME p + 1 <= Len(s) PROVE Tally(w, s, p + 1) \in Nat
        <3>1. p + 1 \in 1..Len(s) /\ (p + 1) - 1 = p /\ w[s[p + 1]] \in Nat
            BY <2>1
        <3>2. Tally(w, s, p + 1) = Tally(w, s, (p + 1) - 1) + w[s[p + 1]]
            BY <3>1, TallyStep
        <3>3. Tally(w, s, p) \in Nat
            BY <2>1
        <3> QED BY <3>1, <3>2, <3>3
    <2> QED BY <2>1
<1>3. I = Nat
    <2>. HIDE DEF I
    <2>1. I \in SUBSET Nat
        BY DEF I
    <2> QED BY <1>1, <1>2, <2>1, Upwards
<1> QED BY <1>3

(* A longer sequence has the tallies of its beginning.                     *)
LEMMA TallySame ==
    ASSUME NEW L, NEW w \in [L -> Nat], NEW s \in Seq(L), NEW t \in Seq(L),
           NEW n \in 0..Len(s), n <= Len(t), \A k \in 1..n : s[k] = t[k]
    PROVE  Tally(w, s, n) = Tally(w, t, n)
<1>. DEFINE f == Weights(w, s)  e == Weights(w, t)
<1>1. \A k \in 1..n : f[k] = w[s[k]] /\ e[k] = w[t[k]] /\ f[k] \in Int
    BY DEF Weights
<1>2. IsFiniteSet(1..n)
    <2>1. n \in Int
        OBVIOUS
    <2> QED BY <2>1, Interval
<1>3. \A k \in 1..n : f[k] \in Int /\ f[k] = e[k]
    BY <1>1
<1>. HIDE DEF f, e
<1>4. SumOver(f, 1..n) = SumOver(e, 1..n)
    BY <1>2, <1>3, SumSame
<1> QED BY <1>4 DEF Tally, f, e

(* A member more at the end leaves the tallies before it, and adds its own *)
(* weight.                                                                 *)
LEMMA TallyAppend ==
    ASSUME NEW L, NEW w \in [L -> Nat], NEW s \in Seq(L), NEW l \in L
    PROVE  /\ \A p \in 0..Len(s) : Tally(w, Append(s, l), p) = Tally(w, s, p)
           /\ Tally(w, Append(s, l), Len(s) + 1) = Tally(w, s, Len(s)) + w[l]
<1>. DEFINE t == Append(s, l)
<1>1. t \in Seq(L) /\ Len(t) = Len(s) + 1 /\ t[Len(s) + 1] = l /\ \A k \in 1..Len(s) : t[k] = s[k]
    OBVIOUS
<1>. HIDE DEF t
<1>2. \A p \in 0..Len(s) : Tally(w, t, p) = Tally(w, s, p)
    <2> SUFFICES ASSUME NEW p \in 0..Len(s) PROVE Tally(w, t, p) = Tally(w, s, p)
        OBVIOUS
    <2>1. p \in 0..Len(t) /\ p <= Len(s) /\ \A k \in 1..p : t[k] = s[k]
        BY <1>1
    <2> QED BY <1>1, <2>1, TallySame
<1>3. Len(s) + 1 \in 1..Len(t) /\ (Len(s) + 1) - 1 = Len(s)
    BY <1>1
<1>4. Tally(w, t, Len(s) + 1) = Tally(w, t, Len(s)) + w[l]
    BY <1>1, <1>3, TallyStep
<1> QED BY <1>2, <1>4 DEF t

(* Tallies never fall.                                                     *)
LEMMA TallyUp ==
    ASSUME NEW L, NEW w \in [L -> Nat], NEW s \in Seq(L),
           NEW p \in 0..Len(s), NEW q \in p..Len(s)
    PROVE  Tally(w, s, p) <= Tally(w, s, q)
<1>. DEFINE I == {d \in Nat : p + d <= Len(s) => Tally(w, s, p) <= Tally(w, s, p + d)}
<1>0. \A k \in 0..Len(s) : Tally(w, s, k) \in Nat
    BY TallyNat
<1>1. 0 \in I
    BY <1>0
<1>2. ASSUME NEW d \in I PROVE d + 1 \in I
    <2>1. ASSUME p + (d + 1) <= Len(s) PROVE Tally(w, s, p) <= Tally(w, s, p + (d + 1))
        <3>1. p + (d + 1) \in 1..Len(s) /\ (p + (d + 1)) - 1 = p + d /\ w[s[p + (d + 1)]] \in Nat
            BY <2>1
        <3>2. Tally(w, s, p + (d + 1)) = Tally(w, s, p + d) + w[s[p + (d + 1)]]
            BY <3>1, TallyStep
        <3>3. Tally(w, s, p) <= Tally(w, s, p + d)
            BY <2>1
        <3>4. p + d \in 0..Len(s) /\ p \in 0..Len(s)
            BY <2>1
        <3> QED BY <1>0, <3>1, <3>2, <3>3, <3>4
    <2> QED BY <2>1
<1>3. I = Nat
    <2>. HIDE DEF I
    <2>1. I \in SUBSET Nat
        BY DEF I
    <2> QED BY <1>1, <1>2, <2>1, Upwards
<1>4. q - p \in Nat /\ p + (q - p) = q /\ q <= Len(s)
    OBVIOUS
<1>5. q - p \in I
    BY <1>3, <1>4
<1> QED BY <1>4, <1>5

(* A stretch of equal weights weighs their product.                        *)
LEMMA TallyUniform ==
    ASSUME NEW L, NEW w \in [L -> Nat], NEW s \in Seq(L), NEW a \in 1..Len(s), NEW e \in a..Len(s),
           NEW m \in Nat, \A x \in a..e : w[s[x]] = m
    PROVE  Tally(w, s, e) = Tally(w, s, a - 1) + m * (e - a + 1)
<1>. DEFINE T(p) == Tally(w, s, p)
            I == {d \in Nat : a + d <= e => T(a + d) = T(a - 1) + m * (d + 1)}
<1>0. /\ \A p \in 0..Len(s) : T(p) \in Nat
      /\ \A p \in 1..Len(s) : T(p) = T(p - 1) + w[s[p]]
    BY TallyNat, TallyStep
<1>. HIDE DEF T
<1>1. 0 \in I
    <2>1. T(a) = T(a - 1) + m /\ m * (0 + 1) = m /\ a + 0 = a
        BY <1>0
    <2> QED BY <2>1
<1>2. ASSUME NEW d \in I PROVE d + 1 \in I
    <2>1. ASSUME a + (d + 1) <= e PROVE T(a + (d + 1)) = T(a - 1) + m * ((d + 1) + 1)
        <3>1. d \in Nat /\ a + d <= e /\ a + (d + 1) \in 1..Len(s) /\ a + (d + 1) \in a..e
              /\ (a + (d + 1)) - 1 = a + d
            BY <2>1
        <3>2. T(a + (d + 1)) = T(a + d) + m
            BY <1>0, <3>1
        <3>3. T(a + d) = T(a - 1) + m * (d + 1) /\ T(a - 1) \in Nat
            BY <1>0, <3>1
        <3>4. m * ((d + 1) + 1) = m * (d + 1) + m /\ m * (d + 1) \in Int
            BY <3>1
        <3> QED BY <3>2, <3>3, <3>4
    <2> QED BY <2>1
<1>3. I = Nat
    <2>. HIDE DEF I
    <2>1. I \in SUBSET Nat
        BY DEF I
    <2> QED BY <1>1, <1>2, <2>1, Upwards
<1>4. e - a \in Nat /\ a + (e - a) = e
    OBVIOUS
<1>5. e - a \in I
    BY <1>3, <1>4
<1> QED BY <1>4, <1>5 DEF T

(* A run of lines that weigh nothing, or a line that weighs m, adds m.     *)
RunsAdd(w, s) ==
    \A a \in 1..Len(s) : \A e \in a..Len(s) : \A m \in Nat :
        (\A x \in a..e : w[s[x]] = m) /\ (m = 0 \/ e = a) =>
            Tally(w, s, e) = Tally(w, s, a - 1) + m

(* So it is, for every such run.                                           *)
LEMMA TallyRun ==
    ASSUME NEW L, NEW w \in [L -> Nat], NEW s \in Seq(L)
    PROVE  RunsAdd(w, s)
<1> SUFFICES ASSUME NEW a \in 1..Len(s), NEW e \in a..Len(s), NEW m \in Nat,
                    \A x \in a..e : w[s[x]] = m, m = 0 \/ e = a
             PROVE  Tally(w, s, e) = Tally(w, s, a - 1) + m
    BY DEF RunsAdd
<1>1. CASE e = a
    <2>1. w[s[a]] = m
        BY <1>1
    <2> QED BY <1>1, <2>1, TallyStep
<1>2. CASE m = 0
    <2>1. Tally(w, s, e) = Tally(w, s, a - 1) + 0 * (e - a + 1)
        BY <1>2, TallyUniform
    <2>. DEFINE d == e - a + 1
    <2>2. d \in Int
        OBVIOUS
    <2>. HIDE DEF d
    <2>3. 0 * d = 0
        BY <2>2
    <2> QED BY <1>2, <2>1, <2>3 DEF d
<1> QED BY <1>1, <1>2

-----------------------------------------------------------------------------
(* FlattenSeq joins sequences from the first to the last.                  *)
Flattened(g, s) == g = [i \in 1..Len(s) |-> IF i = 1 THEN s[i] ELSE g[i - 1] \o s[i]]

(* There is such a function, defined member by member.                     *)
LEMMA FlattenExists ==
    ASSUME NEW S, NEW s \in Seq(S)
    PROVE  \E g : Flattened(g, s)
<1>. DEFINE Step(h, i) == IF i = 1 THEN s[i] ELSE h[i - 1] \o s[i]
            Fits(h, n) == h = [i \in 1..n |-> Step(h, i)]
            I == {n \in Nat : \E h : Fits(h, n)}
<1>1. 0 \in I
    <2>. DEFINE h == [i \in 1..0 |-> <<>>]
    <2>1. Fits(h, 0)
        OBVIOUS
    <2> QED BY <2>1
<1>2. ASSUME NEW n \in I PROVE n + 1 \in I
    <2>1. n \in Nat /\ \E h : Fits(h, n)
        OBVIOUS
    <2>2. PICK h : Fits(h, n)
        BY <2>1
    <2>. DEFINE k == [i \in 1..n + 1 |-> Step(h, i)]
    <2>3. \A i \in 1..n : i \in 1..n + 1 /\ k[i] = h[i]
        <3>1. \A i \in 1..n : i \in 1..n + 1
            BY <2>1
        <3>2. \A i \in 1..n : h[i] = Step(h, i)
            BY <2>2
        <3> QED BY <3>1, <3>2
    <2>4. \A i \in 1..n + 1 : i # 1 => i - 1 \in 1..n
        BY <2>1
    <2>5. \A i \in 1..n + 1 : Step(k, i) = Step(h, i)
        BY <2>3, <2>4
    <2>6. Fits(k, n + 1)
        BY <2>5
    <2>7. n + 1 \in Nat
        BY <2>1
    <2>. HIDE DEF k, Fits
    <2> QED BY <2>6, <2>7
<1>3. I = Nat
    <2>. HIDE DEF I
    <2>1. I \in SUBSET Nat
        BY DEF I
    <2> QED BY <1>1, <1>2, <2>1, Upwards
<1>4. Len(s) \in Nat
    OBVIOUS
<1>5. \E h : Fits(h, Len(s))
    BY <1>3, <1>4
<1> QED BY <1>5 DEF Flattened

(* And FlattenSeq takes its last value.                                    *)
LEMMA FlattenIs ==
    ASSUME NEW S, NEW s \in Seq(S), Len(s) # 0
    PROVE  \E g : Flattened(g, s) /\ FlattenSeq(s) = g[Len(s)]
<1>. DEFINE Fits(g) == g = [i \in 1..Len(s) |-> IF i = 1 THEN s[i] ELSE g[i - 1] \o s[i]]
            flatten == CHOOSE g : Fits(g)
<1>1. \A g : Flattened(g, s) <=> Fits(g)
    BY DEF Flattened
<1>2. \E g : Fits(g)
    <2>. HIDE DEF Fits
    <2> QED BY <1>1, FlattenExists
<1>3. Fits(flatten)
    BY <1>2
<1>4. FlattenSeq(s) = flatten[Len(s)]
    BY DEF FlattenSeq
<1>. HIDE DEF Fits, flatten
<1> QED BY <1>1, <1>3, <1>4

(* Each value continues the one before.                                    *)
LEMMA FlattenedFrom ==
    ASSUME NEW S, NEW s \in Seq(S), NEW g, Flattened(g, s), Len(s) # 0
    PROVE  g[1] = s[1] /\ \A i \in 2..Len(s) : g[i] = g[i - 1] \o s[i]
<1>1. \A i \in 1..Len(s) : g[i] = IF i = 1 THEN s[i] ELSE g[i - 1] \o s[i]
    BY DEF Flattened
<1>2. 1 \in 1..Len(s) /\ \A i \in 2..Len(s) : i \in 1..Len(s) /\ i # 1
    OBVIOUS
<1> QED BY <1>1, <1>2

(* A sequence of one value.                                                *)
LEMMA Constantly ==
    ASSUME NEW S, NEW e \in S, NEW n \in Nat
    PROVE  /\ [x \in 1..n |-> e] \in Seq(S) /\ Len([x \in 1..n |-> e]) = n
           /\ \A x \in 1..n : [y \in 1..n |-> e][x] = e
    OBVIOUS

(* What is joined from sequences over S is a sequence over S.              *)
LEMMA FlattenKeeps ==
    ASSUME NEW S, NEW s \in Seq(Seq(S))
    PROVE  FlattenSeq(s) \in Seq(S)
<1>1. CASE Len(s) = 0
    BY <1>1 DEF FlattenSeq
<1>2. CASE Len(s) # 0
    <2>1. PICK g : Flattened(g, s) /\ FlattenSeq(s) = g[Len(s)]
        BY <1>2, FlattenIs
    <2>. DEFINE I == {n \in Nat : n + 1 <= Len(s) => g[n + 1] \in Seq(S)}
    <2>2. \A i \in 1..Len(s) : g[i] = IF i = 1 THEN s[i] ELSE g[i - 1] \o s[i]
        BY <2>1 DEF Flattened
    <2>3. \A i \in 1..Len(s) : s[i] \in Seq(S)
        OBVIOUS
    <2>4. 0 \in I
        BY <2>2, <2>3
    <2>5. ASSUME NEW n \in I PROVE n + 1 \in I
        <3>1. ASSUME (n + 1) + 1 <= Len(s) PROVE g[(n + 1) + 1] \in Seq(S)
            <4>1. (n + 1) + 1 \in 1..Len(s) /\ (n + 1) + 1 # 1 /\ ((n + 1) + 1) - 1 = n + 1
                BY <3>1
            <4>2. g[n + 1] \in Seq(S) /\ s[(n + 1) + 1] \in Seq(S)
                BY <2>3, <3>1, <4>1
            <4>3. g[(n + 1) + 1] = g[n + 1] \o s[(n + 1) + 1]
                BY <2>2, <4>1
            <4> QED BY <4>2, <4>3
        <3> QED BY <3>1
    <2>6. I = Nat
        <3>. HIDE DEF I
        <3>1. I \in SUBSET Nat
            BY DEF I
        <3> QED BY <2>4, <2>5, <3>1, Upwards
    <2>7. Len(s) - 1 \in Nat /\ (Len(s) - 1) + 1 = Len(s)
        BY <1>2
    <2>8. g[Len(s)] \in Seq(S)
        <3>. DEFINE n == Len(s) - 1
        <3>1. n \in I
            <4>. HIDE DEF I
            <4> QED BY <2>6, <2>7
        <3>2. n + 1 = Len(s) /\ n + 1 <= Len(s)
            <4>1. Len(s) \in Nat
                OBVIOUS
            <4> QED BY <2>7, <4>1
        <3>. HIDE DEF n
        <3> QED BY <3>1, <3>2
    <2> QED BY <2>1, <2>8
<1> QED BY <1>1, <1>2
(* One sequence more goes behind.                                          *)
LEMMA FlattenAppend ==
    ASSUME NEW X, NEW s \in Seq(Seq(X)), NEW e \in Seq(X)
    PROVE  FlattenSeq(Append(s, e)) = FlattenSeq(s) \o e
<1>. DEFINE t == Append(s, e)
<1>1. /\ t \in Seq(Seq(X)) /\ Len(t) = Len(s) + 1 /\ Len(s) \in Nat
      /\ t[Len(s) + 1] = e /\ \A i \in 1..Len(s) : t[i] = s[i]
    OBVIOUS
<1>. HIDE DEF t
<1>2. PICK h : Flattened(h, t) /\ FlattenSeq(t) = h[Len(t)]
    <2>1. Len(t) # 0
        BY <1>1
    <2> QED BY <1>1, <2>1, FlattenIs
<1>3. \A i \in 1..Len(t) : h[i] = IF i = 1 THEN t[i] ELSE h[i - 1] \o t[i]
    BY <1>2 DEF Flattened
<1>4. CASE Len(s) = 0
    <2>1. FlattenSeq(t) = e
        BY <1>1, <1>2, <1>3, <1>4
    <2>2. FlattenSeq(s) = <<>> /\ <<>> \o e = e
        BY <1>4 DEF FlattenSeq
    <2> QED BY <2>1, <2>2 DEF t
<1>5. CASE Len(s) # 0
    <2>1. PICK g : Flattened(g, s) /\ FlattenSeq(s) = g[Len(s)]
        BY <1>5, FlattenIs
    <2>2. \A i \in 1..Len(s) : g[i] = IF i = 1 THEN s[i] ELSE g[i - 1] \o s[i]
        BY <2>1 DEF Flattened
    <2>. DEFINE I == {n \in Nat : n + 1 <= Len(s) => g[n + 1] = h[n + 1]}
    <2>3. 0 \in I
        <3>1. 1 \in 1..Len(s) /\ 1 \in 1..Len(t)
            BY <1>1, <1>5
        <3>2. g[1] = s[1] /\ h[1] = t[1] /\ t[1] = s[1]
            BY <1>1, <1>3, <2>2, <3>1
        <3>3. g[0 + 1] = h[0 + 1]
            BY <3>2
        <3> QED BY <3>3
    <2>4. ASSUME NEW n \in I PROVE n + 1 \in I
        <3>1. n \in Nat /\ n + 1 \in Nat /\ (n + 1 <= Len(s) => g[n + 1] = h[n + 1])
            OBVIOUS
        <3>2. ASSUME (n + 1) + 1 <= Len(s) PROVE g[(n + 1) + 1] = h[(n + 1) + 1]
            <4>. DEFINE i == (n + 1) + 1
            <4>1. i \in 1..Len(s) /\ i \in 1..Len(t) /\ i # 1 /\ i - 1 = n + 1 /\ n + 1 <= Len(s)
                BY <1>1, <3>1, <3>2
            <4>. HIDE DEF i
            <4>2. g[i] = g[i - 1] \o s[i] /\ h[i] = h[i - 1] \o t[i] /\ t[i] = s[i]
                BY <1>1, <1>3, <2>2, <4>1
            <4>3. g[i] = h[i]
                BY <3>1, <4>1, <4>2
            <4> QED BY <4>3 DEF i
        <3> QED BY <3>1, <3>2
    <2>5. I = Nat
        <3>. HIDE DEF I
        <3>1. I \in SUBSET Nat
            BY DEF I
        <3> QED BY <2>3, <2>4, <3>1, Upwards
    <2>6. g[Len(s)] = h[Len(s)]
        <3>. DEFINE n == Len(s) - 1
        <3>1. n \in Nat /\ n + 1 = Len(s)
            BY <1>1, <1>5
        <3>2. n \in I
            <4>. HIDE DEF I, n
            <4> QED BY <2>5, <3>1
        <3>. HIDE DEF n
        <3>3. n + 1 <= Len(s)
            BY <1>1, <3>1
        <3> QED BY <3>1, <3>2, <3>3
    <2>7. h[Len(t)] = h[Len(s)] \o e
        <3>1. Len(t) \in 1..Len(t) /\ Len(t) # 1 /\ Len(t) - 1 = Len(s) /\ t[Len(t)] = e
            BY <1>1, <1>5
        <3> QED BY <1>3, <3>1
    <2> QED BY <1>2, <2>1, <2>6, <2>7 DEF t
<1> QED BY <1>1, <1>4, <1>5

(* What the first n of the sequences parts give.                           *)
Joined(parts, n) == FlattenSeq([i \in 1..n |-> parts[i]])

LEMMA JoinedNone == ASSUME NEW parts PROVE Joined(parts, 0) = <<>>
<1>. DEFINE s == [i \in 1..0 |-> parts[i]]
<1>1. s = <<>> /\ Len(s) = 0
    OBVIOUS
<1>. HIDE DEF s
<1>2. FlattenSeq(s) = <<>>
    BY <1>1 DEF FlattenSeq
<1> QED BY <1>2 DEF Joined, s

LEMMA JoinedStep ==
    ASSUME NEW X, NEW m \in Nat, NEW parts, \A i \in 1..m : parts[i] \in Seq(X),
           NEW n \in Nat, n + 1 <= m
    PROVE  /\ Joined(parts, n) \in Seq(X)
           /\ Joined(parts, n + 1) = Joined(parts, n) \o parts[n + 1]
<1>. DEFINE s == [i \in 1..n |-> parts[i]]
            t == [i \in 1..n + 1 |-> parts[i]]
<1>1. n + 1 \in 1..m /\ \A i \in 1..n : i \in 1..m
    OBVIOUS
<1>2. s \in Seq(Seq(X)) /\ Len(s) = n /\ parts[n + 1] \in Seq(X)
    <2>1. s \in [1..n -> Seq(X)]
        BY <1>1
    <2> QED BY <1>1, <2>1
<1>3. t = Append(s, parts[n + 1])
    OBVIOUS
<1>4. FlattenSeq(s) \in Seq(X) /\ FlattenSeq(Append(s, parts[n + 1])) = FlattenSeq(s) \o parts[n + 1]
    <2>. HIDE DEF s, t
    <2>. DEFINE e == parts[n + 1]
    <2>1. e \in Seq(X)
        BY <1>2
    <2>. HIDE DEF e
    <2>2. FlattenSeq(Append(s, e)) = FlattenSeq(s) \o e
        BY <1>2, <2>1, FlattenAppend
    <2>3. FlattenSeq(s) \in Seq(X)
        BY <1>2, FlattenKeeps
    <2> QED BY <2>2, <2>3 DEF e
<1>. HIDE DEF s, t
<1>5. FlattenSeq(t) = FlattenSeq(s) \o parts[n + 1]
    BY <1>3, <1>4
<1> QED BY <1>4, <1>5 DEF Joined, s, t

LEMMA JoinedKeeps ==
    ASSUME NEW X, NEW n \in Nat, NEW parts, \A i \in 1..n : parts[i] \in Seq(X)
    PROVE  Joined(parts, n) \in Seq(X)
<1>. DEFINE s == [i \in 1..n |-> parts[i]]
<1>1. s \in Seq(Seq(X))
    OBVIOUS
<1>. HIDE DEF s
<1> QED BY <1>1, FlattenKeeps DEF Joined, s

(* Small facts about sequences, apart from what else is known.             *)
LEMMA NothingBehind ==
    ASSUME NEW X, NEW s \in Seq(X), NEW e
    PROVE  s \o [x \in 1..0 |-> e] = s
<1>1. [x \in 1..0 |-> e] = <<>>
    OBVIOUS
<1>2. s \o <<>> = s
    OBVIOUS
<1> QED BY <1>1, <1>2

LEMMA OneBehind ==
    ASSUME NEW X, NEW s \in Seq(X), NEW e \in X, NEW n \in Nat
    PROVE  s \o [x \in 1..n + 1 |-> e] = Append(s \o [x \in 1..n |-> e], e)
    OBVIOUS

LEMMA JoinAnyhow ==
    ASSUME NEW X, NEW a \in Seq(X), NEW b \in Seq(X), NEW c \in Seq(X)
    PROVE  a \o (b \o c) = (a \o b) \o c
    OBVIOUS

LEMMA StretchIs ==
    ASSUME NEW S, NEW s \in Seq(S), NEW a \in 1..Len(s), NEW e \in a..Len(s)
    PROVE  /\ DOMAIN SubSeq(s, a, e) = 1..e - a + 1
           /\ \A k \in 1..e - a + 1 : a + k - 1 \in a..e /\ SubSeq(s, a, e)[k] = s[a + k - 1]
    OBVIOUS
=============================================================================
