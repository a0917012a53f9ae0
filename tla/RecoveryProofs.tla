---------------------------- MODULE RecoveryProofs ----------------------------
(***************************************************************************)
(* For every text of UTF-8 characters and every sizes that a client asks   *)
(* for: following next_offset tiles the original, following next_line      *)
(* misses no line, and neither ever gets stuck.                            *)
(***************************************************************************)
EXTENDS Recovery, FoldProofs

-----------------------------------------------------------------------------
(* What a sum of the model is to the lemmas about folds.                   *)
LEMMA SumsAre ==
    ASSUME NEW f, NEW S
    PROVE  SumFunctionOnSet(f, S) = SumOver(f, S)
    BY DEF SumFunctionOnSet, SumOver

Boundaries(t) == RuneStarts(t) \cup {Bytes(t)}
Upto(t, p)    == SumFunctionOnSet(Widths(t), 1..p)

LEMMA WidthsAre ==
    ASSUME NEW t \in Seq(Line)
    PROVE  Widths(t) \in Seq(1..4)
<1>. DEFINE s == [k \in DOMAIN t |-> t[k].chars]
<1>1. \A k \in DOMAIN t : t[k].chars \in Seq(1..4)
    <2>1. \A k \in DOMAIN t : t[k] \in Line
        OBVIOUS
    <2>2. \A l \in Line : l.chars \in Seq(1..4) \ {<<>>}
        BY DEF Line
    <2> QED BY <2>1, <2>2
<1>2. s \in Seq(Seq(1..4))
    BY <1>1
<1>. HIDE DEF s
<1>3. FlattenSeq(s) \in Seq(1..4)
    BY <1>2, FlattenKeeps
<1> QED BY <1>3 DEF Widths, s

(* Each character adds its width to what comes before it.                  *)
LEMMA UptoIs ==
    ASSUME NEW t \in Seq(Line)
    PROVE  /\ Len(Widths(t)) \in Nat /\ DOMAIN Widths(t) = 1..Len(Widths(t))
           /\ Upto(t, 0) = 0 /\ Bytes(t) = Upto(t, Len(Widths(t)))
           /\ \A p \in 0..Len(Widths(t)) : Upto(t, p) \in Nat /\ Upto(t, p) <= Bytes(t)
           /\ \A p \in 1..Len(Widths(t)) :
                Upto(t, p) > Upto(t, p - 1) /\ Upto(t, p) <= Upto(t, p - 1) + 4
<1>. DEFINE w == Widths(t)
<1>1. w \in Seq(1..4)
    BY WidthsAre
<1>. HIDE DEF w
<1>2. Len(w) \in Nat /\ DOMAIN w = 1..Len(w) /\ \A k \in 1..Len(w) : w[k] \in 1..4
    BY <1>1
<1>3. \A p : Upto(t, p) = SumOver(w, 1..p)
    BY SumsAre DEF Upto, w
<1>4. Upto(t, 0) = 0
    <2>1. 1..0 = {}
        OBVIOUS
    <2> QED BY <1>3, <2>1, SumEmpty
<1>5. Bytes(t) = Upto(t, Len(w))
    BY <1>2 DEF Bytes, SumFunction, Upto, w
<1>6. ASSUME NEW p \in 0..Len(w)
      PROVE  Upto(t, p) \in Nat /\ Upto(t, p) <= Bytes(t)
    <2>1. IsFiniteSet(1..Len(w)) /\ 1..p \in SUBSET (1..Len(w)) /\ \A k \in 1..Len(w) : w[k] \in Nat
        BY <1>2, Interval
    <2>2. SumOver(w, 1..p) \in Nat /\ SumOver(w, 1..p) <= SumOver(w, 1..Len(w))
        BY <2>1, SumUp
    <2> QED BY <1>3, <1>5, <2>2
<1>7. ASSUME NEW p \in 1..Len(w)
      PROVE  Upto(t, p) > Upto(t, p - 1) /\ Upto(t, p) <= Upto(t, p - 1) + 4
    <2>1. p - 1 \in 0..Len(w) /\ p - 1 \in Int
        BY <1>2
    <2>2. IsFiniteSet(1..p - 1) /\ p \notin 1..p - 1 /\ 1..p = (1..p - 1) \cup {p}
        BY <2>1, Interval
    <2>3. \A k \in (1..p - 1) \cup {p} : w[k] \in Int
        BY <1>2
    <2>4. SumOver(w, (1..p - 1) \cup {p}) = SumOver(w, 1..p - 1) + w[p]
        BY <2>2, <2>3, SumAdd
    <2>5. Upto(t, p) = Upto(t, p - 1) + w[p]
        BY <1>3, <2>2, <2>4
    <2>6. w[p] \in 1..4 /\ Upto(t, p - 1) \in Nat
        BY <1>2, <1>6, <2>1
    <2> QED BY <2>5, <2>6
<1> QED BY <1>2, <1>4, <1>5, <1>6, <1>7 DEF w

(* Before the end there is always another boundary within four bytes.      *)
LEMMA BoundariesAre ==
    ASSUME NEW t \in Seq(Line)
    PROVE  /\ Bytes(t) \in Nat /\ Boundaries(t) \subseteq 0..Bytes(t) /\ 0 \in Boundaries(t)
           /\ \A b \in Boundaries(t) :
                b < Bytes(t) => \E e \in Boundaries(t) : b < e /\ e <= b + 4
<1>. DEFINE n == Len(Widths(t))
<1>1. /\ n \in Nat /\ DOMAIN Widths(t) = 1..n
      /\ Upto(t, 0) = 0 /\ Bytes(t) = Upto(t, n)
      /\ \A p \in 0..n : Upto(t, p) \in Nat /\ Upto(t, p) <= Bytes(t)
      /\ \A p \in 1..n : Upto(t, p) > Upto(t, p - 1) /\ Upto(t, p) <= Upto(t, p - 1) + 4
    BY UptoIs
<1>. HIDE DEF n
<1>2. RuneStarts(t) = {Upto(t, p - 1) : p \in 1..n}
    BY <1>1 DEF RuneStarts, Upto
<1>3. Boundaries(t) = {Upto(t, p) : p \in 0..n}
    <2>1. ASSUME NEW b \in Boundaries(t) PROVE \E p \in 0..n : b = Upto(t, p)
        <3>1. CASE b \in RuneStarts(t)
            <4>1. PICK p \in 1..n : b = Upto(t, p - 1)
                BY <1>2, <3>1
            <4>2. p - 1 \in 0..n
                BY <1>1
            <4> QED BY <4>1, <4>2
        <3>2. CASE b = Bytes(t)
            <4>1. n \in 0..n
                BY <1>1
            <4> QED BY <1>1, <3>2, <4>1
        <3> QED BY <2>1, <3>1, <3>2 DEF Boundaries
    <2>2. ASSUME NEW p \in 0..n PROVE Upto(t, p) \in Boundaries(t)
        <3>1. CASE p = n
            BY <1>1, <3>1 DEF Boundaries
        <3>2. CASE p # n
            <4>1. p + 1 \in 1..n /\ (p + 1) - 1 = p
                BY <1>1, <3>2
            <4>2. Upto(t, (p + 1) - 1) \in RuneStarts(t)
                BY <1>2, <4>1
            <4> QED BY <4>1, <4>2 DEF Boundaries
        <3> QED BY <3>1, <3>2
    <2> QED BY <2>1, <2>2
<1>4. Bytes(t) \in Nat
    BY <1>1
<1>5. Boundaries(t) \subseteq 0..Bytes(t) /\ 0 \in Boundaries(t)
    <2>1. 0 \in 0..n
        BY <1>1
    <2> QED BY <1>1, <1>3, <1>4, <2>1
<1>6. ASSUME NEW b \in Boundaries(t), b < Bytes(t)
      PROVE  \E e \in Boundaries(t) : b < e /\ e <= b + 4
    <2>1. PICK p \in 0..n : b = Upto(t, p)
        BY <1>3
    <2>2. p # n
        BY <1>1, <1>4, <1>6, <2>1
    <2>3. p + 1 \in 1..n /\ p + 1 \in 0..n /\ (p + 1) - 1 = p
        BY <1>1, <2>2
    <2>4. Upto(t, p + 1) > b /\ Upto(t, p + 1) <= b + 4
        BY <1>1, <2>1, <2>3
    <2>5. Upto(t, p + 1) \in Boundaries(t)
        BY <1>3, <2>3
    <2> QED BY <2>4, <2>5
<1> QED BY <1>4, <1>5, <1>6

(* A page ends at the last boundary that it has room for.                  *)
LEMMA PageEndIs ==
    ASSUME NEW t \in Seq(Line), NEW b \in 0..Bytes(t), NEW size \in Nat
    PROVE  /\ PageEnd(t, b, size) \in b..Bytes(t) /\ PageEnd(t, b, size) <= b + size
           /\ PageEnd(t, b, size) \in Boundaries(t) \cup {b}
           /\ \A e \in Boundaries(t) : b <= e /\ e <= b + size => e <= PageEnd(t, b, size)
<1>. DEFINE B == Bytes(t)
            limit == IF b + size < B THEN b + size ELSE B
            E == {e \in b..limit : e \in RuneStarts(t) \cup {b, B}}
<1>1. B \in Nat /\ Boundaries(t) \subseteq 0..B
    BY BoundariesAre
<1>2. limit \in Nat /\ b \in Nat /\ b <= limit /\ limit <= B /\ limit <= b + size
    BY <1>1
<1>3. \A e \in Boundaries(t) : b <= e /\ e <= b + size => e \in b..limit
    BY <1>1
<1>. HIDE DEF B, limit
<1>4. E \in SUBSET Nat /\ b \in E /\ \A e \in E : e <= limit
    BY <1>2
<1>. HIDE DEF E
<1>5. Max(E) \in E /\ \A e \in E : e <= Max(E)
    BY <1>2, <1>4, Greatest
<1>6. PageEnd(t, b, size) = Max(E)
    BY DEF PageEnd, E, limit, B
<1>7. Max(E) \in b..limit /\ Max(E) \in Boundaries(t) \cup {b}
    BY <1>5 DEF E, B, Boundaries
<1>8. \A e \in Boundaries(t) : b <= e /\ e <= b + size => e \in E
    BY <1>3 DEF E, B, Boundaries
<1> QED BY <1>1, <1>2, <1>5, <1>6, <1>7, <1>8 DEF B

(* What a page is, if there is one.                                        *)
LEMMA PageIs ==
    ASSUME NEW t \in Seq(Line), NEW b \in Nat, NEW n \in Int, Page(t, b, n).ok
    PROVE  /\ Page(t, b, n).from = b
           /\ b \in Boundaries(t) /\ Page(t, b, n).next \in Boundaries(t)
           /\ b <= Page(t, b, n).next /\ Page(t, b, n).next <= b + MaxPageBytes
           /\ Page(t, b, n).more = (Page(t, b, n).next < Bytes(t))
           /\ Page(t, b, n).next = b => b = Bytes(t)
<1>. DEFINE size == IF n = 0 THEN DefaultBytes ELSE n
            end == PageEnd(t, b, size)
<1>1. /\ size \in 1..MaxPageBytes /\ b \in 0..Bytes(t)
      /\ b < Bytes(t) => b \in RuneStarts(t)
      /\ ~(end = b /\ end < Bytes(t))
      /\ Page(t, b, n) = [ok |-> TRUE, from |-> b, next |-> end, more |-> end < Bytes(t)]
    BY DEF Page, Error
<1>2. /\ Page(t, b, n).from = b /\ Page(t, b, n).next = end
      /\ Page(t, b, n).more = (end < Bytes(t))
    BY <1>1
<1>3. Bytes(t) \in Nat /\ MaxPageBytes \in Nat /\ size \in Nat
    BY <1>1, BoundariesAre, RecoveryAssumption
<1>. HIDE DEF size
<1>4. end \in b..Bytes(t) /\ end <= b + size /\ end \in Boundaries(t) \cup {b}
    BY <1>1, <1>3, PageEndIs
<1>5. b \in Boundaries(t)
    BY <1>1, <1>3 DEF Boundaries
<1>. HIDE DEF end
<1>6. end \in Boundaries(t) /\ b <= end /\ end <= b + MaxPageBytes /\ (end = b => b = Bytes(t))
    BY <1>1, <1>3, <1>4, <1>5
<1> QED BY <1>2, <1>5, <1>6

-----------------------------------------------------------------------------
(* The sizes of the lines.                                                 *)
LEMMA LineSizesAre ==
    ASSUME NEW t \in Seq(Line)
    PROVE  /\ Len(t) \in Nat /\ DOMAIN t = 1..Len(t) /\ DOMAIN LineSizes(t) = 1..Len(t)
           /\ \A k \in 1..Len(t) : LineSizes(t)[k] \in Nat
<1>1. ASSUME NEW k \in DOMAIN t PROVE LineSizes(t)[k] \in Nat
    <2>. DEFINE w == t[k].chars
    <2>1. w \in Seq(1..4)
        <3>1. t[k] \in Line
            OBVIOUS
        <3>2. \A l \in Line : l.chars \in Seq(1..4) \ {<<>>}
            BY DEF Line
        <3> QED BY <3>1, <3>2
    <2>2. LineSizes(t)[k] = SumOver(w, DOMAIN w)
        BY SumsAre DEF LineSizes, SumFunction
    <2>. HIDE DEF w
    <2>3. /\ IsFiniteSet(1..Len(w)) /\ DOMAIN w = 1..Len(w) /\ \A x \in 1..Len(w) : w[x] \in Nat
          /\ 1..Len(w) \in SUBSET (1..Len(w))
        BY <2>1, Interval
    <2>4. SumOver(w, 1..Len(w)) \in Nat
        BY <2>3, SumUp
    <2> QED BY <2>2, <2>3, <2>4
<1> QED BY <1>1 DEF LineSizes

(* What fits is a beginning of what was found.                             *)
LEMMA FittingIs ==
    ASSUME NEW t \in Seq(Line), NEW start \in Nat, NEW limit \in Nat
    PROVE  /\ Found(t, start) \subseteq {k \in Matching(t) : k >= start} /\ Matching(t) \subseteq 1..Len(t)
           /\ {k \in Matching(t) : k >= start} \subseteq Found(t, start)
           /\ Fitting(t, start, limit) \subseteq Found(t, start)
           /\ \A k \in Fitting(t, start, limit) : \A m \in Found(t, start) :
                m <= k => m \in Fitting(t, start, limit)
<1>. DEFINE F == Found(t, start)
            Up(k) == {x \in F : x <= k}
<1>1. /\ Len(t) \in Nat /\ DOMAIN t = 1..Len(t)
      /\ \A k \in 1..Len(t) : LineSizes(t)[k] \in Nat
    BY LineSizesAre
<1>2. F = {k \in Matching(t) : k >= start} /\ Matching(t) \subseteq 1..Len(t)
    BY <1>1 DEF Found, Matching
<1>3. Fitting(t, start, limit) =
        {k \in F : Cardinality(Up(k)) <= limit /\ SumOver(LineSizes(t), Up(k)) <= MaxPageBytes}
    BY SumsAre DEF Fitting
<1>4. IsFiniteSet(F)
    <2>1. IsFiniteSet(1..Len(t)) /\ F \subseteq 1..Len(t)
        BY <1>1, <1>2, Interval
    <2> QED BY <2>1, FS_Subset
<1>. HIDE DEF F
<1>5. ASSUME NEW k \in Fitting(t, start, limit), NEW m \in F, m <= k
      PROVE  m \in Fitting(t, start, limit)
    <2>1. k \in F /\ k \in Int /\ m \in Int
        BY <1>1, <1>2, <1>3
    <2>2. Up(m) \in SUBSET Up(k)
        BY <1>1, <1>2, <1>5, <2>1
    <2>3. IsFiniteSet(Up(k)) /\ IsFiniteSet(Up(m))
        BY <1>4, FS_Subset
    <2>. DEFINE U == Up(k)  V == Up(m)
    <2>4. \A x \in U : LineSizes(t)[x] \in Nat
        BY <1>1, <1>2
    <2>. HIDE DEF U, V
    <2>5. Cardinality(V) <= Cardinality(U) /\ Cardinality(V) \in Nat /\ Cardinality(U) \in Nat
        BY <2>2, <2>3, FS_Subset, FS_CardinalityType DEF U, V
    <2>6. /\ SumOver(LineSizes(t), V) <= SumOver(LineSizes(t), U)
          /\ SumOver(LineSizes(t), V) \in Nat /\ SumOver(LineSizes(t), U) \in Nat
        <3>1. V \in SUBSET U /\ U \in SUBSET U /\ IsFiniteSet(U)
            BY <2>2, <2>3 DEF U, V
        <3> QED BY <2>4, <3>1, SumUp
    <2>7. Cardinality(U) <= limit /\ SumOver(LineSizes(t), U) <= MaxPageBytes
        BY <1>3 DEF U
    <2>8. Cardinality(V) <= limit /\ SumOver(LineSizes(t), V) <= MaxPageBytes
        BY <2>5, <2>6, <2>7, RecoveryAssumption
    <2> QED BY <1>3, <2>8 DEF V
<1>6. Fitting(t, start, limit) \subseteq F
    BY <1>3
<1> QED BY <1>2, <1>5, <1>6 DEF F

(* What a search returns, if it does: what it leaves is behind what it     *)
(* gives, and the next one starts with it.                                 *)
LEMMA SearchIs ==
    ASSUME NEW t \in Seq(Line), NEW b \in Nat \ {0}, NEW n \in Int, Search(t, b, n).ok
    PROVE  LET r == Search(t, b, n) IN
           /\ r.more \in BOOLEAN /\ r.lines \subseteq Matching(t)
           /\ r.more => r.next \in Nat /\ r.next >= b
           /\ r.lines = {k \in Matching(t) : k >= b /\ (r.more => k < r.next)}
<1>. DEFINE limit == IF n = 0 THEN DefaultLimit ELSE n
            H == Fitting(t, b, limit)
            F == Found(t, b)
            R == F \ H
            r == Search(t, b, n)
<1>1. /\ limit \in 1..MaxLines
      /\ r = [ok |-> TRUE, lines |-> H, more |-> R # {}, next |-> IF R = {} THEN 0 ELSE Min(R)]
    <2>1. (IF b = 0 THEN 1 ELSE b) = b
        OBVIOUS
    <2> QED BY <2>1 DEF Search, Error
<1>2. r.lines = H /\ r.more = (R # {}) /\ (R # {} => r.next = Min(R))
    BY <1>1
<1>3. limit \in Nat
    BY <1>1, RecoveryAssumption
<1>. HIDE DEF limit
<1>4. /\ F = {k \in Matching(t) : k >= b} /\ Matching(t) \subseteq 1..Len(t) /\ Len(t) \in Nat
      /\ H \subseteq F
      /\ \A k \in H : \A m \in F : m <= k => m \in H
    BY <1>3, FittingIs, LineSizesAre
<1>. HIDE DEF r, H, F
<1>5. R \in SUBSET Nat /\ \A k \in R : k >= b
    BY <1>4
<1>6. CASE R = {}
    <2>1. H = F
        BY <1>4, <1>6
    <2> QED BY <1>2, <1>4, <1>6, <2>1 DEF r
<1>7. CASE R # {}
    <2>1. Min(R) \in R /\ \A k \in R : Min(R) <= k
        BY <1>5, <1>7, Least
    <2>2. H = {k \in F : k < Min(R)}
        <3>1. ASSUME NEW k \in H PROVE k \in F /\ k < Min(R)
            <4>1. Min(R) \in F /\ Min(R) \notin H /\ Min(R) \in Nat /\ k \in Nat
                BY <1>4, <1>5, <2>1
            <4> QED BY <1>4, <4>1
        <3>2. ASSUME NEW k \in F, k < Min(R) PROVE k \in H
            <4>1. k \in Nat /\ Min(R) \in Nat
                BY <1>4, <1>5, <2>1
            <4>2. ~(Min(R) <= k)
                BY <3>2, <4>1
            <4>3. k \notin R
                BY <2>1, <4>2
            <4> QED BY <3>2, <4>3
        <3> QED BY <3>1, <3>2
    <2>3. Min(R) \in Nat /\ Min(R) >= b
        BY <1>5, <2>1
    <2>. HIDE DEF R
    <2> QED BY <1>2, <1>4, <1>7, <2>2, <2>3 DEF r
<1> QED BY <1>6, <1>7

(* A range is the lines from the first to the last that it shows.          *)
LEMMA LineRangeIs ==
    ASSUME NEW t \in Seq(Line), NEW b \in Nat, NEW n \in Int, LineRange(t, b, n).ok
    PROVE  LET r == LineRange(t, b, n) IN
           Max(r.lines) \in Nat /\ Max(r.lines) >= b /\ r.lines = b..Max(r.lines) /\ b >= 1
<1>. DEFINE S == {k \in DOMAIN t : b <= k /\ k <= n}
            r == LineRange(t, b, n)
<1>1. S # {} /\ r = [ok |-> TRUE, lines |-> S] /\ b >= 1
    BY DEF LineRange, Error
<1>2. Len(t) \in Nat /\ DOMAIN t = 1..Len(t)
    BY LineSizesAre
<1>3. S \in SUBSET Nat /\ \A k \in S : k <= Len(t)
    BY <1>2
<1>4. \A k \in S : b..k \subseteq S /\ k >= b
    BY <1>1, <1>2
<1>5. r.lines = S
    BY <1>1
<1>. HIDE DEF S, r
<1>6. Max(S) \in S /\ \A k \in S : k <= Max(S)
    BY <1>1, <1>2, <1>3, Greatest
<1>7. S = b..Max(S)
    <2>0. b \in Int
        OBVIOUS
    <2>1. Max(S) \in Int
        <3>1. S \subseteq Int
            BY <1>3
        <3> QED BY <1>6, <3>1
    <2>a. b..Max(S) \subseteq S
        BY <1>4, <1>6
    <2>2. \A k \in S : k \in Int /\ b <= k /\ k <= Max(S)
        BY <1>3, <1>4, <1>6
    <2>3. S \subseteq b..Max(S)
        BY <2>0, <2>1, <2>2
    <2> QED BY <2>a, <2>3
<1> QED BY <1>1, <1>3, <1>4, <1>5, <1>6, <1>7 DEF r

-----------------------------------------------------------------------------
(* What a client has come to. One that was served by nothing is where it   *)
(* began; one that reads pages stands on a boundary, and no page it was    *)
(* given reaches beyond it.                                                *)
Fresh ==
    /\ pages = {} /\ lines = {}
    /\ task # "none" => more /\ at = IF task = "page" THEN 0 ELSE 1

Paged(t) == at \in Boundaries(t) /\ \A g \in pages : g[2] <= at

Client ==
    /\ task \in {"none", "page", "search", "range"} /\ stream \in StreamNames \cup {"auto"}
    /\ format \in Formats \cup {"absent"}
    /\ served \subseteq StreamNames /\ \A s \in served : Texts[s] # NoText
    /\ at \in Nat /\ more \in BOOLEAN
    /\ task \in {"search", "range"} => at >= 1
    /\ task = "none" => served = {} /\ ~more
    /\ served = {} => Fresh

(* PagesTile and LinesAreComplete of one text.                             *)
Tiled(t) ==
    /\ \A g \in pages : /\ g[1] \in Boundaries(t) /\ g[2] \in Boundaries(t)
                       /\ g[2] - g[1] <= MaxPageBytes
    /\ \A b \in 0..Bytes(t) - 1 :
          Cardinality({g \in pages : g[1] <= b /\ b < g[2]}) = IF b < at THEN 1 ELSE 0

Searched(t) == lines = {k \in Matching(t) : more => k < at}

RecoveryInv ==
    /\ Client
    /\ task = "page" => \A s \in served : served = {s} =>
          Paged(Texts[s]) /\ Tiled(Texts[s]) /\ (more <=> at < Bytes(Texts[s]))
    /\ \A s \in served : served = {s} =>
          /\ task = "search" => Searched(Texts[s])
          /\ task = "range" => lines = 1..at - 1

(* What a usable entry is.                                                 *)
LEMMA TextIs ==
    ASSUME Usable, Client
    PROVE  Chosen \in StreamNames /\ Texts[Chosen] # NoText /\ Text = Texts[Chosen] /\ Text \in Seq(Line)
<1>1. Chosen \in StreamNames /\ Texts[Chosen] # NoText
    BY DEF Usable, Available, Streams, StreamNames
<1> QED BY <1>1, RecoveryAssumption DEF Text

(* One more page, from where the client stands.                            *)
LEMMA OnePageMore ==
    ASSUME NEW t \in Seq(Line), NEW e \in Boundaries(t), at <= e, e <= at + MaxPageBytes,
           at' = e, pages' = pages \cup {<<at, e>>}, Paged(t), Tiled(t)
    PROVE  Paged(t)' /\ Tiled(t)'
<1>1. Bytes(t) \in Nat /\ Boundaries(t) \subseteq Nat /\ MaxPageBytes \in Nat
    BY BoundariesAre, RecoveryAssumption
<1>2. at \in Boundaries(t) /\ at \in Nat /\ e \in Nat
    BY <1>1 DEF Paged
<1>3. \A g \in pages : g[1] \in Nat /\ g[2] \in Nat /\ g[2] <= at
    BY <1>1 DEF Paged, Tiled
<1>. DEFINE new == <<at, e>>
<1>4. new[1] = at /\ new[2] = e
    OBVIOUS
<1>. HIDE DEF new
<1>5. pages' = pages \cup {new}
    BY DEF new
<1>6. \A g \in pages' : g[2] <= e
    BY <1>2, <1>3, <1>4, <1>5
<1>7. \A g \in pages' : g[1] \in Boundaries(t) /\ g[2] \in Boundaries(t) /\ g[2] - g[1] <= MaxPageBytes
    <2>1. e - at <= MaxPageBytes
        BY <1>1, <1>2
    <2> QED BY <1>2, <1>4, <1>5, <2>1 DEF Tiled
<1>8. ASSUME NEW b \in 0..Bytes(t) - 1
      PROVE  Cardinality({g \in pages' : g[1] <= b /\ b < g[2]}) = IF b < e THEN 1 ELSE 0
    <2>. DEFINE Old == {g \in pages : g[1] <= b /\ b < g[2]}
                Now == {g \in pages' : g[1] <= b /\ b < g[2]}
    <2>1. b \in Nat
        BY <1>1
    <2>2. Cardinality(Old) = IF b < at THEN 1 ELSE 0
        BY DEF Tiled
    <2>3. CASE b < at
        <3>1. Now = Old
            BY <1>2, <1>4, <1>5, <2>1, <2>3
        <3>2. b < e
            BY <1>2, <2>1, <2>3
        <3> QED BY <2>2, <2>3, <3>1, <3>2
    <2>4. CASE at <= b /\ b < e
        <3>1. Now = {new}
            BY <1>2, <1>3, <1>4, <1>5, <2>1, <2>4
        <3> QED BY <2>4, <3>1, FS_Singleton
    <2>5. CASE e <= b
        <3>1. Now = {}
            BY <1>2, <1>3, <1>4, <1>5, <2>1, <2>5
        <3>2. ~(b < e)
            BY <1>2, <2>1, <2>5
        <3> QED BY <3>1, <3>2, FS_EmptySet
    <2> QED BY <1>2, <2>1, <2>3, <2>4, <2>5
<1> QED BY <1>6, <1>7, <1>8 DEF Paged, Tiled, Boundaries, RuneStarts, Bytes

(* A client that was served by nothing has nothing of every text.          *)
LEMMA NothingYet ==
    ASSUME NEW t \in Seq(Line), Fresh, task # "none"
    PROVE  /\ task = "page" => Paged(t) /\ Tiled(t)
           /\ task = "search" => lines = {k \in Matching(t) : k < at}
           /\ task = "range" => lines = 1..at - 1
<1>1. Bytes(t) \in Nat /\ 0 \in Boundaries(t)
    BY BoundariesAre
<1>2. pages = {} /\ lines = {} /\ at = IF task = "page" THEN 0 ELSE 1
    BY DEF Fresh
<1>3. ASSUME task = "page" PROVE Paged(t) /\ Tiled(t)
    <2>1. \A b \in 0..Bytes(t) - 1 : {g \in pages : g[1] <= b /\ b < g[2]} = {} /\ ~(b < 0)
        BY <1>1, <1>2
    <2>2. \A b \in 0..Bytes(t) - 1 :
              Cardinality({g \in pages : g[1] <= b /\ b < g[2]}) = IF b < at THEN 1 ELSE 0
        BY <1>2, <1>3, <2>1, FS_EmptySet
    <2> QED BY <1>1, <1>2, <1>3, <2>2 DEF Paged, Tiled
<1>4. ASSUME task = "search" PROVE lines = {k \in Matching(t) : k < at}
    <2>1. Matching(t) \subseteq Nat \ {0} /\ at = 1
        BY <1>2, <1>4, LineSizesAre DEF Matching
    <2> QED BY <1>2, <2>1
<1>5. ASSUME task = "range" PROVE lines = 1..at - 1
    BY <1>2, <1>5
<1> QED BY <1>3, <1>4, <1>5

(* What a client has of the stream that serves it now, if it was served    *)
(* by no other.                                                            *)
LEMMA SoFar ==
    ASSUME RecoveryInv, Usable, task # "none", served \subseteq {Chosen}
    PROVE  /\ task = "page" => Paged(Text) /\ Tiled(Text)
           /\ task = "search" => lines = {k \in Matching(Text) : more => k < at}
           /\ task = "range" => lines = 1..at - 1
<1>1. Chosen \in StreamNames /\ Text = Texts[Chosen] /\ Text \in Seq(Line)
    BY TextIs DEF RecoveryInv
<1>2. CASE served = {}
    <2>1. Fresh /\ more
        BY <1>2 DEF RecoveryInv, Client, Fresh
    <2> QED BY <1>1, <2>1, NothingYet
<1>3. CASE served = {Chosen}
    <2>1. Chosen \in served
        BY <1>3
    <2> QED BY <1>1, <1>3, <2>1 DEF RecoveryInv, Searched
<1> QED BY <1>2, <1>3

-----------------------------------------------------------------------------
(* Every action keeps the invariant.                                       *)
LEMMA Begins ==
    ASSUME RecoveryInv, NEW t \in {"page", "search", "range"},
           NEW s \in StreamNames \cup {"auto"}, Begin(t, s)
    PROVE  RecoveryInv'
<1>1. served = {} /\ Fresh
    BY DEF RecoveryInv, Client, Begin
<1>2. served' = {} /\ Client'
    BY <1>1 DEF RecoveryInv, Client, Begin, Fresh
<1> QED BY <1>2 DEF RecoveryInv

LEMMA Finishes ==
    ASSUME RecoveryInv, Finish
    PROVE  RecoveryInv'
<1>1. served' = {} /\ Client'
    BY DEF RecoveryInv, Client, Finish, Fresh, StreamNames
<1> QED BY <1>1 DEF RecoveryInv

LEMMA WorldMoves ==
    ASSUME RecoveryInv, format' \in Formats \cup {"absent"}, UNCHANGED client
    PROVE  RecoveryInv'
<1>1. /\ task' = task /\ stream' = stream /\ at' = at /\ more' = more
      /\ pages' = pages /\ lines' = lines /\ served' = served
    BY DEF client
<1>2. Client'
    BY <1>1 DEF RecoveryInv, Client, Fresh
<1>3. \A t : /\ Paged(t)' = Paged(t) /\ Tiled(t)' = Tiled(t) /\ Searched(t)' = Searched(t)
    BY <1>1 DEF Paged, Tiled, Searched
<1> QED BY <1>1, <1>2, <1>3 DEF RecoveryInv

(* A reply makes a client one that this stream served.                     *)
LEMMA Served ==
    ASSUME RecoveryInv, Usable, task # "none", served' = served \cup {Chosen},
           UNCHANGED <<format, task, stream>>, at' \in Nat, more' \in BOOLEAN,
           task \in {"search", "range"} => at' >= 1,
           served \subseteq {Chosen} =>
              /\ task = "page" => (Paged(Text)' /\ Tiled(Text)' /\ (more <=> at < Bytes(Text))')
              /\ task = "search" => Searched(Text)'
              /\ task = "range" => lines' = 1..at' - 1
    PROVE  RecoveryInv'
<1>1. Chosen \in StreamNames /\ Texts[Chosen] # NoText /\ Text = Texts[Chosen]
    BY TextIs DEF RecoveryInv
<1>2. Text' = Text
    BY DEF Text, Chosen, Select, AutoStream
<1>3. Client'
    BY <1>1 DEF RecoveryInv, Client
<1>4. ASSUME NEW s \in served', served' = {s}
      PROVE  s = Chosen /\ served \subseteq {Chosen}
    BY <1>4
<1> QED BY <1>1, <1>2, <1>3, <1>4 DEF RecoveryInv

LEMMA PagesOn ==
    ASSUME RecoveryInv, NEW n \in ByteSizes, GetOriginal(n)
    PROVE  RecoveryInv'
<1>. DEFINE r == Page(Text, at, n)
<1>1. /\ task = "page" /\ more /\ Usable /\ r.ok /\ at' = r.next
      /\ served' = served \cup {Chosen} /\ UNCHANGED <<format, task, stream>>
      /\ pages' = pages \cup {<<r.from, r.next>>} /\ more' = r.more
    BY DEF GetOriginal, Accept
<1>2. Text \in Seq(Line) /\ at \in Nat /\ n \in Int
    BY <1>1, TextIs, RecoveryAssumption DEF RecoveryInv, Client
<1>3. Bytes(Text) \in Nat /\ Boundaries(Text) \subseteq 0..Bytes(Text)
    BY <1>2, BoundariesAre
<1>4. /\ r.from = at
      /\ at \in Boundaries(Text) /\ r.next \in Boundaries(Text)
      /\ at <= r.next /\ r.next <= at + MaxPageBytes
      /\ r.more = (r.next < Bytes(Text))
    BY <1>1, <1>2, PageIs
<1>. HIDE DEF r
<1>5. at' \in Nat /\ more' \in BOOLEAN
    BY <1>1, <1>3, <1>4
<1>6. Text' = Text /\ Bytes(Text)' = Bytes(Text)
    BY <1>1 DEF Text, Chosen, Select, AutoStream, Bytes, Widths
<1>7. ASSUME served \subseteq {Chosen}
      PROVE  Paged(Text)' /\ Tiled(Text)' /\ (more <=> at < Bytes(Text))'
    <2>1. Paged(Text) /\ Tiled(Text)
        BY <1>1, <1>7, SoFar
    <2>2. \A t \in Seq(Line) : t = Text => Paged(t)' /\ Tiled(t)'
        BY <1>1, <1>4, <2>1, OnePageMore
    <2>3. Paged(Text)' /\ Tiled(Text)'
        BY <1>2, <1>6, <2>2 DEF Paged, Tiled, Boundaries, RuneStarts, Bytes
    <2>4. (more <=> at < Bytes(Text))'
        BY <1>1, <1>4, <1>6
    <2> QED BY <2>3, <2>4
<1> QED BY <1>1, <1>5, <1>7, Served

LEMMA SearchesOn ==
    ASSUME RecoveryInv, NEW n \in Limits, SearchOriginal(n)
    PROVE  RecoveryInv'
<1>. DEFINE r == Search(Text, at, n)
<1>1. /\ task = "search" /\ more /\ Usable /\ r.ok /\ at' = IF r.more THEN r.next ELSE at
      /\ served' = served \cup {Chosen} /\ UNCHANGED <<format, task, stream>>
      /\ lines' = lines \cup r.lines /\ more' = r.more
    BY DEF SearchOriginal, Accept
<1>2. Text \in Seq(Line) /\ at \in Nat \ {0} /\ n \in Int
    BY <1>1, TextIs, RecoveryAssumption DEF RecoveryInv, Client
<1>3. /\ r.more \in BOOLEAN
      /\ r.more => r.next \in Nat /\ r.next >= at
      /\ r.lines = {k \in Matching(Text) : k >= at /\ (r.more => k < r.next)}
    BY <1>1, <1>2, SearchIs
<1>. HIDE DEF r
<1>4. Matching(Text) \subseteq Nat
    BY <1>2, LineSizesAre DEF Matching
<1>5. at' \in Nat /\ at' >= 1 /\ more' \in BOOLEAN
    BY <1>1, <1>2, <1>3
<1>6. Text' = Text
    BY <1>1 DEF Text, Chosen, Select, AutoStream
<1>7. ASSUME served \subseteq {Chosen}
      PROVE  Searched(Text)'
    <2>1. lines = {k \in Matching(Text) : k < at}
        BY <1>1, <1>7, SoFar
    <2>2. CASE r.more
        <3>1. \A k \in Matching(Text) : k < r.next <=> (k < at \/ (k >= at /\ k < r.next))
            BY <1>2, <1>3, <1>4, <2>2
        <3>2. lines' = {k \in Matching(Text) : k < r.next}
            BY <1>1, <1>3, <2>1, <2>2, <3>1
        <3> QED BY <1>1, <1>6, <2>2, <3>2 DEF Searched
    <2>3. CASE ~r.more
        <3>1. \A k \in Matching(Text) : k < at \/ k >= at
            BY <1>2, <1>4
        <3>2. lines' = Matching(Text)
            BY <1>1, <1>3, <2>1, <2>3, <3>1
        <3> QED BY <1>1, <1>6, <2>3, <3>2 DEF Searched
    <2> QED BY <2>2, <2>3
<1> QED BY <1>1, <1>5, <1>7, Served

LEMMA RangesOn ==
    ASSUME RecoveryInv, NEW n \in LineNumbers, GetRange(n)
    PROVE  RecoveryInv'
<1>. DEFINE r == LineRange(Text, at, n)
            last == Max(r.lines)
<1>1. /\ task = "range" /\ Usable /\ r.ok /\ at' = last + 1
      /\ served' = served \cup {Chosen} /\ UNCHANGED <<format, task, stream>>
      /\ lines' = lines \cup r.lines /\ more' = more
    BY DEF GetRange, Accept
<1>2. Text \in Seq(Line) /\ at \in Nat \ {0} /\ n \in Int /\ more \in BOOLEAN
    BY <1>1, TextIs, RecoveryAssumption DEF RecoveryInv, Client
<1>3. last \in Nat /\ last >= at /\ r.lines = at..last
    BY <1>1, <1>2, LineRangeIs
<1>. HIDE DEF r, last
<1>4. at' \in Nat /\ at' >= 1 /\ more' \in BOOLEAN
    BY <1>1, <1>2, <1>3
<1>5. ASSUME served \subseteq {Chosen}
      PROVE  lines' = 1..at' - 1
    <2>1. lines = 1..at - 1
        BY <1>1, <1>5, SoFar
    <2>2. 1..last = (1..at - 1) \cup (at..last)
        BY <1>2, <1>3
    <2>3. at' - 1 = last
        BY <1>1, <1>3
    <2> QED BY <1>1, <1>3, <2>1, <2>2, <2>3
<1> QED BY <1>1, <1>4, <1>5, Served

-----------------------------------------------------------------------------
(* Whatever a client asks for and whenever the entry is pruned and stored  *)
(* again.                                                                  *)
THEOREM RecoveryInvariant == Spec => []RecoveryInv
<1>1. Init => RecoveryInv
    <2>1. ASSUME Init PROVE Client /\ served = {}
        <3>1. /\ format \in Formats /\ task = "none" /\ stream = "raw" /\ at = 0
              /\ more = FALSE /\ pages = {} /\ lines = {} /\ served = {}
            BY <2>1 DEF Init
        <3>2. Fresh
            BY <3>1 DEF Fresh
        <3>3. stream \in StreamNames /\ served \subseteq StreamNames /\ at \in Nat
            BY <3>1 DEF StreamNames
        <3> QED BY <3>1, <3>2, <3>3 DEF Client
    <2> QED BY <2>1 DEF RecoveryInv
<1>2. RecoveryInv /\ [Next]_vars => RecoveryInv'
    <2>. SUFFICES ASSUME RecoveryInv, [Next]_vars PROVE RecoveryInv'
        OBVIOUS
    <2>1. ASSUME NEW t \in {"page", "search", "range"},
                 NEW s \in StreamNames \cup {"auto"}, Begin(t, s)
          PROVE  RecoveryInv'
        BY <2>1, Begins
    <2>2. ASSUME NEW n \in ByteSizes, GetOriginal(n) PROVE RecoveryInv'
        BY <2>2, PagesOn
    <2>3. ASSUME NEW n \in Limits, SearchOriginal(n) PROVE RecoveryInv'
        BY <2>3, SearchesOn
    <2>4. ASSUME NEW n \in LineNumbers, GetRange(n) PROVE RecoveryInv'
        BY <2>4, RangesOn
    <2>5. CASE Finish
        BY <2>5, Finishes
    <2>6. CASE Prune
        BY <2>6, WorldMoves DEF Prune
    <2>7. ASSUME NEW f \in Formats, Store(f) PROVE RecoveryInv'
        BY <2>7, WorldMoves DEF Store
    <2>8. CASE UNCHANGED vars
        <3>1. format \in Formats \cup {"absent"}
            BY DEF RecoveryInv, Client
        <3>2. UNCHANGED client /\ format' = format
            BY <2>8 DEF vars
        <3> QED BY <3>1, <3>2, WorldMoves
    <2> QED BY <2>1, <2>2, <2>3, <2>4, <2>5, <2>6, <2>7, <2>8 DEF Next
<1> QED BY <1>1, <1>2, PTL DEF Spec

(* Following next_offset recovers the text: the pages that one stream gave *)
(* are whole characters, cover what comes before next_offset once, and     *)
(* has_more is false exactly at the end.                                   *)
THEOREM PagesTileAlways == Spec => []PagesTile
<1>1. RecoveryInv => PagesTile
    BY DEF RecoveryInv, PagesTile, Tiled, Boundaries
<1> QED BY <1>1, RecoveryInvariant, PTL

(* Following next_line finds every matching line, and consecutive ranges   *)
(* skip none.                                                              *)
THEOREM LinesAlwaysComplete == Spec => []LinesAreComplete
<1>1. RecoveryInv => LinesAreComplete
    BY DEF RecoveryInv, LinesAreComplete, Searched
<1> QED BY <1>1, RecoveryInvariant, PTL

LEMMA PageGetsOn ==
    ASSUME NEW t \in Seq(Line), at \in Boundaries(t), MaxPageBytes >= 4
    PROVE  LET r == Page(t, at, MaxPageBytes) IN r.ok /\ (at < Bytes(t) => r.next > at)
<1>. DEFINE end == PageEnd(t, at, MaxPageBytes)
<1>1. /\ Bytes(t) \in Nat /\ Boundaries(t) \subseteq 0..Bytes(t)
      /\ at < Bytes(t) => \E e \in Boundaries(t) : at < e /\ e <= at + 4
    BY BoundariesAre
<1>2. MaxPageBytes \in Nat /\ MaxPageBytes # 0 /\ MaxPageBytes \in 1..MaxPageBytes
    BY RecoveryAssumption
<1>3. at \in 0..Bytes(t)
    BY <1>1
<1>4. /\ end \in at..Bytes(t)
      /\ \A e \in Boundaries(t) : at <= e /\ e <= at + MaxPageBytes => e <= end
    BY <1>2, <1>3, PageEndIs
<1>. HIDE DEF end
<1>5. at < Bytes(t) => end > at /\ at \in RuneStarts(t)
    <2>1. SUFFICES ASSUME at < Bytes(t) PROVE end > at /\ at \in RuneStarts(t)
        OBVIOUS
    <2>2. PICK e \in Boundaries(t) : at < e /\ e <= at + 4
        BY <1>1, <2>1
    <2>3. e \in Nat /\ at \in Nat /\ end \in Nat
        BY <1>1, <1>3, <1>4
    <2>4. e <= end
        BY <1>2, <1>4, <2>2, <2>3
    <2>5. at # Bytes(t)
        BY <1>1, <1>3, <2>1
    <2> QED BY <2>2, <2>3, <2>4, <2>5 DEF Boundaries
<1>6. ~(end = at /\ end < Bytes(t))
    <2>1. at \in Nat
        BY <1>1, <1>3
    <2> QED BY <1>5, <2>1
<1>7. Page(t, at, MaxPageBytes) =
          [ok |-> TRUE, from |-> at, next |-> end, more |-> end < Bytes(t)]
    BY <1>2, <1>3, <1>5, <1>6 DEF Page, end
<1> QED BY <1>5, <1>7

LEMMA SearchGetsOn ==
    ASSUME NEW t \in Seq(Line), at \in Nat \ {0},
           \A k \in DOMAIN t : LineSizes(t)[k] <= MaxPageBytes
    PROVE  Search(t, at, 0).ok
<1>. DEFINE F == Found(t, at)
            H == Fitting(t, at, DefaultLimit)
<1>1. DefaultLimit \in 1..MaxLines /\ DefaultLimit \in Nat /\ DefaultLimit >= 1
    BY RecoveryAssumption
<1>2. /\ Len(t) \in Nat /\ DOMAIN t = 1..Len(t) /\ DOMAIN LineSizes(t) = 1..Len(t)
      /\ \A k \in 1..Len(t) : LineSizes(t)[k] \in Nat
    BY LineSizesAre
<1>3. F \subseteq 1..Len(t)
    BY <1>2 DEF Found, Matching
<1>4. F # {} => H # {}
    <2>1. SUFFICES ASSUME F # {} PROVE H # {}
        OBVIOUS
    <2>. DEFINE m == Min(F)
                U == {k \in F : k <= m}
    <2>. HIDE DEF F
    <2>2. F \in SUBSET Nat
        BY <1>2, <1>3
    <2>3. m \in F /\ \A k \in F : m <= k
        BY <2>1, <2>2, Least
    <2>. HIDE DEF m
    <2>4. U = {m}
        <3>1. m \in Nat /\ m \in U
            BY <2>2, <2>3
        <3>2. ASSUME NEW k \in U PROVE k = m
            <4>1. k \in Nat /\ m <= k /\ k <= m
                BY <2>2, <2>3
            <4> QED BY <3>1, <4>1
        <3> QED BY <3>1, <3>2
    <2>5. Cardinality(U) <= DefaultLimit
        BY <1>1, <2>4, FS_Singleton
    <2>6. SumFunctionOnSet(LineSizes(t), U) <= MaxPageBytes
        <3>1. m \in 1..Len(t)
            BY <1>3, <2>3
        <3>2. LineSizes(t)[m] \in Int
            BY <1>2, <3>1
        <3>3. SumOver(LineSizes(t), {m}) = LineSizes(t)[m]
            <4>1. /\ IsFiniteSet({}) /\ m \notin {} /\ {m} = {} \cup {m}
                  /\ \A k \in {} \cup {m} : LineSizes(t)[k] \in Int
                BY <3>2, FS_EmptySet
            <4>2. SumOver(LineSizes(t), {} \cup {m}) = SumOver(LineSizes(t), {}) + LineSizes(t)[m]
                BY <4>1, SumAdd
            <4> QED BY <3>2, <4>1, <4>2, SumEmpty
        <3> QED BY <1>2, <2>4, <3>1, <3>3, SumsAre
    <2>7. m \in H
        BY <2>3, <2>5, <2>6 DEF Fitting, F
    <2> QED BY <2>7
<1>5. ~(H = {} /\ F \ H # {})
    BY <1>4
<1>6. (IF at = 0 THEN 1 ELSE at) = at /\ at >= 1
    OBVIOUS
<1>7. Search(t, at, 0) = [ok |-> TRUE, lines |-> H, more |-> F \ H # {},
                          next |-> IF F \ H = {} THEN 0 ELSE Min(F \ H)]
    BY <1>1, <1>5, <1>6 DEF Search
<1> QED BY <1>7

(* A client that may still read is never stuck: a page with room for one   *)
(* character gets on, and so does a search unless a line is longer than a  *)
(* page.                                                                   *)
THEOREM NeverStuckAlways == Spec => []NeverStuck
<1>1. ASSUME RecoveryInv PROVE NeverStuck
    <2>1. SUFFICES ASSUME more, Usable, served \subseteq {Chosen}
                   PROVE  /\ task = "page" /\ MaxPageBytes >= 4 =>
                              LET r == Page(Text, at, MaxPageBytes)
                              IN  r.ok /\ (at < Bytes(Text) => r.next > at)
                          /\ task = "search" /\ (\A i \in DOMAIN Text : LineSizes(Text)[i] <= MaxPageBytes) =>
                              Search(Text, at, 0).ok
        BY DEF NeverStuck
    <2>2. Text \in Seq(Line)
        BY <1>1, <2>1, TextIs DEF RecoveryInv
    <2>3. task = "page" => at \in Boundaries(Text)
        BY <1>1, <2>1, SoFar DEF Paged
    <2>4. task = "search" => at \in Nat \ {0}
        BY <1>1 DEF RecoveryInv, Client
    <2> QED BY <2>2, <2>3, <2>4, PageGetsOn, SearchGetsOn
<1> QED BY <1>1, RecoveryInvariant, PTL
=============================================================================
